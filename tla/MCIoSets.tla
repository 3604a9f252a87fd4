------------------------------ MODULE MCIoSets ------------------------------
(* Values of the constants of IoSets for TLC.                              *)
EXTENDS IoSets

CONSTANTS a, c, x, y

(* No set, an empty set, and sets of different lengths around an empty one.*)
MCFolders ==
  {<<>>, << <<>> >>,
   << <<x, y>>, <<>>, <<y>> >>, << <<>>, <<y, x, y>>, <<x>>, <<>> >>}

(* Two buffers of one name, one without name and one in a folder.          *)
MCBuffers ==
  {[ident |-> a, data |-> x], [ident |-> a, data |-> y],
   [ident |-> NoIdent, data |-> x], [ident |-> c, data |-> y]}
=============================================================================
