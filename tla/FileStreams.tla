---------------------------- MODULE FileStreams ----------------------------
(***************************************************************************)
(* How the files and descriptors of Files.tla implement the byte streams   *)
(* of ByteStreams.tla.                                                     *)
(***************************************************************************)
EXTENDS Files

(* The chunks and descriptors implement byte streams.                      *)
Streams == INSTANCE ByteStreams WITH
  stream <- [f \in DOMAIN node |-> Bytes(f)],
  cursor <- [d \in Descriptors |->
               [file   |-> open_files[d].file,
                writes |-> open_files[d].file # NULL /\ open_files[d].acc = "W",
                pos    |-> IF open_files[d].acc = "W" THEN 0 ELSE Position(d)]],
  got    <- ret.bytes

ServesStreams == Streams!Spec

=============================================================================
