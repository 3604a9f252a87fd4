---------------------------- MODULE MCNamespace ----------------------------
(* Values of the constants of Namespace for TLC.                           *)
EXTENDS Namespace

(* Names in the root and in one directory, with . and .. on the way.      *)
TreePaths == {<<2>>, <<3>>, <<2, 1>>, <<2, 3>>, <<DOT, 2, DOTDOT, 3>>}

(* Paths that may go through a file, with the name of a static folder.     *)
ThroughFiles == {<<>>, <<2>>, <<1, 2>>, <<1, 2, 2>>, <<2, 2, 1>>}

(* Two names in the root.                                                  *)
ShortPaths == {<<2>>, <<3>>}

(* A name that a file and a directory can have.                            *)
NestedPaths == {<<2>>, <<3>>, <<2, 3>>}

(* Memory that was never used, and counts of which one wraps around when   *)
(* it is increased.                                                        *)
Zeroed == {<<0, 0>>}
Wrapping == {<<0, USHRT - 1>>}
Either == Zeroed \cup Wrapping

(* What a call returned has no influence on later calls.                   *)
State == <<node, open_files, dirs, status>>

=============================================================================
