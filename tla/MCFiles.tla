------------------------------ MODULE MCFiles ------------------------------
(* Values of the constants of Files for TLC.                               *)
EXTENDS FileStreams, TLC

Flag(acc, append, trunc, creat, excl) ==
  [acc |-> acc, append |-> append, trunc |-> trunc, creat |-> creat, excl |-> excl]

(* The ways to open a file that stdio has, and one that empties a file and *)
(* then appends to it.                                                     *)
ReadOnly   == Flag("R", FALSE, FALSE, FALSE, FALSE)
WriteOnly  == Flag("W", FALSE, TRUE, TRUE, FALSE)
AppendOnly == Flag("W", TRUE, FALSE, TRUE, FALSE)
Exclusive  == Flag("RW", FALSE, FALSE, TRUE, TRUE)
Rewrite    == Flag("W", TRUE, TRUE, TRUE, FALSE)

AllFlags == {ReadOnly, WriteOnly, AppendOnly, Exclusive}
StreamFlags == {ReadOnly, WriteOnly}
WriteFlags == {WriteOnly}
AppendFlags == {AppendOnly}
UpdateFlags == {Rewrite, Exclusive}

AnyMode == {{"r", "w"}}
ReadOnlyMode == {{"r"}}
AllModes == AnyMode \cup ReadOnlyMode

OneInput == "in" :> 2
NoInput == [n \in {} |-> 0]

(* -1 to step back and to be refused, 1 for the middle of a chunk, and 3  *)
(* to go behind it.                                                        *)
NearOffsets == {-1, 1}
AllOffsets == {-1, 1, 3}

(* What a call returned has no influence on later calls.                   *)
State == <<node, chunk, directory, open_files, written, status>>

=============================================================================
