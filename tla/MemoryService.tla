---------------------------- MODULE MemoryService ----------------------------
(***************************************************************************)
(* What the runtime's memory functions promise their callers: a block of   *)
(* words handed out overlaps no other block in use, and the words of a     *)
(* block change only when its owner stores something there.  Where blocks  *)
(* lie, how large they are and when a request is refused is left open.     *)
(***************************************************************************)
CONSTANTS
  Words,       \* the words of the heap
  Contents     \* the values of a word

VARIABLES
  blocks,      \* the sets of words in use
  contents     \* the values of these words

svars == <<blocks, contents>>

InUse == UNION blocks

Init ==
  /\ blocks = {}
  /\ contents = [w \in {} |-> 0]

(* The words of other blocks keep their contents; a new block holds        *)
(* anything.                                                               *)
Acquire(b) ==
  /\ b # {} /\ b \subseteq Words
  /\ b \cap InUse = {}
  /\ blocks' = blocks \cup {b}
  /\ contents' \in [InUse \cup b -> Contents]
  /\ \A w \in InUse : contents'[w] = contents[w]

Release(b) ==
  /\ b \in blocks
  /\ blocks' = blocks \ {b}
  /\ contents' = [w \in InUse \ b |-> contents[w]]

Write(b, v) ==
  /\ b \in blocks
  /\ contents' = [w \in InUse |-> IF w \in b THEN v ELSE contents[w]]
  /\ UNCHANGED blocks

(* The program stops and no block is in use any more.                      *)
Stop ==
  /\ blocks' = {}
  /\ contents' = [w \in {} |-> 0]

Next ==
  \/ \E b \in blocks' : Acquire(b)
  \/ \E b \in blocks : Release(b)
  \/ \E b \in blocks, v \in Contents : Write(b, v)
  \/ Stop

Spec == Init /\ [][Next]_svars
=============================================================================
