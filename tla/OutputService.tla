--------------------------- MODULE OutputService ---------------------------
(***************************************************************************)
(* What the runtime promises for the outputs of a function: lists that     *)
(* grow at their end and are published at once, completely or not at all.  *)
(***************************************************************************)
EXTENDS Sequences

CONSTANTS Lists, Items

VARIABLES
  lists,       \* what was output so far
  published,   \* what the platform sees
  phase        \* "open", "done" or "failed"

Init ==
  /\ lists = [i \in Lists |-> <<>>]
  /\ published = [i \in Lists |-> <<>>]
  /\ phase = "open"

Add(i, item) ==
  /\ phase = "open"
  /\ lists' = [lists EXCEPT ![i] = Append(@, item)]
  /\ UNCHANGED <<published, phase>>

Publish ==
  /\ phase = "open"
  /\ phase' = "done"
  /\ published' = lists
  /\ UNCHANGED lists

Fail ==
  /\ phase = "open"
  /\ phase' = "failed"
  /\ UNCHANGED <<lists, published>>

Next == (\E i \in Lists, item \in Items : Add(i, item)) \/ Publish \/ Fail

Spec == Init /\ [][Next]_<<lists, published, phase>>
=============================================================================
