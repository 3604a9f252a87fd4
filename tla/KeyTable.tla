------------------------------ MODULE KeyTable ------------------------------
(***************************************************************************)
(* What thread specific data promises to the one thread: a table from the  *)
(* keys in use to values.                                                  *)
(***************************************************************************)
EXTENDS Integers

CONSTANTS Values, NoValue, NoKey

VARIABLES
  table,       \* the values of the keys in use
  answer       \* code, key and value of the last answer

vars == <<table, answer>>

Answer(code, key, value) == [code |-> code, key |-> key, value |-> value]

Init == DOMAIN table = {} /\ answer = Answer(0, NoKey, NoValue)

(* A new key is one that is not in use, and has no value.                  *)
Create(key) ==
  /\ key \notin DOMAIN table \cup {NoKey}
  /\ answer' = Answer(0, key, NoValue)
  /\ table' = [k \in DOMAIN table \cup {key} |-> IF k = key THEN NoValue ELSE table[k]]

Get(key) ==
  /\ answer' = Answer(0, key, IF key \in DOMAIN table THEN table[key] ELSE NoValue)
  /\ UNCHANGED table

Set(key, value) ==
  /\ key \in DOMAIN table
  /\ answer' = Answer(0, key, NoValue)
  /\ table' = [table EXCEPT ![key] = value]

Delete(key) ==
  /\ key \in DOMAIN table
  /\ answer' = Answer(0, key, NoValue)
  /\ table' = [k \in DOMAIN table \ {key} |-> table[k]]

(* A key that is not in use is refused.                                    *)
Refuse(key) ==
  /\ key \notin DOMAIN table
  /\ answer'.code # 0 /\ answer'.key = key
  /\ UNCHANGED table

(* Calls that have nothing to do with keys.                                *)
Other == answer'.key = NoKey /\ UNCHANGED table

Next ==
  LET key == answer'.key
  IN  \/ Create(key)
      \/ Get(key)
      \/ \E value \in Values : Set(key, value)
      \/ Delete(key)
      \/ Refuse(key)
      \/ Other

Spec == Init /\ [][Next]_vars
=============================================================================
