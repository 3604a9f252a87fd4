------------------------------- MODULE Lists -------------------------------
(***************************************************************************)
(* The few operators on sequences that the modules with theorems need.     *)
(* SequencesExt has them too, but extends Bags and with it the theorems    *)
(* about sets and sequences, and the time that the provers take for a step *)
(* grows with all that a module extends.                                   *)
(***************************************************************************)
EXTENDS Integers, Sequences, FiniteSets

Last(s) == s[Len(s)]

Front(s) == SubSeq(s, 1, Len(s) - 1)

(* The element e before what was at position i, and s without position i.  *)
InsertAt(s, i, e) == SubSeq(s, 1, i - 1) \o <<e>> \o SubSeq(s, i, Len(s))

RemoveAt(s, i) == SubSeq(s, 1, i - 1) \o SubSeq(s, i + 1, Len(s))

(* The sequences of a sequence, one behind the other.                      *)
FlattenSeq(seqs) ==
  LET upto[k \in 1 .. Len(seqs)] ==
        IF k = 1 THEN seqs[k] ELSE upto[k - 1] \o seqs[k]
  IN  IF Len(seqs) = 0 THEN seqs ELSE upto[Len(seqs)]

(* The sequences in which every element of S is once.                      *)
SetToSeqs(S) ==
  {order \in [1 .. Cardinality(S) -> S] :
     \A i, j \in DOMAIN order : i # j => order[i] # order[j]}

=============================================================================
