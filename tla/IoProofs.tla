------------------------------ MODULE IoProofs ------------------------------
(***************************************************************************)
(* Proofs about module IoSets, for any number of sets, buffers, folders    *)
(* and outputs: the arrays of outputs and dandelion_exit implement         *)
(* OutputService, the program is served the inputs it was given, the       *)
(* memory it takes is bounded, and the last output of each name becomes a  *)
(* file.                                                                   *)
(***************************************************************************)
EXTENDS IoSets, SequenceTheorems, WellFoundedInduction, TLAPS

-----------------------------------------------------------------------------
(* Running sums.                                                           *)

(* A set of numbers that is not empty has a least one.                     *)
LEMMA LeastExists ==
  ASSUME NEW S \in SUBSET Nat, S # {}
  PROVE  \E x \in S : \A y \in S : ~(y < x)
<1>1. PICK x \in S : \A y \in S : <<y, x>> \notin OpToRel(<, Nat)
  BY NatLessThanWellFounded, WFMin, Zenon
<1> QED
  BY <1>1, Zenon DEF OpToRel

(* A set that has 1 and, with a number, its successor, has all numbers:    *)
(* there is no least one that it lacks.                                    *)
LEMMA Inductive ==
  ASSUME NEW S, NEW N \in Nat, 1 \in S, \A n \in 1 .. N - 1 : n \in S => n + 1 \in S
  PROVE  1 .. N \subseteq S
<1> SUFFICES ASSUME (1 .. N) \ S # {} PROVE FALSE
  BY Zenon
<1> DEFINE T == (1 .. N) \ S
<1>1. T \in SUBSET Nat
  OBVIOUS
<1>2. PICK x \in T : \A y \in T : ~(y < x)
  BY <1>1, LeastExists, Zenon
<1>3. x # 1 /\ x - 1 \in 1 .. N - 1 /\ x - 1 \in S
  BY <1>2
<1> QED
  BY <1>3

(* What a running sum of the given numbers is.                             *)
Sums(o, lens, n) ==
  o = [i \in 1 .. n |-> IF i = 1 THEN 0 ELSE o[i - 1] + lens[i - 1]]

(* Such a sum exists, so that the recursive definition of Offsets has one. *)
LEMMA SumsExist ==
  ASSUME NEW N \in Nat, NEW lens
  PROVE  \A n \in 1 .. N : \E o : Sums(o, lens, n)
<1> DEFINE S == {n \in Nat : \E o : Sums(o, lens, n)}
<1>1. 1 \in S
  <2>1. Sums([i \in 1 .. 1 |-> 0], lens, 1)
    BY DEF Sums
  <2> QED
    BY <2>1, Zenon
<1>2. ASSUME NEW n \in 1 .. N - 1, n \in S
      PROVE  n + 1 \in S
  <2>1. PICK o : Sums(o, lens, n)
    BY <1>2, Zenon
  <2> DEFINE p == [i \in 1 .. n + 1 |-> IF i = n + 1 THEN o[n] + lens[n] ELSE o[i]]
  <2>2. \A i \in 1 .. n + 1 : p[i] = IF i = 1 THEN 0 ELSE p[i - 1] + lens[i - 1]
    <3>1. \A i \in 1 .. n : o[i] = IF i = 1 THEN 0 ELSE o[i - 1] + lens[i - 1]
      BY <2>1, Zenon DEF Sums
    <3> QED
      BY <3>1
  <2>3. Sums(p, lens, n + 1)
    BY <2>2, Zenon DEF Sums
  <2> QED
    BY <2>3
<1>3. 1 .. N \subseteq S
  <2> HIDE DEF S
  <2> QED
    BY <1>1, <1>2, Inductive, Zenon
<1> QED
  BY <1>3, Zenon

(* What Offsets computes.                                                  *)
LEMMA OffsetsSum ==
  ASSUME NEW lens \in Seq(Nat)
  PROVE  Sums(Offsets(lens), lens, Len(lens) + 1)
<1>1. Len(lens) + 1 \in Nat /\ Len(lens) + 1 \in 1 .. Len(lens) + 1
  OBVIOUS
<1>2. \E o : Sums(o, lens, Len(lens) + 1)
  BY <1>1, SumsExist, Zenon
<1>3. Offsets(lens) = CHOOSE o : Sums(o, lens, Len(lens) + 1)
  BY Zenon DEF Offsets, Sums
<1> QED
  BY <1>2, <1>3, Zenon

(* Running sums of natural numbers do not decrease.                        *)
LEMMA OffsetsGrow ==
  ASSUME NEW lens \in Seq(Nat), NEW o, o = Offsets(lens)
  PROVE  /\ o \in [1 .. Len(lens) + 1 -> Nat] /\ o[1] = 0
         /\ \A i \in 1 .. Len(lens) : o[i + 1] = o[i] + lens[i]
         /\ \A b \in 1 .. Len(lens) + 1 : \A c \in 1 .. b : o[c] <= o[b]
<1> DEFINE N == Len(lens) + 1
<1>1. N \in Nat /\ N >= 1 /\ \A i \in 1 .. N - 1 : lens[i] \in Nat
  OBVIOUS
<1>2. o = [i \in 1 .. N |-> IF i = 1 THEN 0 ELSE o[i - 1] + lens[i - 1]]
  BY OffsetsSum, Zenon DEF Sums
<1> HIDE DEF N
<1>3. DOMAIN o = 1 .. N /\ o = [i \in 1 .. N |-> o[i]]
  BY <1>2, Zenon
<1>4. \A i \in 1 .. N : o[i] = IF i = 1 THEN 0 ELSE o[i - 1] + lens[i - 1]
  BY <1>2, Zenon
<1>5. o[1] = 0 /\ \A i \in 1 .. N - 1 : o[i + 1] = o[i] + lens[i]
  BY <1>1, <1>4
<1>6. \A i \in 1 .. N : o[i] \in Nat
  <2> DEFINE S == {n \in Nat : o[n] \in Nat}
  <2>1. 1 \in S /\ \A n \in 1 .. N - 1 : n \in S => n + 1 \in S
    BY <1>1, <1>5
  <2>2. 1 .. N \subseteq S
    <3> HIDE DEF S
    <3> QED
      BY <1>1, <2>1, Inductive, Zenon
  <2> QED
    BY <2>2, Zenon
<1>7. \A b \in 1 .. N : \A c \in 1 .. b : o[c] <= o[b]
  <2> DEFINE S == {n \in 1 .. N : \A c \in 1 .. n : o[c] <= o[n]}
  <2>1. 1 \in S
    BY <1>1, <1>5
  <2>2. ASSUME NEW n \in 1 .. N - 1, n \in S PROVE n + 1 \in S
    <3>1. o[n] \in Nat /\ o[n + 1] \in Nat /\ o[n] <= o[n + 1]
      BY <1>1, <1>5, <1>6, <2>2
    <3>2. ASSUME NEW c \in 1 .. n + 1 PROVE o[c] <= o[n + 1]
      <4>1. CASE c = n + 1
        BY <4>1, <3>1
      <4>2. CASE c # n + 1
        <5>1. c \in 1 .. n /\ o[c] <= o[n] /\ o[c] \in Nat
          BY <1>1, <1>6, <2>2, <4>2
        <5> QED
          BY <3>1, <5>1
      <4> QED
        BY <4>1, <4>2, Zenon
    <3> QED
      BY <1>1, <3>2
  <2>3. 1 .. N \subseteq S
    <3> HIDE DEF S
    <3> QED
      BY <1>1, <2>1, <2>2, Inductive, Zenon
  <2> QED
    BY <2>3, Zenon
<1>8. o \in [1 .. N -> Nat]
  BY <1>3, <1>6, Zenon
<1> QED
  BY <1>5, <1>7, <1>8 DEF N

-----------------------------------------------------------------------------
(* dandelion_exit.                                                         *)

(* A set of outputs as the runtime keeps it: the array is as large as its  *)
(* capacity, and the buffers are at its start.                             *)
Slots == Buffers \cup {Garbage}

Records == [buffers: Seq(Slots), buffers_len: Nat, buffers_cap: Nat]

Kept(set) ==
  /\ set \in Records
  /\ Len(set.buffers) = set.buffers_cap /\ set.buffers_len <= set.buffers_cap

(* What was output to a set.                                               *)
ListOf(set) == SubSeq(set.buffers, 1, set.buffers_len)

(* What was output to a set is what its array starts with.                 *)
LEMMA ListElements ==
  ASSUME NEW set, Kept(set)
  PROVE  /\ ListOf(set) \in Seq(Slots) /\ Len(ListOf(set)) = set.buffers_len
         /\ \A j \in 1 .. set.buffers_len : ListOf(set)[j] = set.buffers[j]
BY SubSeqProperties DEF Kept, Records, ListOf

(* The offsets dandelion_exit writes are the running sums of the lengths.  *)
Running(o, sets) ==
  /\ o \in [1 .. Sets + 1 -> Nat]
  /\ \A k \in 1 .. Sets : o[k + 1] = o[k] + sets[k].buffers_len
  /\ \A b \in 1 .. Sets + 1 : \A c \in 1 .. b : o[c] <= o[b]

(* That is what Offsets computes for the output sets.                      *)
LEMMA OffsetsRun ==
  ASSUME NEW sets, \A i \in 1 .. Sets : Kept(sets[i])
  PROVE  Running(Offsets([i \in 1 .. Sets |-> sets[i].buffers_len]), sets)
<1>1. PICK lens : lens = [i \in 1 .. Sets |-> sets[i].buffers_len]
  BY Zenon
<1>2. lens \in Seq(Nat) /\ Len(lens) = Sets
  BY <1>1, IoAssumption DEF Kept, Records
<1>3. \A k \in 1 .. Sets : lens[k] = sets[k].buffers_len
  BY <1>1, Zenon
<1>4. PICK o : o = Offsets(lens)
  BY Zenon
<1>5. /\ o \in [1 .. Len(lens) + 1 -> Nat]
      /\ \A i \in 1 .. Len(lens) : o[i + 1] = o[i] + lens[i]
      /\ \A b \in 1 .. Len(lens) + 1 : \A c \in 1 .. b : o[c] <= o[b]
  BY <1>2, <1>4, OffsetsGrow, Zenon
<1>6. Running(o, sets)
  BY <1>2, <1>3, <1>5, Zenon DEF Running
<1> QED
  BY <1>1, <1>4, <1>6, Zenon

(* In the flat array the buffers of a set are between its offset and that  *)
(* of the next set.                                                        *)
LEMMA FlatPlace ==
  ASSUME NEW sets, \A i \in 1 .. Sets : Kept(sets[i]),
         NEW o, Running(o, sets), NEW i \in 1 .. Sets
  PROVE  /\ o[i + 1] - o[i] = sets[i].buffers_len
         /\ \A j \in 1 .. sets[i].buffers_len :
              /\ o[i] + j \in DOMAIN Flat(sets, o)
              /\ Flat(sets, o)[o[i] + j] = sets[i].buffers[j]
<1>1. Sets \in Nat /\ \A k \in 1 .. Sets : sets[k].buffers_len \in Nat
  BY IoAssumption, Zenon DEF Kept, Records
<1>3. /\ o \in [1 .. Sets + 1 -> Nat]
      /\ \A b \in 1 .. Sets + 1 : \A c \in 1 .. b : o[c] <= o[b]
  BY Zenon DEF Running
<1>4. \A k \in 1 .. Sets : o[k] \in Nat /\ o[k + 1] \in Nat /\ o[k + 1] = o[k] + sets[k].buffers_len
  BY <1>1 DEF Running
<1>5. ASSUME NEW j \in 1 .. sets[i].buffers_len
      PROVE  /\ o[i] + j \in 1 .. o[Sets + 1]
             /\ Flat(sets, o)[o[i] + j] = sets[i].buffers[j]
  <2> DEFINE k == o[i] + j
             In(n) == o[n] < k /\ k <= o[n + 1]
  <2>1. k \in Nat /\ In(i)
    BY <1>1, <1>4
  <2>2. o[i + 1] <= o[Sets + 1] /\ o[Sets + 1] \in Nat
    BY <1>1, <1>3
  <2>3. k \in 1 .. o[Sets + 1]
    BY <1>1, <1>4, <2>1, <2>2
  <2>4. ASSUME NEW n \in 1 .. Sets, In(n) PROVE n = i
    <3>1. CASE n < i
      <4>1. n + 1 \in 1 .. i /\ o[n + 1] <= o[i]
        BY <1>1, <1>3, <3>1
      <4> QED
        BY <1>1, <1>4, <2>1, <2>4, <4>1
    <3>2. CASE i < n
      <4>1. i + 1 \in 1 .. n /\ o[i + 1] <= o[n]
        BY <1>1, <1>3, <3>2
      <4> QED
        BY <1>1, <1>4, <2>1, <2>4, <4>1
    <3> QED
      BY <1>1, <3>1, <3>2
  <2>5. (CHOOSE n \in 1 .. Sets : In(n)) = i
    <3> HIDE DEF In
    <3> QED
      BY <2>1, <2>4, Zenon
  <2>6. Flat(sets, o)[k] = At(sets[i].buffers, k - o[i])
    <3> HIDE DEF k
    <3> QED
      BY <2>3, <2>5, Zenon DEF Flat, In
  <2>7. k - o[i] = j /\ j \in DOMAIN sets[i].buffers
    BY <1>1, <1>4 DEF Kept, Records
  <2> QED
    BY <2>3, <2>6, <2>7, Zenon DEF At
<1>6. DOMAIN Flat(sets, o) = 1 .. o[Sets + 1]
  BY Zenon DEF Flat
<1> QED
  BY <1>1, <1>4, <1>5, <1>6

(* The platform finds in each set what was output to it.                   *)
LEMMA ExitPublishes ==
  ASSUME NEW sets, \A i \in 1 .. Sets : Kept(sets[i]),
         NEW o, Running(o, sets),
         NEW sys, sys.output_sets = o, sys.output_bufs = Flat(sets, o),
         NEW i \in 1 .. Sets
  PROVE  Published(sys, i) = ListOf(sets[i])
<1>1. /\ o[i + 1] - o[i] = sets[i].buffers_len
      /\ \A j \in 1 .. sets[i].buffers_len :
           /\ o[i] + j \in DOMAIN Flat(sets, o)
           /\ Flat(sets, o)[o[i] + j] = sets[i].buffers[j]
  BY FlatPlace
<1>2. Published(sys, i) = [j \in 1 .. sets[i].buffers_len |-> At(Flat(sets, o), o[i] + j)]
  BY <1>1, Zenon DEF Published
<1>3. \A j \in 1 .. sets[i].buffers_len : At(Flat(sets, o), o[i] + j) = sets[i].buffers[j]
  BY <1>1, Zenon DEF At
<1>4. /\ ListOf(sets[i]) \in Seq(Slots) /\ Len(ListOf(sets[i])) = sets[i].buffers_len
      /\ \A j \in 1 .. sets[i].buffers_len : ListOf(sets[i])[j] = sets[i].buffers[j]
  BY ListElements, Zenon
<1>5. ListOf(sets[i]) = [j \in 1 .. sets[i].buffers_len |-> sets[i].buffers[j]]
  BY <1>4
<1> QED
  BY <1>2, <1>3, <1>5, Zenon

(* What the platform finds before dandelion_exit has written anything.     *)
Blank(sys) ==
  /\ {"exit_code", "output_bufs", "output_sets"} \subseteq DOMAIN sys
  /\ sys.output_sets = [i \in 1 .. Sets + 1 |-> 0]

(* The platform then finds no buffer in any set.                           *)
LEMMA BlankPublishes ==
  ASSUME NEW sys, Blank(sys), NEW i \in 1 .. Sets
  PROVE  Published(sys, i) = <<>>
<1>1. sys.output_sets[i] = 0 /\ sys.output_sets[i + 1] = 0
  BY IoAssumption DEF Blank
<1>2. Published(sys, i) = [j \in 1 .. 0 |-> At(sys.output_bufs, 0 + j)]
  BY <1>1 DEF Published
<1> QED
  BY <1>2

-----------------------------------------------------------------------------
(* dandelion_add_output.                                                   *)

(* A larger array holds the same buffers.                                  *)
LEMMA GrownKeeps ==
  ASSUME NEW set, Kept(set), set.buffers_len = set.buffers_cap
  PROVE  /\ Kept(Grown(set)) /\ ListOf(Grown(set)) = ListOf(set)
         /\ Grown(set).buffers_len = set.buffers_len
         /\ Grown(set).buffers_len < Grown(set).buffers_cap
<1> DEFINE cap == NewCap(set.buffers_cap)
           new == [k \in 1 .. cap |-> IF k <= set.buffers_len THEN At(set.buffers, k) ELSE Garbage]
<1>1. cap \in Nat /\ set.buffers_len < cap
  BY DEF Kept, Records, NewCap
<1>2. Grown(set) = [set EXCEPT !.buffers = new, !.buffers_cap = cap]
  BY Zenon DEF Grown
<1>3. \A k \in 1 .. cap : new[k] \in Slots
  BY DEF Kept, Records, At, Slots
<1>4. \A k \in 1 .. set.buffers_len : new[k] = set.buffers[k]
  BY <1>1 DEF Kept, Records, At
<1>5. new \in Seq(Slots) /\ Len(new) = cap
  BY <1>1, <1>3
<1> HIDE DEF new, cap
<1>6. /\ Grown(set).buffers = new /\ Grown(set).buffers_cap = cap
      /\ Grown(set).buffers_len = set.buffers_len /\ Grown(set) \in Records
  BY <1>1, <1>2, <1>5, Zenon DEF Kept, Records
<1>7. Kept(Grown(set))
  BY <1>1, <1>5, <1>6 DEF Kept, Records
<1>8. ListOf(Grown(set)) = ListOf(set)
  BY <1>4, <1>6, <1>7, ListElements
<1> QED
  BY <1>1, <1>6, <1>7, <1>8, Zenon

(* A buffer stored in a free place comes after the others.                 *)
LEMMA AppendedAdds ==
  ASSUME NEW set, Kept(set), set.buffers_len < set.buffers_cap, NEW buf \in Buffers
  PROVE  /\ Kept(Appended(set, buf))
         /\ ListOf(Appended(set, buf)) = Append(ListOf(set), buf)
         /\ set.buffers_len + 1 \in DOMAIN set.buffers
<1> DEFINE n == set.buffers_len
           new == [k \in DOMAIN set.buffers |-> IF k = n + 1 THEN buf ELSE set.buffers[k]]
<1>1. n \in Nat /\ n + 1 \in DOMAIN set.buffers
  BY DEF Kept, Records
<1>2. Appended(set, buf) = [set EXCEPT !.buffers = new, !.buffers_len = n + 1]
  BY Zenon DEF Appended, Kept, Records
<1>3. new \in Seq(Slots) /\ Len(new) = Len(set.buffers)
  BY DEF Kept, Records, Slots
<1>4. \A k \in 1 .. n : new[k] = set.buffers[k]
  BY DEF Kept, Records
<1>5. new[n + 1] = buf
  BY <1>1, Zenon
<1> HIDE DEF new
<1>6. /\ Appended(set, buf).buffers = new /\ Appended(set, buf).buffers_len = n + 1
      /\ Appended(set, buf).buffers_cap = set.buffers_cap /\ Appended(set, buf) \in Records
  <2>1. Appended(set, buf) = [buffers |-> new, buffers_len |-> n + 1, buffers_cap |-> set.buffers_cap]
    BY <1>2, Zenon DEF Kept, Records
  <2>2. set.buffers_cap \in Nat /\ n + 1 \in Nat
    BY <1>1 DEF Kept, Records
  <2> QED
    BY <1>3, <2>1, <2>2 DEF Records
<1>7. Kept(Appended(set, buf))
  BY <1>1, <1>3, <1>6 DEF Kept, Records
<1>8. /\ ListOf(set) \in Seq(Slots) /\ Len(ListOf(set)) = n /\ buf \in Slots
      /\ \A j \in 1 .. n : ListOf(set)[j] = set.buffers[j]
  BY ListElements, Zenon DEF Slots
<1>9. /\ ListOf(Appended(set, buf)) \in Seq(Slots) /\ Len(ListOf(Appended(set, buf))) = n + 1
      /\ \A j \in 1 .. n + 1 : ListOf(Appended(set, buf))[j] = new[j]
  BY <1>6, <1>7, ListElements, Zenon
<1>10. ListOf(Appended(set, buf)) = Append(ListOf(set), buf)
  <2> DEFINE l == ListOf(Appended(set, buf))
             m == Append(ListOf(set), buf)
  <2>1. m \in Seq(Slots) /\ Len(m) = n + 1
    BY <1>8
  <2>2. ASSUME NEW j \in 1 .. n + 1 PROVE l[j] = m[j]
    BY <1>1, <1>4, <1>5, <1>8, <1>9
  <2> HIDE DEF l, m
  <2>3. l = m
    BY <1>9, <2>1, <2>2 DEF l
  <2> QED
    BY <2>3, Zenon DEF l, m
<1> QED
  BY <1>1, <1>7, <1>10, Zenon

-----------------------------------------------------------------------------
(* The invariant: every array holds what its length says, and as long as   *)
(* the process runs the platform finds no output.                          *)

IInv ==
  /\ "output_sets" \in DOMAIN rtdata /\ DOMAIN rtdata.output_sets = 1 .. Sets
  /\ \A i \in 1 .. Sets : Kept(rtdata.output_sets[i])
  /\ status \in {"start", "running", "exited", "aborted", "crashed"}
  /\ status \in {"start", "running"} => Blank(sysdata)
  /\ status = "start" => rtdata.output_sets = [i \in 1 .. Sets |-> EmptySet]

(* A set as dandelion_init makes it holds nothing.                         *)
LEMMA EmptyKept == Kept(EmptySet) /\ ListOf(EmptySet) = <<>>
<1>1. Kept(EmptySet)
  BY DEF Kept, Records, EmptySet
<1>2. ListOf(EmptySet) \in Seq(Slots) /\ Len(ListOf(EmptySet)) = 0
  BY <1>1, ListElements DEF EmptySet
<1> QED
  BY <1>1, <1>2

(* The platform starts without outputs.                                    *)
LEMMA PlatformBlank == \A folders : Blank(__dandelion_platform_init(folders))
BY Zenon DEF Blank, __dandelion_platform_init

(* The invariant holds at the start.                                       *)
LEMMA InitSound == Init => IInv
<1> SUFFICES ASSUME Init PROVE IInv
  BY Zenon
<1>1. /\ "output_sets" \in DOMAIN rtdata
      /\ rtdata.output_sets = [i \in 1 .. Sets |-> EmptySet] /\ status = "start"
  BY Zenon DEF Init, EmptySet
<1>2. Blank(sysdata)
  BY PlatformBlank, Zenon DEF Init
<1> QED
  BY <1>1, <1>2, EmptyKept, Zenon DEF IInv

(* The outcomes of a call, with what was output and what is published.     *)
Quiet ==
  /\ rtdata'.output_sets = rtdata.output_sets
  /\ status \in {"start", "running"} /\ status' = "running" /\ Blank(sysdata')

Adds(i, buf) ==
  /\ status = "running" /\ status' = "running" /\ UNCHANGED sysdata
  /\ "output_sets" \in DOMAIN rtdata' /\ DOMAIN rtdata'.output_sets = 1 .. Sets
  /\ \A k \in 1 .. Sets : Kept(rtdata'.output_sets[k])
  /\ ListOf(rtdata'.output_sets[i]) = Append(ListOf(rtdata.output_sets[i]), buf)
  /\ \A k \in 1 .. Sets \ {i} : rtdata'.output_sets[k] = rtdata.output_sets[k]

Fails ==
  /\ status \in {"start", "running"} /\ Blank(sysdata') /\ UNCHANGED rtdata
  /\ \/ status' = "crashed"
     \/ status' \in {"exited", "aborted"} /\ sysdata'.exit_code = DANDELION_OOM

Publishes ==
  /\ status = "running" /\ status' \in {"exited", "aborted"} /\ UNCHANGED rtdata
  /\ sysdata'.exit_code # DANDELION_OOM
  /\ \A i \in 1 .. Sets : Published(sysdata', i) = ListOf(rtdata.output_sets[i])

(* Storing the exit code touches no output.                                *)
LEMMA CodeSet ==
  ASSUME NEW sys, Blank(sys), NEW code
  PROVE  /\ Blank([sys EXCEPT !.exit_code = code])
         /\ [sys EXCEPT !.exit_code = code].exit_code = code
BY Zenon DEF Blank

(* The platform sees the structure it is given, and the process ends.      *)
LEMMA PlatformExits ==
  ASSUME NEW sys, __dandelion_platform_exit(sys)
  PROVE  sysdata' = sys /\ status' \in {"exited", "aborted"}
BY Zenon DEF __dandelion_platform_exit

(* An exit for want of memory publishes nothing.                           *)
LEMMA OutOfMemory ==
  ASSUME NEW sys, Blank(sys),
         __dandelion_platform_exit([sys EXCEPT !.exit_code = DANDELION_OOM])
  PROVE  /\ Blank(sysdata') /\ sysdata'.exit_code = DANDELION_OOM
         /\ status' \in {"exited", "aborted"}
<1>1. PICK new : new = [sys EXCEPT !.exit_code = DANDELION_OOM]
  BY Zenon
<1>2. Blank(new) /\ new.exit_code = DANDELION_OOM
  BY <1>1, Zenon DEF Blank
<1>3. sysdata' = new /\ status' \in {"exited", "aborted"}
  BY <1>1, PlatformExits, Zenon
<1> QED
  BY <1>2, <1>3, Zenon

(* dandelion_init outputs nothing, or fails.                               *)
LEMMA InitStep ==
  ASSUME IInv, dandelion_init
  PROVE  (Quiet /\ "output_sets" \in DOMAIN rtdata') \/ Fails
<1> DEFINE sys == __dandelion_platform_init(given)
<1>1. status = "start" /\ Blank(sys) /\ rtdata.output_sets = [i \in 1 .. Sets |-> EmptySet]
  BY PlatformBlank, Zenon DEF IInv, dandelion_init
<1>2. \/ /\ sysdata' = sys /\ status' = "running"
         /\ \E tree : rtdata' = [input_sets |-> tree,
                                output_sets |-> [i \in 1 .. Sets |-> EmptySet]]
      \/ /\ __dandelion_platform_exit([sys EXCEPT !.exit_code = DANDELION_OOM])
         /\ UNCHANGED rtdata
  BY Zenon DEF dandelion_init
<1> HIDE DEF sys
<1>3. CASE sysdata' = sys /\ status' = "running"
           /\ \E tree : rtdata' = [input_sets |-> tree,
                                  output_sets |-> [i \in 1 .. Sets |-> EmptySet]]
  BY <1>1, <1>3 DEF Quiet
<1>4. CASE __dandelion_platform_exit([sys EXCEPT !.exit_code = DANDELION_OOM])
           /\ UNCHANGED rtdata
  <2>1. /\ Blank(sysdata') /\ sysdata'.exit_code = DANDELION_OOM
        /\ status' \in {"exited", "aborted"}
    BY <1>1, <1>4, OutOfMemory, Zenon
  <2> QED
    BY <1>1, <1>4, <2>1, Zenon DEF Fails
<1> QED
  BY <1>2, <1>3, <1>4, Zenon

(* A store into an array with a free place adds the buffer.                *)
LEMMA StoreAdds ==
  ASSUME IInv, status = "running", NEW i \in 1 .. Sets, NEW buf \in Buffers,
         NEW set, Kept(set), set.buffers_len < set.buffers_cap,
         ListOf(set) = ListOf(rtdata.output_sets[i]), Store(i, set, buf)
  PROVE  Adds(i, buf)
<1>1. /\ Kept(Appended(set, buf)) /\ set.buffers_len + 1 \in DOMAIN set.buffers
      /\ ListOf(Appended(set, buf)) = Append(ListOf(rtdata.output_sets[i]), buf)
  BY AppendedAdds, Zenon
<1>2. status' = "running" /\ UNCHANGED sysdata
  BY <1>1, Zenon DEF Store
<1>3. /\ "output_sets" \in DOMAIN rtdata'
      /\ rtdata'.output_sets = [rtdata.output_sets EXCEPT ![i] = Appended(set, buf)]
  BY Zenon DEF Store, IInv
<1>4. /\ DOMAIN rtdata'.output_sets = 1 .. Sets
      /\ rtdata'.output_sets[i] = Appended(set, buf)
      /\ \A k \in 1 .. Sets \ {i} : rtdata'.output_sets[k] = rtdata.output_sets[k]
  BY <1>3, Zenon DEF IInv
<1> QED
  BY <1>1, <1>2, <1>3, <1>4, Zenon DEF Adds, IInv

(* dandelion_add_output ignores a set that does not exist, adds the        *)
(* buffer, or crashes for want of memory.                                  *)
LEMMA AddStep ==
  ASSUME IInv, NEW i \in 1 .. Sets + 1, NEW buf \in Buffers, dandelion_add_output(i, buf)
  PROVE  UNCHANGED vars \/ (i \in 1 .. Sets /\ Adds(i, buf)) \/ Fails
<1>1. status = "running"
  BY Zenon DEF dandelion_add_output
<1>2. CASE i \notin 1 .. Sets
  BY <1>2, Zenon DEF dandelion_add_output
<1>3. CASE i \in 1 .. Sets
  <2> DEFINE set == rtdata.output_sets[i]
  <2>1. \/ set.buffers_len # set.buffers_cap /\ Store(i, set, buf)
        \/ set.buffers_len = set.buffers_cap /\ Store(i, Grown(set), buf)
        \/ status' = "crashed" /\ UNCHANGED <<sysdata, rtdata>>
    BY <1>3, Zenon DEF dandelion_add_output
  <2>2. Kept(set)
    BY <1>3, Zenon DEF IInv
  <2>3. CASE set.buffers_len # set.buffers_cap /\ Store(i, set, buf)
    <3>1. set.buffers_len < set.buffers_cap
      BY <2>2, <2>3 DEF Kept, Records
    <3> QED
      BY <1>1, <1>3, <2>2, <2>3, <3>1, StoreAdds, Zenon
  <2>4. CASE set.buffers_len = set.buffers_cap /\ Store(i, Grown(set), buf)
    <3>1. /\ Kept(Grown(set)) /\ ListOf(Grown(set)) = ListOf(set)
          /\ Grown(set).buffers_len < Grown(set).buffers_cap
      BY <2>2, <2>4, GrownKeeps, Zenon
    <3> QED
      BY <1>1, <1>3, <2>4, <3>1, StoreAdds, Zenon
  <2>5. CASE status' = "crashed" /\ UNCHANGED <<sysdata, rtdata>>
    <3>1. Blank(sysdata')
      BY <1>1, <2>5, Zenon DEF IInv
    <3> QED
      BY <1>1, <2>5, <3>1, Zenon DEF Fails
  <2> QED
    BY <2>1, <2>3, <2>4, <2>5, Zenon
<1> QED
  BY <1>2, <1>3, Zenon

(* dandelion_exit publishes everything, or nothing for want of memory.     *)
LEMMA ExitStep ==
  ASSUME IInv, NEW exit_code \in {0, 1}, dandelion_exit(exit_code)
  PROVE  Publishes \/ Fails
<1> DEFINE sets == rtdata.output_sets
           sys == [sysdata EXCEPT !.exit_code = exit_code]
<1>1. status = "running" /\ UNCHANGED rtdata
  BY Zenon DEF dandelion_exit
<1>2. PICK o : /\ o = Offsets([i \in 1 .. Sets |-> sets[i].buffers_len])
              /\ \/ __dandelion_platform_exit([sys EXCEPT !.output_bufs = Flat(sets, o),
                                                          !.output_sets = o])
                 \/ __dandelion_platform_exit([sys EXCEPT !.exit_code = DANDELION_OOM])
  BY Zenon DEF dandelion_exit
<1>3. \A i \in 1 .. Sets : Kept(sets[i])
  BY Zenon DEF IInv
<1>4. Running(o, sets)
  BY <1>2, <1>3, OffsetsRun, Zenon
<1>5. Blank(sys) /\ sys.exit_code = exit_code
  BY <1>1, CodeSet, Zenon DEF IInv
<1> HIDE DEF sys
<1>6. CASE __dandelion_platform_exit([sys EXCEPT !.output_bufs = Flat(sets, o),
                                                !.output_sets = o])
  <2>1. sysdata' = [sys EXCEPT !.output_bufs = Flat(sets, o), !.output_sets = o]
        /\ status' \in {"exited", "aborted"}
    BY <1>6, PlatformExits, Zenon
  <2>2. /\ sysdata'.output_bufs = Flat(sets, o) /\ sysdata'.output_sets = o
        /\ sysdata'.exit_code = exit_code
    BY <1>5, <2>1, Zenon DEF Blank
  <2>3. \A i \in 1 .. Sets : Published(sysdata', i) = ListOf(sets[i])
    BY <1>3, <1>4, <2>2, ExitPublishes, Zenon
  <2> QED
    BY <1>1, <2>1, <2>2, <2>3 DEF Publishes, DANDELION_OOM
<1>7. CASE __dandelion_platform_exit([sys EXCEPT !.exit_code = DANDELION_OOM])
  <2>1. /\ Blank(sysdata') /\ sysdata'.exit_code = DANDELION_OOM
        /\ status' \in {"exited", "aborted"}
    BY <1>5, <1>7, OutOfMemory, Zenon
  <2> QED
    BY <1>1, <2>1, Zenon DEF Fails
<1> QED
  BY <1>2, <1>6, <1>7, Zenon

(* Every step has one of the outcomes.                                     *)
LEMMA StepOutcome ==
  ASSUME IInv, [Next]_vars
  PROVE  \/ UNCHANGED vars
         \/ Quiet /\ "output_sets" \in DOMAIN rtdata'
         \/ \E i \in 1 .. Sets, buf \in Buffers : Adds(i, buf)
         \/ Publishes \/ Fails
<1>1. CASE \E i \in 1 .. Sets + 1, buf \in Buffers : dandelion_add_output(i, buf)
  BY <1>1, AddStep, Zenon
<1>2. CASE \E exit_code \in {0, 1} : dandelion_exit(exit_code)
  BY <1>2, ExitStep, Zenon
<1> QED
  BY <1>1, <1>2, InitStep, Zenon DEF Next

(* The invariant is inductive.                                             *)
LEMMA StepSound == IInv /\ [Next]_vars => IInv'
<1> SUFFICES ASSUME IInv, [Next]_vars PROVE IInv'
  BY Zenon
<1>1. CASE UNCHANGED vars
  BY <1>1, Zenon DEF IInv, vars, Kept, Blank
<1>2. CASE Quiet /\ "output_sets" \in DOMAIN rtdata'
  BY <1>2, Zenon DEF IInv, Quiet
<1>3. CASE \E i \in 1 .. Sets, buf \in Buffers : Adds(i, buf)
  BY <1>3, Zenon DEF IInv, Adds
<1>4. CASE Publishes
  BY <1>4, Zenon DEF IInv, Publishes
<1>5. CASE Fails
  BY <1>5, Zenon DEF IInv, Fails
<1> QED
  BY <1>1, <1>2, <1>3, <1>4, <1>5, StepOutcome, Zenon

(* The arrays always hold what their lengths say, dandelion_add_output     *)
(* never stores behind an array, and until the process ends the platform   *)
(* finds no output.                                                        *)
THEOREM AlwaysKept == Spec => []IInv
BY InitSound, StepSound, PTL DEF Spec

-----------------------------------------------------------------------------
(* The refinement.                                                         *)

(* The mapping of Service, written out.                                    *)
Lists == [i \in 1 .. Sets |-> Listed(i)]

Shown == [i \in 1 .. Sets |-> Published(sysdata, i)]

Phase ==
  CASE status \in {"start", "running"} -> "open"
    [] status \in {"exited", "aborted"} /\ sysdata.exit_code # DANDELION_OOM -> "done"
    [] OTHER -> "failed"

(* The mapping in terms of the sets, before a step and after.              *)
LEMMA ListsAre ==
  /\ Lists = [i \in 1 .. Sets |-> ListOf(rtdata.output_sets[i])]
  /\ Lists' = [i \in 1 .. Sets |-> ListOf(rtdata'.output_sets[i])]
  /\ Shown' = [i \in 1 .. Sets |-> Published(sysdata', i)]
BY Zenon DEF Lists, Listed, ListOf, Shown, Published, At

(* Before dandelion_exit the lists that are published are empty.           *)
LEMMA Unpublished ==
  /\ Blank(sysdata) => Shown = [i \in 1 .. Sets |-> <<>>]
  /\ Blank(sysdata') => Shown' = [i \in 1 .. Sets |-> <<>>]
<1>1. Blank(sysdata) => \A i \in 1 .. Sets : Published(sysdata, i) = <<>>
  BY BlankPublishes, Zenon
<1>2. Blank(sysdata') => \A i \in 1 .. Sets : Published(sysdata', i) = <<>>
  BY BlankPublishes, Zenon
<1> QED
  BY <1>1, <1>2, ListsAre, Zenon DEF Shown

(* The runtime starts with empty lists and nothing published.              *)
LEMMA InitServes == Init => Service!Init
<1> SUFFICES ASSUME Init PROVE Service!Init
  BY Zenon
<1>1. IInv /\ status = "start"
  BY InitSound, Zenon DEF Init
<1>2. Lists = [i \in 1 .. Sets |-> <<>>]
  BY <1>1, ListsAre, EmptyKept, Zenon DEF IInv
<1>3. Shown = [i \in 1 .. Sets |-> <<>>]
  BY <1>1, Unpublished, Zenon DEF IInv
<1> QED
  BY <1>1, <1>2, <1>3, Zenon DEF Service!Init, Lists, Shown

(* Each call is a step of the lists, or does not concern them.             *)
LEMMA StepServes == IInv /\ [Next]_vars => [Service!Next]_<<Lists, Shown, Phase>>
<1> SUFFICES ASSUME IInv, [Next]_vars PROVE [Service!Next]_<<Lists, Shown, Phase>>
  BY Zenon
<1>1. CASE UNCHANGED vars
  BY <1>1, Zenon DEF vars, Lists, Listed, Shown, Published, At, Phase
<1>2. CASE Quiet
  <2>1. UNCHANGED <<Lists, Shown>>
    BY <1>2, ListsAre, Unpublished, Zenon DEF Quiet, IInv
  <2>2. UNCHANGED Phase
    BY <1>2, Zenon DEF Quiet, Phase
  <2> QED
    BY <2>1, <2>2, Zenon
<1>3. ASSUME NEW i \in 1 .. Sets, NEW buf \in Buffers, Adds(i, buf)
      PROVE  Service!Add(i, buf)
  <2>1. Phase = "open" /\ UNCHANGED Phase
    BY <1>3, Zenon DEF Adds, Phase
  <2>2. UNCHANGED Shown
    BY <1>3, ListsAre, Zenon DEF Adds, Shown, Published, At
  <2>3. Lists' = [Lists EXCEPT ![i] = Append(@, buf)]
    BY <1>3, ListsAre, Zenon DEF Adds
  <2> QED
    BY <2>1, <2>2, <2>3, Zenon DEF Service!Add, Lists, Shown, Phase
<1>4. CASE Publishes
  <2>1. Phase = "open" /\ Phase' = "done"
    BY <1>4, Zenon DEF Publishes, Phase
  <2>2. UNCHANGED Lists /\ Shown' = Lists
    BY <1>4, ListsAre, Zenon DEF Publishes
  <2> QED
    BY <2>1, <2>2, Zenon DEF Service!Next, Service!Publish, Lists, Shown, Phase
<1>5. CASE Fails
  <2>1. Phase = "open" /\ Phase' = "failed"
    BY <1>5, Zenon DEF Fails, Phase
  <2>2. UNCHANGED <<Lists, Shown>>
    BY <1>5, ListsAre, Unpublished, Zenon DEF Fails, IInv
  <2> QED
    BY <2>1, <2>2, Zenon DEF Service!Next, Service!Fail, Lists, Shown, Phase
<1> QED
  BY <1>1, <1>2, <1>3, <1>4, <1>5, StepOutcome, Zenon DEF Service!Next

(* The arrays of outputs and dandelion_exit implement lists that are       *)
(* published all at once: growing an array loses and reorders nothing, the *)
(* platform finds every buffer in its set and in order, and a process that *)
(* runs out of memory hands over nothing.                                  *)
THEOREM OutputsServed == Spec => ServesOutputs
<1>1. IInv /\ [Next]_vars => [Service!Next]_<<Lists, Shown, Phase>>
  BY StepServes, Zenon
<1> QED
  BY InitServes, AlwaysKept, <1>1, PTL DEF Spec, ServesOutputs, Service!Spec, Lists, Shown, Phase

-----------------------------------------------------------------------------
(* The inputs.                                                             *)

(* The partial concatenations FlattenSeq is defined by.                    *)
Joins(f, seqs, n) ==
  f = [i \in 1 .. n |-> IF i = 1 THEN seqs[i] ELSE f[i - 1] \o seqs[i]]

(* They exist, so that the recursive definition has a value.               *)
LEMMA JoinsExist ==
  ASSUME NEW N \in Nat, NEW seqs
  PROVE  \A n \in 1 .. N : \E f : Joins(f, seqs, n)
<1> DEFINE S == {n \in Nat : \E f : Joins(f, seqs, n)}
<1>1. 1 \in S
  <2>1. Joins([i \in 1 .. 1 |-> seqs[i]], seqs, 1)
    BY DEF Joins
  <2> QED
    BY <2>1, Zenon
<1>2. ASSUME NEW n \in 1 .. N - 1, n \in S
      PROVE  n + 1 \in S
  <2>1. PICK f : Joins(f, seqs, n)
    BY <1>2, Zenon
  <2> DEFINE p == [i \in 1 .. n + 1 |-> IF i = n + 1 THEN f[n] \o seqs[n + 1] ELSE f[i]]
  <2>2. \A i \in 1 .. n + 1 : p[i] = IF i = 1 THEN seqs[i] ELSE p[i - 1] \o seqs[i]
    <3>1. \A i \in 1 .. n : f[i] = IF i = 1 THEN seqs[i] ELSE f[i - 1] \o seqs[i]
      BY <2>1, Zenon DEF Joins
    <3> QED
      BY <3>1
  <2>3. Joins(p, seqs, n + 1)
    BY <2>2, Zenon DEF Joins
  <2> QED
    BY <2>3
<1>3. 1 .. N \subseteq S
  <2> HIDE DEF S
  <2> QED
    BY <1>1, <1>2, Inductive, Zenon
<1> QED
  BY <1>3, Zenon

(* The lengths of some sequences.                                          *)
LEMMA LensFacts ==
  ASSUME NEW S, NEW seqs \in Seq(Seq(S))
  PROVE  /\ Len(seqs) \in Nat /\ \A i \in 1 .. Len(seqs) : seqs[i] \in Seq(S) /\ Len(seqs[i]) \in Nat
         /\ Lens(seqs) \in Seq(Nat) /\ Len(Lens(seqs)) = Len(seqs)
         /\ \A i \in 1 .. Len(seqs) : Lens(seqs)[i] = Len(seqs[i])
<1> DEFINE N == Len(seqs)
<1>1. N \in Nat /\ \A i \in 1 .. N : seqs[i] \in Seq(S) /\ Len(seqs[i]) \in Nat
  OBVIOUS
<1>2. Lens(seqs) = [i \in 1 .. N |-> Len(seqs[i])]
  BY DEF Lens
<1> HIDE DEF N
<1>3. \A i \in 1 .. N : Lens(seqs)[i] = Len(seqs[i])
  BY <1>2, Zenon
<1>4. Lens(seqs) \in Seq(Nat) /\ Len(Lens(seqs)) = N
  BY <1>1, <1>2
<1> QED
  BY <1>1, <1>3, <1>4, Zenon DEF N

(* In the concatenation f[n], the elements of the i-th sequence are        *)
(* behind its offset.                                                      *)
Placed(f, seqs, o, n) ==
  /\ Len(f[n]) = o[n + 1]
  /\ \A i \in 1 .. n : \A j \in 1 .. Len(seqs[i]) : f[n][o[i] + j] = seqs[i][j]

(* The flat array has the elements of every sequence behind its offset.    *)
LEMMA FlattenedAt ==
  ASSUME NEW S, NEW seqs \in Seq(Seq(S)), NEW o, o = Offsets(Lens(seqs))
  PROVE  /\ FlattenSeq(seqs) \in Seq(S) /\ Len(FlattenSeq(seqs)) = o[Len(seqs) + 1]
         /\ \A i \in 1 .. Len(seqs) : \A j \in 1 .. Len(seqs[i]) : FlattenSeq(seqs)[o[i] + j] = seqs[i][j]
<1> DEFINE N == Len(seqs)
<1>1. N \in Nat /\ \A i \in 1 .. N : seqs[i] \in Seq(S) /\ Len(seqs[i]) \in Nat
  BY LensFacts, Zenon
<1>2. Lens(seqs) \in Seq(Nat) /\ Len(Lens(seqs)) = N /\ \A i \in 1 .. N : Lens(seqs)[i] = Len(seqs[i])
  BY LensFacts, Zenon
<1>3. /\ o \in [1 .. N + 1 -> Nat] /\ o[1] = 0
      /\ \A i \in 1 .. N : o[i + 1] = o[i] + Len(seqs[i])
      /\ \A b \in 1 .. N + 1 : \A c \in 1 .. b : o[c] <= o[b]
  <2>1. PICK lens : lens = Lens(seqs)
    BY Zenon
  <2>2. /\ o \in [1 .. Len(lens) + 1 -> Nat] /\ o[1] = 0
        /\ \A i \in 1 .. Len(lens) : o[i + 1] = o[i] + lens[i]
        /\ \A b \in 1 .. Len(lens) + 1 : \A c \in 1 .. b : o[c] <= o[b]
    BY <1>2, <2>1, OffsetsGrow, Zenon
  <2> QED
    BY <1>2, <2>1, <2>2, Zenon
<1>4. CASE N = 0
  <2>1. seqs = <<>> /\ FlattenSeq(seqs) = seqs
    BY <1>4 DEF FlattenSeq
  <2>2. FlattenSeq(seqs) \in Seq(S) /\ Len(FlattenSeq(seqs)) = 0 /\ 1 .. N = {}
    <3>1. <<>> \in Seq(S) /\ Len(<<>>) = 0 /\ 1 .. 0 = {}
      OBVIOUS
    <3> QED
      BY <1>4, <2>1, <3>1, Zenon
  <2>3. o[N + 1] = 0
    BY <1>3, <1>4
  <2> QED
    BY <2>2, <2>3, Zenon
<1>5. CASE N # 0
  <2>1. N \in 1 .. N
    BY <1>1, <1>5
  <2>2. \E f : Joins(f, seqs, N)
    BY <1>1, <2>1, JoinsExist, Zenon
  <2> DEFINE f == CHOOSE f : Joins(f, seqs, N)
  <2>3. Joins(f, seqs, N)
    BY <2>2, Zenon
  <2>4. FlattenSeq(seqs) = f[N]
    BY <1>5, Zenon DEF FlattenSeq, Joins
  <2> HIDE DEF f
  <2>5. \A i \in 1 .. N : f[i] = IF i = 1 THEN seqs[i] ELSE f[i - 1] \o seqs[i]
    BY <2>3, Zenon DEF Joins
  <2> DEFINE P == {n \in 1 .. N : f[n] \in Seq(S) /\ Placed(f, seqs, o, n)}
  <2>6. 1 \in P
    <3>1. 1 \in 1 .. N /\ f[1] = seqs[1] /\ 1 + 1 \in 1 .. N + 1 /\ f[1] \in Seq(S)
      BY <1>1, <2>1, <2>5
    <3>2. o[1 + 1] = Len(seqs[1])
      BY <1>1, <1>3, <3>1
    <3>3. \A j \in 1 .. Len(seqs[1]) : f[1][o[1] + j] = seqs[1][j]
      BY <1>3, <3>1
    <3>4. \A i \in 1 .. 1 : i = 1
      OBVIOUS
    <3>5. Placed(f, seqs, o, 1)
      BY <3>1, <3>2, <3>3, <3>4, Zenon DEF Placed
    <3> QED
      BY <3>1, <3>5, Zenon
  <2>7. ASSUME NEW n \in 1 .. N - 1, n \in P PROVE n + 1 \in P
    <3> DEFINE g == f[n]
               h == f[n + 1]
               t == seqs[n + 1]
    <3>1. g \in Seq(S) /\ Len(g) = o[n + 1]
          /\ \A i \in 1 .. n : \A j \in 1 .. Len(seqs[i]) : g[o[i] + j] = seqs[i][j]
      BY <2>7, Zenon DEF Placed
    <3>2. n + 1 \in 1 .. N /\ n \in 1 .. N /\ n \in Nat /\ n + 1 # 1 /\ (n + 1) - 1 = n
      BY <1>1
    <3>3. h = g \o t /\ t \in Seq(S)
      BY <1>1, <2>5, <3>2, Zenon
    <3>4. h \in Seq(S) /\ Len(h) = Len(g) + Len(t) /\ Len(t) \in Nat /\ Len(g) \in Nat
          /\ (\A k \in 1 .. Len(g) : h[k] = g[k]) /\ \A j \in 1 .. Len(t) : h[Len(g) + j] = t[j]
      <4>1. g \in Seq(S) /\ t \in Seq(S) /\ h = g \o t
        BY <3>1, <3>3, Zenon
      <4> HIDE DEF g, t, h
      <4> QED
        BY <4>1
    <3>5. o[(n + 1) + 1] = o[n + 1] + Len(t)
      BY <1>3, <3>2, Zenon
    <3>6. ASSUME NEW i \in 1 .. n + 1, NEW j \in 1 .. Len(seqs[i]) PROVE h[o[i] + j] = seqs[i][j]
      <4>1. CASE i = n + 1
        <5>1. o[i] = Len(g) /\ seqs[i] = t
          BY <3>1, <4>1, Zenon
        <5> HIDE DEF g, t, h
        <5> QED
          BY <3>4, <5>1, Zenon
      <4>2. CASE i # n + 1
        <5>1. i \in 1 .. n /\ i + 1 \in 1 .. n + 1 /\ i \in 1 .. N /\ n + 1 \in 1 .. N + 1
              /\ i \in 1 .. N + 1 /\ i + 1 \in 1 .. N + 1
          BY <1>1, <3>2, <4>2
        <5>2. o[i + 1] <= o[n + 1] /\ o[i + 1] = o[i] + Len(seqs[i]) /\ o[i] \in Nat /\ o[n + 1] \in Nat
              /\ Len(seqs[i]) \in Nat
          BY <1>1, <1>3, <5>1, Zenon
        <5> DEFINE l == Len(seqs[i])
                   a == o[i]
                   b == o[n + 1]
                   c == o[i + 1]
        <5>3. a + j \in 1 .. b
          <6>1. c <= b /\ c = a + l /\ a \in Nat /\ b \in Nat /\ l \in Nat /\ j \in 1 .. l
            BY <5>2, Zenon
          <6> HIDE DEF a, b, c, l
          <6> QED
            BY <6>1
        <5>4. h[o[i] + j] = g[o[i] + j]
          <6> HIDE DEF g, h
          <6> QED
            BY <3>1, <3>4, <5>3, Zenon
        <5> QED
          BY <3>1, <5>1, <5>4, Zenon
      <4> QED
        BY <4>1, <4>2
    <3>7. Placed(f, seqs, o, n + 1)
      BY <3>1, <3>4, <3>5, <3>6, Zenon DEF Placed
    <3> QED
      BY <3>2, <3>4, <3>7, Zenon
  <2>8. 1 .. N \subseteq P
    <3> HIDE DEF P
    <3> QED
      BY <1>1, <2>6, <2>7, Inductive, Zenon
  <2>9. f[N] \in Seq(S) /\ Placed(f, seqs, o, N)
    BY <2>1, <2>8, Zenon
  <2> QED
    BY <2>4, <2>9, Zenon DEF Placed
<1> QED
  BY <1>4, <1>5

(* The tree dandelion_init builds is what the platform has flattened.      *)
LEMMA TreeInverts ==
  ASSUME NEW S, NEW folders \in Seq(Seq(S))
  PROVE  /\ Tree(__dandelion_platform_init(folders)) = folders
         /\ Len(__dandelion_platform_init(folders).input_bufs) = Total(Lens(folders))
<1> DEFINE sys == __dandelion_platform_init(folders)
           o   == Offsets(Lens(folders))
           b   == FlattenSeq(folders)
           N   == Len(folders)
<1>1. sys.input_sets = o /\ sys.input_bufs = b
  BY Zenon DEF __dandelion_platform_init
<1>2. /\ N \in Nat /\ DOMAIN folders = 1 .. N /\ folders = [i \in 1 .. N |-> folders[i]]
      /\ \A i \in 1 .. N : folders[i] \in Seq(S) /\ Len(folders[i]) \in Nat
  OBVIOUS
<1>3. /\ Len(b) = o[N + 1]
      /\ \A i \in 1 .. N : \A j \in 1 .. Len(folders[i]) : b[o[i] + j] = folders[i][j]
  <2>1. PICK x : x = Offsets(Lens(folders))
    BY Zenon
  <2>2. /\ Len(b) = x[N + 1]
        /\ \A i \in 1 .. N : \A j \in 1 .. Len(folders[i]) : b[x[i] + j] = folders[i][j]
    BY <2>1, FlattenedAt
  <2> QED
    BY <2>1, <2>2, Zenon
<1>4. /\ Lens(folders) \in Seq(Nat) /\ Len(Lens(folders)) = N
      /\ \A i \in 1 .. N : Lens(folders)[i] = Len(folders[i])
  BY LensFacts, Zenon
<1>5. /\ o \in [1 .. N + 1 -> Nat]
      /\ \A i \in 1 .. N : o[i + 1] = o[i] + Len(folders[i])
  <2>1. PICK lens : lens = Lens(folders)
    BY Zenon
  <2>2. /\ o \in [1 .. Len(lens) + 1 -> Nat]
        /\ \A i \in 1 .. Len(lens) : o[i + 1] = o[i] + lens[i]
    BY <1>4, <2>1, OffsetsGrow, Zenon
  <2> QED
    BY <1>4, <2>1, <2>2, Zenon
<1>6. Total(Lens(folders)) = o[N + 1]
  BY <1>4, Zenon DEF Total
<1> HIDE DEF o, b, N, sys
<1>7. Len(o) - 1 = N
  BY <1>2, <1>5
<1>8. ASSUME NEW i \in 1 .. N
      PROVE  [j \in 1 .. o[i + 1] - o[i] |-> b[o[i] + j]] = folders[i]
  <2>1. o[i] \in Nat /\ o[i + 1] \in Nat /\ o[i + 1] = o[i] + Len(folders[i])
    BY <1>2, <1>5
  <2>2. o[i + 1] - o[i] = Len(folders[i])
    BY <1>2, <2>1
  <2>3. folders[i] = [j \in 1 .. Len(folders[i]) |-> folders[i][j]]
    BY <1>2
  <2> QED
    BY <1>3, <2>2, <2>3, Zenon
<1>9. Tree(sys) = [i \in 1 .. N |-> [j \in 1 .. o[i + 1] - o[i] |-> b[o[i] + j]]]
  BY <1>1, <1>7, Zenon DEF Tree
<1>10. Tree(sys) = folders
  BY <1>2, <1>8, <1>9, Zenon
<1> QED
  BY <1>1, <1>3, <1>6, <1>10, Zenon DEF sys

(* A running program has the folders as the sets of its inputs.            *)
InputInv ==
  /\ given \in Folders
  /\ status = "running" => "input_sets" \in DOMAIN rtdata /\ rtdata.input_sets = given

(* No call but dandelion_init touches the inputs.                          *)
LEMMA StepInputs == IInv /\ InputInv /\ [Next]_vars => InputInv'
<1> SUFFICES ASSUME IInv, InputInv, [Next]_vars PROVE InputInv'
  BY Zenon
<1>1. CASE dandelion_init
  <2>1. given' = given /\ given \in Folders
    BY <1>1, Zenon DEF InputInv, dandelion_init
  <2>2. CASE status' = "running"
    <3> DEFINE tree == Tree(__dandelion_platform_init(given))
    <3>1. "input_sets" \in DOMAIN rtdata' /\ rtdata'.input_sets = tree
      <4>1. ~\E sys : __dandelion_platform_exit(sys)
        BY <2>2, PlatformExits
      <4>2. \E sets : rtdata' = [input_sets |-> tree, output_sets |-> sets]
        BY <1>1, <4>1, Zenon DEF dandelion_init
      <4> HIDE DEF tree
      <4> QED
        BY <4>2
    <3>2. given \in Seq(Seq(Contents(given)))
      BY <2>1, IoAssumption, Zenon
    <3>3. rtdata'.input_sets = given
      BY <3>1, <3>2, TreeInverts, Zenon
    <3> QED
      BY <2>1, <3>1, <3>3, Zenon DEF InputInv
  <2> QED
    BY <2>1, <2>2, Zenon DEF InputInv
<1>2. CASE \E i \in 1 .. Sets + 1, buf \in Buffers : dandelion_add_output(i, buf)
  <2>1. PICK i \in 1 .. Sets + 1, buf \in Buffers : dandelion_add_output(i, buf)
    BY <1>2, Zenon
  <2>2. status = "running" /\ given' = given
    BY <2>1, Zenon DEF dandelion_add_output, Store, vars
  <2>3. "input_sets" \in DOMAIN rtdata
    BY <2>2, Zenon DEF InputInv
  <2>4. "input_sets" \in DOMAIN rtdata' /\ rtdata'.input_sets = rtdata.input_sets
    <3>1. ASSUME NEW set, Store(i, set, buf)
          PROVE  "input_sets" \in DOMAIN rtdata' /\ rtdata'.input_sets = rtdata.input_sets
      BY <2>3, <3>1, Zenon DEF Store
    <3> QED
      BY <2>1, <2>3, <3>1, Zenon DEF dandelion_add_output, vars
  <2> QED
    BY <2>2, <2>3, <2>4, Zenon DEF InputInv
<1>3. CASE \E exit_code \in {0, 1} : dandelion_exit(exit_code)
  <2>1. given' = given /\ \E sys : __dandelion_platform_exit(sys)
    BY <1>3, Zenon DEF dandelion_exit
  <2>2. status' # "running"
    BY <2>1, PlatformExits
  <2> QED
    BY <2>1, <2>2, Zenon DEF InputInv
<1>4. CASE UNCHANGED vars
  BY <1>4, Zenon DEF InputInv, vars
<1> QED
  BY <1>1, <1>2, <1>3, <1>4, Zenon DEF Next

(* Whatever the input folders hold, a running program gets exactly their   *)
(* items through dandelion_get_input, each in its set and in order: the    *)
(* offsets the platform writes and the tree dandelion_init builds from     *)
(* them are inverse to each other, empty sets and empty inputs included.   *)
THEOREM InputsAlwaysServed == Spec => []InputsServed
<1>1. Init => InputInv
  BY Zenon DEF Init, InputInv
<1>2. InputInv => InputsServed
  <2> SUFFICES ASSUME InputInv, status = "running", NEW i, NEW j
               PROVE  dandelion_get_input(i, j) =
                        IF i \in DOMAIN given /\ j \in DOMAIN given[i] THEN given[i][j] ELSE NoIdent
    BY Zenon DEF InputsServed
  <2>1. rtdata.input_sets = given /\ given \in Seq(Seq(Contents(given)))
    BY IoAssumption, Zenon DEF InputInv
  <2>2. CASE i \in DOMAIN given
    <3>1. given[i] \in Seq(Contents(given))
      BY <2>1, <2>2
    <3>2. DOMAIN given[i] = 1 .. Len(given[i])
      BY <3>1
    <3> QED
      BY <2>1, <2>2, <3>2, Zenon DEF dandelion_get_input, dandelion_input_buffer_count
  <2>3. CASE i \notin DOMAIN given
    <3>1. dandelion_input_buffer_count(i) = 0
      BY <2>1, <2>3, Zenon DEF dandelion_input_buffer_count
    <3>2. j \notin 1 .. 0
      OBVIOUS
    <3> QED
      BY <2>3, <3>1, <3>2, Zenon DEF dandelion_get_input
  <2> QED
    BY <2>2, <2>3, Zenon
<1> QED
  BY <1>1, <1>2, StepInputs, InitSound, StepSound, PTL DEF Spec

-----------------------------------------------------------------------------
(* The memory that is taken.                                               *)

(* Whatever starts with 0 and adds up the numbers ends with their sum.     *)
LEMMA TotalIs ==
  ASSUME NEW lens \in Seq(Nat), NEW p, p[1] = 0,
         \A i \in 1 .. Len(lens) : p[i + 1] = p[i] + lens[i]
  PROVE  Total(lens) = p[Len(lens) + 1] /\ Total(lens) \in Nat
<1>1. PICK o : o = Offsets(lens)
  BY Zenon
<1>2. /\ o \in [1 .. Len(lens) + 1 -> Nat] /\ o[1] = 0
      /\ \A i \in 1 .. Len(lens) : o[i + 1] = o[i] + lens[i]
  BY <1>1, OffsetsGrow, Zenon
<1>3. /\ Len(lens) \in Nat /\ Len(lens) + 1 \in Nat /\ (Len(lens) + 1) - 1 = Len(lens)
      /\ Len(lens) + 1 \in 1 .. Len(lens) + 1
  OBVIOUS
<1> DEFINE S == {n \in Nat : o[n] = p[n]}
<1>4. 1 \in S
  BY <1>2
<1>5. ASSUME NEW n \in 1 .. (Len(lens) + 1) - 1, n \in S PROVE n + 1 \in S
  <2>1. n \in 1 .. Len(lens) /\ n + 1 \in Nat
    BY <1>3
  <2> QED
    BY <1>2, <1>5, <2>1, Zenon
<1>6. 1 .. Len(lens) + 1 \subseteq S
  <2> HIDE DEF S
  <2> QED
    BY <1>3, <1>4, <1>5, Inductive, Zenon
<1> QED
  BY <1>1, <1>2, <1>3, <1>6, Zenon DEF Total

(* Sums in another order, and of larger numbers.                           *)
LEMMA SumsMove ==
  /\ \A a, b, x \in Int : (a + b) + x = (a + x) + b
  /\ \A a, b, c, d \in Nat : a <= b /\ c <= d => a + c <= b + d
OBVIOUS

(* One number is replaced by another one.                                  *)
LEMMA TotalChanged ==
  ASSUME NEW lens \in Seq(Nat), NEW new \in Seq(Nat), Len(new) = Len(lens),
         NEW i \in 1 .. Len(lens), \A k \in 1 .. Len(lens) \ {i} : new[k] = lens[k]
  PROVE  Total(new) = Total(lens) + (new[i] - lens[i])
<1> DEFINE n == Len(lens)
           x == new[i] - lens[i]
<1>1. PICK o : o = Offsets(lens)
  BY Zenon
<1>2. /\ o \in [1 .. n + 1 -> Nat] /\ o[1] = 0
      /\ \A k \in 1 .. n : o[k + 1] = o[k] + lens[k]
  BY <1>1, OffsetsGrow, Zenon
<1>3. /\ n \in Nat /\ x \in Int /\ i \in 1 .. n /\ new[i] = lens[i] + x
      /\ \A k \in 1 .. n : lens[k] \in Nat
  OBVIOUS
<1> DEFINE p == [k \in 1 .. n + 1 |-> IF k <= i THEN o[k] ELSE o[k] + x]
<1>4. p[1] = 0 /\ p[n + 1] = o[n + 1] + x
  BY <1>2, <1>3
<1>5. ASSUME NEW k \in 1 .. n PROVE p[k + 1] = p[k] + new[k]
  <2>0. k \in 1 .. n + 1 /\ k + 1 \in 1 .. n + 1
    BY <1>3
  <2>1. /\ k \in 1 .. n + 1 /\ k + 1 \in 1 .. n + 1 /\ o[k] \in Nat /\ lens[k] \in Nat
        /\ o[k + 1] = o[k] + lens[k]
    BY <1>2, <1>3, <2>0, Zenon
  <2>2. p[k] = IF k <= i THEN o[k] ELSE o[k] + x
    BY <2>1, Zenon
  <2>3. p[k + 1] = IF k + 1 <= i THEN o[k + 1] ELSE o[k + 1] + x
    BY <2>1, Zenon
  <2> HIDE DEF p, x, n
  <2>4. CASE k = i
    BY <1>3, <2>1, <2>2, <2>3, <2>4
  <2>5. CASE k # i
    <3>1. new[k] = lens[k]
      BY <2>5, Zenon DEF n
    <3>2. x \in Int /\ i \in Int /\ k \in Int /\ (k <= i <=> k + 1 <= i)
      BY <1>3, <2>1, <2>5
    <3>3. CASE k <= i
      BY <2>1, <2>2, <2>3, <3>1, <3>2, <3>3, Zenon
    <3>4. CASE ~(k <= i)
      <4>1. p[k] = o[k] + x /\ p[k + 1] = (o[k] + lens[k]) + x
        BY <2>1, <2>2, <2>3, <3>2, <3>4, Zenon
      <4>2. o[k] \in Int /\ lens[k] \in Int
        BY <2>1
      <4>3. (o[k] + lens[k]) + x = (o[k] + x) + lens[k]
        BY <3>2, <4>2, SumsMove, Zenon
      <4> QED
        BY <3>1, <4>1, <4>3, Zenon
    <3> QED
      BY <3>3, <3>4
  <2> QED
    BY <2>4, <2>5
<1> HIDE DEF p
<1>6. Total(new) = p[n + 1]
  BY <1>4, <1>5, TotalIs, Zenon
<1>7. Total(lens) = o[n + 1]
  BY <1>1, Zenon DEF Total
<1> QED
  BY <1>4, <1>6, <1>7, Zenon

(* Larger numbers have a larger sum.                                       *)
LEMMA TotalMonotone ==
  ASSUME NEW lens \in Seq(Nat), NEW new \in Seq(Nat), Len(new) = Len(lens),
         \A k \in 1 .. Len(lens) : lens[k] <= new[k]
  PROVE  Total(lens) <= Total(new)
<1> DEFINE n == Len(lens)
<1>1. PICK o : o = Offsets(lens)
  BY Zenon
<1>2. /\ o \in [1 .. n + 1 -> Nat] /\ o[1] = 0
      /\ \A k \in 1 .. n : o[k + 1] = o[k] + lens[k]
  BY <1>1, OffsetsGrow, Zenon
<1>3. PICK p : p = Offsets(new)
  BY Zenon
<1>4. /\ p \in [1 .. n + 1 -> Nat] /\ p[1] = 0
      /\ \A k \in 1 .. n : p[k + 1] = p[k] + new[k]
  BY <1>3, OffsetsGrow, Zenon
<1>5. /\ n \in Nat /\ n + 1 \in Nat /\ \A k \in 1 .. n : lens[k] \in Nat /\ new[k] \in Nat /\ lens[k] <= new[k]
  OBVIOUS
<1> HIDE DEF n
<1> DEFINE S == {k \in Nat : o[k] <= p[k]}
<1>6. 1 \in S
  BY <1>2, <1>4
<1>7. ASSUME NEW k \in 1 .. (n + 1) - 1, k \in S PROVE k + 1 \in S
  <2>1. k \in 1 .. n /\ k \in 1 .. n + 1 /\ k + 1 \in Nat
    BY <1>5
  <2>2. /\ o[k] \in Nat /\ p[k] \in Nat /\ lens[k] \in Nat /\ new[k] \in Nat /\ lens[k] <= new[k]
        /\ o[k + 1] = o[k] + lens[k] /\ p[k + 1] = p[k] + new[k] /\ o[k] <= p[k]
    BY <1>2, <1>4, <1>5, <1>7, <2>1, Zenon
  <2>3. o[k] + lens[k] <= p[k] + new[k]
    BY <2>2, SumsMove, Zenon
  <2> QED
    BY <2>1, <2>2, <2>3, Zenon
<1>8. 1 .. n + 1 \subseteq S
  <2> HIDE DEF S
  <2> QED
    BY <1>5, <1>6, <1>7, Inductive, Zenon
<1>9. n + 1 \in 1 .. n + 1
  BY <1>5
<1>10. o[n + 1] <= p[n + 1]
  BY <1>8, <1>9, Zenon
<1> QED
  BY <1>1, <1>3, <1>10, Zenon DEF Total, n

(* Two numbers around the others.                                          *)
LEMMA TotalAround ==
  ASSUME NEW lens \in Seq(Nat), NEW x \in Nat, NEW y \in Nat
  PROVE  Total(<<x>> \o lens \o <<y>>) = x + Total(lens) + y
<1> DEFINE n   == Len(lens)
           new == <<x>> \o lens \o <<y>>
<1>1. PICK o : o = Offsets(lens)
  BY Zenon
<1>2. /\ o \in [1 .. n + 1 -> Nat] /\ o[1] = 0
      /\ \A k \in 1 .. n : o[k + 1] = o[k] + lens[k]
  BY <1>1, OffsetsGrow, Zenon
<1>3. n \in Nat /\ new \in Seq(Nat) /\ Len(new) = n + 2
  OBVIOUS
<1>4. new[1] = x /\ new[n + 2] = y /\ \A k \in 1 .. n : new[k + 1] = lens[k] /\ lens[k] \in Nat
  OBVIOUS
<1> DEFINE p == [k \in 1 .. n + 3 |-> IF k = 1 THEN 0
                                      ELSE IF k = n + 3 THEN x + o[n + 1] + y ELSE x + o[k - 1]]
<1> HIDE DEF new, n
<1>5. p[1] = 0 /\ p[n + 3] = x + o[n + 1] + y
  BY <1>3
<1>6. ASSUME NEW k \in 1 .. n + 2 PROVE p[k + 1] = p[k] + new[k]
  <2>1. CASE k = 1
    <3>1. p[2] = x + o[1]
      BY <1>3
    <3> QED
      BY <1>2, <1>4, <1>5, <2>1, <3>1
  <2>2. CASE k = n + 2 /\ k # 1
    <3>1. p[n + 2] = x + o[n + 1] /\ o[n + 1] \in Nat
      BY <1>2, <1>3
    <3> HIDE DEF p
    <3> QED
      BY <1>3, <1>4, <1>5, <2>2, <3>1
  <2>3. CASE k # n + 2 /\ k # 1
    <3>1. /\ k - 1 \in 1 .. n /\ (k - 1) + 1 = k /\ k \in 1 .. n + 3 /\ k + 1 \in 1 .. n + 3
          /\ k - 1 \in 1 .. n + 1 /\ k \in 1 .. n + 1 /\ (k + 1) - 1 = k
          /\ k + 1 # 1 /\ k + 1 # n + 3 /\ k # n + 3
      BY <1>3, <2>3
    <3>2. p[k] = x + o[k - 1] /\ p[k + 1] = x + o[k]
      BY <2>3, <3>1, Zenon
    <3>3. o[k] = o[k - 1] + lens[k - 1] /\ new[k] = lens[k - 1] /\ lens[k - 1] \in Nat /\ o[k - 1] \in Nat
      BY <1>2, <1>4, <3>1
    <3> HIDE DEF p
    <3> QED
      BY <3>2, <3>3
  <2> QED
    BY <2>1, <2>2, <2>3, Zenon
<1> HIDE DEF p
<1>7. Total(new) = p[Len(new) + 1]
  BY <1>3, <1>5, <1>6, TotalIs, Zenon
<1>8. Len(new) + 1 = n + 3
  BY <1>3
<1>9. Total(lens) = o[n + 1]
  BY <1>1, Zenon DEF Total, n
<1> QED
  BY <1>5, <1>7, <1>8, <1>9, Zenon DEF new

(* What was taken for a set: its array and the smaller ones before it.     *)
Spent(set) == IF set.buffers_cap = 0 THEN 0 ELSE 2 * set.buffers_cap - 1

SpentOn(sets) == [i \in 1 .. Sets |-> Spent(sets[i])]

(* More than half of an array is in use.                                   *)
Roomy(set) == set.buffers_cap = 0 \/ set.buffers_cap <= 2 * set.buffers_len - 1

(* A running program has taken the records of its inputs, of its sets and  *)
(* of all the arrays of the sets.                                          *)
GrowInv ==
  status = "running" =>
    /\ \A i \in 1 .. Sets : Roomy(rtdata.output_sets[i])
    /\ Len(given) \in Nat /\ Len(sysdata.input_bufs) \in Nat
    /\ taken = Len(given) + Len(sysdata.input_bufs) + Sets + Total(SpentOn(rtdata.output_sets))

(* Growing and storing as counts.                                          *)
LEMMA CountsChange ==
  ASSUME NEW set, Kept(set), NEW buf
  PROVE  /\ Appended(set, buf).buffers_len = set.buffers_len + 1
         /\ Appended(set, buf).buffers_cap = set.buffers_cap
         /\ Grown(set).buffers_len = set.buffers_len
         /\ Grown(set).buffers_cap = NewCap(set.buffers_cap)
         /\ set.buffers_len \in Nat /\ set.buffers_cap \in Nat
<1>1. DOMAIN set = {"buffers", "buffers_len", "buffers_cap"}
  BY DEF Kept, Records
<1>2. /\ "buffers_len" # "buffers" /\ "buffers_cap" # "buffers" /\ "buffers_len" # "buffers_cap"
  OBVIOUS
<1>3. /\ Appended(set, buf).buffers_len = set.buffers_len + 1
      /\ Appended(set, buf).buffers_cap = set.buffers_cap
  BY <1>1, <1>2, Zenon DEF Appended
<1>4. /\ Grown(set).buffers_len = set.buffers_len
      /\ Grown(set).buffers_cap = NewCap(set.buffers_cap)
  BY <1>1, <1>2, Zenon DEF Grown
<1> QED
  BY <1>3, <1>4, Zenon DEF Kept, Records

(* What is taken for the sets, in numbers.                                 *)
LEMMA SpentTypes ==
  ASSUME NEW sets, \A k \in 1 .. Sets : Kept(sets[k])
  PROVE  SpentOn(sets) \in Seq(Nat) /\ Len(SpentOn(sets)) = Sets
<1>1. ASSUME NEW k \in 1 .. Sets PROVE Spent(sets[k]) \in Nat
  <2>1. sets[k].buffers_cap \in Nat
    BY Zenon DEF Kept, Records
  <2> QED
    BY <2>1 DEF Spent
<1>2. Sets \in Nat
  BY IoAssumption, Zenon
<1> QED
  BY <1>1, <1>2 DEF SpentOn

(* More is taken for the one set that changes.                             *)
LEMMA SpentMoves ==
  ASSUME NEW sets, \A k \in 1 .. Sets : Kept(sets[k]),
         NEW new, \A k \in 1 .. Sets : Kept(new[k]),
         NEW i \in 1 .. Sets, \A k \in 1 .. Sets \ {i} : new[k] = sets[k]
  PROVE  Total(SpentOn(new)) = Total(SpentOn(sets)) + (Spent(new[i]) - Spent(sets[i]))
<1>1. PICK a : a = SpentOn(sets)
  BY Zenon
<1>2. PICK b : b = SpentOn(new)
  BY Zenon
<1>3. a \in Seq(Nat) /\ Len(a) = Sets /\ b \in Seq(Nat) /\ Len(b) = Sets
  BY <1>1, <1>2, SpentTypes, Zenon
<1>4. /\ a[i] = Spent(sets[i]) /\ b[i] = Spent(new[i])
      /\ \A k \in 1 .. Sets \ {i} : b[k] = a[k]
  BY <1>1, <1>2, Zenon DEF SpentOn
<1>5. Total(b) = Total(a) + (b[i] - a[i])
  <2>1. /\ Len(b) = Len(a) /\ i \in 1 .. Len(a)
        /\ \A k \in 1 .. Len(a) \ {i} : b[k] = a[k]
    BY <1>3, <1>4, Zenon
  <2> QED
    BY <1>3, <2>1, TotalChanged
<1> QED
  BY <1>1, <1>2, <1>4, <1>5, Zenon

(* A sum is a number.                                                      *)
LEMMA TotalTypes ==
  ASSUME NEW lens \in Seq(Nat)
  PROVE  Total(lens) \in Nat
<1>1. PICK o : o = Offsets(lens)
  BY Zenon
<1>2. o \in [1 .. Len(lens) + 1 -> Nat]
  BY <1>1, OffsetsGrow, Zenon
<1>3. Len(lens) + 1 \in 1 .. Len(lens) + 1
  OBVIOUS
<1> QED
  BY <1>1, <1>2, <1>3, Zenon DEF Total

(* dandelion_add_output takes what it adds to the arrays of the set.       *)
LEMMA AddGrows ==
  ASSUME IInv, GrowInv, status = "running", NEW i \in 1 .. Sets, NEW buf \in Buffers,
         NEW old, old = rtdata.output_sets[i],
         NEW set, NEW more \in Nat, Store(i, set, buf), Adds(i, buf),
         \/ set = old /\ more = 0
         \/ set = Grown(old) /\ more = NewCap(old.buffers_cap) /\ old.buffers_len = old.buffers_cap,
         taken' = taken + more
  PROVE  GrowInv'
<1> DEFINE sets == rtdata.output_sets
           new  == rtdata'.output_sets
<1>1. /\ \A k \in 1 .. Sets : Kept(sets[k]) /\ Kept(new[k])
      /\ \A k \in 1 .. Sets \ {i} : new[k] = sets[k]
      /\ status' = "running" /\ sysdata' = sysdata
  BY Zenon DEF IInv, Adds
<1>2. new[i] = Appended(set, buf) /\ given' = given
  BY Zenon DEF Store, IInv
<1>3. /\ old.buffers_len \in Nat /\ old.buffers_cap \in Nat
      /\ Grown(old).buffers_len = old.buffers_len
      /\ Grown(old).buffers_cap = NewCap(old.buffers_cap)
  BY <1>1, CountsChange, Zenon
<1>4. /\ new[i].buffers_len = set.buffers_len + 1
      /\ new[i].buffers_cap = set.buffers_cap
  <2>1. CASE set = old
    <3>1. /\ Appended(old, buf).buffers_len = old.buffers_len + 1
          /\ Appended(old, buf).buffers_cap = old.buffers_cap
      BY <1>1, CountsChange, Zenon
    <3> QED
      BY <1>2, <2>1, <3>1, Zenon
  <2>2. CASE set = Grown(old) /\ old.buffers_len = old.buffers_cap
    <3>1. Kept(Grown(old))
      BY <1>1, <2>2, GrownKeeps, Zenon
    <3>2. /\ Appended(Grown(old), buf).buffers_len = Grown(old).buffers_len + 1
          /\ Appended(Grown(old), buf).buffers_cap = Grown(old).buffers_cap
      BY <3>1, CountsChange, Zenon
    <3> QED
      BY <1>2, <2>2, <3>2, Zenon
  <2> QED
    BY <2>1, <2>2, Zenon
<1>5. Roomy(sets[i])
  BY Zenon DEF GrowInv
<1>6. Roomy(new[i]) /\ Spent(new[i]) - Spent(old) = more
  <2> HIDE DEF new
  <2>1. CASE set = old /\ more = 0
    BY <1>3, <1>4, <1>5, <2>1 DEF Roomy, Spent
  <2>2. CASE set = Grown(old) /\ more = NewCap(old.buffers_cap) /\ old.buffers_len = old.buffers_cap
    BY <1>3, <1>4, <2>2 DEF Roomy, Spent, NewCap
  <2> QED
    BY <2>1, <2>2, Zenon
<1>7. \A k \in 1 .. Sets : Roomy(new[k])
  BY <1>1, <1>6, Zenon DEF GrowInv
<1>8. Total(SpentOn(new)) = Total(SpentOn(sets)) + more
  BY <1>1, <1>6, SpentMoves, Zenon
<1>9. taken' = Len(given') + Len(sysdata'.input_bufs) + Sets + Total(SpentOn(new))
  <2>1. PICK x : x = Len(given) + Len(sysdata.input_bufs) + Sets
    BY Zenon
  <2>2. taken = x + Total(SpentOn(sets)) /\ x \in Nat
    <3>1. Len(given) \in Nat /\ Len(sysdata.input_bufs) \in Nat /\ Sets \in Nat
      BY IoAssumption, Zenon DEF GrowInv
    <3> QED
      BY <2>1, <3>1 DEF GrowInv
  <2>3. PICK t : t = Total(SpentOn(sets))
    BY Zenon
  <2>4. t \in Nat
    BY <1>1, <2>3, SpentTypes, TotalTypes, Zenon
  <2>5. taken' = x + (t + more)
    BY <2>2, <2>3, <2>4
  <2> QED
    BY <1>1, <1>2, <1>8, <2>1, <2>3, <2>5, Zenon
<1>10. Len(given') \in Nat /\ Len(sysdata'.input_bufs) \in Nat
  BY <1>1, <1>2, Zenon DEF GrowInv
<1> QED
  BY <1>7, <1>9, <1>10, Zenon DEF GrowInv, SpentOn

(* A new program has taken the records of its inputs and of its sets.      *)
LEMMA InitGrows ==
  ASSUME IInv, InputInv, dandelion_init
  PROVE  GrowInv'
<1> SUFFICES ASSUME status' = "running" PROVE GrowInv'
  BY Zenon DEF GrowInv
<1> DEFINE sys  == __dandelion_platform_init(given)
           sets == [i \in 1 .. Sets |-> EmptySet]
<1>1. ~\E s : __dandelion_platform_exit(s)
  BY PlatformExits
<1>2. /\ sysdata' = sys /\ rtdata' = [input_sets |-> Tree(sys), output_sets |-> sets]
      /\ taken' = Total(<<Len(Tree(sys))>> \o Lens(Tree(sys)) \o <<Sets>>)
      /\ given' = given
  BY <1>1, Zenon DEF dandelion_init
<1>3. given \in Seq(Seq(Contents(given)))
  BY IoAssumption, Zenon DEF InputInv
<1>4. Tree(sys) = given /\ Len(sys.input_bufs) = Total(Lens(given))
  BY <1>3, TreeInverts, Zenon
<1>5. Lens(given) \in Seq(Nat) /\ Len(given) \in Nat /\ Sets \in Nat
  <2>1. Lens(given) \in Seq(Nat)
    BY <1>3, LensFacts, Zenon
  <2>2. Len(given) \in Nat
    BY <1>3
  <2> QED
    BY <2>1, <2>2, IoAssumption, Zenon
<1>6. Total(Lens(given)) \in Nat
  BY <1>5, TotalTypes, Zenon
<1>7. taken' = Len(given) + Total(Lens(given)) + Sets
  <2>1. Total(<<Len(given)>> \o Lens(given) \o <<Sets>>) = Len(given) + Total(Lens(given)) + Sets
    BY <1>5, TotalAround
  <2> QED
    BY <1>2, <1>4, <2>1, Zenon
<1> HIDE DEF sets, sys
<1>8. rtdata'.output_sets = sets
  BY <1>2
<1>9. \A i \in 1 .. Sets : Kept(sets[i]) /\ sets[i].buffers_cap = 0
  BY EmptyKept DEF sets, EmptySet
<1>10. Total(SpentOn(sets)) = 0
  <2>1. PICK a : a = SpentOn(sets)
    BY Zenon
  <2>2. a \in Seq(Nat) /\ Len(a) = Sets
    BY <1>9, <2>1, SpentTypes, Zenon
  <2>3. \A i \in 1 .. Sets : a[i] = 0
    BY <1>9, <2>1, Zenon DEF SpentOn, Spent
  <2>4. PICK p : p = [k \in 1 .. Sets + 1 |-> 0]
    BY Zenon
  <2>5. p[1] = 0 /\ p[Sets + 1] = 0 /\ \A i \in 1 .. Sets : p[i + 1] = p[i] + a[i]
    BY <1>5, <2>3, <2>4
  <2>6. Total(a) = p[Len(a) + 1]
    BY <2>2, <2>5, TotalIs, Zenon
  <2> QED
    BY <2>1, <2>2, <2>5, <2>6, Zenon
<1>11. taken' = Len(given') + Len(sysdata'.input_bufs) + Sets + Total(SpentOn(rtdata'.output_sets))
  <2>1. taken' = Len(given) + Total(Lens(given)) + Sets + 0
    BY <1>5, <1>6, <1>7
  <2> QED
    BY <1>2, <1>4, <1>8, <1>10, <2>1, Zenon
<1>12. \A i \in 1 .. Sets : Roomy(rtdata'.output_sets[i])
  BY <1>8, <1>9, Zenon DEF Roomy
<1>13. Len(given') \in Nat /\ Len(sysdata'.input_bufs) \in Nat
  BY <1>2, <1>4, <1>5, <1>6, Zenon
<1> QED
  BY <1>11, <1>12, <1>13, Zenon DEF GrowInv, SpentOn

(* Every step keeps the account.                                           *)
LEMMA StepGrows == IInv /\ InputInv /\ GrowInv /\ [Next]_vars => GrowInv'
<1> SUFFICES ASSUME IInv, InputInv, GrowInv, [Next]_vars PROVE GrowInv'
  BY Zenon
<1>1. CASE dandelion_init
  BY <1>1, InitGrows, Zenon
<1>2. CASE \E i \in 1 .. Sets + 1, buf \in Buffers : dandelion_add_output(i, buf)
  <2>1. PICK i \in 1 .. Sets + 1, buf \in Buffers : dandelion_add_output(i, buf)
    BY <1>2, Zenon
  <2>2. CASE UNCHANGED vars
    BY <2>2, Zenon DEF GrowInv, vars, SpentOn
  <2>3. CASE status' = "crashed"
    BY <2>3, Zenon DEF GrowInv
  <2>4. CASE ~UNCHANGED vars /\ status' # "crashed"
    <3>1. PICK old : old = rtdata.output_sets[i]
      BY Zenon
    <3>2. /\ status = "running" /\ i \in 1 .. Sets
          /\ \/ Store(i, old, buf) /\ taken' = taken
             \/ /\ old.buffers_len = old.buffers_cap /\ Store(i, Grown(old), buf)
                /\ taken' = taken + NewCap(old.buffers_cap)
      BY <2>1, <2>4, <3>1, Zenon DEF dandelion_add_output
    <3>3. Adds(i, buf)
      <4>1. status' # "exited" /\ status' # "aborted"
        <5>1. \E set : Store(i, set, buf)
          BY <3>2, Zenon
        <5> QED
          BY <5>1 DEF Store
      <4> QED
        BY <2>1, <2>4, <4>1, AddStep, Zenon DEF Fails
    <3>4. Kept(old) /\ old.buffers_cap \in Nat
      BY <3>1, <3>2, Zenon DEF IInv, Kept, Records
    <3>5. CASE Store(i, old, buf) /\ taken' = taken
      <4>1. PICK more : more = 0
        BY Zenon
      <4>2. more \in Nat /\ taken' = taken + more
        <5>1. taken \in Nat
          <6>1. PICK t : t = Total(SpentOn(rtdata.output_sets))
            BY Zenon
          <6>2. t \in Nat
            BY <6>1, SpentTypes, TotalTypes, Zenon DEF IInv
          <6>3. /\ Len(given) \in Nat /\ Len(sysdata.input_bufs) \in Nat /\ Sets \in Nat
                /\ taken = Len(given) + Len(sysdata.input_bufs) + Sets + t
            BY <3>2, <6>1, IoAssumption, Zenon DEF GrowInv
          <6> QED
            BY <6>2, <6>3
        <5> QED
          BY <3>5, <4>1, <5>1
      <4> QED
        BY <3>1, <3>2, <3>3, <3>5, <4>1, <4>2, AddGrows, Zenon
    <3>6. CASE /\ old.buffers_len = old.buffers_cap /\ Store(i, Grown(old), buf)
               /\ taken' = taken + NewCap(old.buffers_cap)
      <4>1. PICK more : more = NewCap(old.buffers_cap)
        BY Zenon
      <4>2. more \in Nat
        BY <3>4, <4>1 DEF NewCap
      <4>3. PICK set : set = Grown(old)
        BY Zenon
      <4> QED
        BY <3>1, <3>2, <3>3, <3>6, <4>1, <4>2, <4>3, AddGrows, Zenon
    <3> QED
      BY <3>2, <3>5, <3>6, Zenon
  <2> QED
    BY <2>2, <2>3, <2>4, Zenon
<1>3. CASE \E exit_code \in {0, 1} : dandelion_exit(exit_code)
  <2>1. \E sys : __dandelion_platform_exit(sys)
    BY <1>3, Zenon DEF dandelion_exit
  <2>2. status' # "running"
    BY <2>1, PlatformExits
  <2> QED
    BY <2>2, Zenon DEF GrowInv
<1>4. CASE UNCHANGED vars
  BY <1>4, Zenon DEF GrowInv, vars, SpentOn
<1> QED
  BY <1>1, <1>2, <1>3, <1>4, Zenon DEF Next

(* The larger of two numbers.                                              *)
LEMMA MaxOfTwo ==
  ASSUME NEW x \in Int, NEW y \in Int
  PROVE  Max({x, y}) \in Int /\ x <= Max({x, y}) /\ y <= Max({x, y})
<1>1. \E m \in {x, y} : \A z \in {x, y} : m >= z
  OBVIOUS
<1>2. /\ Max({x, y}) \in {x, y} /\ \A z \in {x, y} : Max({x, y}) >= z
  BY <1>1, Zenon DEF Max
<1> QED
  BY <1>2

(* With the account, the bound holds: an array is less than twice as long  *)
(* as what it holds, and less than that was taken before it.               *)
LEMMA AccountBounds == IInv /\ GrowInv => GrowthBounded
<1> SUFFICES ASSUME IInv, GrowInv, status = "running" PROVE GrowthBounded
  BY Zenon DEF GrowthBounded
<1> DEFINE Bound(set) == Max({0, 4 * set.buffers_len - 3})
<1>1. PICK sets : sets = rtdata.output_sets
  BY Zenon
<1>2. \A i \in 1 .. Sets : Kept(sets[i]) /\ Roomy(sets[i])
  BY <1>1, Zenon DEF IInv, GrowInv
<1>3. ASSUME NEW i \in 1 .. Sets
      PROVE  Bound(sets[i]) \in Nat /\ Spent(sets[i]) <= Bound(sets[i])
  <2>1. PICK len : len = sets[i].buffers_len
    BY Zenon
  <2>2. PICK cap : cap = sets[i].buffers_cap
    BY Zenon
  <2>3. len \in Nat /\ cap \in Nat /\ (cap = 0 \/ cap <= 2 * len - 1)
    BY <1>2, <2>1, <2>2, Zenon DEF Kept, Records, Roomy
  <2>4. PICK y : y = 4 * len - 3
    BY Zenon
  <2>5. y \in Int /\ 0 \in Int
    BY <2>3, <2>4
  <2>6. PICK m : m = Max({0, y})
    BY Zenon
  <2>7. m \in Int /\ 0 <= m /\ y <= m
    BY <2>5, <2>6, MaxOfTwo
  <2>8. m = Bound(sets[i])
    BY <2>1, <2>4, <2>6, Zenon
  <2>9. m \in Nat /\ Spent(sets[i]) <= m
    BY <2>2, <2>3, <2>4, <2>7 DEF Spent
  <2> QED
    BY <2>8, <2>9, Zenon
<1> HIDE DEF Bound
<1>4. PICK b : b = [i \in 1 .. Sets |-> Bound(sets[i])]
  BY Zenon
<1>5. PICK a : a = SpentOn(sets)
  BY Zenon
<1>6. a \in Seq(Nat) /\ Len(a) = Sets /\ Sets \in Nat
  BY <1>2, <1>5, SpentTypes, IoAssumption, Zenon
<1>7. b \in Seq(Nat) /\ Len(b) = Sets
  BY <1>3, <1>4, <1>6
<1>8. \A i \in 1 .. Sets : a[i] <= b[i]
  BY <1>3, <1>4, <1>5, Zenon DEF SpentOn
<1>9. Total(a) <= Total(b)
  <2>1. Len(b) = Len(a) /\ \A i \in 1 .. Len(a) : a[i] <= b[i]
    BY <1>6, <1>7, <1>8, Zenon
  <2> QED
    BY <1>6, <1>7, <2>1, TotalMonotone, Zenon
<1>10. Total(a) \in Nat /\ Total(b) \in Nat
  BY <1>6, <1>7, TotalTypes, Zenon
<1>11. PICK x : x = Len(given) + Len(sysdata.input_bufs) + Sets
  BY Zenon
<1>12. x \in Nat /\ taken = x + Total(a)
  <2>1. Len(given) \in Nat /\ Len(sysdata.input_bufs) \in Nat
    BY Zenon DEF GrowInv
  <2>2. taken = x + Total(a)
    BY <1>1, <1>5, <1>11, Zenon DEF GrowInv
  <2> QED
    BY <1>6, <1>11, <2>1, <2>2
<1>13. taken <= x + Total(b)
  BY <1>9, <1>10, <1>12
<1> QED
  BY <1>1, <1>4, <1>11, <1>13, Zenon DEF GrowthBounded, Bound

(* Although dandelion_add_output never frees an array it has outgrown, all *)
(* the memory a running program has taken for a set, whatever it outputs   *)
(* and in whatever order, stays below four times the buffers in the set.   *)
THEOREM GrowthAlwaysBounded == Spec => []GrowthBounded
<1>1. Init => InputInv
  BY Zenon DEF Init, InputInv
<1>2. Init => GrowInv
  <2>1. "start" # "running"
    OBVIOUS
  <2> QED
    BY <2>1, Zenon DEF Init, GrowInv
<1> QED
  BY <1>1, <1>2, InitSound, StepSound, StepInputs, StepGrows, AccountBounds, PTL DEF Spec

-----------------------------------------------------------------------------
(* The files.                                                              *)

(* What is on disk after each of the first n buffers.                      *)
Dumps(w, todo, n) ==
  w = [k \in 0 .. n |-> IF k = 0 THEN <<>> ELSE dump_io_buf(w[k - 1], todo[k])]

(* It exists, so that the recursive definition has a value.                *)
LEMMA DumpsExist ==
  ASSUME NEW N \in Nat, NEW todo
  PROVE  \E w : Dumps(w, todo, N)
<1> DEFINE S == {n \in Nat : \E w : Dumps(w, todo, n - 1)}
<1>1. 1 \in S
  <2>1. Dumps([k \in 0 .. 0 |-> <<>>], todo, 0) /\ 1 - 1 = 0 /\ 1 \in Nat
    BY DEF Dumps
  <2> QED
    BY <2>1, Zenon
<1>2. ASSUME NEW n \in 1 .. (N + 1) - 1, n \in S
      PROVE  n + 1 \in S
  <2>1. PICK w : Dumps(w, todo, n - 1)
    BY <1>2, Zenon
  <2> DEFINE p == [k \in 0 .. n |-> IF k = n THEN dump_io_buf(w[n - 1], todo[n]) ELSE w[k]]
  <2>2. ASSUME NEW k \in 0 .. n
        PROVE  p[k] = IF k = 0 THEN <<>> ELSE dump_io_buf(p[k - 1], todo[k])
    <3>1. n \in Nat /\ n # 0
      OBVIOUS
    <3>2. CASE k = n
      <4>1. n - 1 \in 0 .. n /\ n - 1 # n /\ n \in 0 .. n
        BY <3>1
      <4>2. p[n - 1] = w[n - 1] /\ p[n] = dump_io_buf(w[n - 1], todo[n])
        BY <4>1, Zenon
      <4> HIDE DEF p
      <4> QED
        BY <3>1, <3>2, <4>2, Zenon
    <3>3. CASE k # n
      <4>1. k \in 0 .. n - 1 /\ (k # 0 => k - 1 \in 0 .. n /\ k - 1 # n)
        BY <3>1, <3>3
      <4>2. w[k] = IF k = 0 THEN <<>> ELSE dump_io_buf(w[k - 1], todo[k])
        BY <2>1, <4>1, Zenon DEF Dumps
      <4>3. p[k] = w[k] /\ (k # 0 => p[k - 1] = w[k - 1])
        BY <3>3, <4>1, Zenon
      <4> HIDE DEF p
      <4> QED
        BY <4>2, <4>3, Zenon
    <3> QED
      BY <3>2, <3>3, Zenon
  <2>3. Dumps(p, todo, n)
    BY <2>2, Zenon DEF Dumps
  <2>4. (n + 1) - 1 = n /\ n + 1 \in Nat
    OBVIOUS
  <2> QED
    BY <2>3, <2>4, Zenon
<1>3. N + 1 \in Nat /\ N + 1 \in 1 .. N + 1 /\ (N + 1) - 1 = N
  OBVIOUS
<1>4. 1 .. N + 1 \subseteq S
  <2> HIDE DEF S
  <2> QED
    BY <1>1, <1>2, <1>3, Inductive, Zenon
<1>5. N + 1 \in S
  BY <1>3, <1>4, Zenon
<1> QED
  BY <1>3, <1>5, Zenon

(* A buffer in the order of the dump, and the file it becomes.             *)
Named(e) == e[2].ident # NoIdent

NameOf(e) == <<e[1], e[2].ident>>

(* There is a file for every name among the first n buffers, and it holds  *)
(* what the last of them with this name has.                               *)
LastOf(f, todo, n) ==
  /\ \A x : x \in DOMAIN f <=> \E m \in 1 .. n : Named(todo[m]) /\ x = NameOf(todo[m])
  /\ \A m \in 1 .. n :
       (Named(todo[m]) /\ \A k \in m + 1 .. n : Named(todo[k]) => NameOf(todo[k]) # NameOf(todo[m]))
         => f[NameOf(todo[m])] = todo[m][2].data

(* One more buffer.                                                        *)
LEMMA DumpOne ==
  ASSUME NEW f, NEW todo, NEW n \in Nat, LastOf(f, todo, n)
  PROVE  LastOf(dump_io_buf(f, todo[n + 1]), todo, n + 1)
<1> DEFINE e == todo[n + 1]
           g == dump_io_buf(f, e)
<1>1. /\ n + 1 \in 1 .. n + 1 /\ 1 .. n \subseteq 1 .. n + 1
      /\ \A m \in 1 .. n + 1 : m # n + 1 => m \in 1 .. n
      /\ \A m \in 1 .. n : m # n + 1 /\ n + 1 \in m + 1 .. n + 1 /\ m + 1 .. n \subseteq m + 1 .. n + 1
  OBVIOUS
<1>2. /\ \A x : x \in DOMAIN f <=> \E m \in 1 .. n : Named(todo[m]) /\ x = NameOf(todo[m])
      /\ \A m \in 1 .. n :
           (Named(todo[m]) /\ \A k \in m + 1 .. n : Named(todo[k]) => NameOf(todo[k]) # NameOf(todo[m]))
             => f[NameOf(todo[m])] = todo[m][2].data
  BY Zenon DEF LastOf
<1>3. CASE ~Named(e)
  <2>1. g = f
    BY <1>3, Zenon DEF dump_io_buf, Named
  <2> HIDE DEF g
  <2>2. \A x : x \in DOMAIN g <=> \E m \in 1 .. n + 1 : Named(todo[m]) /\ x = NameOf(todo[m])
    BY <1>1, <1>2, <1>3, <2>1, Zenon
  <2>3. ASSUME NEW m \in 1 .. n + 1, Named(todo[m]),
               \A k \in m + 1 .. n + 1 : Named(todo[k]) => NameOf(todo[k]) # NameOf(todo[m])
        PROVE  g[NameOf(todo[m])] = todo[m][2].data
    <3>1. m \in 1 .. n
      BY <1>1, <1>3, <2>3, Zenon
    <3>2. \A k \in m + 1 .. n : k \in m + 1 .. n + 1
      BY <1>1, <3>1, Zenon
    <3> QED
      BY <1>2, <2>1, <2>3, <3>1, <3>2, Zenon
  <2> QED
    BY <2>2, <2>3, Zenon DEF LastOf, g
<1>4. CASE Named(e)
  <2>1. /\ DOMAIN g = DOMAIN f \cup {NameOf(e)}
        /\ g[NameOf(e)] = e[2].data
        /\ \A x \in DOMAIN f : x # NameOf(e) => g[x] = f[x]
    BY <1>4, Zenon DEF dump_io_buf, Named, NameOf
  <2> HIDE DEF g
  <2>2. ASSUME NEW x PROVE x \in DOMAIN g <=> \E m \in 1 .. n + 1 : Named(todo[m]) /\ x = NameOf(todo[m])
    BY <1>1, <1>2, <1>4, <2>1, Zenon
  <2>3. ASSUME NEW m \in 1 .. n + 1, Named(todo[m]),
               \A k \in m + 1 .. n + 1 : Named(todo[k]) => NameOf(todo[k]) # NameOf(todo[m])
        PROVE  g[NameOf(todo[m])] = todo[m][2].data
    <3>1. CASE m = n + 1
      BY <2>1, <3>1, Zenon
    <3>2. CASE m # n + 1
      <4>1. m \in 1 .. n
        BY <1>1, <3>2, Zenon
      <4>2. \A k \in m + 1 .. n : k \in m + 1 .. n + 1
        BY <1>1, <4>1, Zenon
      <4>3. NameOf(e) # NameOf(todo[m]) /\ NameOf(todo[m]) \in DOMAIN f
        BY <1>1, <1>2, <1>4, <2>3, <4>1, Zenon
      <4> QED
        BY <1>2, <2>1, <2>3, <4>1, <4>2, <4>3, Zenon
    <3> QED
      BY <3>1, <3>2, Zenon
  <2> QED
    BY <2>2, <2>3, Zenon DEF LastOf, g
<1> QED
  BY <1>3, <1>4, Zenon

(* After all of them.                                                      *)
LEMMA DumpAll ==
  ASSUME NEW N \in Nat, NEW todo, NEW w, Dumps(w, todo, N)
  PROVE  LastOf(w[N], todo, N)
<1>1. w[0] = <<>> /\ \A k \in 1 .. N : w[k] = dump_io_buf(w[k - 1], todo[k])
  <2>1. 0 \in 0 .. N /\ \A k \in 1 .. N : k \in 0 .. N /\ k # 0
    OBVIOUS
  <2> QED
    BY <2>1, Zenon DEF Dumps
<1> DEFINE S == {n \in Nat : LastOf(w[n - 1], todo, n - 1)}
<1>2. 1 \in S
  <2>1. 1 - 1 = 0 /\ 1 \in Nat /\ DOMAIN <<>> = {} /\ 1 .. 0 = {}
    OBVIOUS
  <2>2. LastOf(w[0], todo, 0)
    BY <1>1, <2>1, Zenon DEF LastOf
  <2> QED
    BY <2>1, <2>2, Zenon
<1>3. ASSUME NEW n \in 1 .. (N + 1) - 1, n \in S
      PROVE  n + 1 \in S
  <2>1. n - 1 \in Nat /\ (n - 1) + 1 = n /\ (n + 1) - 1 = n /\ n + 1 \in Nat /\ n \in 1 .. N
    OBVIOUS
  <2>2. PICK k : k = n - 1
    BY Zenon
  <2>3. LastOf(dump_io_buf(w[k], todo[k + 1]), todo, k + 1)
    BY <1>3, <2>1, <2>2, DumpOne, Zenon
  <2>4. w[n] = dump_io_buf(w[k], todo[k + 1]) /\ k + 1 = n
    BY <1>1, <2>1, <2>2, Zenon
  <2>5. LastOf(w[n], todo, n)
    BY <2>3, <2>4, Zenon
  <2> QED
    BY <2>1, <2>5, Zenon
<1>4. N + 1 \in Nat /\ N + 1 \in 1 .. N + 1 /\ (N + 1) - 1 = N
  OBVIOUS
<1>5. 1 .. N + 1 \subseteq S
  <2> HIDE DEF S
  <2> QED
    BY <1>2, <1>3, <1>4, Inductive, Zenon
<1>6. N + 1 \in S
  BY <1>4, <1>5, Zenon
<1> QED
  BY <1>4, <1>6, Zenon

(* Every place of the flat array belongs to a set.                         *)
LEMMA Covered ==
  ASSUME NEW lens \in Seq(Nat), NEW o, o = Offsets(lens)
  PROVE  \A k \in 1 .. o[Len(lens) + 1] :
           \E i \in 1 .. Len(lens) : \E j \in 1 .. lens[i] : k = o[i] + j
<1> DEFINE N == Len(lens)
           At2(k) == \E i \in 1 .. N : \E j \in 1 .. lens[i] : k = o[i] + j
           S == {n \in 1 .. N + 1 : \A k \in 1 .. o[n] : At2(k)}
<1>1. /\ o \in [1 .. N + 1 -> Nat] /\ o[1] = 0
      /\ \A i \in 1 .. N : o[i + 1] = o[i] + lens[i]
  BY OffsetsGrow, Zenon
<1>2. N \in Nat /\ N + 1 \in Nat /\ (N + 1) - 1 = N /\ N + 1 \in 1 .. N + 1 /\ 1 \in 1 .. N + 1
      /\ 1 .. 0 = {} /\ \A i \in 1 .. N : lens[i] \in Nat
  OBVIOUS
<1> HIDE DEF N
<1>3. 1 \in S
  BY <1>1, <1>2, Zenon
<1>4. ASSUME NEW n \in 1 .. (N + 1) - 1, n \in S PROVE n + 1 \in S
  <2>1. n \in 1 .. N /\ n \in 1 .. N + 1 /\ n + 1 \in 1 .. N + 1
    BY <1>2
  <2>2. o[n] \in Nat /\ lens[n] \in Nat /\ o[n + 1] = o[n] + lens[n]
    BY <1>1, <1>2, <2>1, Zenon
  <2>3. ASSUME NEW k \in 1 .. o[n + 1] PROVE At2(k)
    <3>1. CASE k \in 1 .. o[n]
      BY <1>4, <3>1, Zenon
    <3>2. CASE k \notin 1 .. o[n]
      <4>1. k - o[n] \in 1 .. lens[n] /\ k = o[n] + (k - o[n])
        BY <2>2, <3>2
      <4> QED
        BY <2>1, <4>1, Zenon
    <3> QED
      BY <3>1, <3>2, Zenon
  <2> HIDE DEF At2
  <2> QED
    BY <2>1, <2>3, Zenon
<1>5. 1 .. N + 1 \subseteq S
  <2> HIDE DEF S
  <2> QED
    BY <1>2, <1>3, <1>4, Inductive, Zenon
<1> QED
  BY <1>2, <1>5, Zenon DEF N

(* The sequences one behind the other, as a relation.                      *)
Spread(flat, seqs, o) ==
  /\ Len(flat) = o[Len(seqs) + 1]
  /\ \A i \in 1 .. Len(seqs) : \A j \in 1 .. Len(seqs[i]) : flat[o[i] + j] = seqs[i][j]

(* FlattenSeq spreads the sequences.                                       *)
LEMMA FlattenSpreads ==
  ASSUME NEW S, NEW seqs \in Seq(Seq(S))
  PROVE  FlattenSeq(seqs) \in Seq(S) /\ Spread(FlattenSeq(seqs), seqs, Offsets(Lens(seqs)))
<1>1. PICK o : o = Offsets(Lens(seqs))
  BY Zenon
<1>2. /\ FlattenSeq(seqs) \in Seq(S) /\ Len(FlattenSeq(seqs)) = o[Len(seqs) + 1]
      /\ \A i \in 1 .. Len(seqs) : \A j \in 1 .. Len(seqs[i]) : FlattenSeq(seqs)[o[i] + j] = seqs[i][j]
  BY <1>1, FlattenedAt
<1> QED
  BY <1>1, <1>2, Zenon DEF Spread

(* The platform finds in each set what was output to it.                   *)
Finds(sys, sets) ==
  \A i \in 1 .. Sets : Kept(sets[i]) /\ Published(sys, i) = ListOf(sets[i])

(* The buffers of the sets one after the other.                            *)
InOrder(todo, sets, o) ==
  /\ Len(todo) = o[Sets + 1] /\ Len(todo) \in Nat
  /\ \A i \in 1 .. Sets : \A j \in 1 .. sets[i].buffers_len :
       todo[o[i] + j] = <<i, ListOf(sets[i])[j]>>

(* That is the order in which they are dumped.                             *)
LEMMA TodoIs ==
  ASSUME NEW sets, NEW sys, Finds(sys, sets)
  PROVE  InOrder(Todo(sys), sets, Offsets([i \in 1 .. Sets |-> sets[i].buffers_len]))
<1> DEFINE E == (1 .. Sets) \X Slots
<1>a. \A i \in 1 .. Sets : Kept(sets[i]) /\ Published(sys, i) = ListOf(sets[i])
  BY Zenon DEF Finds
<1>b. PICK o : o = Offsets([i \in 1 .. Sets |-> sets[i].buffers_len])
  BY Zenon
<1>c. PICK todo : todo = Todo(sys)
  BY Zenon
<1>1. PICK seqs : seqs = [i \in 1 .. Sets |-> [j \in DOMAIN ListOf(sets[i]) |-> <<i, ListOf(sets[i])[j]>>]]
  BY Zenon
<1>2. todo = FlattenSeq(seqs)
  <2>1. seqs = [i \in 1 .. Sets |-> [j \in DOMAIN Published(sys, i) |-> <<i, Published(sys, i)[j]>>]]
    BY <1>1, <1>a, Zenon
  <2> QED
    BY <1>c, <2>1, Zenon DEF Todo
<1>3. Sets \in Nat
  BY IoAssumption, Zenon
<1>4. ASSUME NEW i \in 1 .. Sets
      PROVE  /\ seqs[i] \in Seq(E) /\ Len(seqs[i]) = sets[i].buffers_len
             /\ \A j \in 1 .. sets[i].buffers_len : seqs[i][j] = <<i, ListOf(sets[i])[j]>>
  <2>1. PICK l : l = ListOf(sets[i])
    BY Zenon
  <2>2. l \in Seq(Slots) /\ Len(l) = sets[i].buffers_len
    BY <1>a, <2>1, ListElements, Zenon
  <2>3. DOMAIN l = 1 .. Len(l) /\ Len(l) \in Nat /\ \A j \in 1 .. Len(l) : l[j] \in Slots
    BY <2>2
  <2>4. seqs[i] = [j \in 1 .. Len(l) |-> <<i, l[j]>>]
    BY <1>1, <2>1, <2>3, Zenon
  <2>5. \A j \in 1 .. Len(l) : <<i, l[j]>> \in E
    BY <2>3
  <2> HIDE DEF E
  <2>6. seqs[i] \in Seq(E) /\ Len(seqs[i]) = Len(l)
    BY <2>3, <2>4, <2>5
  <2>7. \A j \in 1 .. Len(l) : seqs[i][j] = <<i, l[j]>>
    BY <2>4, Zenon
  <2> QED
    BY <2>1, <2>2, <2>6, <2>7, Zenon
<1> HIDE DEF E
<1>5. seqs \in Seq(Seq(E)) /\ Len(seqs) = Sets
  <2>1. seqs = [i \in 1 .. Sets |-> seqs[i]] /\ \A i \in 1 .. Sets : seqs[i] \in Seq(E)
    BY <1>1, <1>4, Zenon
  <2> QED
    BY <1>3, <2>1
<1>6. Lens(seqs) = [i \in 1 .. Sets |-> sets[i].buffers_len]
  <2>1. DOMAIN seqs = 1 .. Sets
    BY <1>1, Zenon
  <2> QED
    BY <1>4, <2>1, Zenon DEF Lens
<1>7. /\ FlattenSeq(seqs) \in Seq(E) /\ Len(FlattenSeq(seqs)) = o[Len(seqs) + 1]
      /\ \A i \in 1 .. Len(seqs) : \A j \in 1 .. Len(seqs[i]) : FlattenSeq(seqs)[o[i] + j] = seqs[i][j]
  <2>1. o = Offsets(Lens(seqs))
    BY <1>b, <1>6, Zenon
  <2>2. FlattenSeq(seqs) \in Seq(E) /\ Spread(FlattenSeq(seqs), seqs, o)
    BY <1>5, <2>1, FlattenSpreads, Zenon
  <2> QED
    BY <2>2, Zenon DEF Spread
<1>8. Len(todo) \in Nat
  BY <1>2, <1>7
<1>9. ASSUME NEW i \in 1 .. Sets, NEW j \in 1 .. sets[i].buffers_len
      PROVE  todo[o[i] + j] = <<i, ListOf(sets[i])[j]>>
  <2>1. /\ Len(seqs[i]) = sets[i].buffers_len /\ seqs[i][j] = <<i, ListOf(sets[i])[j]>>
    BY <1>4, Zenon
  <2>2. i \in 1 .. Len(seqs) /\ j \in 1 .. Len(seqs[i])
    BY <1>5, <2>1, Zenon
  <2>3. FlattenSeq(seqs)[o[i] + j] = seqs[i][j]
    BY <1>7, <2>2, Zenon
  <2> QED
    BY <1>2, <2>1, <2>3, Zenon
<1>10. Len(todo) = o[Sets + 1]
  BY <1>2, <1>5, <1>7, Zenon
<1> QED
  BY <1>b, <1>c, <1>8, <1>9, <1>10, Zenon DEF InOrder

(* A dump that completes has written all of them.                          *)
LEMMA CompleteDump ==
  ASSUME NEW sys, dump_global_data(sys).complete,
         NEW todo, todo = Todo(sys), Len(todo) \in Nat
  PROVE  LastOf(dump_global_data(sys).files, todo, Len(todo))
<1> DEFINE bad == {k \in DOMAIN todo : todo[k][2].ident \in Nested}
           N   == Len(todo)
<1>1. dump_global_data(sys).complete = (bad = {})
  BY Zenon DEF dump_global_data
<1>2. bad = {}
  BY <1>1, Zenon
<1>3. dump_global_data(sys).files = (CHOOSE w : Dumps(w, todo, N))[N]
  BY <1>2, Zenon DEF dump_global_data, Dumps
<1>4. PICK w : w = CHOOSE v : Dumps(v, todo, N)
  BY Zenon
<1>5. Dumps(w, todo, N)
  BY <1>4, DumpsExist, Zenon
<1> QED
  BY <1>3, <1>4, <1>5, DumpAll, Zenon

(* The files f are the last buffers with a name in each of the sets.       *)
FilesOf(f, sets) ==
  /\ \A x : x \in DOMAIN f <=>
       \E i \in 1 .. Sets : \E j \in 1 .. sets[i].buffers_len :
         ListOf(sets[i])[j].ident # NoIdent /\ x = <<i, ListOf(sets[i])[j].ident>>
  /\ \A i \in 1 .. Sets : \A j \in 1 .. sets[i].buffers_len :
       (/\ ListOf(sets[i])[j].ident # NoIdent
        /\ \A k \in 1 .. sets[i].buffers_len :
             ListOf(sets[i])[k].ident = ListOf(sets[i])[j].ident => k <= j)
         => f[<<i, ListOf(sets[i])[j].ident>>] = ListOf(sets[i])[j].data

(* These are the files of a complete dump.                                 *)
LEMMA DumpedFiles ==
  ASSUME NEW sets, NEW sys, Finds(sys, sets), dump_global_data(sys).complete
  PROVE  FilesOf(dump_global_data(sys).files, sets)
<1>0. PICK f : f = dump_global_data(sys).files
  BY Zenon
<1>a. \A i \in 1 .. Sets : Kept(sets[i])
  BY Zenon DEF Finds
<1>1. PICK lens : lens = [i \in 1 .. Sets |-> sets[i].buffers_len]
  BY Zenon
<1>2. PICK o : o = Offsets(lens)
  BY Zenon
<1>3. PICK todo : todo = Todo(sys)
  BY Zenon
<1>4. PICK N : N = Len(todo)
  BY Zenon
<1>5. /\ N = o[Sets + 1] /\ N \in Nat
      /\ \A i \in 1 .. Sets : \A j \in 1 .. sets[i].buffers_len :
           todo[o[i] + j] = <<i, ListOf(sets[i])[j]>>
  <2>1. o = Offsets([i \in 1 .. Sets |-> sets[i].buffers_len])
    BY <1>1, <1>2, Zenon
  <2>2. /\ Len(todo) = o[Sets + 1] /\ Len(todo) \in Nat
        /\ \A i \in 1 .. Sets : \A j \in 1 .. sets[i].buffers_len :
             todo[o[i] + j] = <<i, ListOf(sets[i])[j]>>
    <3>1. InOrder(Todo(sys), sets, Offsets([i \in 1 .. Sets |-> sets[i].buffers_len]))
      BY TodoIs, Zenon
    <3> QED
      BY <1>3, <2>1, <3>1, Zenon DEF InOrder
  <2> QED
    BY <1>4, <2>2, Zenon
<1>6. LastOf(f, todo, N)
  BY <1>0, <1>3, <1>4, <1>5, CompleteDump, Zenon
<1>7. Sets \in Nat /\ \A i \in 1 .. Sets : sets[i].buffers_len \in Nat
  BY <1>a, IoAssumption, Zenon DEF Kept, Records
<1>8. lens \in Seq(Nat) /\ Len(lens) = Sets /\ \A i \in 1 .. Sets : lens[i] = sets[i].buffers_len
  BY <1>1, <1>7
<1>9. ASSUME NEW k \in 1 .. N
      PROVE  \E i \in 1 .. Sets : \E j \in 1 .. sets[i].buffers_len :
               k = o[i] + j /\ todo[k] = <<i, ListOf(sets[i])[j]>>
  <2>1. \E i \in 1 .. Len(lens) : \E j \in 1 .. lens[i] : k = o[i] + j
    <3>1. k \in 1 .. o[Len(lens) + 1]
      BY <1>5, <1>8, Zenon
    <3> QED
      BY <1>2, <1>8, <3>1, Covered
  <2>2. PICK i \in 1 .. Sets : \E j \in 1 .. sets[i].buffers_len : k = o[i] + j
    BY <1>8, <2>1, Zenon
  <2>3. PICK j \in 1 .. sets[i].buffers_len : k = o[i] + j
    BY <2>2, Zenon
  <2>4. todo[o[i] + j] = <<i, ListOf(sets[i])[j]>>
    BY <1>5, Zenon
  <2>5. k = o[i] + j /\ todo[k] = <<i, ListOf(sets[i])[j]>>
    BY <2>3, <2>4, Zenon
  <2> QED
    BY <2>5, Zenon
<1>10. ASSUME NEW i \in 1 .. Sets, NEW j \in 1 .. sets[i].buffers_len
       PROVE  o[i] \in Nat /\ o[i] + j \in 1 .. N
  <2>1. Running(o, sets)
    BY <1>a, <1>1, <1>2, OffsetsRun, Zenon
  <2>2. i \in 1 .. Sets + 1 /\ i + 1 \in 1 .. Sets + 1 /\ Sets + 1 \in 1 .. Sets + 1
        /\ i + 1 \in 1 .. Sets + 1
    BY <1>7
  <2>3. o[i] \in Nat /\ o[i + 1] = o[i] + sets[i].buffers_len /\ o[i + 1] <= o[Sets + 1]
    BY <2>1, <2>2, Zenon DEF Running
  <2> QED
    BY <1>5, <1>7, <2>3
<1>11. ASSUME NEW i \in 1 .. Sets, NEW j \in 1 .. sets[i].buffers_len
       PROVE  /\ Named(todo[o[i] + j]) <=> ListOf(sets[i])[j].ident # NoIdent
              /\ NameOf(todo[o[i] + j]) = <<i, ListOf(sets[i])[j].ident>>
              /\ todo[o[i] + j][2].data = ListOf(sets[i])[j].data
  <2>1. PICK b : b = ListOf(sets[i])[j]
    BY Zenon
  <2>2. PICK e : e = todo[o[i] + j]
    BY Zenon
  <2>3. e = <<i, b>>
    BY <1>5, <2>1, <2>2, Zenon
  <2>4. e[1] = i /\ e[2] = b
    BY <2>3
  <2> QED
    BY <2>1, <2>2, <2>4, Zenon DEF Named, NameOf
<1>12. ASSUME NEW x
       PROVE  x \in DOMAIN f <=>
                \E i \in 1 .. Sets : \E j \in 1 .. sets[i].buffers_len :
                  ListOf(sets[i])[j].ident # NoIdent /\ x = <<i, ListOf(sets[i])[j].ident>>
  <2>1. x \in DOMAIN f <=> \E m \in 1 .. N : Named(todo[m]) /\ x = NameOf(todo[m])
    BY <1>6, Zenon DEF LastOf
  <2>2. ASSUME NEW m \in 1 .. N, Named(todo[m]), x = NameOf(todo[m])
        PROVE  \E i \in 1 .. Sets : \E j \in 1 .. sets[i].buffers_len :
                 ListOf(sets[i])[j].ident # NoIdent /\ x = <<i, ListOf(sets[i])[j].ident>>
    <3>1. PICK i \in 1 .. Sets : \E j \in 1 .. sets[i].buffers_len : m = o[i] + j
      BY <1>9, Zenon
    <3>2. PICK j \in 1 .. sets[i].buffers_len : m = o[i] + j
      BY <3>1, Zenon
    <3>3. ListOf(sets[i])[j].ident # NoIdent /\ x = <<i, ListOf(sets[i])[j].ident>>
      BY <1>11, <2>2, <3>2, Zenon
    <3> QED
      BY <3>3, Zenon
  <2>3. ASSUME NEW i \in 1 .. Sets, NEW j \in 1 .. sets[i].buffers_len,
               ListOf(sets[i])[j].ident # NoIdent, x = <<i, ListOf(sets[i])[j].ident>>
        PROVE  \E m \in 1 .. N : Named(todo[m]) /\ x = NameOf(todo[m])
    BY <1>10, <1>11, <2>3, Zenon
  <2> QED
    BY <2>1, <2>2, <2>3, Zenon
<1>13. ASSUME NEW i \in 1 .. Sets, NEW j \in 1 .. sets[i].buffers_len,
              ListOf(sets[i])[j].ident # NoIdent,
              \A k \in 1 .. sets[i].buffers_len :
                ListOf(sets[i])[k].ident = ListOf(sets[i])[j].ident => k <= j
       PROVE  f[<<i, ListOf(sets[i])[j].ident>>] = ListOf(sets[i])[j].data
  <2>1. PICK m : m = o[i] + j
    BY Zenon
  <2>2. /\ m \in 1 .. N /\ Named(todo[m]) /\ NameOf(todo[m]) = <<i, ListOf(sets[i])[j].ident>>
        /\ todo[m][2].data = ListOf(sets[i])[j].data
    BY <1>10, <1>11, <1>13, <2>1, Zenon
  <2>3. ASSUME NEW k \in m + 1 .. N, Named(todo[k]), NameOf(todo[k]) = NameOf(todo[m])
        PROVE  FALSE
    <3>1. k \in 1 .. N /\ k > m
      BY <2>2
    <3>2. PICK a \in 1 .. Sets : \E b \in 1 .. sets[a].buffers_len : k = o[a] + b
      BY <1>9, <3>1, Zenon
    <3>3. PICK b \in 1 .. sets[a].buffers_len : k = o[a] + b
      BY <3>2, Zenon
    <3>4. NameOf(todo[k]) = <<a, ListOf(sets[a])[b].ident>>
      BY <1>11, <3>3, Zenon
    <3>5. a = i /\ ListOf(sets[a])[b].ident = ListOf(sets[i])[j].ident
      <4>1. <<a, ListOf(sets[a])[b].ident>> = <<i, ListOf(sets[i])[j].ident>>
        BY <2>2, <2>3, <3>4, Zenon
      <4> QED
        BY <4>1, Zenon
    <3>6. b <= j
      BY <1>13, <3>3, <3>5, Zenon
    <3>7. o[i] \in Nat /\ k = o[i] + b /\ b \in Nat /\ j \in Nat
      BY <1>7, <1>10, <3>3, <3>5
    <3> QED
      BY <2>1, <3>1, <3>6, <3>7
  <2>4. f[NameOf(todo[m])] = todo[m][2].data
    BY <1>6, <2>2, <2>3, Zenon DEF LastOf
  <2> QED
    BY <2>2, <2>4, Zenon
<1> QED
  BY <1>0, <1>12, <1>13, Zenon DEF FilesOf

(* No set has more buffers than all sets together.                         *)
LEMMA OutputsCounted ==
  ASSUME NEW sets, \A i \in 1 .. Sets : Kept(sets[i]),
         NEW n, n = Total([i \in 1 .. Sets |-> sets[i].buffers_len]), NEW i \in 1 .. Sets
  PROVE  n \in Nat /\ 1 .. sets[i].buffers_len \subseteq 1 .. n
<1>1. PICK lens : lens = [k \in 1 .. Sets |-> sets[k].buffers_len]
  BY Zenon
<1>2. PICK o : o = Offsets(lens)
  BY Zenon
<1>3. Running(o, sets)
  BY <1>1, <1>2, OffsetsRun, Zenon
<1>4. Sets \in Nat /\ sets[i].buffers_len \in Nat
  BY IoAssumption, Zenon DEF Kept, Records
<1>5. Len(lens) = Sets
  BY <1>1, <1>4
<1>6. n = o[Sets + 1]
  BY <1>1, <1>2, <1>5, Zenon DEF Total
<1>7. i \in 1 .. Sets + 1 /\ i + 1 \in 1 .. Sets + 1 /\ Sets + 1 \in 1 .. Sets + 1
  BY <1>4
<1>8. o[i] \in Nat /\ o[i + 1] = o[i] + sets[i].buffers_len /\ o[i + 1] <= o[Sets + 1] /\ o[Sets + 1] \in Nat
  BY <1>3, <1>7, Zenon DEF Running
<1> QED
  BY <1>4, <1>6, <1>8

(* What holds at the end of the process.                                   *)
DumpInv ==
  (status = "exited" /\ sysdata.exit_code # DANDELION_OOM) => FilesOf(files, rtdata.output_sets)

(* dandelion_exit leaves the files of a complete dump.                     *)
LEMMA StepDumps == IInv /\ DumpInv /\ [Next]_vars => DumpInv'
<1> SUFFICES ASSUME IInv, DumpInv, [Next]_vars, status' = "exited", sysdata'.exit_code # DANDELION_OOM
             PROVE  FilesOf(files', rtdata'.output_sets)
  BY Zenon DEF DumpInv, FilesOf
<1>1. CASE UNCHANGED vars
  <2>1. files' = files /\ rtdata' = rtdata /\ sysdata' = sysdata /\ status' = status
    BY <1>1, Zenon DEF vars
  <2>2. FilesOf(files, rtdata.output_sets)
    BY <2>1, Zenon DEF DumpInv
  <2> QED
    BY <2>1, <2>2, Zenon
<1>2. CASE ~UNCHANGED vars
  <2>1. Publishes
    <3>1. "exited" # "running" /\ "exited" # "crashed"
      OBVIOUS
    <3> QED
      BY <1>2, <3>1, StepOutcome, Zenon DEF Quiet, Adds, Fails
  <2>2. \E sys : __dandelion_platform_exit(sys)
    <3>1. status' # "crashed" /\ status' # "running" /\ status' # "overrun" /\ status # "start"
      BY <2>1 DEF Publishes
    <3>2. ~dandelion_init
      BY <3>1, Zenon DEF dandelion_init
    <3>3. ASSUME NEW i, NEW buf, dandelion_add_output(i, buf) PROVE FALSE
      BY <1>2, <3>1, <3>3, Zenon DEF dandelion_add_output, Store
    <3>4. \E exit_code \in {0, 1} : dandelion_exit(exit_code)
      BY <1>2, <3>2, <3>3, Zenon DEF Next
    <3> QED
      BY <3>4, Zenon DEF dandelion_exit
  <2>3. PICK sys : __dandelion_platform_exit(sys)
    BY <2>2, Zenon
  <2>4. sysdata' = sys /\ files' = dump_global_data(sys).files /\ dump_global_data(sys).complete
    <3>1. "exited" # "aborted"
      OBVIOUS
    <3> QED
      BY <2>3, <3>1, Zenon DEF __dandelion_platform_exit
  <2>5. PICK sets : sets = rtdata.output_sets
    BY Zenon
  <2>6. rtdata'.output_sets = sets /\ \A i \in 1 .. Sets : Kept(sets[i]) /\ Published(sys, i) = ListOf(sets[i])
    BY <2>1, <2>4, <2>5, Zenon DEF Publishes, IInv
  <2>7. Finds(sys, sets)
    BY <2>6, Zenon DEF Finds
  <2>8. FilesOf(dump_global_data(sys).files, sets)
    BY <2>4, <2>7, DumpedFiles, Zenon
  <2> QED
    BY <2>4, <2>6, <2>8, Zenon
<1> QED
  BY <1>1, <1>2, Zenon

(* That is what DumpedLast says of them.                                   *)
LEMMA FilesAreLast == IInv /\ DumpInv => DumpedLast
<1> SUFFICES ASSUME IInv, FilesOf(files, rtdata.output_sets) PROVE DumpedLast
  BY Zenon DEF DumpInv, DumpedLast
<1>1. PICK sets : sets = rtdata.output_sets
  BY Zenon
<1>2. FilesOf(files, sets) /\ \A i \in 1 .. Sets : Kept(sets[i])
  BY <1>1, Zenon DEF IInv
<1>3. PICK n : n = Outputs
  BY Zenon
<1>4. n = Total([i \in 1 .. Sets |-> sets[i].buffers_len])
  BY <1>1, <1>3, Zenon DEF Outputs
<1> DEFINE named == {x \in (1 .. Sets) \X (1 .. Outputs) :
                       x[2] \in DOMAIN Listed(x[1]) /\ Listed(x[1])[x[2]].ident # NoIdent}
           name(x) == <<x[1], Listed(x[1])[x[2]].ident>>
<1>5. ASSUME NEW i \in 1 .. Sets
      PROVE  /\ Listed(i) = ListOf(sets[i]) /\ DOMAIN Listed(i) = 1 .. sets[i].buffers_len
             /\ 1 .. sets[i].buffers_len \subseteq 1 .. n
  <2>1. Listed(i) = ListOf(sets[i])
    BY <1>1, Zenon DEF Listed, ListOf
  <2>2. ListOf(sets[i]) \in Seq(Slots) /\ Len(ListOf(sets[i])) = sets[i].buffers_len
    BY <1>2, ListElements, Zenon
  <2>3. DOMAIN ListOf(sets[i]) = 1 .. sets[i].buffers_len
    BY <2>2
  <2>4. 1 .. sets[i].buffers_len \subseteq 1 .. n
    BY <1>2, <1>4, OutputsCounted, Zenon
  <2> QED
    BY <2>1, <2>3, <2>4, Zenon
<1>6. ASSUME NEW i \in 1 .. Sets, NEW j \in 1 .. sets[i].buffers_len, ListOf(sets[i])[j].ident # NoIdent
      PROVE  /\ <<i, j>> \in named /\ name(<<i, j>>) = <<i, ListOf(sets[i])[j].ident>>
             /\ <<i, j>>[2] = j
  <2>1. PICK x : x = <<i, j>>
    BY Zenon
  <2>2. x[1] = i /\ x[2] = j
    BY <2>1
  <2>3. x \in (1 .. Sets) \X (1 .. Outputs)
    BY <1>3, <1>5, <2>1, Zenon
  <2>4. x \in named /\ name(x) = <<i, ListOf(sets[i])[j].ident>>
    BY <1>5, <1>6, <2>2, <2>3, Zenon
  <2> HIDE DEF named, name
  <2> QED
    BY <2>1, <2>2, <2>4, Zenon
<1>7. ASSUME NEW x \in named
      PROVE  /\ x[1] \in 1 .. Sets /\ x[2] \in 1 .. sets[x[1]].buffers_len
             /\ ListOf(sets[x[1]])[x[2]].ident # NoIdent
             /\ name(x) = <<x[1], ListOf(sets[x[1]])[x[2]].ident>>
             /\ Listed(x[1])[x[2]].data = ListOf(sets[x[1]])[x[2]].data
  <2>1. x[1] \in 1 .. Sets
    OBVIOUS
  <2>2. x[2] \in DOMAIN Listed(x[1]) /\ Listed(x[1])[x[2]].ident # NoIdent
    BY Zenon
  <2> QED
    BY <1>5, <2>1, <2>2, Zenon
<1> HIDE DEF named, name
<1>8. DOMAIN files = {name(x) : x \in named}
  <2>1. ASSUME NEW y \in DOMAIN files PROVE y \in {name(x) : x \in named}
    <3>0. \A x : x \in DOMAIN files <=>
             \E i \in 1 .. Sets : \E j \in 1 .. sets[i].buffers_len :
               ListOf(sets[i])[j].ident # NoIdent /\ x = <<i, ListOf(sets[i])[j].ident>>
      BY <1>2, Zenon DEF FilesOf
    <3>1. PICK i \in 1 .. Sets : \E j \in 1 .. sets[i].buffers_len :
            ListOf(sets[i])[j].ident # NoIdent /\ y = <<i, ListOf(sets[i])[j].ident>>
      BY <3>0, Zenon
    <3>2. PICK j \in 1 .. sets[i].buffers_len :
            ListOf(sets[i])[j].ident # NoIdent /\ y = <<i, ListOf(sets[i])[j].ident>>
      BY <3>1, Zenon
    <3>3. <<i, j>> \in named /\ y = name(<<i, j>>)
      BY <1>6, <3>2, Zenon
    <3> QED
      BY <3>3, Zenon
  <2>2. ASSUME NEW x \in named PROVE name(x) \in DOMAIN files
    BY <1>2, <1>7, Zenon DEF FilesOf
  <2> QED
    BY <2>1, <2>2, Zenon
<1>9. ASSUME NEW x \in named, \A y \in named : name(y) = name(x) => y[2] <= x[2]
      PROVE  files[name(x)] = Listed(x[1])[x[2]].data
  <2>1. PICK i : i = x[1]
    BY Zenon
  <2>2. PICK j : j = x[2]
    BY Zenon
  <2>3. /\ i \in 1 .. Sets /\ j \in 1 .. sets[i].buffers_len /\ ListOf(sets[i])[j].ident # NoIdent
        /\ name(x) = <<i, ListOf(sets[i])[j].ident>>
        /\ Listed(x[1])[x[2]].data = ListOf(sets[i])[j].data
    BY <1>7, <2>1, <2>2, Zenon
  <2>4. ASSUME NEW k \in 1 .. sets[i].buffers_len,
               ListOf(sets[i])[k].ident = ListOf(sets[i])[j].ident
        PROVE  k <= j
    <3>1. ListOf(sets[i])[k].ident # NoIdent
      BY <2>3, <2>4, Zenon
    <3>2. PICK y : y = <<i, k>>
      BY Zenon
    <3>3. y \in named /\ name(y) = <<i, ListOf(sets[i])[k].ident>> /\ y[2] = k
      BY <1>6, <2>3, <3>1, <3>2, Zenon
    <3>4. name(y) = name(x)
      BY <2>3, <2>4, <3>3, Zenon
    <3> QED
      BY <1>9, <2>2, <3>3, <3>4, Zenon
  <2>5. files[<<i, ListOf(sets[i])[j].ident>>] = ListOf(sets[i])[j].data
    BY <1>2, <2>3, <2>4, Zenon DEF FilesOf
  <2> QED
    BY <2>3, <2>5, Zenon
<1> QED
  BY <1>8, <1>9, Zenon DEF DumpedLast, named, name

(* When the process ends without an error, output_sets/ has exactly a file *)
(* for every ident that was output, with the data output last under it in  *)
(* its set: through the growing arrays of dandelion_add_output, the flat   *)
(* array of dandelion_exit and the loop of the dump nothing is lost, mixed *)
(* up between sets or overtaken by something older.                        *)
THEOREM LastAlwaysDumped == Spec => []DumpedLast
<1>1. Init => DumpInv
  <2>1. "start" # "exited"
    OBVIOUS
  <2> QED
    BY <2>1, Zenon DEF Init, DumpInv
<1> QED
  BY <1>1, InitSound, StepSound, StepDumps, FilesAreLast, PTL DEF Spec
=============================================================================
