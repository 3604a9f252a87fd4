--------------------------- MODULE PthreadProofs ---------------------------
(***************************************************************************)
(* Proofs about module Pthread, for any mutexes, once controls, values and *)
(* bounds: the invariants, that init routines run once, and that the list  *)
(* of keys implements KeyTable.                                            *)
(***************************************************************************)
EXTENDS Pthread, SequenceTheorems, FiniteSetTheorems, TLAPS

-----------------------------------------------------------------------------
(* Minima and sequences.                                                   *)

(* Min finds the least element of a set of numbers.                        *)
LEMMA MinIsLeast ==
  ASSUME NEW S \in SUBSET Nat, S # {}
  PROVE  Min(S) \in S /\ \A y \in S : Min(S) <= y
<1>1. PICK x \in S : \A y \in S : <<y, x>> \notin OpToRel(<, Nat)
  BY NatLessThanWellFounded, WFMin, Zenon
<1>2. \A y \in S : ~(y < x)
  BY <1>1, Zenon DEF OpToRel
<1>3. \A y \in S : x <= y
  BY <1>2
<1> QED
  BY <1>3, Zenon DEF Min

(* What InsertAt leaves at each position.                                  *)
LEMMA InsertAtElements ==
  ASSUME NEW S, NEW s \in Seq(S), NEW e \in S, NEW i \in 1 .. Len(s) + 1
  PROVE  /\ InsertAt(s, i, e) \in Seq(S)
         /\ Len(InsertAt(s, i, e)) = Len(s) + 1
         /\ \A j \in 1 .. Len(s) + 1 :
              InsertAt(s, i, e)[j] = IF j < i THEN s[j] ELSE IF j = i THEN e ELSE s[j - 1]
<1> DEFINE front == SubSeq(s, 1, i - 1)
           back == SubSeq(s, i, Len(s))
           mid == front \o <<e>>
<1>1. Len(s) \in Nat /\ \A j \in 1 .. Len(s) : s[j] \in S
  BY LenProperties, Zenon
<1>2. /\ front \in Seq(S) /\ Len(front) = i - 1
      /\ \A j \in 1 .. i - 1 : front[j] = s[j]
  BY <1>1, SubSeqProperties
<1>3. /\ back \in Seq(S) /\ Len(back) = Len(s) - i + 1
      /\ \A j \in 1 .. Len(s) - i + 1 : back[j] = s[i + j - 1]
  BY <1>1, SubSeqProperties
<1>4. <<e>> \in Seq(S) /\ Len(<<e>>) = 1 /\ <<e>>[1] = e
  OBVIOUS
<1> HIDE DEF front, back
<1>5. /\ mid \in Seq(S) /\ Len(mid) = i
      /\ \A j \in 1 .. i : mid[j] = IF j < i THEN s[j] ELSE e
  BY <1>1, <1>2, <1>4, ConcatProperties
<1> HIDE DEF mid
<1>6. /\ mid \o back \in Seq(S) /\ Len(mid \o back) = Len(s) + 1
      /\ \A j \in 1 .. Len(s) + 1 :
           (mid \o back)[j] = IF j <= i THEN mid[j] ELSE back[j - i]
  <2>1. Len(mid) + Len(back) = Len(s) + 1
    BY <1>1, <1>3, <1>5
  <2>2. /\ mid \o back \in Seq(S) /\ Len(mid \o back) = Len(mid) + Len(back)
        /\ \A j \in 1 .. Len(mid) + Len(back) :
             (mid \o back)[j] = IF j <= Len(mid) THEN mid[j] ELSE back[j - Len(mid)]
    BY <1>3, <1>5, ConcatProperties, Zenon
  <2> QED
    BY <2>1, <2>2, <1>5, Zenon
<1>7. \A j \in 1 .. Len(s) + 1 :
        (mid \o back)[j] = IF j < i THEN s[j] ELSE IF j = i THEN e ELSE s[j - 1]
  BY <1>1, <1>3, <1>5, <1>6
<1> QED
  BY <1>6, <1>7, Zenon DEF InsertAt, mid, front, back

(* What RemoveAt leaves at each position.                                  *)
LEMMA RemoveAtElements ==
  ASSUME NEW S, NEW s \in Seq(S), NEW i \in 1 .. Len(s)
  PROVE  /\ RemoveAt(s, i) \in Seq(S)
         /\ Len(RemoveAt(s, i)) = Len(s) - 1
         /\ \A j \in 1 .. Len(s) - 1 : RemoveAt(s, i)[j] = IF j < i THEN s[j] ELSE s[j + 1]
<1> DEFINE front == SubSeq(s, 1, i - 1)
           back == SubSeq(s, i + 1, Len(s))
<1>1. Len(s) \in Nat /\ \A j \in 1 .. Len(s) : s[j] \in S
  BY LenProperties, Zenon
<1>2. /\ front \in Seq(S) /\ Len(front) = i - 1
      /\ \A j \in 1 .. i - 1 : front[j] = s[j]
  BY <1>1, SubSeqProperties
<1>3. /\ back \in Seq(S) /\ Len(back) = Len(s) - i
      /\ \A j \in 1 .. Len(s) - i : back[j] = s[i + j]
  BY <1>1, SubSeqProperties
<1> HIDE DEF front, back
<1>4. /\ front \o back \in Seq(S) /\ Len(front \o back) = Len(s) - 1
      /\ \A j \in 1 .. Len(s) - 1 :
           (front \o back)[j] = IF j <= i - 1 THEN front[j] ELSE back[j - (i - 1)]
  BY <1>1, <1>2, <1>3, ConcatProperties, SMTT(30)
<1>5. ASSUME NEW j \in 1 .. Len(s) - 1
      PROVE  (front \o back)[j] = IF j < i THEN s[j] ELSE s[j + 1]
  <2>1. CASE j < i
    BY <1>1, <1>2, <1>4, <2>1
  <2>2. CASE ~(j < i)
    <3>1. (front \o back)[j] = back[j - (i - 1)] /\ j - (i - 1) \in 1 .. Len(s) - i
      BY <1>1, <1>4, <2>2
    <3>2. back[j - (i - 1)] = s[i + (j - (i - 1))]
      BY <1>3, <3>1, Zenon
    <3>3. i + (j - (i - 1)) = j + 1
      BY <1>1
    <3> QED
      BY <3>1, <3>2, <3>3, <2>2, Zenon
  <2> QED
    BY <2>1, <2>2, Zenon
<1> QED
  BY <1>4, <1>5, Zenon DEF RemoveAt, front, back

-----------------------------------------------------------------------------
(* Lists of keys and the tables they stand for.                            *)

Entries == [key: Nat, content: Values \cup {NoValue}]

Sorted(s) == \A i, j \in 1 .. Len(s) : i < j => s[i].key < s[j].key

KeysOf(s) == {s[i].key : i \in DOMAIN s}

TableOf(s) == [k \in KeysOf(s) |-> s[Min({i \in DOMAIN s : s[i].key = k})].content]

(* Entries, positions and keys have the types that the steps rely on.      *)
LEMMA ListTypes ==
  ASSUME NEW s \in Seq(Entries)
  PROVE  /\ Len(s) \in Nat /\ DOMAIN s = 1 .. Len(s)
         /\ \A j \in 1 .. Len(s) : s[j] \in Entries
         /\ \A j \in 1 .. Len(s) : s[j].key \in Nat
<1>1. Len(s) \in Nat /\ DOMAIN s = 1 .. Len(s) /\ \A j \in 1 .. Len(s) : s[j] \in Entries
  BY LenProperties, Zenon
<1>2. \A e \in Entries : e.key \in Nat
  BY Zenon DEF Entries
<1> QED
  BY <1>1, <1>2, Zenon

(* In a sorted list the first place of a key is its only one.              *)
LEMMA OnlyPlace ==
  ASSUME NEW s \in Seq(Entries), Sorted(s), NEW i \in 1 .. Len(s)
  PROVE  /\ s[i].key \in KeysOf(s)
         /\ Min({j \in DOMAIN s : s[j].key = s[i].key}) = i
         /\ TableOf(s)[s[i].key] = s[i].content
<1>1. Len(s) \in Nat /\ DOMAIN s = 1 .. Len(s) /\ \A j \in 1 .. Len(s) : s[j].key \in Nat
  BY ListTypes, Zenon
<1>2. {j \in DOMAIN s : s[j].key = s[i].key} = {i}
  BY <1>1 DEF Sorted
<1>3. Min({i}) = i
  <2>1. {i} \in SUBSET Nat /\ {i} # {}
    BY <1>1
  <2>2. Min({i}) \in {i}
    BY <2>1, MinIsLeast, Zenon
  <2> QED
    BY <2>2, Zenon
<1>4. s[i].key \in KeysOf(s)
  BY <1>1, Zenon DEF KeysOf
<1> QED
  BY <1>2, <1>3, <1>4, Zenon DEF TableOf

(* A list stands for a table if it has its keys and, at each place, its    *)
(* value.                                                                  *)
LEMMA SameTable ==
  ASSUME NEW s \in Seq(Entries), Sorted(s), NEW f, f = [k \in DOMAIN f |-> f[k]],
         KeysOf(s) = DOMAIN f,
         \A i \in 1 .. Len(s) : f[s[i].key] = s[i].content
  PROVE  TableOf(s) = f
<1>1. DOMAIN s = 1 .. Len(s)
  BY LenProperties, Zenon
<1>2. ASSUME NEW k \in KeysOf(s)
      PROVE  TableOf(s)[k] = f[k]
  <2>1. PICK i \in 1 .. Len(s) : k = s[i].key
    BY <1>1, Zenon DEF KeysOf
  <2> QED
    BY <2>1, OnlyPlace, Zenon
<1>3. TableOf(s) = [k \in KeysOf(s) |-> TableOf(s)[k]]
  BY Zenon DEF TableOf
<1> QED
  BY <1>2, <1>3, Zenon

(* A new key between its neighbours.                                       *)
LEMMA Inserted ==
  ASSUME NEW s \in Seq(Entries), Sorted(s), NEW k \in Nat, NEW i \in 1 .. Len(s) + 1,
         \A j \in 1 .. Len(s) : IF j < i THEN s[j].key < k ELSE k < s[j].key,
         NEW t, t = InsertAt(s, i, [key |-> k, content |-> NoValue])
  PROVE  /\ t \in Seq(Entries) /\ Sorted(t) /\ k \notin KeysOf(s)
         /\ TableOf(t) = [x \in KeysOf(s) \cup {k} |-> IF x = k THEN NoValue ELSE TableOf(s)[x]]
<1> DEFINE e == [key |-> k, content |-> NoValue]
           f == [x \in KeysOf(s) \cup {k} |-> IF x = k THEN NoValue ELSE TableOf(s)[x]]
<1>1. Len(s) \in Nat /\ DOMAIN s = 1 .. Len(s) /\ \A j \in 1 .. Len(s) : s[j].key \in Nat
  BY ListTypes, Zenon
<1>2. e \in Entries
  BY Zenon DEF Entries
<1>3. /\ t \in Seq(Entries) /\ Len(t) = Len(s) + 1
      /\ \A j \in 1 .. Len(s) + 1 :
           t[j] = IF j < i THEN s[j] ELSE IF j = i THEN e ELSE s[j - 1]
  BY <1>2, InsertAtElements
<1>4. DOMAIN t = 1 .. Len(s) + 1
  BY <1>3, LenProperties, Zenon
<1>5. Sorted(t)
  <2> SUFFICES ASSUME NEW a \in 1 .. Len(s) + 1, NEW b \in 1 .. Len(s) + 1, a < b
               PROVE  t[a].key < t[b].key
    BY <1>3, Zenon DEF Sorted
  <2>1. CASE a < i /\ b < i
    <3>1. t[a] = s[a] /\ t[b] = s[b] /\ a \in 1 .. Len(s) /\ b \in 1 .. Len(s)
      BY <1>1, <1>3, <2>1, SMTT(30)
    <3> QED BY <3>1, Zenon DEF Sorted
  <2>2. CASE a < i /\ b = i
    BY <1>1, <1>3, <2>2
  <2>3. CASE a < i /\ b > i
    <3>1. t[a] = s[a] /\ t[b] = s[b - 1] /\ a < b - 1 /\ a \in 1 .. Len(s) /\ b - 1 \in 1 .. Len(s)
      BY <1>1, <1>3, <2>3
    <3> QED
      BY <3>1, Zenon DEF Sorted
  <2>4. CASE a = i
    <3>1. t[a] = e /\ t[b] = s[b - 1] /\ b - 1 >= i /\ b - 1 \in 1 .. Len(s)
      BY <1>1, <1>3, <2>4
    <3> QED
      BY <1>1, <3>1
  <2>5. CASE a > i
    <3>1. /\ t[a] = s[a - 1] /\ t[b] = s[b - 1] /\ a - 1 < b - 1
          /\ a - 1 \in 1 .. Len(s) /\ b - 1 \in 1 .. Len(s)
      BY <1>1, <1>3, <2>5
    <3> QED
      BY <3>1, Zenon DEF Sorted
  <2> QED
    BY <1>1, <2>1, <2>2, <2>3, <2>4, <2>5
<1>6. k \notin KeysOf(s)
  BY <1>1 DEF KeysOf
<1>7. \A j \in 1 .. Len(s) + 1 :
        \/ j = i /\ t[j] = e
        \/ j # i /\ \E n \in 1 .. Len(s) : t[j] = s[n]
  <2> SUFFICES ASSUME NEW j \in 1 .. Len(s) + 1, j # i
               PROVE  \E n \in 1 .. Len(s) : t[j] = s[n]
    BY <1>3
  <2>1. CASE j < i
    <3>1. j \in 1 .. Len(s) /\ t[j] = s[j]
      BY <1>1, <1>3, <2>1
    <3> QED
      BY <3>1, Zenon
  <2>2. CASE j > i
    <3>1. j - 1 \in 1 .. Len(s) /\ t[j] = s[j - 1]
      BY <1>1, <1>3, <2>2
    <3> QED
      BY <3>1, Zenon
  <2>3. Len(s) \in Nat /\ i \in Int /\ j \in Int
    BY <1>1
  <2>4. j < i \/ j > i
    BY <2>3
  <2> QED
    BY <2>1, <2>2, <2>4, Zenon
<1>8. t[i] = e /\ \A n \in 1 .. Len(s) : \E j \in 1 .. Len(s) + 1 : t[j] = s[n]
  <2>1. t[i] = e
    BY <1>3
  <2>2. \A n \in 1 .. Len(s) : t[IF n < i THEN n ELSE n + 1] = s[n]
    BY <1>1, <1>3
  <2> QED
    BY <1>1, <2>1, <2>2
<1>9. KeysOf(t) = KeysOf(s) \cup {k}
  <2>1. e.key = k
    BY Zenon
  <2>2. KeysOf(t) \subseteq KeysOf(s) \cup {k}
    <3> SUFFICES ASSUME NEW x \in KeysOf(t) PROVE x \in KeysOf(s) \cup {k}
      BY Zenon
    <3>1. PICK j \in 1 .. Len(s) + 1 : x = t[j].key
      BY <1>4, Zenon DEF KeysOf
    <3>2. CASE t[j] = e
      BY <3>1, <3>2, <2>1, Zenon
    <3>3. CASE \E n \in 1 .. Len(s) : t[j] = s[n]
      <4>1. PICK n \in 1 .. Len(s) : t[j] = s[n]
        BY <3>3, Zenon
      <4>2. n \in DOMAIN s
        BY <1>1, <4>1
      <4> QED BY <3>1, <4>1, <4>2, Zenon DEF KeysOf
    <3> QED BY <1>7, <3>2, <3>3, Zenon
  <2>3. k \in KeysOf(t)
    BY <1>4, <1>8, <2>1, Zenon DEF KeysOf
  <2>4. KeysOf(s) \subseteq KeysOf(t)
    BY <1>1, <1>4, <1>8 DEF KeysOf
  <2> QED
    BY <2>2, <2>3, <2>4, Zenon
<1>10. \A j \in 1 .. Len(t) : f[t[j].key] = t[j].content
  <2>1. SUFFICES ASSUME NEW j \in 1 .. Len(s) + 1 PROVE f[t[j].key] = t[j].content
    BY <1>3, Zenon
  <2>2. CASE t[j] = e
    BY <2>2
  <2>3. ASSUME NEW n \in 1 .. Len(s), t[j] = s[n]
        PROVE  f[t[j].key] = t[j].content
    BY <1>6, <2>3, OnlyPlace, Zenon
  <2> QED
    BY <1>7, <2>2, <2>3, Zenon
<1>11. DOMAIN f = KeysOf(s) \cup {k} /\ f = [x \in DOMAIN f |-> f[x]]
  BY Zenon
<1> HIDE DEF f
<1>12. TableOf(t) = f
  BY <1>3, <1>5, <1>9, <1>10, <1>11, SameTable, Zenon
<1> QED
  BY <1>3, <1>5, <1>6, <1>12, Zenon DEF f

(* The list without the key at place i.                                    *)
LEMMA Removed ==
  ASSUME NEW s \in Seq(Entries), Sorted(s), NEW i \in 1 .. Len(s),
         NEW t, t = RemoveAt(s, i)
  PROVE  /\ t \in Seq(Entries) /\ Sorted(t)
         /\ TableOf(t) = [x \in KeysOf(s) \ {s[i].key} |-> TableOf(s)[x]]
<1> DEFINE f == [x \in KeysOf(s) \ {s[i].key} |-> TableOf(s)[x]]
<1>1. Len(s) \in Nat /\ DOMAIN s = 1 .. Len(s) /\ \A j \in 1 .. Len(s) : s[j].key \in Nat
  BY ListTypes, Zenon
<1>2. /\ t \in Seq(Entries) /\ Len(t) = Len(s) - 1
      /\ \A j \in 1 .. Len(s) - 1 : t[j] = IF j < i THEN s[j] ELSE s[j + 1]
  BY RemoveAtElements, Zenon
<1>3. DOMAIN t = 1 .. Len(s) - 1
  BY <1>2, LenProperties, Zenon
<1>4. Sorted(t)
  <2> SUFFICES ASSUME NEW a \in 1 .. Len(s) - 1, NEW b \in 1 .. Len(s) - 1, a < b
               PROVE  t[a].key < t[b].key
    BY <1>2, Zenon DEF Sorted
  <2>1. PICK c \in 1 .. Len(s), d \in 1 .. Len(s) : t[a] = s[c] /\ t[b] = s[d] /\ c < d
    <3> DEFINE c == IF a < i THEN a ELSE a + 1
               d == IF b < i THEN b ELSE b + 1
    <3>1. c \in 1 .. Len(s) /\ d \in 1 .. Len(s) /\ c < d /\ t[a] = s[c] /\ t[b] = s[d]
      BY <1>1, <1>2
    <3> QED
      BY <3>1, Zenon
  <2> QED
    BY <2>1, Zenon DEF Sorted
<1>5. \A n \in 1 .. Len(s) : n # i => s[n].key # s[i].key
  BY <1>1 DEF Sorted
<1>6. \A j \in 1 .. Len(s) - 1 : \E n \in 1 .. Len(s) : n # i /\ t[j] = s[n]
  BY <1>1, <1>2
<1>7. \A n \in 1 .. Len(s) : n # i => \E j \in 1 .. Len(s) - 1 : t[j] = s[n]
  <2> SUFFICES ASSUME NEW n \in 1 .. Len(s), n # i
               PROVE  \E j \in 1 .. Len(s) - 1 : t[j] = s[n]
    BY Zenon
  <2> DEFINE j == IF n < i THEN n ELSE n - 1
  <2>1. j \in 1 .. Len(s) - 1 /\ t[j] = s[n]
    BY <1>1, <1>2
  <2> QED
    BY <2>1, Zenon
<1>8. KeysOf(t) = KeysOf(s) \ {s[i].key}
  <2>1. ASSUME NEW x \in KeysOf(t)
        PROVE  x \in KeysOf(s) \ {s[i].key}
    <3>1. PICK j \in 1 .. Len(s) - 1 : x = t[j].key
      BY <1>3, Zenon DEF KeysOf
    <3>2. PICK n \in 1 .. Len(s) : n # i /\ t[j] = s[n]
      BY <1>6, Zenon
    <3> QED
      BY <1>1, <1>5, <3>1, <3>2, Zenon DEF KeysOf
  <2>2. KeysOf(s) \ {s[i].key} \subseteq KeysOf(t)
    BY <1>1, <1>3, <1>7, Zenon DEF KeysOf
  <2> QED
    BY <2>1, <2>2, Zenon
<1>9. \A j \in 1 .. Len(t) : f[t[j].key] = t[j].content
  <2> SUFFICES ASSUME NEW j \in 1 .. Len(s) - 1 PROVE f[t[j].key] = t[j].content
    BY <1>2, Zenon
  <2>1. PICK n \in 1 .. Len(s) : n # i /\ t[j] = s[n]
    BY <1>6, Zenon
  <2>2. s[n].key \in KeysOf(s) \ {s[i].key} /\ TableOf(s)[s[n].key] = s[n].content
    BY <1>5, <2>1, OnlyPlace, Zenon
  <2> QED
    BY <2>1, <2>2, Zenon
<1>10. DOMAIN f = KeysOf(s) \ {s[i].key} /\ f = [x \in DOMAIN f |-> f[x]]
  BY Zenon
<1> HIDE DEF f
<1>11. TableOf(t) = f
  BY <1>2, <1>4, <1>8, <1>9, <1>10, SameTable, Zenon
<1> QED
  BY <1>2, <1>4, <1>11, Zenon DEF f

(* The list with another value at place i.                                 *)
LEMMA Changed ==
  ASSUME NEW s \in Seq(Entries), Sorted(s), NEW i \in 1 .. Len(s), NEW v \in Values,
         NEW t, t = [s EXCEPT ![i].content = v]
  PROVE  /\ t \in Seq(Entries) /\ Sorted(t)
         /\ TableOf(t) = [TableOf(s) EXCEPT ![s[i].key] = v]
<1> DEFINE f == [TableOf(s) EXCEPT ![s[i].key] = v]
           e == [s[i] EXCEPT !.content = v]
<1>1. /\ Len(s) \in Nat /\ DOMAIN s = 1 .. Len(s)
      /\ \A j \in 1 .. Len(s) : s[j] \in Entries /\ s[j].key \in Nat
  BY ListTypes, Zenon
<1>2. e \in Entries /\ e.key = s[i].key /\ e.content = v
  BY <1>1, Zenon DEF Entries
<1>3. t = [s EXCEPT ![i] = e]
  BY <1>1, Zenon
<1> HIDE DEF e
<1>4. /\ t \in Seq(Entries) /\ Len(t) = Len(s)
      /\ \A j \in 1 .. Len(s) : t[j] = IF j = i THEN e ELSE s[j]
  BY <1>2, <1>3, ExceptSeq
<1>5. DOMAIN t = 1 .. Len(s)
  BY <1>4, LenProperties, Zenon
<1>6. \A j \in 1 .. Len(s) : t[j].key = s[j].key
  BY <1>2, <1>4, Zenon
<1>7. Sorted(t)
  BY <1>4, <1>6, Zenon DEF Sorted
<1>8. KeysOf(t) = KeysOf(s)
  BY <1>1, <1>5, <1>6 DEF KeysOf
<1>9. DOMAIN f = KeysOf(s) /\ f = [x \in DOMAIN f |-> f[x]]
  BY Zenon DEF TableOf
<1>10. f[s[i].key] = v /\ \A x \in KeysOf(s) \ {s[i].key} : f[x] = TableOf(s)[x]
  <2>1. s[i].key \in KeysOf(s)
    BY OnlyPlace, Zenon
  <2> QED
    BY <2>1, Zenon DEF TableOf
<1> HIDE DEF f
<1>11. \A j \in 1 .. Len(t) : f[t[j].key] = t[j].content
  <2> SUFFICES ASSUME NEW j \in 1 .. Len(s) PROVE f[t[j].key] = t[j].content
    BY <1>4, Zenon
  <2>1. CASE j = i
    BY <1>2, <1>4, <1>10, <2>1, Zenon
  <2>2. CASE j # i
    <3>1. s[j].key # s[i].key
      BY <1>1, <2>2 DEF Sorted
    <3>2. s[j].key \in KeysOf(s) /\ TableOf(s)[s[j].key] = s[j].content
      BY OnlyPlace, Zenon
    <3>3. t[j] = s[j]
      BY <1>4, <2>2, Zenon
    <3> QED
      BY <1>10, <3>1, <3>2, <3>3, Zenon
  <2> QED
    BY <2>1, <2>2, Zenon
<1>12. TableOf(t) = f
  BY <1>4, <1>7, <1>8, <1>9, <1>11, SameTable, Zenon
<1> QED
  BY <1>4, <1>7, <1>12, Zenon DEF f

-----------------------------------------------------------------------------
(* The inductive invariant.  That a new key is not in use needs the order  *)
(* of all keys, not only of neighbours; that a routine runs once needs how *)
(* often it is running now.                                                *)

TypeInv ==
  /\ mutex \in [Mutexes -> SUBSET Flags] /\ held \in [Mutexes -> Int]
  /\ init_executed \subseteq Onces /\ running \in Seq(Onces) /\ runs \in [Onces -> Nat]
  /\ key_root \in Seq(Entries)

Running(o) == {i \in DOMAIN running : running[i] = o}

RunsCounted == \A o \in Onces \ init_executed : runs[o] = Cardinality(Running(o))

IInv == TypeInv /\ LockedWhileHeld /\ RunsCounted /\ Sorted(key_root)

(* The invariant holds at the start.                                       *)
LEMMA InitSound == Init => IInv
<1> SUFFICES ASSUME Init PROVE IInv
  BY Zenon
<1>1. TypeInv
  BY DEF Init, TypeInv, Flags
<1>2. LockedWhileHeld
  BY Zenon DEF Init, LockedWhileHeld
<1>3. \A o \in Onces : Running(o) = {}
  BY DEF Init, Running
<1>4. RunsCounted
  BY <1>3, FS_EmptySet, Zenon DEF Init, RunsCounted
<1>5. Sorted(key_root)
  BY DEF Init, Sorted
<1> QED
  BY <1>1, <1>2, <1>4, <1>5, Zenon DEF IInv

(* What LockedWhileHeld says of one mutex with flags S that is held h      *)
(* times.                                                                  *)
Agree(S, h) ==
  /\ "recursive" \notin S => (IF "locked" \in S THEN 1 ELSE 0) = h
  /\ "locked" \in S => "destroyed" \notin S

(* A mutex that is given flags and a number of locks that agree leaves all *)
(* of them in agreement.                                                   *)
LEMMA MutexSet ==
  ASSUME TypeInv, LockedWhileHeld, NEW m \in Mutexes,
         NEW S \in SUBSET Flags, NEW h \in Int, Agree(S, h),
         mutex' = [mutex EXCEPT ![m] = S], held' = [held EXCEPT ![m] = h]
  PROVE  /\ mutex' \in [Mutexes -> SUBSET Flags] /\ held' \in [Mutexes -> Int]
         /\ LockedWhileHeld'
<1>1. /\ mutex' \in [Mutexes -> SUBSET Flags] /\ held' \in [Mutexes -> Int]
      /\ mutex'[m] = S /\ held'[m] = h
      /\ \A n \in Mutexes \ {m} : mutex'[n] = mutex[n] /\ held'[n] = held[n]
  BY Zenon DEF TypeInv
<1>2. \A n \in Mutexes : Agree(mutex[n], held[n])
  BY Zenon DEF LockedWhileHeld, Agree
<1>3. \A n \in Mutexes : Agree(mutex'[n], held'[n])
  BY <1>1, <1>2, Zenon
<1> QED
  BY <1>1, <1>3, Zenon DEF LockedWhileHeld, Agree

(* A call on a mutex keeps the flag and the number of locks in agreement.  *)
LEMMA MutexSound ==
  ASSUME TypeInv, LockedWhileHeld, NEW m \in Mutexes,
         \/ \E recursive \in BOOLEAN : pthread_mutex_init(m, recursive)
         \/ pthread_mutex_destroy(m) \/ pthread_mutex_trylock(m) \/ pthread_mutex_unlock(m)
  PROVE  /\ mutex' \in [Mutexes -> SUBSET Flags] /\ held' \in [Mutexes -> Int]
         /\ LockedWhileHeld'
<1>1. /\ mutex[m] \subseteq Flags /\ held[m] \in Int
      /\ Agree(mutex[m], held[m])
      /\ held = [held EXCEPT ![m] = held[m]]
  BY Zenon DEF TypeInv, LockedWhileHeld, Agree
<1>2. ASSUME UNCHANGED lock
      PROVE  /\ mutex' \in [Mutexes -> SUBSET Flags] /\ held' \in [Mutexes -> Int]
             /\ LockedWhileHeld'
  BY <1>2, Zenon DEF TypeInv, LockedWhileHeld, lock
<1>3. CASE \E recursive \in BOOLEAN : pthread_mutex_init(m, recursive)
  <2>1. PICK S \in {{"recursive"}, {}} :
          mutex' = [mutex EXCEPT ![m] = S] /\ held' = [held EXCEPT ![m] = 0]
    BY <1>3, Zenon DEF pthread_mutex_init
  <2>2. S \in SUBSET Flags /\ 0 \in Int /\ Agree(S, 0)
    BY DEF Agree, Flags
  <2> QED
    BY <2>1, <2>2, MutexSet, Zenon
<1>4. CASE pthread_mutex_destroy(m)
  <2>1. CASE UNCHANGED lock
    BY <1>2, <2>1, Zenon
  <2>2. CASE ~UNCHANGED lock
    <3>1. /\ "locked" \notin mutex[m] /\ held' = held
          /\ mutex' = [mutex EXCEPT ![m] = mutex[m] \cup {"destroyed"}]
      BY <1>4, <2>2, Zenon DEF pthread_mutex_destroy, Fails
    <3>2. /\ mutex[m] \cup {"destroyed"} \in SUBSET Flags
          /\ Agree(mutex[m] \cup {"destroyed"}, held[m])
      BY <1>1, <3>1, Zenon DEF Agree, Flags
    <3> QED
      BY <1>1, <3>1, <3>2, MutexSet, Zenon
  <2> QED
    BY <2>1, <2>2, Zenon
<1>5. CASE pthread_mutex_trylock(m)
  <2>1. CASE UNCHANGED lock
    BY <1>2, <2>1, Zenon
  <2>2. CASE ~UNCHANGED lock
    <3>1. /\ "destroyed" \notin mutex[m] /\ mutex[m] # {"locked"}
          /\ mutex' = [mutex EXCEPT ![m] = mutex[m] \cup {"locked"}]
          /\ held' = [held EXCEPT ![m] = held[m] + 1]
      BY <1>5, <2>2, Zenon DEF pthread_mutex_trylock, Fails
    <3>2. "recursive" \notin mutex[m] => mutex[m] = {}
      BY <1>1, <3>1, Zenon DEF Flags
    <3>3. /\ mutex[m] \cup {"locked"} \in SUBSET Flags /\ held[m] + 1 \in Int
          /\ Agree(mutex[m] \cup {"locked"}, held[m] + 1)
      BY <1>1, <3>1, <3>2 DEF Agree, Flags
    <3> QED
      BY <3>1, <3>3, MutexSet, Zenon
  <2> QED
    BY <2>1, <2>2, Zenon
<1>6. CASE pthread_mutex_unlock(m)
  <2>1. CASE UNCHANGED lock
    BY <1>2, <2>1, Zenon
  <2>2. CASE ~UNCHANGED lock
    <3>1. /\ "locked" \in mutex[m]
          /\ mutex' = [mutex EXCEPT ![m] = mutex[m] \ {"locked"}]
          /\ held' = [held EXCEPT ![m] = held[m] - 1]
      BY <1>6, <2>2, Zenon DEF pthread_mutex_unlock, Fails
    <3>2. /\ mutex[m] \ {"locked"} \in SUBSET Flags /\ held[m] - 1 \in Int
          /\ Agree(mutex[m] \ {"locked"}, held[m] - 1)
      BY <1>1, <3>1 DEF Agree
    <3> QED
      BY <1>1, <3>1, <3>2, MutexSet, Zenon
  <2> QED
    BY <2>1, <2>2, Zenon
<1> QED
  BY <1>3, <1>4, <1>5, <1>6, Zenon

(* A call of pthread_once, or the return of a routine, keeps the counts of *)
(* the routines that have not returned yet.                                *)
LEMMA OnceSound ==
  ASSUME TypeInv, RunsCounted,
         (\E o \in Onces : pthread_once(o)) \/ init_routine_returns
  PROVE  /\ init_executed' \subseteq Onces /\ running' \in Seq(Onces)
         /\ runs' \in [Onces -> Nat] /\ RunsCounted'
<1>1. /\ Len(running) \in Nat /\ DOMAIN running = 1 .. Len(running)
      /\ \A i \in 1 .. Len(running) : running[i] \in Onces
  BY LenProperties DEF TypeInv
<1>2. \A p : IsFiniteSet(Running(p))
  <2>1. IsFiniteSet(1 .. Len(running))
    BY <1>1, FS_Interval
  <2> QED
    BY <1>1, <2>1, FS_Subset, Zenon DEF Running
<1>3. CASE UNCHANGED once
  BY <1>3, Zenon DEF once, TypeInv, RunsCounted, Running
<1>4. ASSUME NEW o \in Onces, pthread_once(o), ~UNCHANGED once
      PROVE  /\ init_executed' \subseteq Onces /\ running' \in Seq(Onces)
             /\ runs' \in [Onces -> Nat] /\ RunsCounted'
  <2>1. /\ o \notin init_executed /\ init_executed' = init_executed
        /\ running' = Append(running, o) /\ runs' = [runs EXCEPT ![o] = @ + 1]
    BY <1>4, Zenon DEF pthread_once, Fails
  <2>2. /\ running' \in Seq(Onces) /\ Len(running') = Len(running) + 1
        /\ DOMAIN running' = 1 .. Len(running) + 1
        /\ \A i \in 1 .. Len(running) : running'[i] = running[i]
        /\ running'[Len(running) + 1] = o
    BY <1>1, <2>1 DEF TypeInv
  <2>3. Running(o)' = Running(o) \cup {Len(running) + 1} /\ Len(running) + 1 \notin Running(o)
    BY <1>1, <2>2 DEF Running
  <2>4. Cardinality(Running(o)') = Cardinality(Running(o)) + 1
    BY <1>2, <2>3, FS_AddElement, Zenon
  <2>5. \A p \in Onces \ {o} : Running(p)' = Running(p)
    BY <1>1, <2>2 DEF Running
  <2>6. runs' \in [Onces -> Nat] /\ RunsCounted'
    BY <2>1, <2>4, <2>5 DEF TypeInv, RunsCounted
  <2> QED
    BY <2>1, <2>2, <2>6, Zenon DEF TypeInv
<1>5. CASE init_routine_returns
  <2>1. /\ running # <<>> /\ running' = Front(running) /\ runs' = runs
        /\ init_executed' = init_executed \cup {Last(running)}
    BY <1>5, Zenon DEF init_routine_returns
  <2>2. Len(running) > 0 /\ Last(running) \in Onces
    BY <1>1, <2>1, EmptySeq DEF TypeInv, Last
  <2>3. /\ running' \in Seq(Onces) /\ Len(running') = Len(running) - 1
        /\ \A i \in 1 .. Len(running) - 1 : running'[i] = running[i]
    BY <1>1, <2>1, <2>2, SubSeqProperties DEF Front
  <2>4. DOMAIN running' = 1 .. Len(running) - 1
    BY <1>1, <2>3, LenProperties, Zenon
  <2>5. \A p \in Onces \ {Last(running)} : Running(p)' = Running(p)
    BY <1>1, <2>2, <2>3, <2>4 DEF Running, Last
  <2>6. RunsCounted'
    BY <2>1, <2>5, Zenon DEF RunsCounted
  <2> QED
    BY <2>1, <2>2, <2>3, <2>6, Zenon DEF TypeInv
<1> QED
  BY <1>3, <1>4, <1>5, Zenon

(* The place that pthread_key_create finds.                                *)
LEMMA GapFound ==
  ASSUME TypeInv, key_root # <<>>
  PROVE  /\ Gap \in 1 .. Len(key_root)
         /\ Gap < Len(key_root) => key_root[Gap + 1].key # key_root[Gap].key + 1
<1> DEFINE S == {i \in DOMAIN key_root :
                   i < Len(key_root) => key_root[i + 1].key # key_root[i].key + 1}
<1>1. Len(key_root) \in Nat /\ DOMAIN key_root = 1 .. Len(key_root)
  BY ListTypes, Zenon DEF TypeInv
<1>2. Len(key_root) # 0
  BY EmptySeq, Zenon DEF TypeInv
<1>3. Len(key_root) \in S /\ S \in SUBSET Nat
  BY <1>1, <1>2
<1>4. Min(S) \in S
  BY <1>3, MinIsLeast, Zenon
<1> QED
  BY <1>1, <1>4, Zenon DEF Gap

(* A new key is one that is not in use, and has no value.                  *)
LEMMA CreateSound ==
  ASSUME TypeInv, Sorted(key_root), pthread_key_create
  PROVE  /\ key_root' \in Seq(Entries) /\ Sorted(key_root')
         /\ \E k \in Nat \ KeysOf(key_root) :
              /\ ret' = [code |-> 0, key |-> k, value |-> NoValue]
              /\ TableOf(key_root') = [x \in KeysOf(key_root) \cup {k} |->
                                         IF x = k THEN NoValue ELSE TableOf(key_root)[x]]
<1> DEFINE s == key_root
           k == IF s = <<>> THEN 0 ELSE s[Gap].key + 1
           pos == IF s = <<>> THEN 1 ELSE Gap + 1
<1>1. /\ s \in Seq(Entries) /\ Len(s) \in Nat /\ DOMAIN s = 1 .. Len(s)
      /\ \A j \in 1 .. Len(s) : s[j].key \in Nat
  BY ListTypes, Zenon DEF TypeInv
<1>2. /\ k \in Nat /\ pos \in 1 .. Len(s) + 1
      /\ \A j \in 1 .. Len(s) : IF j < pos THEN s[j].key < k ELSE k < s[j].key
  <2>1. CASE s = <<>>
    BY <2>1
  <2>2. CASE s # <<>>
    <3>1. Gap \in 1 .. Len(s) /\ (Gap < Len(s) => s[Gap + 1].key # s[Gap].key + 1)
      BY <2>2, GapFound, Zenon
    <3>2. k = s[Gap].key + 1 /\ pos = Gap + 1
      BY <2>2, Zenon
    <3>3. ASSUME NEW j \in 1 .. Len(s), j <= Gap
          PROVE  s[j].key < k
      BY <1>1, <3>1, <3>2, <3>3 DEF Sorted
    <3>4. ASSUME NEW j \in 1 .. Len(s), j > Gap
          PROVE  k < s[j].key
      <4>1. Gap + 1 \in 1 .. Len(s) /\ s[Gap].key < s[Gap + 1].key /\ s[Gap + 1].key # k
        BY <1>1, <3>1, <3>2, <3>4 DEF Sorted
      <4>2. s[Gap + 1].key <= s[j].key
        <5>1. CASE j = Gap + 1
          BY <1>1, <5>1
        <5>2. CASE j # Gap + 1
          BY <1>1, <3>1, <3>4, <4>1, <5>2 DEF Sorted
        <5> QED
          BY <5>1, <5>2, Zenon
      <4> QED
        BY <1>1, <3>1, <3>2, <4>1, <4>2
    <3> QED
      BY <1>1, <3>1, <3>2, <3>3, <3>4
  <2> QED
    BY <2>1, <2>2, Zenon
<1>3. /\ key_root' = InsertAt(s, pos, [key |-> k, content |-> NoValue])
      /\ ret' = [code |-> 0, key |-> k, value |-> NoValue]
  BY Zenon DEF pthread_key_create
<1> HIDE DEF k, pos
<1>4. /\ key_root' \in Seq(Entries) /\ Sorted(key_root') /\ k \notin KeysOf(s)
      /\ TableOf(key_root') = [x \in KeysOf(s) \cup {k} |->
                                 IF x = k THEN NoValue ELSE TableOf(s)[x]]
  BY <1>1, <1>2, <1>3, Inserted, ZenonT(60)
<1> QED
  BY <1>2, <1>3, <1>4, Zenon

(* Where a key that is in use, and only such a one, is found.              *)
LEMMA PlaceFound ==
  ASSUME TypeInv, Sorted(key_root), NEW key
  PROVE  /\ At(key) = {} <=> key \notin KeysOf(key_root)
         /\ At(key) # {} => /\ Min(At(key)) \in 1 .. Len(key_root)
                            /\ key_root[Min(At(key))].key = key
                            /\ TableOf(key_root)[key] = key_root[Min(At(key))].content
<1>1. DOMAIN key_root = 1 .. Len(key_root) /\ key_root \in Seq(Entries)
  BY ListTypes, Zenon DEF TypeInv
<1>2. At(key) = {} <=> key \notin KeysOf(key_root)
  BY Zenon DEF At, KeysOf
<1>3. ASSUME At(key) # {}
      PROVE  /\ Min(At(key)) \in 1 .. Len(key_root)
             /\ key_root[Min(At(key))].key = key
  <2>1. At(key) \in SUBSET Nat
    BY <1>1 DEF At
  <2>2. Min(At(key)) \in At(key)
    BY <1>3, <2>1, MinIsLeast, Zenon
  <2> QED
    BY <1>1, <2>2, Zenon DEF At
<1>4. At(key) # {} => TableOf(key_root)[key] = key_root[Min(At(key))].content
  BY <1>1, <1>3, OnlyPlace, Zenon
<1> QED
  BY <1>2, <1>3, <1>4, Zenon

(* The calls on keys keep the list sorted.                                 *)
LEMMA KeysSound ==
  ASSUME TypeInv, Sorted(key_root),
         \/ pthread_key_create
         \/ \E key \in 0 .. MaxKeys : pthread_getspecific(key)
         \/ \E key \in 0 .. MaxKeys, value \in Values : pthread_setspecific(key, value)
         \/ \E key \in 0 .. MaxKeys : pthread_key_delete(key)
  PROVE  key_root' \in Seq(Entries) /\ Sorted(key_root')
<1>1. CASE UNCHANGED key_root
  BY <1>1, Zenon DEF TypeInv
<1>2. CASE pthread_key_create
  BY <1>2, CreateSound, Zenon
<1>3. CASE \E key \in 0 .. MaxKeys : pthread_getspecific(key)
  BY <1>1, <1>3, Zenon DEF pthread_getspecific
<1>4. ASSUME NEW key \in 0 .. MaxKeys, NEW value \in Values,
             pthread_setspecific(key, value), key_root' # key_root
      PROVE  key_root' \in Seq(Entries) /\ Sorted(key_root')
  <2>1. At(key) # {} /\ key_root' = [key_root EXCEPT ![Min(At(key))].content = value]
    BY <1>4, Zenon DEF pthread_setspecific
  <2>2. Min(At(key)) \in 1 .. Len(key_root) /\ key_root \in Seq(Entries)
    BY <2>1, PlaceFound, Zenon DEF TypeInv
  <2> QED
    BY <2>1, <2>2, Changed, Zenon
<1>5. ASSUME NEW key \in 0 .. MaxKeys, pthread_key_delete(key), key_root' # key_root
      PROVE  key_root' \in Seq(Entries) /\ Sorted(key_root')
  <2>1. At(key) # {} /\ key_root' = RemoveAt(key_root, Min(At(key)))
    BY <1>5, Zenon DEF pthread_key_delete
  <2>2. Min(At(key)) \in 1 .. Len(key_root) /\ key_root \in Seq(Entries)
    BY <2>1, PlaceFound, Zenon DEF TypeInv
  <2> QED
    BY <2>1, <2>2, Removed, Zenon
<1> QED
  BY <1>1, <1>2, <1>3, <1>4, <1>5, Zenon

(* Every step keeps the invariant.                                         *)
LEMMA StepSound == IInv /\ [Next]_vars => IInv'
<1> SUFFICES ASSUME IInv, [Next]_vars PROVE IInv'
  BY Zenon
<1> USE DEF IInv
<1>1. ASSUME UNCHANGED lock
      PROVE  /\ mutex' \in [Mutexes -> SUBSET Flags] /\ held' \in [Mutexes -> Int]
             /\ LockedWhileHeld'
  BY <1>1, Zenon DEF lock, TypeInv, LockedWhileHeld
<1>2. ASSUME UNCHANGED once
      PROVE  /\ init_executed' \subseteq Onces /\ running' \in Seq(Onces)
             /\ runs' \in [Onces -> Nat] /\ RunsCounted'
  BY <1>2, Zenon DEF once, TypeInv, RunsCounted, Running
<1>3. ASSUME UNCHANGED key_root
      PROVE  key_root' \in Seq(Entries) /\ Sorted(key_root')
  BY <1>3, Zenon DEF TypeInv
<1>4. ASSUME NEW m \in Mutexes,
             \/ \E recursive \in BOOLEAN : pthread_mutex_init(m, recursive)
             \/ pthread_mutex_destroy(m) \/ pthread_mutex_trylock(m) \/ pthread_mutex_unlock(m)
      PROVE  IInv'
  <2>1. UNCHANGED once /\ UNCHANGED key_root
    BY <1>4 DEF pthread_mutex_init, pthread_mutex_destroy, pthread_mutex_trylock,
                pthread_mutex_unlock, Fails
  <2> QED
    BY <1>2, <1>3, <1>4, <2>1, MutexSound, Zenon DEF TypeInv
<1>5. CASE (\E o \in Onces : pthread_once(o)) \/ init_routine_returns
  <2>1. UNCHANGED lock /\ UNCHANGED key_root
    BY <1>5, Zenon DEF pthread_once, init_routine_returns, Fails
  <2> QED
    BY <1>1, <1>3, <1>5, <2>1, OnceSound, Zenon DEF TypeInv
<1>6. CASE \/ pthread_key_create
           \/ \E key \in 0 .. MaxKeys : pthread_getspecific(key)
           \/ \E key \in 0 .. MaxKeys, value \in Values : pthread_setspecific(key, value)
           \/ \E key \in 0 .. MaxKeys : pthread_key_delete(key)
  <2>1. UNCHANGED lock /\ UNCHANGED once
    BY <1>6, Zenon DEF pthread_key_create, pthread_getspecific, pthread_setspecific, pthread_key_delete
  <2> QED
    BY <1>1, <1>2, <1>6, <2>1, KeysSound, Zenon DEF TypeInv
<1>7. CASE Unsupported \/ UNCHANGED vars
  <2>1. UNCHANGED lock /\ UNCHANGED once /\ UNCHANGED key_root
    BY <1>7 DEF Unsupported, pthread_mutexattr, pthread_mutex_timedlock,
      pthread_mutex_consistent, pthread_rwlock, pthread_cond, pthread_barrier,
      pthread_thread, pthread_atfork, Fails, vars
  <2> QED
    BY <1>1, <1>2, <1>3, <2>1, Zenon DEF TypeInv
<1> QED
  BY <1>4, <1>5, <1>6, <1>7, Zenon DEF Next

(* A step starts a routine that has not returned only from inside itself.  *)
LEMMA StepRunsOnce ==
  IInv /\ [Next]_vars =>
    [\A o \in Onces : runs'[o] > runs[o] =>
       runs[o] = Cardinality({i \in DOMAIN running : running[i] = o})]_vars
<1> SUFFICES ASSUME IInv, [Next]_vars, NEW o \in Onces, runs'[o] > runs[o]
             PROVE  runs[o] = Cardinality({i \in DOMAIN running : running[i] = o})
  BY Zenon
<1>1. runs \in [Onces -> Nat]
  BY Zenon DEF IInv, TypeInv
<1>2. runs' # runs
  BY <1>1
<1>3. PICK p \in Onces : pthread_once(p)
  BY <1>2 DEF Next, vars, once, pthread_mutex_init, pthread_mutex_destroy,
    pthread_mutex_trylock, pthread_mutex_unlock, init_routine_returns, Unsupported,
    pthread_mutexattr, pthread_mutex_timedlock, pthread_mutex_consistent, pthread_rwlock,
    pthread_cond, pthread_barrier, pthread_thread, pthread_atfork, pthread_key_create,
    pthread_getspecific, pthread_setspecific, pthread_key_delete, Fails
<1>4. p \notin init_executed /\ runs' = [runs EXCEPT ![p] = @ + 1]
  BY <1>2, <1>3, Zenon DEF pthread_once, Fails, once
<1>5. o = p
  BY <1>1, <1>4
<1> QED
  BY <1>4, <1>5, Zenon DEF IInv, RunsCounted, Running

-----------------------------------------------------------------------------
(* The theorems.                                                           *)

(* The invariant holds in every behaviour.                                 *)
THEOREM AlwaysSound == Spec => []IInv
<1>1. Init => IInv
  BY InitSound, Zenon
<1>2. IInv /\ [Next]_vars => IInv'
  BY StepSound, Zenon
<1> QED
  BY <1>1, <1>2, PTL DEF Spec

(* A mutex that is not recursive is locked exactly while it is held, and   *)
(* none is destroyed while locked, in any sequence of the mutex calls.     *)
THEOREM MutexesAgree == Spec => []LockedWhileHeld
<1>1. IInv => LockedWhileHeld
  BY Zenon DEF IInv
<1> QED
  BY <1>1, AlwaysSound, PTL

(* However keys are created and deleted, the list is strictly sorted.      *)
THEOREM KeysStaySorted == Spec => []KeysSorted
<1>1. IInv => KeysSorted
  <2> SUFFICES ASSUME IInv, NEW i \in 1 .. Len(key_root) - 1
               PROVE  key_root[i].key < key_root[i + 1].key
    BY Zenon DEF KeysSorted
  <2>1. Len(key_root) \in Nat
    BY ListTypes, Zenon DEF IInv, TypeInv
  <2>2. i \in 1 .. Len(key_root) /\ i + 1 \in 1 .. Len(key_root) /\ i < i + 1
    BY <2>1
  <2> QED
    BY <2>2, Zenon DEF IInv, Sorted
<1> QED
  BY <1>1, AlwaysSound, PTL

(* pthread_once calls a routine again only from inside of it.              *)
THEOREM RoutinesRunOnce == Spec => RunsOnce
BY AlwaysSound, StepRunsOnce, PTL DEF Spec, RunsOnce

(* The table that the list is mapped to.                                   *)
Mapped == [k \in {key_root[i].key : i \in DOMAIN key_root} |-> key_root[Min(At(k))].content]

(* It is the table of the entries, before a step and after.               *)
LEMMA MappedIsTable == Mapped = TableOf(key_root) /\ Mapped' = TableOf(key_root')
BY Zenon DEF Mapped, TableOf, KeysOf, At

(* The list starts as the empty table.                                     *)
LEMMA InitServes == Init => Table!Init
<1> SUFFICES ASSUME Init PROVE Table!Init
  BY Zenon
<1>1. DOMAIN Mapped = {}
  BY DEF Init, Mapped
<1> QED
  BY <1>1, Zenon DEF Init, Table!Init, Table!Answer, Mapped

(* Each call is a step of the table, or does not concern it.               *)
LEMMA StepServes == IInv /\ [Next]_vars => [Table!Next]_(Table!vars)
<1> SUFFICES ASSUME IInv, [Next]_vars PROVE [Table!Next]_(Table!vars)
  BY Zenon
<1>1. /\ TypeInv /\ Sorted(key_root) /\ key_root \in Seq(Entries)
      /\ DOMAIN Mapped = KeysOf(key_root) /\ Mapped = TableOf(key_root)
      /\ Mapped' = TableOf(key_root')
  BY MappedIsTable, Zenon DEF IInv, TypeInv, TableOf
<1>2. ASSUME UNCHANGED key_root, ret'.key = NoKey \/ UNCHANGED ret
      PROVE  [Table!Next]_(Table!vars)
  BY <1>2, Zenon DEF Table!Next, Table!Other, Table!vars, At
<1>3. ASSUME \/ Table!Create(ret'.key) \/ Table!Get(ret'.key)
             \/ \E value \in Values : Table!Set(ret'.key, value)
             \/ Table!Delete(ret'.key) \/ Table!Refuse(ret'.key)
      PROVE  [Table!Next]_(Table!vars)
  BY <1>3, Zenon DEF Table!Next
<1>4. CASE pthread_key_create
  <2>1. PICK k \in Nat \ KeysOf(key_root) :
          /\ ret' = [code |-> 0, key |-> k, value |-> NoValue]
          /\ TableOf(key_root') = [x \in KeysOf(key_root) \cup {k} |->
                                     IF x = k THEN NoValue ELSE TableOf(key_root)[x]]
    BY <1>1, <1>4, CreateSound, Zenon
  <2>2. k # NoKey /\ ret'.key = k
    BY <2>1 DEF NoKey
  <2>3. Table!Create(ret'.key)
    BY <1>1, <2>1, <2>2, Zenon DEF Table!Create, Table!Answer, Mapped
  <2> QED
    BY <1>3, <2>3, Zenon
<1>5. ASSUME NEW key \in 0 .. MaxKeys, pthread_getspecific(key)
      PROVE  [Table!Next]_(Table!vars)
  <2>1. ret'.key = key /\ UNCHANGED key_root
    BY <1>5, Zenon DEF pthread_getspecific
  <2>2. ret' = [code |-> 0, key |-> key,
                value |-> IF key \in DOMAIN Mapped THEN Mapped[key] ELSE NoValue]
    BY <1>1, <1>5, PlaceFound, Zenon DEF pthread_getspecific
  <2>3. Table!Get(ret'.key)
    BY <2>1, <2>2, Zenon DEF Table!Get, Table!Answer, Mapped, At
  <2> QED
    BY <1>3, <2>3, Zenon
<1>6. ASSUME NEW key \in 0 .. MaxKeys, At(key) = {}, UNCHANGED key_root,
             ret' = [code |-> EINVAL, key |-> key, value |-> NoValue]
      PROVE  [Table!Next]_(Table!vars)
  <2>1. ret'.key = key /\ ret'.code # 0 /\ key \notin DOMAIN Mapped
    BY <1>1, <1>6, PlaceFound DEF EINVAL
  <2>2. Table!Refuse(ret'.key)
    BY <1>6, <2>1, Zenon DEF Table!Refuse, Mapped, At
  <2> QED
    BY <1>3, <2>2, Zenon
<1>7. ASSUME NEW key \in 0 .. MaxKeys, NEW value \in Values, At(key) # {},
             key_root' = [key_root EXCEPT ![Min(At(key))].content = value],
             ret' = [code |-> 0, key |-> key, value |-> NoValue]
      PROVE  [Table!Next]_(Table!vars)
  <2>1. /\ Min(At(key)) \in 1 .. Len(key_root) /\ key_root[Min(At(key))].key = key
        /\ key \in DOMAIN Mapped /\ ret'.key = key
    BY <1>1, <1>7, PlaceFound, Zenon
  <2>2. TableOf(key_root') = [TableOf(key_root) EXCEPT ![key_root[Min(At(key))].key] = value]
    BY <1>1, <1>7, <2>1, Changed, Zenon
  <2>3. Mapped' = [Mapped EXCEPT ![key] = value]
    BY <1>1, <2>1, <2>2, Zenon
  <2>4. Table!Set(ret'.key, value)
    BY <1>7, <2>1, <2>3, Zenon DEF Table!Set, Table!Answer, Mapped
  <2> QED
    BY <1>3, <2>4, Zenon
<1>8. ASSUME NEW key \in 0 .. MaxKeys, At(key) # {},
             key_root' = RemoveAt(key_root, Min(At(key))),
             ret' = [code |-> 0, key |-> key, value |-> NoValue]
      PROVE  [Table!Next]_(Table!vars)
  <2>1. /\ Min(At(key)) \in 1 .. Len(key_root) /\ key_root[Min(At(key))].key = key
        /\ key \in DOMAIN Mapped /\ ret'.key = key
    BY <1>1, <1>8, PlaceFound, Zenon
  <2>2. TableOf(key_root') = [x \in KeysOf(key_root) \ {key_root[Min(At(key))].key} |->
                                TableOf(key_root)[x]]
    BY <1>1, <1>8, <2>1, Removed, Zenon
  <2>3. Mapped' = [x \in DOMAIN Mapped \ {key} |-> Mapped[x]]
    BY <1>1, <2>1, <2>2, Zenon
  <2>4. Table!Delete(ret'.key)
    BY <1>8, <2>1, <2>3, Zenon DEF Table!Delete, Table!Answer, Mapped
  <2> QED
    BY <1>3, <2>4, Zenon
<1>9. CASE \E key \in 0 .. MaxKeys, value \in Values : pthread_setspecific(key, value)
  BY <1>6, <1>7, <1>9, Zenon DEF pthread_setspecific
<1>10. CASE \E key \in 0 .. MaxKeys : pthread_key_delete(key)
  BY <1>6, <1>8, <1>10, Zenon DEF pthread_key_delete
<1>11. ASSUME [Next]_vars, ~pthread_key_create,
              ~\E key \in 0 .. MaxKeys : pthread_getspecific(key),
              ~\E key \in 0 .. MaxKeys, value \in Values : pthread_setspecific(key, value),
              ~\E key \in 0 .. MaxKeys : pthread_key_delete(key)
       PROVE  UNCHANGED key_root /\ (ret'.key = NoKey \/ UNCHANGED ret)
  <2>1. \A code : Returns(code) => ret'.key = NoKey
    BY DEF Returns
  <2>2. CASE \E m \in Mutexes, recursive \in BOOLEAN : pthread_mutex_init(m, recursive)
    BY <2>1, <2>2, Zenon DEF pthread_mutex_init, Fails
  <2>3. CASE \E m \in Mutexes : pthread_mutex_destroy(m) \/ pthread_mutex_trylock(m)
                                 \/ pthread_mutex_unlock(m)
    BY <2>1, <2>3, Zenon DEF pthread_mutex_destroy, pthread_mutex_trylock, pthread_mutex_unlock, Fails
  <2>4. CASE (\E o \in Onces : pthread_once(o)) \/ init_routine_returns
    BY <2>1, <2>4, Zenon DEF pthread_once, init_routine_returns, Fails
  <2>5. CASE Unsupported
    BY <2>1, <2>5 DEF Unsupported, pthread_mutexattr, pthread_mutex_timedlock,
      pthread_mutex_consistent, pthread_rwlock, pthread_cond, pthread_barrier,
      pthread_thread, pthread_atfork, Fails
  <2> QED
    BY <1>11, <2>2, <2>3, <2>4, <2>5, Zenon DEF Next, vars
<1> QED
  BY <1>2, <1>4, <1>5, <1>9, <1>10, <1>11, Zenon

(* The list of keys implements the table: a key that is created is fresh   *)
(* and has no value, a value read is the last one set, and a deleted key   *)
(* is refused (pthread_key_create, _getspecific, _setspecific, _delete).   *)
THEOREM ListServesTable == Spec => ServesTable
BY InitServes, StepServes, AlwaysSound, PTL DEF Spec, ServesTable, Table!Spec
=============================================================================
