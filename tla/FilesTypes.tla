----------------------------- MODULE FilesTypes -----------------------------
(***************************************************************************)
(* What the operators of Files.tla do to files, chunks and descriptors,    *)
(* for any number of them and of bytes: the lists of chunks and how they   *)
(* change, the bytes in them, which chunks belong to which file, and that  *)
(* open, close, unlink and read keep the types.                            *)
(***************************************************************************)
EXTENDS Files, SequenceTheorems, FiniteSetTheorems, WellFoundedInduction, TLAPS

-----------------------------------------------------------------------------
(* Numbers.                                                                *)

(* A set of numbers that is not empty has a least one.                     *)
LEMMA LeastExists ==
  ASSUME NEW S \in SUBSET Nat, S # {}
  PROVE  \E x \in S : \A y \in S : ~(y < x)
<1>1. PICK x \in S : \A y \in S : <<y, x>> \notin OpToRel(<, Nat)
  BY NatLessThanWellFounded, WFMin, Zenon
<1> QED BY <1>1, Zenon DEF OpToRel

(* A set that has 0 and, with a number, its successor, has all numbers up  *)
(* to N.                                                                   *)
LEMMA FromZero ==
  ASSUME NEW S, NEW N \in Nat, 0 \in S, \A n \in 0 .. N - 1 : n \in S => n + 1 \in S
  PROVE  0 .. N \subseteq S
<1> SUFFICES ASSUME (0 .. N) \ S # {} PROVE FALSE
  BY Zenon
<1> DEFINE T == (0 .. N) \ S
<1>1. T \in SUBSET Nat
  OBVIOUS
<1>2. PICK x \in T : \A y \in T : ~(y < x)
  BY <1>1, LeastExists, Zenon
<1>3. x # 0 /\ x - 1 \in 0 .. N - 1 /\ x - 1 \in S
  BY <1>2
<1> QED BY <1>3

(* The least of a set of numbers.                                          *)
LEMMA MinFacts ==
  ASSUME NEW K \in SUBSET Nat, K # {}
  PROVE  Min(K) \in K /\ \A y \in K : Min(K) <= y
<1>1. PICK x \in K : \A y \in K : ~(y < x)
  BY LeastExists, Zenon
<1>2. \A y \in K : x <= y
  BY <1>1
<1> QED BY <1>2, Zenon DEF Min

(* The smaller of two numbers.                                             *)
LEMMA MinOfTwo ==
  ASSUME NEW x \in Int, NEW y \in Int
  PROVE  Min({x, y}) = IF x <= y THEN x ELSE y
<1> DEFINE m == IF x <= y THEN x ELSE y
<1>1. m \in {x, y} /\ \A z \in {x, y} : m <= z
  OBVIOUS
<1>2. \A n \in {x, y} : (\A z \in {x, y} : n <= z) => n = m
  OBVIOUS
<1> HIDE DEF m
<1>3. Min({x, y}) = m
  BY <1>1, <1>2, Zenon DEF Min
<1> QED BY <1>3, Zenon DEF m

(* The capacity is the size, rounded up.                                   *)
LEMMA RoundedUp ==
  ASSUME NEW a \in Nat, NEW b \in Nat \ {0}
  PROVE  ((a + b - 1) \div b) * b \in Nat /\ a <= ((a + b - 1) \div b) * b
<1> DEFINE x == a + b - 1
           q == x \div b
<1>1. x \in Nat /\ b \in Nat /\ b > 0
  OBVIOUS
<1>2. q \in Int /\ q * b <= x /\ x < (q + 1) * b
  BY <1>1
<1>3. q \in Nat
  BY <1>1
<1> HIDE DEF q
<1>4. (q + 1) * b = q * b + b /\ q * b \in Nat
  BY <1>3
<1>5. a <= q * b
  BY <1>2, <1>4
<1> QED BY <1>4, <1>5, Zenon DEF q

(* The two parts of a sequence.                                            *)
LEMMA Halves ==
  ASSUME NEW T, NEW s \in Seq(T), NEW a \in Nat, a <= Len(s)
  PROVE  /\ SubSeq(s, 1, a) \in Seq(T) /\ Len(SubSeq(s, 1, a)) = a
         /\ SubSeq(s, a + 1, Len(s)) \in Seq(T) /\ Len(SubSeq(s, a + 1, Len(s))) = Len(s) - a
<1> DEFINE m == a + 1
           n == Len(s)
<1>1. n \in Nat /\ \A i \in 1 .. n : s[i] \in T
  OBVIOUS
<1>2. /\ 1 \in Int /\ a \in Int /\ m \in Int /\ n \in Int
      /\ \A i \in 1 .. a : s[i] \in T
      /\ \A i \in m .. n : s[i] \in T
  BY <1>1
<1> HIDE DEF m, n
<1>3. /\ SubSeq(s, 1, a) \in Seq(T)
      /\ Len(SubSeq(s, 1, a)) = IF 1 <= a THEN a - 1 + 1 ELSE 0
  BY <1>2, SubSeqProperties
<1>4. /\ SubSeq(s, m, n) \in Seq(T)
      /\ Len(SubSeq(s, m, n)) = IF m <= n THEN n - m + 1 ELSE 0
  BY <1>2, SubSeqProperties
<1>5. Len(SubSeq(s, 1, a)) = a
  BY <1>3
<1>6. Len(SubSeq(s, m, n)) = n - a
  BY <1>1, <1>4 DEF m, n
<1> QED BY <1>3, <1>4, <1>5, <1>6, Zenon DEF m, n

(* What is kept of a sequence that is cut off.                             *)
LEMMA CutOff ==
  ASSUME NEW T, NEW s \in Seq(T), NEW a \in Int, a <= Len(s)
  PROVE  SubSeq(s, 1, a) \in Seq(T) /\ Len(SubSeq(s, 1, a)) <= Len(s)
<1>1. Len(s) \in Nat /\ 1 \in Int /\ \A i \in 1 .. a : s[i] \in T
  OBVIOUS
<1>2. /\ SubSeq(s, 1, a) \in Seq(T)
      /\ Len(SubSeq(s, 1, a)) = IF 1 <= a THEN a - 1 + 1 ELSE 0
  BY <1>1, SubSeqProperties
<1> QED BY <1>1, <1>2

-----------------------------------------------------------------------------
(* Lists of chunks.                                                        *)

ChunkSet == [cap: Nat, data: Seq(Int), next: Nat, input: BOOLEAN, freed: BOOLEAN]

(* A chunk points at a later one.                                          *)
Chained(ch) ==
  /\ ch \in Seq(ChunkSet)
  /\ \A c \in 1 .. Len(ch) : ch[c].next # 0 => c < ch[c].next /\ ch[c].next <= Len(ch)

(* The fields of chunks and their types.                                   *)
LEMMA ChunkTypes ==
  ASSUME NEW ch \in Seq(ChunkSet)
  PROVE  /\ Len(ch) \in Nat /\ DOMAIN ch = 1 .. Len(ch)
         /\ \A c \in 1 .. Len(ch) :
              /\ ch[c] \in ChunkSet
              /\ ch[c].cap \in Nat /\ ch[c].data \in Seq(Int) /\ ch[c].next \in Nat
              /\ ch[c].input \in BOOLEAN /\ ch[c].freed \in BOOLEAN
<1>1. Len(ch) \in Nat /\ DOMAIN ch = 1 .. Len(ch) /\ \A c \in 1 .. Len(ch) : ch[c] \in ChunkSet
  OBVIOUS
<1>2. \A r \in ChunkSet : /\ r.cap \in Nat /\ r.data \in Seq(Int) /\ r.next \in Nat
                          /\ r.input \in BOOLEAN /\ r.freed \in BOOLEAN
  BY Zenon DEF ChunkSet
<1> QED BY <1>1, <1>2, Zenon

IsListing(f, ch, D) ==
  f = [i \in D |-> IF i = 0 THEN <<>>
                   ELSE IF ch[i].freed THEN <<i>>
                   ELSE <<i>> \o f[ch[i].next]]

(* Chunks of any array of chunks.                                          *)
ListOf(ch, c) ==
  LET From[i \in 0 .. Len(ch)] ==
        IF i = 0 THEN <<>>
        ELSE IF ch[i].freed THEN <<i>>
        ELSE <<i>> \o From[ch[i].next]
  IN  From[c]

(* The recursion of Chunks ends, as it goes to later chunks only.          *)
LEMMA ListingExists ==
  ASSUME NEW ch, Chained(ch)
  PROVE  \E f : IsListing(f, ch, 0 .. Len(ch))
<1> DEFINE n    == Len(ch)
           D(k) == {i \in 0 .. n : i = 0 \/ i > n - k}
           S    == {k \in Nat : \E f : IsListing(f, ch, D(k))}
<1>0. n \in Nat /\ \A c \in 1 .. n : ch[c].next = 0 \/ (ch[c].next \in Nat /\ c < ch[c].next /\ ch[c].next <= n)
  BY ChunkTypes, Zenon DEF Chained
<1>1. 0 \in S
  <2>1. D(0) = {0}
    BY <1>0
  <2>2. IsListing([i \in {0} |-> <<>>], ch, {0})
    BY Zenon DEF IsListing
  <2> QED BY <2>1, <2>2, Zenon
<1>2. ASSUME NEW k \in 0 .. n - 1, k \in S PROVE k + 1 \in S
  <2>1. PICK f : IsListing(f, ch, D(k))
    BY <1>2, Zenon
  <2> DEFINE new == n - k
             v   == IF ch[new].freed THEN <<new>> ELSE <<new>> \o f[ch[new].next]
             g   == [i \in D(k + 1) |-> IF i = new THEN v ELSE f[i]]
  <2>2. new \in 1 .. n /\ D(k + 1) = D(k) \cup {new} /\ new \notin D(k)
    BY <1>0
  <2>3. \A i \in D(k + 1) : i # 0 => ch[i].next \in D(k)
    BY <1>0, <2>2
  <2>4. \A i \in D(k) : f[i] = IF i = 0 THEN <<>> ELSE IF ch[i].freed THEN <<i>>
                               ELSE <<i>> \o f[ch[i].next]
    BY <2>1, Zenon DEF IsListing
  <2> HIDE DEF D, new
  <2>5. \A i \in D(k) : g[i] = f[i]
    BY <2>2, Zenon
  <2>6. g[new] = v
    BY <2>2, Zenon
  <2>7. new # 0
    BY <2>2
  <2>8. \A i \in D(k + 1) : g[i] = IF i = 0 THEN <<>> ELSE IF ch[i].freed THEN <<i>>
                                   ELSE <<i>> \o g[ch[i].next]
    <3> HIDE DEF g
    <3> QED BY <2>2, <2>3, <2>4, <2>5, <2>6, <2>7, Zenon
  <2>9. g = [i \in D(k + 1) |-> g[i]]
    BY Zenon
  <2> HIDE DEF g
  <2>10. IsListing(g, ch, D(k + 1))
    BY <2>8, <2>9, Zenon DEF IsListing
  <2> QED BY <2>10, <1>2
<1>3. 0 .. n \subseteq S
  <2> HIDE DEF S, n
  <2> QED BY <1>0, <1>1, <1>2, FromZero, Zenon
<1>4. D(n) = 0 .. n
  BY <1>0
<1>5. n \in S
  <2> HIDE DEF S
  <2> QED BY <1>0, <1>3
<1> QED BY <1>4, <1>5, Zenon

(* Chunks follows the pointers.                                            *)
LEMMA ListUnfolds ==
  ASSUME NEW ch, Chained(ch), NEW c \in 0 .. Len(ch)
  PROVE  ListOf(ch, c) = IF c = 0 THEN <<>>
                         ELSE IF ch[c].freed THEN <<c>>
                         ELSE <<c>> \o ListOf(ch, ch[c].next)
<1> DEFINE D == 0 .. Len(ch)
           F == CHOOSE f : IsListing(f, ch, D)
<1>1. IsListing(F, ch, D)
  BY ListingExists, Zenon
<1>2. \A i : ListOf(ch, i) = F[i]
  BY Zenon DEF ListOf, IsListing
<1>3. F[c] = IF c = 0 THEN <<>> ELSE IF ch[c].freed THEN <<c>> ELSE <<c>> \o F[ch[c].next]
  BY <1>1, Zenon DEF IsListing
<1> HIDE DEF F
<1> QED BY <1>2, <1>3, Zenon

(* What holds of the end of a list and of each chunk if it holds of the    *)
(* next one holds of all chunks.                                           *)
LEMMA ListInduction ==
  ASSUME NEW ch, Chained(ch), NEW P, 0 \in P,
         \A c \in 1 .. Len(ch) : ch[c].next \in P => c \in P
  PROVE  0 .. Len(ch) \subseteq P
<1> DEFINE n == Len(ch)
           S == {k \in Nat : \A c \in 1 .. n : c > n - k => c \in P}
<1>0. n \in Nat /\ \A c \in 1 .. n : ch[c].next = 0 \/ (ch[c].next \in Nat /\ c < ch[c].next /\ ch[c].next <= n)
  BY ChunkTypes, Zenon DEF Chained
<1>1. 0 \in S
  BY <1>0
<1>2. ASSUME NEW k \in 0 .. n - 1, k \in S PROVE k + 1 \in S
  <2>1. \A c \in 1 .. n : c > n - k => c \in P
    BY <1>2, Zenon
  <2>2. ASSUME NEW c \in 1 .. n, c > n - (k + 1) PROVE c \in P
    <3>1. ch[c].next \in P
      BY <1>0, <2>1, <2>2
    <3> QED BY <3>1, Zenon
  <2>3. k + 1 \in Nat
    BY <1>0
  <2> QED BY <2>2, <2>3, Zenon
<1>3. 0 .. n \subseteq S
  <2> HIDE DEF S, n
  <2> QED BY <1>0, <1>1, <1>2, FromZero, Zenon
<1>4. n \in S
  BY <1>0, <1>3
<1> QED BY <1>0, <1>4

(* What a list is, without recursion.                                      *)
IsChain(S, ch, c) ==
  /\ S \in Seq(1 .. Len(ch))
  /\ S = <<>> <=> c = 0
  /\ c # 0 => /\ S[1] = c
              /\ ch[S[Len(S)]].freed \/ ch[S[Len(S)]].next = 0
  /\ \A j \in 1 .. Len(S) - 1 : ~ch[S[j]].freed /\ S[j + 1] = ch[S[j]].next

(* What ListOf computes is the chain of next pointers from a chunk on.     *)
LEMMA ListIsChain ==
  ASSUME NEW ch, Chained(ch), NEW c \in 0 .. Len(ch)
  PROVE  IsChain(ListOf(ch, c), ch, c)
<1> DEFINE n == Len(ch)
           P == {i \in 0 .. n : IsChain(ListOf(ch, i), ch, i)}
<1>0. n \in Nat /\ \A i \in 1 .. n : ch[i].next \in 0 .. n
  BY ChunkTypes DEF Chained
<1>1. 0 \in P
  <2>1. 0 \in 0 .. n /\ 0 = 0
    BY <1>0
  <2>2. ListOf(ch, 0) = <<>>
    BY <2>1, ListUnfolds, Zenon
  <2>3. IsChain(<<>>, ch, 0)
    BY DEF IsChain
  <2> QED BY <2>1, <2>2, <2>3, Zenon
<1>2. ASSUME NEW i \in 1 .. n, ch[i].next \in P PROVE i \in P
  <2> DEFINE m == ch[i].next
             T == ListOf(ch, m)
             L == ListOf(ch, i)
  <2>1. m \in 0 .. n /\ IsChain(T, ch, m)
    BY <1>2, Zenon
  <2>2. i \in 0 .. n /\ i # 0
    BY <1>0
  <2>3. L = IF ch[i].freed THEN <<i>> ELSE <<i>> \o T
    BY <2>2, ListUnfolds, Zenon
  <2> HIDE DEF L, T
  <2>4. ASSUME ch[i].freed PROVE IsChain(L, ch, i)
    <3>1. IsChain(<<i>>, ch, i)
      BY <2>2, <2>4 DEF IsChain
    <3> QED BY <2>3, <2>4, <3>1, Zenon
  <2>5. ASSUME ~ch[i].freed PROVE IsChain(L, ch, i)
    <3>1. /\ T \in Seq(1 .. n) /\ (T = <<>> <=> m = 0)
          /\ m # 0 => T[1] = m /\ (ch[T[Len(T)]].freed \/ ch[T[Len(T)]].next = 0)
          /\ \A j \in 1 .. Len(T) - 1 : ~ch[T[j]].freed /\ T[j + 1] = ch[T[j]].next
      BY <2>1, Zenon DEF IsChain
    <3>2. /\ L \in Seq(1 .. n) /\ Len(L) = Len(T) + 1 /\ L[1] = i /\ L # <<>> /\ Len(T) \in Nat
          /\ \A j \in 1 .. Len(T) : L[j + 1] = T[j]
      BY <2>3, <2>5, <3>1
    <3>3. ch[L[Len(L)]].freed \/ ch[L[Len(L)]].next = 0
      <4>1. CASE m = 0
        BY <4>1, <3>1, <3>2
      <4>2. CASE m # 0
        <5>1. Len(T) \in 1 .. Len(T)
          BY <4>2, <3>1
        <5> QED BY <5>1, <4>2, <3>1, <3>2
      <4> QED BY <4>1, <4>2, Zenon
    <3>4. ASSUME NEW j \in 1 .. Len(L) - 1 PROVE ~ch[L[j]].freed /\ L[j + 1] = ch[L[j]].next
      <4>1. CASE j = 1
        <5>1. T # <<>> /\ 1 \in 1 .. Len(T)
          BY <4>1, <3>1, <3>2, <3>4
        <5> QED BY <5>1, <4>1, <3>1, <3>2, <2>5, Zenon
      <4>2. CASE j # 1
        <5>1. j - 1 \in 1 .. Len(T) - 1 /\ j - 1 \in 1 .. Len(T) /\ j \in 1 .. Len(T)
          BY <4>2, <3>2, <3>4
        <5>2. L[j] = T[j - 1] /\ L[j + 1] = T[j]
          <6> DEFINE p == j - 1
          <6>1. p + 1 = j /\ p \in 1 .. Len(T)
            BY <5>1
          <6> HIDE DEF p
          <6>2. L[p + 1] = T[p] /\ L[j + 1] = T[j]
            BY <5>1, <6>1, <3>2, Zenon
          <6> QED BY <6>1, <6>2, Zenon DEF p
        <5>3. ~ch[T[j - 1]].freed /\ T[j] = ch[T[j - 1]].next
          BY <5>1, <3>1
        <5> QED BY <5>2, <5>3, Zenon
      <4> QED BY <4>1, <4>2, Zenon
    <3> QED BY <2>2, <3>2, <3>3, <3>4, Zenon DEF IsChain
  <2>6. IsChain(L, ch, i)
    BY <2>4, <2>5, Zenon
  <2> QED BY <2>2, <2>6, Zenon DEF L
<1>3. 0 .. n \subseteq P
  <2> HIDE DEF P
  <2> QED BY <1>1, <1>2, ListInduction, Zenon
<1> QED BY <1>3, Zenon

(* There is only one chain from a chunk on.                                *)
LEMMA ChainUnique ==
  ASSUME NEW ch, NEW c, NEW S, NEW T, IsChain(S, ch, c), IsChain(T, ch, c)
  PROVE  S = T
<1>0. /\ S \in Seq(1 .. Len(ch)) /\ T \in Seq(1 .. Len(ch))
      /\ (S = <<>> <=> c = 0) /\ (T = <<>> <=> c = 0)
      /\ c # 0 => S[1] = c /\ T[1] = c
      /\ c # 0 => ch[S[Len(S)]].freed \/ ch[S[Len(S)]].next = 0
      /\ c # 0 => ch[T[Len(T)]].freed \/ ch[T[Len(T)]].next = 0
      /\ \A j \in 1 .. Len(S) - 1 : ~ch[S[j]].freed /\ S[j + 1] = ch[S[j]].next
      /\ \A j \in 1 .. Len(T) - 1 : ~ch[T[j]].freed /\ T[j + 1] = ch[T[j]].next
  BY Zenon DEF IsChain
<1>1. CASE c = 0
  BY <1>0, <1>1, Zenon
<1>2. CASE c # 0
  <2>1. /\ Len(S) \in Nat /\ Len(T) \in Nat /\ Len(S) >= 1 /\ Len(T) >= 1
        /\ \A j \in 1 .. Len(S) : S[j] # 0
        /\ \A j \in 1 .. Len(T) : T[j] # 0
    BY <1>0, <1>2, SMTT(30)
  <2> DEFINE N == IF Len(S) <= Len(T) THEN Len(S) ELSE Len(T)
             P == {k \in Nat : S[k + 1] = T[k + 1]}
  <2>2. N \in Nat /\ N >= 1 /\ N <= Len(S) /\ N <= Len(T)
    BY <2>1
  <2> HIDE DEF N
  <2>3. 0 .. N - 1 \subseteq P
    <3>1. 0 \in P
      BY <1>0, <1>2
    <3>2. ASSUME NEW k \in 0 .. (N - 1) - 1, k \in P PROVE k + 1 \in P
      <4>1. k + 1 \in 1 .. Len(S) - 1 /\ k + 1 \in 1 .. Len(T) - 1 /\ k + 1 \in Nat
        BY <2>1, <2>2, <3>2
      <4>2. S[k + 1] = T[k + 1]
        BY <3>2, Zenon
      <4> QED BY <4>1, <4>2, <1>0, Zenon
    <3>3. N - 1 \in Nat
      BY <2>2
    <3> HIDE DEF P
    <3> QED BY <3>1, <3>2, <3>3, FromZero, Zenon
  <2>4. \A j \in 1 .. N : S[j] = T[j]
    BY <2>2, <2>3
  <2>5. Len(S) = Len(T)
    <3>1. CASE Len(S) < Len(T)
      <4>1. N = Len(S) /\ N \in 1 .. Len(T) - 1 /\ N + 1 \in 1 .. Len(T) /\ N \in 1 .. N
        BY <3>1, <2>1 DEF N
      <4>2. S[N] = T[N] /\ ~ch[T[N]].freed /\ T[N + 1] = ch[T[N]].next /\ T[N + 1] # 0
        BY <4>1, <2>1, <2>4, <1>0, Zenon
      <4> QED BY <4>1, <4>2, <1>0, <1>2, Zenon
    <3>2. CASE Len(T) < Len(S)
      <4>1. N = Len(T) /\ N \in 1 .. Len(S) - 1 /\ N + 1 \in 1 .. Len(S) /\ N \in 1 .. N
        BY <3>2, <2>1 DEF N
      <4>2. S[N] = T[N] /\ ~ch[S[N]].freed /\ S[N + 1] = ch[S[N]].next /\ S[N + 1] # 0
        BY <4>1, <2>1, <2>4, <1>0, Zenon
      <4> QED BY <4>1, <4>2, <1>0, <1>2, Zenon
    <3> QED BY <3>1, <3>2, <2>1
  <2>6. \A j \in 1 .. Len(S) : S[j] = T[j]
    BY <2>4, <2>5, Zenon DEF N
  <2> QED BY <2>5, <2>6, <1>0, SeqEqual, Zenon
<1> QED BY <1>1, <1>2, Zenon

(* A list is in the order of allocation, so that no chunk is in it twice.  *)
LEMMA ListOrdered ==
  ASSUME NEW ch, Chained(ch), NEW c \in 0 .. Len(ch), NEW i \in 1 .. Len(ListOf(ch, c)),
         NEW j \in 1 .. Len(ListOf(ch, c)), i < j
  PROVE  ListOf(ch, c)[i] < ListOf(ch, c)[j]
<1> DEFINE L == ListOf(ch, c)
           n == Len(L)
           P == {k \in Nat : L[i] < L[i + 1 + k]}
<1>1. /\ L \in Seq(1 .. Len(ch)) /\ n \in Nat /\ Len(ch) \in Nat
      /\ \A k \in 1 .. n - 1 : L[k + 1] = ch[L[k]].next
      /\ \A k \in 1 .. n : L[k] \in 1 .. Len(ch)
  BY ListIsChain, ChunkTypes, SMTT(30) DEF IsChain, Chained
<1>0. i \in 1 .. n /\ j \in 1 .. n
  BY Zenon
<1> HIDE DEF L
<1>2. ASSUME NEW k \in 1 .. n - 1 PROVE L[k] < L[k + 1]
  <2>1. L[k] \in 1 .. Len(ch) /\ L[k + 1] = ch[L[k]].next /\ L[k + 1] \in 1 .. Len(ch)
    BY <1>1
  <2> QED BY <2>1 DEF Chained
<1>3. 0 \in P
  BY <1>0, <1>1, <1>2
<1>4. ASSUME NEW k \in 0 .. (j - i - 1) - 1, k \in P PROVE k + 1 \in P
  <2>1. i + 1 + k \in 1 .. n - 1 /\ i + 1 + k + 1 \in 1 .. n /\ i + 1 + k + 1 = i + 1 + (k + 1)
    BY <1>0, <1>1
  <2>2. L[i] < L[i + 1 + k] /\ L[i + 1 + k] < L[i + 1 + k + 1]
    BY <2>1, <1>2, <1>4, Zenon
  <2>3. L[i] \in Nat /\ L[i + 1 + k] \in Nat /\ L[i + 1 + k + 1] \in Nat
    BY <2>1, <1>0, <1>1, SMTT(30)
  <2>4. L[i] < L[i + 1 + (k + 1)]
    BY <2>1, <2>2, <2>3
  <2> QED BY <2>4
<1>5. j - i - 1 \in Nat
  BY <1>0, <1>1
<1>6. j - i - 1 \in P
  <2> HIDE DEF P
  <2>1. 0 .. (j - i - 1) \subseteq P
    BY <1>3, <1>4, <1>5, FromZero, Zenon
  <2> QED BY <2>1, <1>5
<1>7. i + 1 + (j - i - 1) = j
  BY <1>0, <1>1
<1> QED BY <1>6, <1>7, Zenon DEF L

(* The rest of a list is the list of the chunk it begins with.             *)
LEMMA ListRest ==
  ASSUME NEW ch, Chained(ch), NEW c \in 0 .. Len(ch), NEW j \in 1 .. Len(ListOf(ch, c))
  PROVE  /\ ListOf(ch, c)[j] \in 1 .. Len(ch)
         /\ ListOf(ch, ListOf(ch, c)[j]) = SubSeq(ListOf(ch, c), j, Len(ListOf(ch, c)))
<1> DEFINE L == ListOf(ch, c)
           n == Len(L)
           R == SubSeq(L, j, n)
<1>0. IsChain(L, ch, c)
  BY ListIsChain, Zenon
<1>1. /\ L \in Seq(1 .. Len(ch)) /\ n \in Nat /\ c # 0
      /\ ch[L[n]].freed \/ ch[L[n]].next = 0
      /\ \A k \in 1 .. n - 1 : ~ch[L[k]].freed /\ L[k + 1] = ch[L[k]].next
  <2>1. n \in Nat /\ n # 0
    <3> HIDE DEF L
    <3> QED BY <1>0 DEF IsChain, L
  <2> HIDE DEF L
  <2> QED BY <2>1, <1>0, Zenon DEF IsChain
<1>2. L[j] \in 1 .. Len(ch) /\ L[j] # 0 /\ L[j] \in 0 .. Len(ch) /\ j \in 1 .. n
  BY <1>1
<1> HIDE DEF L
<1>3. /\ R \in Seq(1 .. Len(ch)) /\ Len(R) = n - j + 1
      /\ \A k \in 1 .. n - j + 1 : R[k] = L[j + k - 1]
  <2>1. /\ j \in Int /\ n \in Int /\ j <= n
        /\ \A i \in j .. n : L[i] \in 1 .. Len(ch)
    BY <1>1, <1>2, SMTT(30)
  <2> HIDE DEF n
  <2>2. /\ R \in Seq(1 .. Len(ch))
        /\ Len(R) = IF j <= n THEN n - j + 1 ELSE 0
        /\ \A k \in 1 .. n - j + 1 : R[k] = L[j + k - 1]
    BY <2>1, SubSeqProperties
  <2> HIDE DEF R
  <2> QED BY <2>1, <2>2, Zenon
<1>4. IsChain(R, ch, L[j])
  <2> HIDE DEF R
  <2>1. R # <<>> /\ R[1] = L[j] /\ R[Len(R)] = L[n]
    <3>1. Len(R) \in 1 .. n - j + 1 /\ 1 \in 1 .. n - j + 1 /\ j + Len(R) - 1 = n /\ j + 1 - 1 = j
      BY <1>1, <1>2, <1>3
    <3>2. R[1] = L[j] /\ R[Len(R)] = L[n]
      BY <3>1, <1>3, Zenon
    <3> QED BY <3>1, <3>2, <1>1, <1>2, <1>3
  <2>2. ASSUME NEW k \in 1 .. Len(R) - 1 PROVE ~ch[R[k]].freed /\ R[k + 1] = ch[R[k]].next
    <3>1. /\ k \in 1 .. n - j + 1 /\ k + 1 \in 1 .. n - j + 1
          /\ j + k - 1 \in 1 .. n - 1 /\ j + (k + 1) - 1 = j + k - 1 + 1
      <4>1. n \in Nat /\ j \in 1 .. n /\ k \in 1 .. Len(R) - 1 /\ Len(R) = n - j + 1
        BY <1>1, <1>2, <1>3, Zenon
      <4> HIDE DEF n
      <4>2. k \in 1 .. n - j
        BY <4>1
      <4> QED BY <4>1, <4>2
    <3>2. R[k] = L[j + k - 1] /\ R[k + 1] = L[j + (k + 1) - 1]
      BY <3>1, <1>3, Zenon
    <3> QED BY <3>1, <3>2, <1>1, Zenon
  <2> QED BY <2>1, <2>2, <1>1, <1>2, <1>3, Zenon DEF IsChain
<1>5. ListOf(ch, L[j]) = R
  BY <1>2, <1>4, ListIsChain, ChainUnique, Zenon
<1> QED BY <1>2, <1>5, Zenon DEF L

(* Chunks that keep their pointers form the same list.                     *)
LEMMA ListKept ==
  ASSUME NEW ch, NEW g, Chained(ch), Chained(g), NEW c \in 0 .. Len(ch), Len(ch) <= Len(g),
         \A j \in 1 .. Len(ListOf(ch, c)) :
           /\ g[ListOf(ch, c)[j]].next = ch[ListOf(ch, c)[j]].next
           /\ g[ListOf(ch, c)[j]].freed = ch[ListOf(ch, c)[j]].freed
  PROVE  ListOf(g, c) = ListOf(ch, c)
<1> DEFINE L == ListOf(ch, c)
<1>1. /\ L \in Seq(1 .. Len(ch)) /\ (L = <<>> <=> c = 0)
      /\ c # 0 => L[1] = c /\ (ch[L[Len(L)]].freed \/ ch[L[Len(L)]].next = 0)
      /\ \A j \in 1 .. Len(L) - 1 : ~ch[L[j]].freed /\ L[j + 1] = ch[L[j]].next
  BY ListIsChain DEF IsChain
<1>2. Len(ch) \in Nat /\ Len(g) \in Nat /\ c \in 0 .. Len(g)
  BY ChunkTypes DEF Chained
<1> HIDE DEF L
<1>3. \A j \in 1 .. Len(L) : g[L[j]].next = ch[L[j]].next /\ g[L[j]].freed = ch[L[j]].freed
  BY Zenon DEF L
<1>4. L \in Seq(1 .. Len(g)) /\ (c # 0 => Len(L) \in 1 .. Len(L))
  BY <1>1, <1>2
<1>5. c # 0 => g[L[Len(L)]].freed \/ g[L[Len(L)]].next = 0
  BY <1>1, <1>3, <1>4, Zenon
<1>6. ASSUME NEW j \in 1 .. Len(L) - 1 PROVE ~g[L[j]].freed /\ L[j + 1] = g[L[j]].next
  <2>1. j \in 1 .. Len(L)
    BY <1>4
  <2> QED BY <2>1, <1>1, <1>3, Zenon
<1>7. IsChain(L, g, c)
  BY <1>1, <1>4, <1>5, <1>6, Zenon DEF IsChain
<1> QED BY <1>2, <1>7, ListIsChain, ChainUnique, Zenon DEF L

(* In g, chunk new follows the last chunk of list S.                       *)
Continues(ch, g, S, new) ==
  \A j \in 1 .. Len(S) : /\ ~ch[S[j]].freed /\ ~g[S[j]].freed
                         /\ g[S[j]].next = IF j = Len(S) THEN new ELSE ch[S[j]].next

(* A chunk linked behind the last one of a list is the last one then.      *)
LEMMA ListLonger ==
  ASSUME NEW ch, NEW g, Chained(ch), Chained(g), NEW c \in 1 .. Len(ch), NEW new \in 1 .. Len(g),
         Len(ch) <= Len(g), g[new].next = 0, Continues(ch, g, ListOf(ch, c), new)
  PROVE  ListOf(g, c) = Append(ListOf(ch, c), new)
<1> DEFINE L == ListOf(ch, c)
           M == Append(L, new)
           n == Len(L)
<1>1. /\ L \in Seq(1 .. Len(ch)) /\ L # <<>> /\ c \in 0 .. Len(ch) /\ c # 0
      /\ L[1] = c
      /\ \A j \in 1 .. Len(L) - 1 : ~ch[L[j]].freed /\ L[j + 1] = ch[L[j]].next
  BY ListIsChain DEF IsChain
<1>2. Len(ch) \in Nat /\ Len(g) \in Nat /\ c \in 0 .. Len(g)
  BY ChunkTypes DEF Chained
<1> HIDE DEF L
<1>3. \A j \in 1 .. n : ~g[L[j]].freed /\ g[L[j]].next = IF j = n THEN new ELSE ch[L[j]].next
  BY Zenon DEF L, Continues
<1>4. /\ M \in Seq(1 .. Len(g)) /\ Len(M) = n + 1 /\ M[n + 1] = new /\ n \in Nat /\ n >= 1
      /\ \A j \in 1 .. n : M[j] = L[j]
  <2>1. L \in Seq(1 .. Len(g))
    BY <1>1, <1>2
  <2> QED BY <2>1, <1>1
<1> HIDE DEF M
<1>5. ASSUME NEW j \in 1 .. n PROVE ~g[M[j]].freed /\ M[j + 1] = g[M[j]].next
  <2>1. CASE j = n
    BY <2>1, <1>3, <1>4, Zenon
  <2>2. CASE j # n
    <3>1. j \in 1 .. n - 1 /\ j + 1 \in 1 .. n
      BY <2>2, <1>4
    <3>2. M[j] = L[j] /\ M[j + 1] = L[j + 1]
      BY <3>1, <1>4, Zenon
    <3> QED BY <3>1, <3>2, <2>2, <1>1, <1>3, Zenon
  <2> QED BY <2>1, <2>2, Zenon
<1>6. IsChain(M, g, c)
  <2>1. M # <<>> /\ M[1] = c /\ M[Len(M)] = new /\ Len(M) - 1 = n
    BY <1>1, <1>4
  <2> QED BY <2>1, <1>1, <1>4, <1>5, Zenon DEF IsChain
<1> QED BY <1>2, <1>6, ListIsChain, ChainUnique, Zenon DEF L, M

-----------------------------------------------------------------------------
(* What the operations do to the array of chunks.                          *)

(* The chunks point forward and hold no more than they have room for.      *)
Sane(ch) ==
  /\ Chained(ch)
  /\ \A c \in 1 .. Len(ch) : Len(ch[c].data) <= ch[c].cap

(* A chunk that is allocated for a file.                                   *)
Plain(r) == r \in ChunkSet /\ r.next = 0 /\ Len(r.data) <= r.cap /\ ~r.freed /\ ~r.input

(* g has the chunks of ch but for the data of c and, when it is longer,    *)
(* one new chunk, which c points to.                                       *)
Extends(ch, g, c) ==
  /\ Sane(g)
  /\ Len(g) \in {Len(ch), Len(ch) + 1}
  /\ \A i \in 1 .. Len(ch) :
       /\ g[i].freed = ch[i].freed /\ g[i].input = ch[i].input /\ g[i].cap = ch[i].cap
       /\ i # c => g[i] = ch[i]
  /\ Len(g) = Len(ch) => \A i \in 1 .. Len(ch) : g[i].next = ch[i].next
  /\ Len(g) = Len(ch) + 1 => Plain(g[Len(g)]) /\ (c # 0 => g[c].next = Len(g))

(* The types of chunks that are sane.                                      *)
LEMMA SaneTypes ==
  ASSUME NEW ch, Sane(ch)
  PROVE  /\ ch \in Seq(ChunkSet) /\ Len(ch) \in Nat /\ DOMAIN ch = 1 .. Len(ch)
         /\ \A c \in 1 .. Len(ch) :
              /\ ch[c] \in ChunkSet
              /\ ch[c].cap \in Nat /\ ch[c].data \in Seq(Int) /\ ch[c].next \in Nat
              /\ Len(ch[c].data) \in Nat /\ Len(ch[c].data) <= ch[c].cap
              /\ ch[c].next \in 0 .. Len(ch)
              /\ ch[c].next # 0 => c < ch[c].next
              /\ ch[c].input \in BOOLEAN /\ ch[c].freed \in BOOLEAN
<1>1. /\ ch \in Seq(ChunkSet)
      /\ \A c \in 1 .. Len(ch) : ch[c].next # 0 => c < ch[c].next /\ ch[c].next <= Len(ch)
      /\ \A c \in 1 .. Len(ch) : Len(ch[c].data) <= ch[c].cap
  BY Zenon DEF Sane, Chained
<1>2. /\ Len(ch) \in Nat /\ DOMAIN ch = 1 .. Len(ch)
      /\ \A c \in 1 .. Len(ch) :
           /\ ch[c] \in ChunkSet
           /\ ch[c].cap \in Nat /\ ch[c].data \in Seq(Int) /\ ch[c].next \in Nat
           /\ ch[c].input \in BOOLEAN /\ ch[c].freed \in BOOLEAN
  BY <1>1, ChunkTypes, Zenon
<1>3. \A s \in Seq(Int) : Len(s) \in Nat
  OBVIOUS
<1> QED BY <1>1, <1>2, <1>3

(* Chunk c gets other data, or the new chunk r as its next one.            *)
WithData(ch, c, x) == [ch EXCEPT ![c].data = x]

Linked(ch, c, r) == Append([ch EXCEPT ![c].next = Len(ch) + 1], r)

(* Other data in a structure.                                              *)
OnlyData(q, r, x) ==
  /\ r \in ChunkSet /\ r.data = x /\ r.cap = q.cap /\ r.next = q.next
  /\ r.input = q.input /\ r.freed = q.freed

(* An EXCEPT on the data does just that.                                   *)
LEMMA OtherData ==
  ASSUME NEW q \in ChunkSet, NEW x \in Seq(Int)
  PROVE  OnlyData(q, [q EXCEPT !.data = x], x)
<1> DEFINE S == Seq(Int)
           r == [q EXCEPT !.data = x]
<1>0. q \in [cap: Nat, data: S, next: Nat, input: BOOLEAN, freed: BOOLEAN] /\ x \in S
  BY Zenon DEF ChunkSet
<1> HIDE DEF S
<1>1. r \in [cap: Nat, data: S, next: Nat, input: BOOLEAN, freed: BOOLEAN]
  BY <1>0
<1>2. r.data = x /\ r.cap = q.cap /\ r.next = q.next /\ r.input = q.input /\ r.freed = q.freed
  BY <1>0
<1> QED BY <1>1, <1>2, Zenon DEF OnlyData, ChunkSet, S

(* Other data in one chunk.                                                *)
LEMMA DataChanged ==
  ASSUME NEW ch, Sane(ch), NEW c \in 1 .. Len(ch), NEW x \in Seq(Int), Len(x) <= ch[c].cap
  PROVE  /\ Extends(ch, WithData(ch, c, x), c)
         /\ Len(WithData(ch, c, x)) = Len(ch)
         /\ WithData(ch, c, x)[c].data = x
<1> DEFINE r == [ch[c] EXCEPT !.data = x]
           g == [ch EXCEPT ![c] = r]
<1>1. WithData(ch, c, x) = g
  BY Zenon DEF WithData
<1>2. /\ r \in ChunkSet /\ r.data = x /\ r.cap = ch[c].cap /\ r.next = ch[c].next
      /\ r.input = ch[c].input /\ r.freed = ch[c].freed
  <2>1. ch[c] \in ChunkSet
    BY SaneTypes, Zenon
  <2> QED BY <2>1, OtherData, Zenon DEF OnlyData
<1> HIDE DEF r
<1>3. /\ g \in Seq(ChunkSet) /\ Len(g) = Len(ch) /\ g[c] = r /\ Len(ch) \in Nat
      /\ \A i \in 1 .. Len(ch) : i # c => g[i] = ch[i]
  BY <1>2, SaneTypes
<1> HIDE DEF g
<1>4. Sane(g)
  BY <1>2, <1>3, SaneTypes, Zenon DEF Sane, Chained
<1>5. Extends(ch, g, c)
  BY <1>2, <1>3, <1>4 DEF Extends
<1> QED BY <1>1, <1>2, <1>3, <1>5, Zenon

(* A new chunk that nothing points to.                                     *)
LEMMA ChunkAdded ==
  ASSUME NEW ch, Sane(ch), NEW r, Plain(r)
  PROVE  /\ Extends(ch, Append(ch, r), 0) /\ Len(Append(ch, r)) = Len(ch) + 1
         /\ Append(ch, r)[Len(ch) + 1] = r
<1> DEFINE g == Append(ch, r)
<1>0. /\ ch \in Seq(ChunkSet) /\ Len(ch) \in Nat
      /\ \A i \in 1 .. Len(ch) :
           /\ ch[i] \in ChunkSet /\ ch[i].next \in 0 .. Len(ch) /\ (ch[i].next # 0 => i < ch[i].next)
           /\ Len(ch[i].data) \in Nat /\ Len(ch[i].data) <= ch[i].cap /\ ch[i].cap \in Nat
  BY SaneTypes, Zenon
<1>1. r \in ChunkSet /\ r.next = 0 /\ Len(r.data) <= r.cap
  BY Zenon DEF Plain
<1>2. /\ g \in Seq(ChunkSet) /\ Len(g) = Len(ch) + 1 /\ g[Len(ch) + 1] = r /\ Len(ch) \in Nat
      /\ \A i \in 1 .. Len(ch) : g[i] = ch[i]
  BY <1>0, <1>1
<1> HIDE DEF g
<1>3. Sane(g)
  <2>1. ASSUME NEW i \in 1 .. Len(g)
        PROVE  (g[i].next # 0 => i < g[i].next /\ g[i].next <= Len(g)) /\ Len(g[i].data) <= g[i].cap
    <3>1. CASE i = Len(ch) + 1
      BY <3>1, <1>1, <1>2, Zenon
    <3>2. CASE i \in 1 .. Len(ch)
      BY <3>2, <1>0, <1>2
    <3> QED BY <3>1, <3>2, <1>2
  <2> QED BY <2>1, <1>2, Zenon DEF Sane, Chained
<1>4. Extends(ch, g, 0)
  BY <1>2, <1>3, Zenon DEF Extends
<1> QED BY <1>2, <1>4, Zenon DEF g

(* A new chunk that c points to.                                           *)
LEMMA ChunkLinked ==
  ASSUME NEW ch, Sane(ch), NEW c \in 1 .. Len(ch), NEW r, Plain(r)
  PROVE  /\ Extends(ch, Linked(ch, c, r), c) /\ Len(Linked(ch, c, r)) = Len(ch) + 1
         /\ Linked(ch, c, r)[Len(ch) + 1] = r
         /\ Linked(ch, c, r)[c].data = ch[c].data
<1> DEFINE new == Len(ch) + 1
           q   == [ch[c] EXCEPT !.next = new]
           h   == [ch EXCEPT ![c] = q]
           g   == Append(h, r)
<1>0. /\ ch \in Seq(ChunkSet) /\ Len(ch) \in Nat
      /\ \A i \in 1 .. Len(ch) :
           /\ ch[i] \in ChunkSet /\ ch[i].next \in 0 .. Len(ch) /\ (ch[i].next # 0 => i < ch[i].next)
           /\ Len(ch[i].data) \in Nat /\ Len(ch[i].data) <= ch[i].cap /\ ch[i].cap \in Nat
  BY SaneTypes, Zenon
<1>1. Linked(ch, c, r) = g
  BY Zenon DEF Linked
<1>2. r \in ChunkSet /\ r.next = 0 /\ Len(r.data) <= r.cap
  BY Zenon DEF Plain
<1>3. /\ q \in ChunkSet /\ q.data = ch[c].data /\ q.cap = ch[c].cap /\ q.next = new
      /\ q.input = ch[c].input /\ q.freed = ch[c].freed
  <2>1. ch[c] \in ChunkSet /\ new \in Nat
    BY <1>0
  <2> HIDE DEF new
  <2> QED BY <2>1, Zenon DEF ChunkSet
<1> HIDE DEF q
<1>4. /\ h \in Seq(ChunkSet) /\ Len(h) = Len(ch) /\ h[c] = q /\ Len(ch) \in Nat
      /\ \A i \in 1 .. Len(ch) : i # c => h[i] = ch[i]
  BY <1>0, <1>3
<1> HIDE DEF h
<1>5. /\ g \in Seq(ChunkSet) /\ Len(g) = new /\ g[new] = r
      /\ \A i \in 1 .. Len(ch) : g[i] = h[i]
  BY <1>2, <1>4
<1> HIDE DEF g
<1>6. Sane(g)
  <2>1. ASSUME NEW i \in 1 .. Len(g)
        PROVE  (g[i].next # 0 => i < g[i].next /\ g[i].next <= Len(g)) /\ Len(g[i].data) <= g[i].cap
    <3>1. CASE i = new
      BY <3>1, <1>2, <1>5, Zenon
    <3>2. CASE i = c
      BY <3>2, <1>0, <1>3, <1>4, <1>5
    <3>3. CASE i \in 1 .. Len(ch) /\ i # c
      BY <3>3, <1>0, <1>4, <1>5
    <3> QED BY <3>1, <3>2, <3>3, <1>0, <1>5
  <2> QED BY <2>1, <1>5, Zenon DEF Sane, Chained
<1>7. Extends(ch, g, c)
  BY <1>3, <1>4, <1>5, <1>6 DEF Extends
<1> QED BY <1>1, <1>3, <1>4, <1>5, <1>7, Zenon

(* One after the other.                                                    *)
LEMMA ExtendsTwice ==
  ASSUME NEW ch, NEW g, NEW h, NEW c, Sane(ch), Extends(ch, g, c), Len(g) = Len(ch), Extends(g, h, c)
  PROVE  Extends(ch, h, c)
BY SaneTypes, Zenon DEF Extends

-----------------------------------------------------------------------------
(* The bytes in a list of chunks.                                          *)

IsFlattening(f, s) ==
  f = [i \in 1 .. Len(s) |-> IF i = 1 THEN s[i] ELSE f[i - 1] \o s[i]]

(* The recursion of FlattenSeq ends.                                       *)
LEMMA FlatteningExists ==
  ASSUME NEW s, Len(s) \in Nat
  PROVE  \E f : IsFlattening(f, s)
<1> DEFINE n       == Len(s)
           Up(f,k) == f = [i \in 1 .. k |-> IF i = 1 THEN s[i] ELSE f[i - 1] \o s[i]]
           S       == {k \in Nat : \E f : Up(f, k)}
<1>1. 0 \in S
  <2>1. Up([i \in 1 .. 0 |-> 0], 0)
    OBVIOUS
  <2> QED BY <2>1, Zenon
<1>2. ASSUME NEW k \in 0 .. n - 1, k \in S PROVE k + 1 \in S
  <2>1. PICK f : Up(f, k)
    BY <1>2, Zenon
  <2> DEFINE v == IF k = 0 THEN s[1] ELSE f[k] \o s[k + 1]
             g == [i \in 1 .. k + 1 |-> IF i = k + 1 THEN v ELSE f[i]]
  <2>2. \A i \in 1 .. k : f[i] = IF i = 1 THEN s[i] ELSE f[i - 1] \o s[i]
    BY <2>1, Zenon
  <2>3. k + 1 \in 1 .. k + 1 /\ \A i \in 1 .. k : i \in 1 .. k + 1 /\ i # k + 1
    OBVIOUS
  <2>4. g[k + 1] = v /\ \A i \in 1 .. k : g[i] = f[i]
    <3> HIDE DEF v
    <3> QED BY <2>3, Zenon
  <2>5. ASSUME NEW i \in 1 .. k + 1 PROVE g[i] = IF i = 1 THEN s[i] ELSE g[i - 1] \o s[i]
    <3> HIDE DEF g
    <3>1. CASE i = k + 1 /\ k = 0
      BY <3>1, <2>4
    <3>2. CASE i = k + 1 /\ k # 0
      <4>1. i # 1 /\ i - 1 = k /\ k \in 1 .. k
        BY <3>2
      <4>2. v = f[k] \o s[k + 1]
        BY <3>2, Zenon
      <4> HIDE DEF v
      <4> QED BY <3>2, <4>1, <4>2, <2>4, Zenon
    <3>3. CASE i \in 1 .. k /\ i = 1
      BY <3>3, <2>2, <2>4, Zenon
    <3>4. CASE i \in 1 .. k /\ i # 1
      <4>1. i - 1 \in 1 .. k
        BY <3>4
      <4> QED BY <3>4, <4>1, <2>2, <2>4, Zenon
    <3> QED BY <3>1, <3>2, <3>3, <3>4
  <2>6. g = [i \in 1 .. k + 1 |-> g[i]]
    BY Zenon
  <2> HIDE DEF g
  <2>7. Up(g, k + 1)
    BY <2>5, <2>6, Zenon
  <2>8. k + 1 \in Nat
    OBVIOUS
  <2> HIDE DEF Up
  <2> QED BY <2>7, <2>8, Zenon
<1>3. n \in S
  <2> HIDE DEF S
  <2>1. 0 .. n \subseteq S
    BY <1>1, <1>2, FromZero, Zenon
  <2> QED BY <2>1
<1> QED BY <1>3, Zenon DEF IsFlattening

(* FlattenSeq without recursion.                                           *)
LEMMA FlattenIs ==
  ASSUME NEW s, Len(s) \in Nat, Len(s) # 0
  PROVE  \E f : IsFlattening(f, s) /\ FlattenSeq(s) = f[Len(s)]
<1> DEFINE F == CHOOSE f : IsFlattening(f, s)
<1>1. IsFlattening(F, s)
  BY FlatteningExists, Zenon
<1>2. FlattenSeq(s) = F[Len(s)]
  BY Zenon DEF FlattenSeq, IsFlattening
<1> QED BY <1>1, <1>2, Zenon

(* The partial concatenations, one step at a time.                         *)
LEMMA FlatteningSteps ==
  ASSUME NEW s, NEW f, NEW n \in Nat, Len(s) = n, IsFlattening(f, s)
  PROVE  /\ n # 0 => f[1] = s[1]
         /\ \A j \in 1 .. n - 1 : f[j + 1] = f[j] \o s[j + 1]
<1>1. \A i \in 1 .. n : f[i] = IF i = 1 THEN s[i] ELSE f[i - 1] \o s[i]
  BY Zenon DEF IsFlattening
<1>2. ASSUME NEW j \in 1 .. n - 1 PROVE f[j + 1] = f[j] \o s[j + 1]
  <2> DEFINE i == j + 1
  <2>1. i \in 1 .. n /\ i # 1 /\ i - 1 = j
    OBVIOUS
  <2> HIDE DEF i
  <2>2. f[i] = f[i - 1] \o s[i]
    BY <2>1, <1>1, Zenon
  <2>3. f[i] = f[j] \o s[i]
    BY <2>1, <2>2, Zenon
  <2> QED BY <2>3, Zenon DEF i
<1>3. n # 0 => 1 \in 1 .. n
  OBVIOUS
<1> QED BY <1>1, <1>2, <1>3, Zenon

(* One sequence more.                                                      *)
LEMMA FlattenAppend ==
  ASSUME NEW T, NEW s \in Seq(Seq(T)), NEW e \in Seq(T), FlattenSeq(s) \in Seq(T)
  PROVE  FlattenSeq(Append(s, e)) = FlattenSeq(s) \o e
<1> DEFINE n == Len(s)
           t == Append(s, e)
<1>1. n \in Nat /\ Len(t) = n + 1 /\ t[n + 1] = e /\ \A i \in 1 .. n : t[i] = s[i]
  OBVIOUS
<1> HIDE DEF t
<1>2. PICK f : IsFlattening(f, t) /\ FlattenSeq(t) = f[n + 1]
  <2>1. Len(t) \in Nat /\ Len(t) # 0
    BY <1>1
  <2> QED BY <2>1, <1>1, FlattenIs, Zenon
<1>3. f[1] = t[1] /\ \A j \in 1 .. n : f[j + 1] = f[j] \o t[j + 1]
  <2> DEFINE m == n + 1
  <2>1. m \in Nat /\ m # 0 /\ m - 1 = n /\ Len(t) = m
    BY <1>1
  <2> HIDE DEF n, m
  <2>2. /\ m # 0 => f[1] = t[1]
        /\ \A j \in 1 .. m - 1 : f[j + 1] = f[j] \o t[j + 1]
    BY <2>1, <1>2, FlatteningSteps, Zenon
  <2> QED BY <2>1, <2>2, Zenon
<1>4. CASE n = 0
  <2>1. FlattenSeq(s) = s
    BY <1>4, Zenon DEF FlattenSeq
  <2>3. s = <<>>
    BY <1>4
  <2>2. f[1] = e
    BY <1>1, <1>3, <1>4
  <2> QED BY <2>1, <2>2, <2>3, <1>2, <1>4 DEF t
<1>5. CASE n # 0
  <2>1. PICK h : IsFlattening(h, s) /\ FlattenSeq(s) = h[n]
    BY <1>1, <1>5, FlattenIs, Zenon
  <2>2. h[1] = s[1] /\ \A j \in 1 .. n - 1 : h[j + 1] = h[j] \o s[j + 1]
    BY <2>1, <1>1, <1>5, FlatteningSteps, Zenon
  <2> HIDE DEF n
  <2> DEFINE P == {k \in Nat : f[k + 1] = h[k + 1]}
  <2>3. 0 \in P
    <3>1. 1 \in 1 .. n /\ 0 + 1 = 1
      BY <1>1, <1>5
    <3> QED BY <3>1, <1>1, <1>3, <2>2, Zenon
  <2>4. ASSUME NEW k \in 0 .. (n - 1) - 1, k \in P PROVE k + 1 \in P
    <3>1. k + 1 \in 1 .. n - 1 /\ k + 1 \in 1 .. n /\ k + 1 + 1 \in 1 .. n /\ k + 1 \in Nat
      BY <1>1
    <3>2. f[k + 1] = h[k + 1]
      BY <2>4, Zenon
    <3>3. f[k + 1 + 1] = f[k + 1] \o t[k + 1 + 1] /\ h[k + 1 + 1] = h[k + 1] \o s[k + 1 + 1]
          /\ t[k + 1 + 1] = s[k + 1 + 1]
      BY <3>1, <1>1, <1>3, <2>2, Zenon
    <3>4. f[k + 1 + 1] = h[k + 1 + 1]
      BY <3>2, <3>3, Zenon
    <3> QED BY <3>1, <3>4, Zenon
  <2>5. n - 1 \in P
    <3>1. n - 1 \in Nat
      BY <1>1, <1>5
    <3> HIDE DEF P
    <3>2. 0 .. n - 1 \subseteq P
      BY <3>1, <2>3, <2>4, FromZero, Zenon
    <3> QED BY <3>1, <3>2, <1>1
  <2>6. f[n] = h[n]
    <3>1. n - 1 + 1 = n
      BY <1>1
    <3> QED BY <2>5, <3>1, Zenon
  <2>7. f[n + 1] = f[n] \o e
    <3>1. n \in 1 .. n
      BY <1>1, <1>5
    <3> QED BY <3>1, <1>1, <1>3, Zenon
  <2> QED BY <2>1, <2>6, <2>7, <1>2, Zenon DEF t
<1> QED BY <1>4, <1>5, Zenon

(* DataOf for any array of chunks, and the number of bytes in the first k  *)
(* chunks of a list.                                                       *)
DataIn(ch, S) == FlattenSeq([j \in DOMAIN S |-> ch[S[j]].data])
BytesIn(ch, S, k) == Len(DataIn(ch, SubSeq(S, 1, k)))

(* The data of a list is that of its chunks in a row.                      *)
LEMMA DataGrows ==
  ASSUME NEW ch \in Seq(ChunkSet), NEW S \in Seq(1 .. Len(ch))
  PROVE  /\ DataIn(ch, S) = DataIn(ch, SubSeq(S, 1, Len(S)))
         /\ DataIn(ch, SubSeq(S, 1, 0)) = <<>>
         /\ \A k \in 0 .. Len(S) : DataIn(ch, SubSeq(S, 1, k)) \in Seq(Int)
         /\ \A k \in 0 .. Len(S) - 1 :
              DataIn(ch, SubSeq(S, 1, k + 1)) = DataIn(ch, SubSeq(S, 1, k)) \o ch[S[k + 1]].data
<1> DEFINE n    == Len(S)
           D(k) == [j \in 1 .. k |-> ch[S[j]].data]
           F(k) == DataIn(ch, SubSeq(S, 1, k))
<1>1. n \in Nat /\ \A j \in 1 .. n : S[j] \in 1 .. Len(ch) /\ ch[S[j]].data \in Seq(Int)
  BY ChunkTypes
<1>2. ASSUME NEW k \in 0 .. n PROVE F(k) = FlattenSeq(D(k)) /\ D(k) \in Seq(Seq(Int)) /\ Len(D(k)) = k
  <2>1. DOMAIN SubSeq(S, 1, k) = 1 .. k /\ \A j \in 1 .. k : SubSeq(S, 1, k)[j] = S[j]
    BY <1>1
  <2>2. [j \in DOMAIN SubSeq(S, 1, k) |-> ch[SubSeq(S, 1, k)[j]].data] = D(k)
    BY <2>1, Zenon
  <2>3. F(k) = FlattenSeq(D(k))
    BY <2>2, Zenon DEF DataIn
  <2>4. \A j \in 1 .. k : ch[S[j]].data \in Seq(Int)
    BY <1>1
  <2> QED BY <2>3, <2>4
<1>3. ASSUME NEW k \in 0 .. n - 1 PROVE D(k + 1) = Append(D(k), ch[S[k + 1]].data)
  <2>1. k \in 0 .. n /\ k + 1 \in 0 .. n /\ k + 1 \in 1 .. n
    BY <1>1
  <2>2. D(k) \in Seq(Seq(Int)) /\ Len(D(k)) = k /\ D(k + 1) \in Seq(Seq(Int)) /\ Len(D(k + 1)) = k + 1
    BY <2>1, <1>2, Zenon
  <2>3. ch[S[k + 1]].data \in Seq(Int)
    BY <2>1, <1>1, Zenon
  <2>4. D(k + 1)[k + 1] = ch[S[k + 1]].data /\ \A j \in 1 .. k : D(k + 1)[j] = D(k)[j]
    OBVIOUS
  <2> DEFINE a == D(k)
             b == D(k + 1)
             x == ch[S[k + 1]].data
  <2> HIDE DEF a, b, x
  <2>5. Append(a, x) \in Seq(Seq(Int)) /\ Len(Append(a, x)) = k + 1 /\ Append(a, x)[k + 1] = x
        /\ \A j \in 1 .. k : Append(a, x)[j] = a[j]
    BY <2>2, <2>3 DEF a, x
  <2>6. \A j \in 1 .. k + 1 : b[j] = Append(a, x)[j]
    <3>1. \A j \in 1 .. k + 1 : j = k + 1 \/ j \in 1 .. k
      OBVIOUS
    <3> QED BY <3>1, <2>4, <2>5, Zenon DEF a, b, x
  <2>7. b = Append(a, x)
    <3>1. b \in Seq(Seq(Int)) /\ Len(b) = k + 1
      BY <2>2, Zenon DEF b
    <3> QED BY <3>1, <2>5, <2>6, SeqEqual, Zenon
  <2> QED BY <2>7, Zenon DEF a, b, x
<1> HIDE DEF D
<1>4. F(0) = <<>>
  <2>1. 0 \in 0 .. n
    BY <1>1
  <2>2. D(0) = <<>> /\ Len(D(0)) = 0
    BY <2>1, <1>2
  <2>3. FlattenSeq(D(0)) = D(0)
    BY <2>2, Zenon DEF FlattenSeq
  <2> QED BY <2>1, <2>2, <2>3, <1>2, Zenon
<1>5. ASSUME NEW k \in 0 .. n - 1, F(k) \in Seq(Int)
      PROVE  F(k + 1) = F(k) \o ch[S[k + 1]].data /\ F(k + 1) \in Seq(Int)
  <2>1. k \in 0 .. n /\ k + 1 \in 0 .. n /\ k + 1 \in 1 .. n
    BY <1>1
  <2>2. ch[S[k + 1]].data \in Seq(Int)
    BY <2>1, <1>1, Zenon
  <2>3. D(k) \in Seq(Seq(Int)) /\ F(k) = FlattenSeq(D(k)) /\ F(k + 1) = FlattenSeq(D(k + 1))
    BY <2>1, <1>2, Zenon
  <2>4. F(k + 1) = F(k) \o ch[S[k + 1]].data
    <3> HIDE DEF F
    <3> QED BY <2>2, <2>3, <1>3, <1>5, FlattenAppend, Zenon
  <2>5. \A s, t \in Seq(Int) : s \o t \in Seq(Int)
    OBVIOUS
  <2> HIDE DEF F
  <2> QED BY <2>2, <2>4, <2>5, <1>5, Zenon
<1> DEFINE P == {k \in Nat : F(k) \in Seq(Int)}
<1>6. 0 .. n \subseteq P
  <2>1. 0 \in P
    <3>1. <<>> \in Seq(Int) /\ 0 \in Nat
      OBVIOUS
    <3> HIDE DEF F
    <3> QED BY <3>1, <1>4, Zenon
  <2>2. ASSUME NEW k \in 0 .. n - 1, k \in P PROVE k + 1 \in P
    <3>1. F(k) \in Seq(Int)
      BY <2>2, Zenon
    <3> HIDE DEF F
    <3> QED BY <3>1, <1>5
  <2> HIDE DEF P
  <2> QED BY <2>1, <2>2, <1>1, FromZero, Zenon
<1>7. \A k \in 0 .. n : F(k) \in Seq(Int)
  <2> HIDE DEF F
  <2> QED BY <1>6, Zenon
<1>8. \A k \in 0 .. n - 1 : k \in 0 .. n
  BY <1>1
<1>9. SubSeq(S, 1, n) = S
  BY <1>1
<1> QED BY <1>4, <1>5, <1>7, <1>8, <1>9, Zenon

(* The number of bytes grows by those of the next chunk.                   *)
LEMMA BytesGrow ==
  ASSUME NEW ch \in Seq(ChunkSet), NEW S \in Seq(1 .. Len(ch))
  PROVE  /\ BytesIn(ch, S, 0) = 0 /\ Len(DataIn(ch, S)) = BytesIn(ch, S, Len(S))
         /\ \A k \in 0 .. Len(S) : BytesIn(ch, S, k) \in Nat
         /\ \A k \in 0 .. Len(S) - 1 :
              BytesIn(ch, S, k + 1) = BytesIn(ch, S, k) + Len(ch[S[k + 1]].data)
<1>1. /\ DataIn(ch, S) = DataIn(ch, SubSeq(S, 1, Len(S)))
      /\ DataIn(ch, SubSeq(S, 1, 0)) = <<>>
      /\ \A k \in 0 .. Len(S) : DataIn(ch, SubSeq(S, 1, k)) \in Seq(Int)
      /\ \A k \in 0 .. Len(S) - 1 :
           DataIn(ch, SubSeq(S, 1, k + 1)) = DataIn(ch, SubSeq(S, 1, k)) \o ch[S[k + 1]].data
  BY DataGrows, Zenon
<1>2. \A s \in Seq(Int) : Len(s) \in Nat
  OBVIOUS
<1>3. Len(<<>>) = 0
  BY Zenon
<1>4. ASSUME NEW k \in 0 .. Len(S) - 1
      PROVE  BytesIn(ch, S, k + 1) = BytesIn(ch, S, k) + Len(ch[S[k + 1]].data)
  <2>1. Len(S) \in Nat /\ k \in 0 .. Len(S) /\ k + 1 \in 1 .. Len(S)
    OBVIOUS
  <2>2. ch[S[k + 1]].data \in Seq(Int)
    BY <2>1, ChunkTypes
  <2>3. \A s, t \in Seq(Int) : Len(s \o t) = Len(s) + Len(t)
    OBVIOUS
  <2> QED BY <2>1, <2>2, <2>3, <1>1, Zenon DEF BytesIn
<1> QED BY <1>1, <1>2, <1>3, <1>4, Zenon DEF BytesIn

-----------------------------------------------------------------------------
(* The reserved bytes in a list of chunks.                                 *)

IsSumming(f, ch, S) ==
  f = [i \in 0 .. Len(S) |-> IF i = 0 THEN 0 ELSE f[i - 1] + ch[S[i]].cap]

(* CapBefore for any array of chunks: what the first k chunks of S hold.   *)
CapIn(ch, S, k) ==
  LET Sum[i \in 0 .. Len(S)] == IF i = 0 THEN 0 ELSE Sum[i - 1] + ch[S[i]].cap
  IN  Sum[k]

(* The running sums of the capacities in a list exist, so that the         *)
(* recursive definition has a value.                                       *)
LEMMA SummingExists ==
  ASSUME NEW ch, NEW S, Len(S) \in Nat
  PROVE  \E f : IsSumming(f, ch, S)
<1> DEFINE n        == Len(S)
           Up(f, k) == f = [i \in 0 .. k |-> IF i = 0 THEN 0 ELSE f[i - 1] + ch[S[i]].cap]
           N        == {k \in Nat : \E f : Up(f, k)}
<1>1. 0 \in N
  <2>1. Up([i \in 0 .. 0 |-> 0], 0)
    OBVIOUS
  <2> QED BY <2>1, Zenon
<1>2. ASSUME NEW k \in 0 .. n - 1, k \in N PROVE k + 1 \in N
  <2>1. PICK f : Up(f, k)
    BY <1>2, Zenon
  <2> DEFINE v == f[k] + ch[S[k + 1]].cap
             g == [i \in 0 .. k + 1 |-> IF i = k + 1 THEN v ELSE f[i]]
  <2>2. \A i \in 0 .. k : f[i] = IF i = 0 THEN 0 ELSE f[i - 1] + ch[S[i]].cap
    BY <2>1, Zenon
  <2>3. k + 1 \in 0 .. k + 1 /\ \A i \in 0 .. k : i \in 0 .. k + 1 /\ i # k + 1
    OBVIOUS
  <2>4. g[k + 1] = v /\ \A i \in 0 .. k : g[i] = f[i]
    <3> HIDE DEF v
    <3> QED BY <2>3, Zenon
  <2>5. ASSUME NEW i \in 0 .. k + 1 PROVE g[i] = IF i = 0 THEN 0 ELSE g[i - 1] + ch[S[i]].cap
    <3> HIDE DEF g
    <3>1. CASE i = k + 1
      <4>1. i # 0 /\ i - 1 = k /\ k \in 0 .. k
        BY <3>1
      <4> QED BY <3>1, <4>1, <2>4, Zenon
    <3>2. CASE i \in 0 .. k /\ i = 0
      BY <3>2, <2>2, <2>4, Zenon
    <3>3. CASE i \in 0 .. k /\ i # 0
      <4>1. i - 1 \in 0 .. k
        BY <3>3
      <4> QED BY <3>3, <4>1, <2>2, <2>4, Zenon
    <3> QED BY <3>1, <3>2, <3>3
  <2>6. g = [i \in 0 .. k + 1 |-> g[i]]
    BY Zenon
  <2> HIDE DEF g
  <2>7. Up(g, k + 1)
    BY <2>5, <2>6, Zenon
  <2>8. k + 1 \in Nat
    OBVIOUS
  <2> HIDE DEF Up
  <2> QED BY <2>7, <2>8, Zenon
<1>3. n \in N
  <2> HIDE DEF N
  <2>1. 0 .. n \subseteq N
    BY <1>1, <1>2, FromZero, Zenon
  <2> QED BY <2>1
<1> QED BY <1>3, Zenon DEF IsSumming

(* The room grows by that of the next chunk.                               *)
LEMMA CapGrows ==
  ASSUME NEW ch \in Seq(ChunkSet), NEW S \in Seq(1 .. Len(ch))
  PROVE  /\ CapIn(ch, S, 0) = 0
         /\ \A k \in 0 .. Len(S) : CapIn(ch, S, k) \in Nat
         /\ \A k \in 0 .. Len(S) - 1 : CapIn(ch, S, k + 1) = CapIn(ch, S, k) + ch[S[k + 1]].cap
<1> DEFINE n == Len(S)
           F == CHOOSE f : IsSumming(f, ch, S)
<1>0. n \in Nat /\ \A j \in 1 .. n : ch[S[j]].cap \in Nat
  BY ChunkTypes
<1>1. IsSumming(F, ch, S)
  BY <1>0, SummingExists, Zenon
<1>2. \A k : CapIn(ch, S, k) = F[k]
  BY Zenon DEF CapIn, IsSumming
<1> HIDE DEF F
<1>3. \A i \in 0 .. n : F[i] = IF i = 0 THEN 0 ELSE F[i - 1] + ch[S[i]].cap
  BY <1>1, Zenon DEF IsSumming
<1>4. F[0] = 0
  BY <1>0, <1>3
<1>5. ASSUME NEW k \in 0 .. n - 1 PROVE F[k + 1] = F[k] + ch[S[k + 1]].cap
  <2> DEFINE i == k + 1
  <2>1. i \in 0 .. n /\ i # 0 /\ i - 1 = k
    BY <1>0
  <2> HIDE DEF i
  <2>2. F[i] = F[k] + ch[S[i]].cap
    BY <2>1, <1>3, Zenon
  <2> QED BY <2>2, Zenon DEF i
<1>6. 0 .. n \subseteq {k \in Nat : F[k] \in Nat}
  <2> DEFINE P == {k \in Nat : F[k] \in Nat}
  <2>1. 0 \in P
    BY <1>4
  <2>2. ASSUME NEW k \in 0 .. n - 1, k \in P PROVE k + 1 \in P
    <3>1. k + 1 \in 1 .. n /\ F[k] \in Nat
      BY <1>0, <2>2
    <3>2. F[k + 1] = F[k] + ch[S[k + 1]].cap /\ ch[S[k + 1]].cap \in Nat
      BY <3>1, <1>0, <1>5, Zenon
    <3>3. F[k + 1] \in Nat
      BY <3>1, <3>2
    <3> QED BY <3>1, <3>3
  <2> HIDE DEF P
  <2>3. 0 .. n \subseteq P
    BY <2>1, <2>2, <1>0, FromZero, Zenon
  <2> QED BY <2>3, Zenon DEF P
<1> QED BY <1>2, <1>4, <1>5, <1>6, Zenon

-----------------------------------------------------------------------------
(* The types of files and descriptors.                                     *)

NodeSet == [content: Nat, links: Int, opens: Int, mode: SUBSET {"r", "w"}, freed: BOOLEAN]

DescSet == [file: Nat, chunk: Nat, offset: Int, acc: {"R", "W", "RW"}, append: BOOLEAN]

(* Files whose content is one of n chunks.                                 *)
Nodes(nd, n) == nd \in Seq(NodeSet) /\ \A f \in 1 .. Len(nd) : nd[f].content <= n

(* The types of the parts of files and descriptors.                        *)
LEMMA NodeTypes ==
  ASSUME NEW nd, NEW n \in Nat, Nodes(nd, n)
  PROVE  /\ nd \in Seq(NodeSet) /\ Len(nd) \in Nat /\ DOMAIN nd = 1 .. Len(nd)
         /\ \A f \in 1 .. Len(nd) :
              /\ nd[f] \in NodeSet /\ nd[f].content \in 0 .. n
              /\ nd[f].links \in Int /\ nd[f].opens \in Int /\ nd[f].freed \in BOOLEAN
              /\ nd[f].mode \in SUBSET {"r", "w"}
<1>1. /\ nd \in Seq(NodeSet) /\ Len(nd) \in Nat /\ DOMAIN nd = 1 .. Len(nd)
      /\ \A f \in 1 .. Len(nd) : nd[f] \in NodeSet /\ nd[f].content <= n
  BY DEF Nodes
<1>2. \A r \in NodeSet : /\ r.content \in Nat /\ r.links \in Int /\ r.opens \in Int
                         /\ r.freed \in BOOLEAN /\ r.mode \in SUBSET {"r", "w"}
  BY Zenon DEF NodeSet
<1> QED BY <1>1, <1>2

(* A change of one file.                                                   *)
LEMMA NodeChanged ==
  ASSUME NEW nd, NEW n \in Nat, Nodes(nd, n), NEW f \in 1 .. Len(nd), NEW r \in NodeSet, r.content <= n
  PROVE  /\ Nodes([nd EXCEPT ![f] = r], n) /\ Len([nd EXCEPT ![f] = r]) = Len(nd)
         /\ [nd EXCEPT ![f] = r][f] = r
         /\ \A i \in 1 .. Len(nd) : i # f => [nd EXCEPT ![f] = r][i] = nd[i]
<1> DEFINE g == [nd EXCEPT ![f] = r]
<1>1. nd \in Seq(NodeSet) /\ \A i \in 1 .. Len(nd) : nd[i].content <= n
  BY Zenon DEF Nodes
<1>2. /\ g \in Seq(NodeSet) /\ Len(g) = Len(nd) /\ g[f] = r
      /\ \A i \in 1 .. Len(nd) : i # f => g[i] = nd[i]
  BY <1>1
<1> HIDE DEF g
<1>3. Nodes(g, n)
  BY <1>1, <1>2, Zenon DEF Nodes
<1> QED BY <1>2, <1>3, Zenon DEF g

(* What free_data, open and write change.                                  *)
Recounted(nd, f, l, o, b) == [nd EXCEPT ![f].links = l, ![f].opens = o, ![f].freed = b]

Opened(nd, f, c) == [nd EXCEPT ![f].content = c, ![f].opens = @ + 1]

Holding(nd, f, c) == [nd EXCEPT ![f].content = c]

(* A file with other counts is otherwise as before, and so are the other   *)
(* files.                                                                  *)
LEMMA CountsChanged ==
  ASSUME NEW nd, NEW n \in Nat, Nodes(nd, n), NEW f \in 1 .. Len(nd),
         NEW l \in Int, NEW o \in Int, NEW b \in BOOLEAN
  PROVE  LET g == Recounted(nd, f, l, o, b)
         IN  /\ Nodes(g, n) /\ Len(g) = Len(nd)
             /\ g[f].links = l /\ g[f].opens = o /\ g[f].freed = b
             /\ g[f].content = nd[f].content
             /\ \A i \in 1 .. Len(nd) : i # f => g[i] = nd[i]
<1> DEFINE r == [nd[f] EXCEPT !.links = l, !.opens = o, !.freed = b]
           g == [nd EXCEPT ![f] = r]
<1>1. nd[f] \in NodeSet /\ nd[f].content <= n /\ nd \in Seq(NodeSet)
  BY DEF Nodes
<1>2. Recounted(nd, f, l, o, b) = g
  BY <1>1, Zenon DEF Recounted
<1>3. /\ r \in NodeSet /\ r.links = l /\ r.opens = o /\ r.freed = b
      /\ r.content = nd[f].content
  BY <1>1, Zenon DEF NodeSet
<1> HIDE DEF r
<1>4. /\ Nodes(g, n) /\ Len(g) = Len(nd) /\ g[f] = r
      /\ \A i \in 1 .. Len(nd) : i # f => g[i] = nd[i]
  BY <1>1, <1>3, NodeChanged
<1> HIDE DEF g
<1> QED BY <1>2, <1>3, <1>4, Zenon

(* A file opened once more, with its content replaced.                     *)
LEMMA OpenChanged ==
  ASSUME NEW nd, NEW n \in Nat, Nodes(nd, n), NEW f \in 1 .. Len(nd), NEW c \in 0 .. n
  PROVE  LET g == Opened(nd, f, c)
         IN  /\ Nodes(g, n) /\ Len(g) = Len(nd)
             /\ g[f].links = nd[f].links /\ g[f].opens = nd[f].opens + 1
             /\ g[f].freed = nd[f].freed /\ g[f].content = c
             /\ \A i \in 1 .. Len(nd) : i # f => g[i] = nd[i]
<1> DEFINE o == nd[f].opens + 1
           r == [nd[f] EXCEPT !.content = c, !.opens = o]
           g == [nd EXCEPT ![f] = r]
<1>1. nd[f] \in NodeSet /\ nd \in Seq(NodeSet) /\ o \in Int /\ c \in Nat /\ c <= n
  BY NodeTypes
<1>2. Opened(nd, f, c) = g
  BY <1>1, Zenon DEF Opened
<1> HIDE DEF o
<1>3. /\ r \in NodeSet /\ r.links = nd[f].links /\ r.opens = o
      /\ r.freed = nd[f].freed /\ r.content = c
  BY <1>1, Zenon DEF NodeSet
<1> HIDE DEF r
<1>4. /\ Nodes(g, n) /\ Len(g) = Len(nd) /\ g[f] = r
      /\ \A i \in 1 .. Len(nd) : i # f => g[i] = nd[i]
  BY <1>1, <1>3, NodeChanged
<1> HIDE DEF g
<1> QED BY <1>2, <1>3, <1>4, Zenon DEF o

(* A file with another content keeps its counts.                           *)
LEMMA ContentChanged ==
  ASSUME NEW nd, NEW n \in Nat, Nodes(nd, n), NEW f \in 1 .. Len(nd), NEW c \in 0 .. n
  PROVE  LET g == Holding(nd, f, c)
         IN  /\ Nodes(g, n) /\ Len(g) = Len(nd)
             /\ g[f].links = nd[f].links /\ g[f].opens = nd[f].opens
             /\ g[f].freed = nd[f].freed /\ g[f].content = c
             /\ \A i \in 1 .. Len(nd) : i # f => g[i] = nd[i]
<1> DEFINE r == [nd[f] EXCEPT !.content = c]
           g == [nd EXCEPT ![f] = r]
<1>1. nd[f] \in NodeSet /\ nd \in Seq(NodeSet) /\ c \in Nat /\ c <= n
  BY NodeTypes
<1>2. Holding(nd, f, c) = g
  BY <1>1, Zenon DEF Holding
<1>3. /\ r \in NodeSet /\ r.links = nd[f].links /\ r.opens = nd[f].opens
      /\ r.freed = nd[f].freed /\ r.content = c
  BY <1>1, Zenon DEF NodeSet
<1> HIDE DEF r
<1>4. /\ Nodes(g, n) /\ Len(g) = Len(nd) /\ g[f] = r
      /\ \A i \in 1 .. Len(nd) : i # f => g[i] = nd[i]
  BY <1>1, <1>3, NodeChanged
<1> HIDE DEF g
<1> QED BY <1>2, <1>3, <1>4, Zenon

-----------------------------------------------------------------------------
(* Counting.                                                               *)

(* The elements of D that u leads to f, and their number.                  *)
Leading(D, u, f) == {e \in D : u[e] = f}
Count(D, u, f) == Cardinality(Leading(D, u, f))

(* The number of entries that lead to a file; it is positive when there is *)
(* one.                                                                    *)
LEMMA CountTypes ==
  ASSUME NEW D, IsFiniteSet(D), NEW u, NEW f
  PROVE  /\ IsFiniteSet(Leading(D, u, f)) /\ Count(D, u, f) \in Nat
         /\ \A x \in D : u[x] = f => Count(D, u, f) > 0
<1> DEFINE A == Leading(D, u, f)
<1>1. A \in SUBSET D
  BY Zenon DEF Leading
<1>2. IsFiniteSet(A) /\ Cardinality(A) \in Nat
  BY <1>1, FS_Subset, FS_CardinalityType, Zenon
<1>3. ASSUME NEW x \in D, u[x] = f PROVE Cardinality(A) > 0
  <2>1. A # {}
    BY <1>3, Zenon DEF Leading
  <2> HIDE DEF A
  <2>2. Cardinality(A) # 0
    BY <1>2, <2>1, FS_EmptySet, Zenon
  <2> QED BY <1>2, <2>2
<1> QED BY <1>2, <1>3, Zenon DEF Count

(* One element leads elsewhere.                                            *)
Redirects(D, u, v, x) == IsFiniteSet(D) /\ x \in D /\ \A e \in D : e # x => v[e] = u[e]

(* When one entry is redirected, the number changes by one for the file it *)
(* led to and for the one it leads to.                                     *)
LEMMA CountMoves ==
  ASSUME NEW D, NEW u, NEW v, NEW x, Redirects(D, u, v, x), NEW f
  PROVE  /\ u[x] = f /\ v[x] # f => Count(D, v, f) = Count(D, u, f) - 1
         /\ u[x] # f /\ v[x] = f => Count(D, v, f) = Count(D, u, f) + 1
         /\ (u[x] = f <=> v[x] = f) => Count(D, v, f) = Count(D, u, f)
<1> DEFINE A == Leading(D, u, f)
           B == Leading(D, v, f)
<1>0. IsFiniteSet(D) /\ x \in D /\ \A e \in D : e # x => v[e] = u[e]
  BY Zenon DEF Redirects
<1>1. IsFiniteSet(A)
  BY <1>0, CountTypes, Zenon
<1>2. ASSUME u[x] = f, v[x] # f PROVE Cardinality(B) = Cardinality(A) - 1
  <2>1. B = A \ {x} /\ x \in A
    BY <1>0, <1>2 DEF Leading
  <2> HIDE DEF A, B
  <2> QED BY <1>1, <2>1, FS_RemoveElement, Zenon
<1>3. ASSUME u[x] # f, v[x] = f PROVE Cardinality(B) = Cardinality(A) + 1
  <2>1. B = A \cup {x} /\ x \notin A
    BY <1>0, <1>3, Zenon DEF Leading
  <2> HIDE DEF A, B
  <2> QED BY <1>1, <2>1, FS_AddElement, Zenon
<1>4. ASSUME u[x] = f <=> v[x] = f PROVE B = A
  BY <1>0, <1>4, Zenon DEF Leading
<1> QED BY <1>2, <1>3, <1>4, Zenon DEF Count

(* An element alone leads to f, or none does.                              *)
LEMMA CountFew ==
  ASSUME NEW D, NEW u, NEW f
  PROVE  /\ (\A e \in D : u[e] # f) => Count(D, u, f) = 0
         /\ \A x \in D : (\A e \in D : u[e] = f <=> e = x) => Count(D, u, f) = 1
<1>1. ASSUME \A e \in D : u[e] # f PROVE Count(D, u, f) = 0
  <2>1. Leading(D, u, f) = {}
    BY <1>1, Zenon DEF Leading
  <2> QED BY <2>1, FS_EmptySet, Zenon DEF Count
<1>2. ASSUME NEW x \in D, \A e \in D : u[e] = f <=> e = x PROVE Count(D, u, f) = 1
  <2>1. Leading(D, u, f) = {x}
    BY <1>2, Zenon DEF Leading
  <2> QED BY <2>1, FS_Singleton, Zenon DEF Count
<1> QED BY <1>1, <1>2, Zenon

-----------------------------------------------------------------------------
(* The chunks of the files.                                                *)

Live(nd) == {f \in 1 .. Len(nd) : ~nd[f].freed}

ChunksOf(nd, ch, f) == Range(ListOf(ch, nd[f].content))

(* Every chunk that is not freed is in the list of exactly one file, an    *)
(* input item only at its beginning and only as long as it has a name.     *)
Partitioned(nd, ch) ==
  /\ \A f \in Live(nd) : \A c \in ChunksOf(nd, ch, f) :
       ~ch[c].freed /\ (ch[c].input => c = nd[f].content)
  /\ \A f \in Live(nd), g \in Live(nd) :
       f # g => \A c \in ChunksOf(nd, ch, f) : c \notin ChunksOf(nd, ch, g)
  /\ \A c \in 1 .. Len(ch) : ch[c].freed \/ \E f \in Live(nd) : c \in ChunksOf(nd, ch, f)
  /\ \A f \in Live(nd) : nd[f].content # 0 /\ ch[nd[f].content].input => nd[f].links # 0

(* The last chunk of a list.                                               *)
LastOf(S) == IF S = <<>> THEN 0 ELSE S[Len(S)]

(* The descriptors D point into their files, and the only one to write to  *)
(* a file to its last chunk.                                               *)
Placed(D, nd, ch, of) ==
  \A d \in D : of[d].file # 0 =>
    /\ of[d].chunk # 0 => of[d].chunk \in ChunksOf(nd, ch, of[d].file)
    /\ of[d].acc # "RW" /\ ~of[d].append
    /\ of[d].acc = "W" => /\ of[d].chunk = LastOf(ListOf(ch, nd[of[d].file].content))
                          /\ \A e \in D : e # d /\ of[e].file = of[d].file => of[e].acc # "W"

(* The chunks of a list.                                                   *)
LEMMA ListMembers ==
  ASSUME NEW ch, Chained(ch), NEW c \in 0 .. Len(ch)
  PROVE  LET S == ListOf(ch, c)
         IN  /\ S \in Seq(1 .. Len(ch)) /\ Len(S) \in Nat /\ DOMAIN S = 1 .. Len(S)
             /\ Range(S) \subseteq 1 .. Len(ch)
             /\ \A x : x \in Range(S) <=> \E j \in 1 .. Len(S) : S[j] = x
             /\ (c = 0 <=> S = <<>>) /\ (c = 0 <=> Range(S) = {}) /\ (c # 0 => c \in Range(S))
             /\ c # 0 => Len(S) \in 1 .. Len(S) /\ S[1] = c
<1> DEFINE S == ListOf(ch, c)
<1>1. S \in Seq(1 .. Len(ch)) /\ (S = <<>> <=> c = 0) /\ (c # 0 => S[1] = c)
  BY ListIsChain, Zenon DEF IsChain
<1> HIDE DEF S
<1>2. /\ Len(S) \in Nat /\ DOMAIN S = 1 .. Len(S) /\ \A j \in 1 .. Len(S) : S[j] \in 1 .. Len(ch)
      /\ c # 0 => Len(S) \in 1 .. Len(S) /\ 1 \in 1 .. Len(S)
      /\ c = 0 => 1 .. Len(S) = {}
  BY <1>1
<1>3. \A x : x \in Range(S) <=> \E j \in 1 .. Len(S) : S[j] = x
  BY <1>2, Zenon DEF Range
<1>4. Range(S) \subseteq 1 .. Len(ch)
  BY <1>2, <1>3, Zenon
<1>5. c # 0 => c \in Range(S)
  BY <1>1, <1>2, <1>3, Zenon
<1>6. c = 0 => Range(S) = {}
  BY <1>2, <1>3, Zenon
<1> QED BY <1>1, <1>2, <1>3, <1>4, <1>5, <1>6, Zenon DEF S

(* ListKept for the set of the chunks.                                     *)
LEMMA MembersKept ==
  ASSUME NEW ch, NEW g, Chained(ch), Chained(g), NEW c \in 0 .. Len(ch), Len(ch) <= Len(g),
         \A x \in Range(ListOf(ch, c)) : g[x].next = ch[x].next /\ g[x].freed = ch[x].freed
  PROVE  ListOf(g, c) = ListOf(ch, c)
<1>1. \A j \in 1 .. Len(ListOf(ch, c)) : ListOf(ch, c)[j] \in Range(ListOf(ch, c))
  BY ListMembers, Zenon
<1>2. \A j \in 1 .. Len(ListOf(ch, c)) :
           /\ g[ListOf(ch, c)[j]].next = ch[ListOf(ch, c)[j]].next
           /\ g[ListOf(ch, c)[j]].freed = ch[ListOf(ch, c)[j]].freed
  BY <1>1, Zenon
<1> QED BY <1>2, ListKept, Zenon

(* The types of the chunks of a file.                                      *)
LEMMA LiveTypes ==
  ASSUME NEW nd, NEW ch, Chained(ch), Nodes(nd, Len(ch)), NEW f \in Live(nd)
  PROVE  /\ f \in 1 .. Len(nd) /\ ~nd[f].freed
         /\ nd[f].content \in 0 .. Len(ch) /\ ChunksOf(nd, ch, f) \subseteq 1 .. Len(ch)
         /\ nd[f].content # 0 => nd[f].content \in ChunksOf(nd, ch, f)
<1>1. f \in 1 .. Len(nd) /\ ~nd[f].freed
  BY Zenon DEF Live
<1>2. Len(ch) \in Nat
  BY ChunkTypes, Zenon DEF Chained
<1>3. nd[f].content \in 0 .. Len(ch)
  BY <1>1, <1>2, NodeTypes, Zenon
<1> QED BY <1>1, <1>3, ListMembers, Zenon DEF ChunksOf

(* The chunks of file f are freed, with the file or without.               *)
Frees(nd, mk, ch, g, f) ==
  /\ Len(g) = Len(ch) /\ Len(mk) = Len(nd)
  /\ \A c \in 1 .. Len(ch) : IF c \in ChunksOf(nd, ch, f) THEN g[c].freed ELSE g[c] = ch[c]
  /\ \A i \in 1 .. Len(nd) : i # f => mk[i] = nd[i]
  /\ mk[f].freed \/ mk[f].content = 0

(* The other files keep their lists then.                                  *)
LEMMA FreesPartitioned ==
  ASSUME NEW nd, NEW mk, NEW ch, NEW g, Chained(ch), Chained(g),
         Nodes(nd, Len(ch)), Partitioned(nd, ch), NEW f \in Live(nd), Frees(nd, mk, ch, g, f)
  PROVE  /\ Partitioned(mk, g)
         /\ \A i \in Live(nd) : i # f => ListOf(g, mk[i].content) = ListOf(ch, nd[i].content)
<1>0. /\ Len(g) = Len(ch) /\ Len(mk) = Len(nd)
      /\ \A c \in 1 .. Len(ch) : IF c \in ChunksOf(nd, ch, f) THEN g[c].freed ELSE g[c] = ch[c]
      /\ \A i \in 1 .. Len(nd) : i # f => mk[i] = nd[i]
      /\ mk[f].freed \/ mk[f].content = 0
  BY Zenon DEF Frees
<1> USE <1>0
<1>1. ASSUME NEW i \in Live(nd), i # f
      PROVE  /\ i \in Live(mk) /\ mk[i] = nd[i]
             /\ ListOf(g, mk[i].content) = ListOf(ch, nd[i].content)
             /\ \A c \in ChunksOf(nd, ch, i) : g[c] = ch[c]
  <2>1. i \in 1 .. Len(nd) /\ nd[i].content \in 0 .. Len(ch) /\ mk[i] = nd[i]
        /\ ChunksOf(nd, ch, i) \subseteq 1 .. Len(ch) /\ ~nd[i].freed
    BY <1>1, LiveTypes, Zenon
  <2>2. \A c \in ChunksOf(nd, ch, i) : g[c] = ch[c]
    <3>1. \A c \in ChunksOf(nd, ch, i) : c \notin ChunksOf(nd, ch, f)
      BY <1>1, Zenon DEF Partitioned
    <3> QED BY <2>1, <3>1, Zenon
  <2>3. \A x \in Range(ListOf(ch, nd[i].content)) : g[x].next = ch[x].next /\ g[x].freed = ch[x].freed
    BY <2>2, Zenon DEF ChunksOf
  <2>4. Len(ch) <= Len(g)
    BY ChunkTypes DEF Chained
  <2>5. ListOf(g, nd[i].content) = ListOf(ch, nd[i].content)
    BY <2>1, <2>3, <2>4, MembersKept, Zenon
  <2>6. i \in Live(mk)
    BY <2>1, Zenon DEF Live
  <2> QED BY <2>1, <2>2, <2>5, <2>6, Zenon
<1>2. ASSUME NEW i \in Live(mk) PROVE (i # f => i \in Live(nd)) /\ (i = f => mk[i].content = 0)
  <2>1. i \in 1 .. Len(nd) /\ ~mk[i].freed
    BY <1>2, Zenon DEF Live
  <2>2. i # f => i \in Live(nd)
    BY <2>1, Zenon DEF Live
  <2>3. i = f => mk[i].content = 0
    BY <2>1, Zenon
  <2> QED BY <2>2, <2>3
<1>3. ASSUME NEW i \in Live(mk)
      PROVE  IF i = f THEN ChunksOf(mk, g, i) = {} ELSE ChunksOf(mk, g, i) = ChunksOf(nd, ch, i)
  <2>1. CASE i = f
    <3>1. mk[i].content = 0 /\ 0 \in 0 .. Len(g)
      BY <1>2, <2>1, ChunkTypes DEF Chained
    <3> QED BY <2>1, <3>1, ListMembers, Zenon DEF ChunksOf
  <2>2. CASE i # f
    BY <1>1, <1>2, <2>2, Zenon DEF ChunksOf
  <2> QED BY <2>1, <2>2
<1>4. ASSUME NEW i \in Live(mk), NEW c \in ChunksOf(mk, g, i)
      PROVE  ~g[c].freed /\ (g[c].input => c = mk[i].content)
  <2>1. i # f /\ i \in Live(nd) /\ c \in ChunksOf(nd, ch, i)
    BY <1>2, <1>3, <1>4, Zenon
  <2>2. ~ch[c].freed /\ (ch[c].input => c = nd[i].content)
    BY <2>1, Zenon DEF Partitioned
  <2>3. g[c] = ch[c] /\ mk[i] = nd[i]
    BY <1>1, <2>1, Zenon
  <2> QED BY <2>2, <2>3, Zenon
<1>5. ASSUME NEW i \in Live(mk), NEW j \in Live(mk), i # j, NEW c \in ChunksOf(mk, g, i)
      PROVE  c \notin ChunksOf(mk, g, j)
  <2>1. i # f /\ i \in Live(nd) /\ c \in ChunksOf(nd, ch, i)
    BY <1>2, <1>3, <1>5, Zenon
  <2>2. CASE j = f
    BY <1>3, <2>2, Zenon
  <2>3. CASE j # f
    <3>1. j \in Live(nd) /\ ChunksOf(mk, g, j) = ChunksOf(nd, ch, j)
      BY <1>2, <1>3, <2>3, Zenon
    <3> QED BY <1>5, <2>1, <3>1, Zenon DEF Partitioned
  <2> QED BY <2>2, <2>3
<1>6. ASSUME NEW c \in 1 .. Len(g)
      PROVE  g[c].freed \/ \E i \in Live(mk) : c \in ChunksOf(mk, g, i)
  <2>1. CASE c \in ChunksOf(nd, ch, f)
    BY <2>1, Zenon
  <2>2. CASE c \notin ChunksOf(nd, ch, f)
    <3>1. g[c] = ch[c]
      BY <2>2, Zenon
    <3>2. ch[c].freed \/ \E i \in Live(nd) : c \in ChunksOf(nd, ch, i)
      BY Zenon DEF Partitioned
    <3>3. ASSUME NEW i \in Live(nd), c \in ChunksOf(nd, ch, i)
          PROVE  i \in Live(mk) /\ c \in ChunksOf(mk, g, i)
      <4>1. i # f
        BY <2>2, <3>3, Zenon
      <4> QED BY <1>1, <1>3, <3>3, <4>1, Zenon
    <3> QED BY <3>1, <3>2, <3>3, Zenon
  <2> QED BY <2>1, <2>2
<1>7. ASSUME NEW i \in Live(mk), mk[i].content # 0, g[mk[i].content].input PROVE mk[i].links # 0
  <2>1. i # f /\ i \in Live(nd)
    BY <1>2, <1>7, Zenon
  <2>2. mk[i] = nd[i] /\ nd[i].content \in ChunksOf(nd, ch, i)
    BY <1>1, <1>7, <2>1, LiveTypes, Zenon
  <2>3. g[nd[i].content] = ch[nd[i].content]
    BY <1>1, <2>1, <2>2, Zenon
  <2> QED BY <1>7, <2>1, <2>2, <2>3, Zenon DEF Partitioned
<1>8. Partitioned(mk, g)
  BY <1>4, <1>5, <1>6, <1>7, Zenon DEF Partitioned
<1> QED BY <1>1, <1>8, Zenon

(* The counts of the files change, and a file without chunks may be new.   *)
LEMMA RecountsPartitioned ==
  ASSUME NEW nd, NEW mk, NEW ch, Chained(ch), Partitioned(nd, ch),
         1 .. Len(nd) \subseteq 1 .. Len(mk),
         \A i \in 1 .. Len(nd) : mk[i].content = nd[i].content /\ mk[i].freed = nd[i].freed,
         \A i \in Live(nd) : nd[i].content # 0 /\ ch[nd[i].content].input => mk[i].links # 0,
         \A i \in 1 .. Len(mk) : i \notin 1 .. Len(nd) => mk[i].content = 0
  PROVE  Partitioned(mk, ch)
<1>1. ASSUME NEW i \in Live(nd) PROVE i \in Live(mk) /\ ChunksOf(mk, ch, i) = ChunksOf(nd, ch, i)
                                      /\ mk[i].content = nd[i].content
  <2>1. i \in 1 .. Len(nd) /\ ~nd[i].freed
    BY <1>1, Zenon DEF Live
  <2>2. mk[i].content = nd[i].content /\ i \in Live(mk)
    BY <2>1, Zenon DEF Live
  <2> QED BY <2>2, Zenon DEF ChunksOf
<1>2. ASSUME NEW i \in Live(mk)
      PROVE  i \in Live(nd) \/ (ChunksOf(mk, ch, i) = {} /\ mk[i].content = 0)
  <2>1. i \in 1 .. Len(mk) /\ ~mk[i].freed
    BY <1>2, Zenon DEF Live
  <2>2. CASE i \in 1 .. Len(nd)
    BY <2>1, <2>2, Zenon DEF Live
  <2>3. CASE i \notin 1 .. Len(nd)
    <3>1. mk[i].content = 0 /\ 0 \in 0 .. Len(ch)
      BY <2>1, <2>3, ChunkTypes DEF Chained
    <3> QED BY <3>1, ListMembers, Zenon DEF ChunksOf
  <2> QED BY <2>2, <2>3
<1>3. ASSUME NEW i \in Live(mk), NEW c \in ChunksOf(mk, ch, i)
      PROVE  ~ch[c].freed /\ (ch[c].input => c = mk[i].content)
  <2>1. i \in Live(nd) /\ c \in ChunksOf(nd, ch, i) /\ mk[i].content = nd[i].content
    BY <1>1, <1>2, <1>3, Zenon
  <2>2. ~ch[c].freed /\ (ch[c].input => c = nd[i].content)
    BY <2>1, Zenon DEF Partitioned
  <2> QED BY <2>1, <2>2, Zenon
<1>4. ASSUME NEW i \in Live(mk), NEW j \in Live(mk), i # j, NEW c \in ChunksOf(mk, ch, i)
      PROVE  c \notin ChunksOf(mk, ch, j)
  <2>1. i \in Live(nd) /\ c \in ChunksOf(nd, ch, i)
    BY <1>1, <1>2, <1>4, Zenon
  <2>2. CASE j \in Live(nd)
    <3>1. c \notin ChunksOf(nd, ch, j)
      BY <1>4, <2>1, <2>2, Zenon DEF Partitioned
    <3> QED BY <1>1, <2>2, <3>1, Zenon
  <2>3. CASE j \notin Live(nd)
    BY <1>2, <2>3, Zenon
  <2> QED BY <2>2, <2>3
<1>5. ASSUME NEW c \in 1 .. Len(ch)
      PROVE  ch[c].freed \/ \E i \in Live(mk) : c \in ChunksOf(mk, ch, i)
  <2>1. ch[c].freed \/ \E i \in Live(nd) : c \in ChunksOf(nd, ch, i)
    BY Zenon DEF Partitioned
  <2> QED BY <1>1, <2>1, Zenon
<1>6. ASSUME NEW i \in Live(mk), mk[i].content # 0, ch[mk[i].content].input PROVE mk[i].links # 0
  BY <1>1, <1>2, <1>6, Zenon
<1> QED BY <1>3, <1>4, <1>5, <1>6, Zenon DEF Partitioned

(* File f gets the new chunks.                                             *)
LEMMA GrowsPartitioned ==
  ASSUME NEW nd, NEW mk, NEW ch, NEW g, Partitioned(nd, ch), Chained(ch), Chained(g), Nodes(nd, Len(ch)),
         NEW f \in Live(nd), Len(mk) = Len(nd), ~mk[f].freed, mk[f].links = nd[f].links,
         \A i \in 1 .. Len(nd) : i # f => mk[i] = nd[i],
         mk[f].content = nd[f].content \/ nd[f].content = 0,
         Len(ch) <= Len(g),
         \A c \in 1 .. Len(ch) : g[c].freed = ch[c].freed /\ g[c].input = ch[c].input,
         \A c \in 1 .. Len(g) : c \notin 1 .. Len(ch) => ~g[c].freed /\ ~g[c].input,
         mk[f].content \in 0 .. Len(g),
         \A c \in 1 .. Len(g) :
           c \in ChunksOf(mk, g, f) <=> c \in ChunksOf(nd, ch, f) \/ c \notin 1 .. Len(ch),
         \A i \in Live(nd) : i # f => ChunksOf(mk, g, i) = ChunksOf(nd, ch, i)
  PROVE  Partitioned(mk, g)
<1>1. ASSUME NEW i PROVE i \in Live(nd) <=> i \in Live(mk)
  <2>1. f \in 1 .. Len(nd) /\ ~nd[f].freed
    BY Zenon DEF Live
  <2> QED BY <2>1, Zenon DEF Live
<1>2. ASSUME NEW i \in Live(nd), NEW c \in ChunksOf(nd, ch, i)
      PROVE  c \in 1 .. Len(ch) /\ ~g[c].freed /\ (g[c].input => c = nd[i].content)
  <2>1. c \in 1 .. Len(ch)
    BY <1>2, LiveTypes, Zenon
  <2>2. ~ch[c].freed /\ (ch[c].input => c = nd[i].content)
    BY <1>2, Zenon DEF Partitioned
  <2> QED BY <2>1, <2>2, Zenon
<1>3. 1 .. Len(ch) \subseteq 1 .. Len(g) /\ ChunksOf(mk, g, f) \subseteq 1 .. Len(g)
  <2>1. 1 .. Len(ch) \subseteq 1 .. Len(g)
    BY ChunkTypes DEF Chained
  <2> QED BY <2>1, ListMembers, Zenon DEF ChunksOf
<1>4. ASSUME NEW i \in Live(mk), NEW c \in ChunksOf(mk, g, i)
      PROVE  ~g[c].freed /\ (g[c].input => c = mk[i].content)
  <2>1. CASE i = f
    <3>1. CASE c \in ChunksOf(nd, ch, f)
      <4>1. ~g[c].freed /\ (g[c].input => c = nd[f].content) /\ c # 0
        BY <1>2, <3>1
      <4>2. nd[f].content = 0 => c \notin ChunksOf(nd, ch, f)
        <5>1. nd[f].content \in 0 .. Len(ch)
          BY LiveTypes, Zenon
        <5> QED BY <5>1, ListMembers, Zenon DEF ChunksOf
      <4> QED BY <2>1, <3>1, <4>1, <4>2, Zenon
    <3>2. CASE c \notin ChunksOf(nd, ch, f)
      <4>1. c \in 1 .. Len(g) /\ c \notin 1 .. Len(ch)
        BY <1>3, <1>4, <2>1, <3>2, Zenon
      <4> QED BY <4>1, Zenon
    <3> QED BY <3>1, <3>2
  <2>2. CASE i # f
    <3>1. i \in Live(nd) /\ c \in ChunksOf(nd, ch, i) /\ i \in 1 .. Len(nd)
      BY <1>1, <1>4, <2>2, Zenon DEF Live
    <3>2. mk[i] = nd[i]
      BY <2>2, <3>1, Zenon
    <3> QED BY <1>2, <3>1, <3>2, Zenon
  <2> QED BY <2>1, <2>2
<1>5. ASSUME NEW i \in Live(nd), NEW j \in Live(nd), i # j, j # f, NEW c \in ChunksOf(mk, g, i)
      PROVE  c \notin ChunksOf(mk, g, j)
  <2>1. ChunksOf(mk, g, j) = ChunksOf(nd, ch, j)
    BY <1>5, Zenon
  <2>2. CASE c \in ChunksOf(nd, ch, i)
    BY <1>5, <2>1, <2>2, Zenon DEF Partitioned
  <2>3. CASE c \notin ChunksOf(nd, ch, i)
    <3>1. i = f
      BY <1>5, <2>3, Zenon
    <3>2. c \notin 1 .. Len(ch)
      BY <1>3, <1>5, <2>3, <3>1, Zenon
    <3> QED BY <1>2, <2>1, <3>2, Zenon
  <2> QED BY <2>2, <2>3
<1>6. ASSUME NEW i \in Live(mk), NEW j \in Live(mk), i # j, NEW c \in ChunksOf(mk, g, i)
      PROVE  c \notin ChunksOf(mk, g, j)
  BY <1>1, <1>5, <1>6, Zenon
<1>7. ASSUME NEW c \in 1 .. Len(g)
      PROVE  g[c].freed \/ \E i \in Live(mk) : c \in ChunksOf(mk, g, i)
  <2>1. CASE c \in 1 .. Len(ch)
    <3>1. ch[c].freed \/ \E i \in Live(nd) : c \in ChunksOf(nd, ch, i)
      BY <2>1, Zenon DEF Partitioned
    <3>2. ASSUME NEW i \in Live(nd), c \in ChunksOf(nd, ch, i)
          PROVE  i \in Live(mk) /\ c \in ChunksOf(mk, g, i)
      BY <1>1, <3>2, Zenon
    <3> QED BY <2>1, <3>1, <3>2, Zenon
  <2>2. CASE c \notin 1 .. Len(ch)
    BY <1>1, <2>2, Zenon
  <2> QED BY <2>1, <2>2
<1>8. ASSUME NEW i \in Live(mk), mk[i].content # 0, g[mk[i].content].input PROVE mk[i].links # 0
  <2>1. i \in Live(nd) /\ i \in 1 .. Len(nd)
    BY <1>1, Zenon DEF Live
  <2>2. CASE i # f \/ mk[f].content = nd[f].content
    <3>1. mk[i].content = nd[i].content /\ mk[i].links = nd[i].links
      BY <2>1, <2>2, Zenon
    <3>2. nd[i].content \in 1 .. Len(ch)
      BY <1>8, <2>1, <3>1, LiveTypes, Zenon
    <3>3. ch[nd[i].content].input
      BY <1>8, <3>1, <3>2, Zenon
    <3> QED BY <1>8, <2>1, <3>1, <3>3, Zenon DEF Partitioned
  <2>3. CASE i = f /\ nd[f].content = 0
    <3>1. mk[f].content \in ChunksOf(mk, g, f)
      BY <1>8, <2>3, ListMembers, Zenon DEF ChunksOf
    <3>2. mk[f].content \notin ChunksOf(nd, ch, f)
      <4>1. nd[f].content \in 0 .. Len(ch)
        BY LiveTypes, Zenon
      <4> QED BY <2>3, <4>1, ListMembers, Zenon DEF ChunksOf
    <3>3. mk[f].content \in 1 .. Len(g) /\ mk[f].content \notin 1 .. Len(ch)
      BY <1>3, <3>1, <3>2, Zenon
    <3> QED BY <1>8, <2>3, <3>3, Zenon
  <2> QED BY <2>2, <2>3, Zenon
<1> QED BY <1>4, <1>6, <1>7, <1>8, Zenon DEF Partitioned

(* The list of a chunk that nothing follows.                               *)
LEMMA ListOfOne ==
  ASSUME NEW g, Chained(g), NEW c \in 1 .. Len(g), g[c].next = 0
  PROVE  ListOf(g, c) = <<c>>
<1>1. c \in 0 .. Len(g) /\ c # 0
  OBVIOUS
<1>2. /\ <<c>> \in Seq(1 .. Len(g)) /\ <<c>> # <<>> /\ <<c>>[1] = c /\ Len(<<c>>) = 1
      /\ 1 .. Len(<<c>>) - 1 = {}
  OBVIOUS
<1>3. IsChain(<<c>>, g, c)
  BY <1>1, <1>2, Zenon DEF IsChain
<1> QED BY <1>1, <1>3, ListIsChain, ChainUnique, Zenon

(* A chunk at the end of a list is one more of its members.                *)
LEMMA MembersAppend ==
  ASSUME NEW m \in Nat, NEW S \in Seq(1 .. m), NEW x
  PROVE  \A y : y \in Range(Append(S, x)) <=> y \in Range(S) \/ y = x
<1>1. /\ Len(S) \in Nat /\ DOMAIN S = 1 .. Len(S) /\ DOMAIN Append(S, x) = 1 .. Len(S) + 1
      /\ \A j \in 1 .. Len(S) : Append(S, x)[j] = S[j]
      /\ Append(S, x)[Len(S) + 1] = x
  OBVIOUS
<1> DEFINE T == Append(S, x)
           n == Len(S)
<1>2. n + 1 \in 1 .. n + 1 /\ \A j \in 1 .. n + 1 : j \in 1 .. n \/ j = n + 1
  BY <1>1
<1>3. 1 .. n \subseteq 1 .. n + 1
  BY <1>1
<1> HIDE DEF T, n
<1>4. \A y : y \in Range(S) <=> \E j \in 1 .. n : S[j] = y
  BY <1>1, Zenon DEF Range, n
<1>5. \A y : y \in Range(T) <=> \E j \in 1 .. n + 1 : T[j] = y
  BY <1>1, Zenon DEF Range, n, T
<1>6. T[n + 1] = x /\ \A j \in 1 .. n : T[j] = S[j]
  BY <1>1, Zenon DEF T, n
<1>7. \A y : y \in Range(T) <=> y \in Range(S) \/ y = x
  BY <1>2, <1>3, <1>4, <1>5, <1>6, Zenon
<1> QED BY <1>7, Zenon DEF T

(* One element more.                                                       *)
HasMore(T, S, x) == \A y : y \in Range(T) <=> y \in Range(S) \/ y = x

(* A longer list has one element more.                                     *)
LEMMA AppendHasMore ==
  ASSUME NEW m \in Nat, NEW S \in Seq(1 .. m), NEW x
  PROVE  HasMore(Append(S, x), S, x)
BY MembersAppend, Zenon DEF HasMore

(* A write to the last chunk of file f, or to its first one.               *)
Writes(nd, mk, ch, g, f) ==
  /\ Extends(ch, g, LastOf(ListOf(ch, nd[f].content)))
  /\ Len(mk) = Len(nd) /\ mk[f].freed = nd[f].freed /\ mk[f].links = nd[f].links
  /\ \A i \in 1 .. Len(nd) : i # f => mk[i] = nd[i]
  /\ mk[f].content = IF nd[f].content = 0 /\ Len(g) # Len(ch) THEN Len(g) ELSE nd[f].content

(* What becomes of the lists.                                              *)
Written(nd, mk, ch, g, f) ==
  /\ Partitioned(mk, g)
  /\ ListOf(g, mk[f].content) = IF Len(g) = Len(ch) THEN ListOf(ch, nd[f].content)
                                ELSE Append(ListOf(ch, nd[f].content), Len(g))
  /\ \A i \in Live(nd) : i # f => ListOf(g, mk[i].content) = ListOf(ch, nd[i].content)

(* Only the list of f grows, by a chunk at its end.                        *)
LEMMA WritesPartitioned ==
  ASSUME NEW nd, NEW mk, NEW ch, NEW g, Sane(ch), Nodes(nd, Len(ch)), Partitioned(nd, ch),
         NEW f \in Live(nd), Writes(nd, mk, ch, g, f)
  PROVE  Written(nd, mk, ch, g, f)
<1> DEFINE c   == LastOf(ListOf(ch, nd[f].content))
<1>w. /\ Extends(ch, g, c)
      /\ Len(mk) = Len(nd) /\ mk[f].freed = nd[f].freed /\ mk[f].links = nd[f].links
      /\ \A i \in 1 .. Len(nd) : i # f => mk[i] = nd[i]
      /\ mk[f].content = IF nd[f].content = 0 /\ Len(g) # Len(ch) THEN Len(g) ELSE nd[f].content
  BY Zenon DEF Writes
<1> USE <1>w
<1> DEFINE S   == ListOf(ch, nd[f].content)
           T   == ListOf(g, mk[f].content)
           new == Len(g)
<1>0. /\ Chained(ch) /\ Chained(g) /\ Sane(g) /\ Len(ch) \in Nat /\ Len(g) \in {Len(ch), Len(ch) + 1}
  BY SaneTypes, Zenon DEF Extends, Sane
<1>1. /\ f \in 1 .. Len(nd) /\ ~nd[f].freed /\ nd[f].content \in 0 .. Len(ch)
      /\ ChunksOf(nd, ch, f) = Range(S)
  BY <1>0, LiveTypes, Zenon DEF ChunksOf
<1>2. /\ S \in Seq(1 .. Len(ch)) /\ Len(S) \in Nat /\ Range(S) \subseteq 1 .. Len(ch)
      /\ \A x : x \in Range(S) <=> \E j \in 1 .. Len(S) : S[j] = x
      /\ (nd[f].content = 0 <=> S = <<>>) /\ (nd[f].content = 0 <=> Range(S) = {})
      /\ (nd[f].content # 0 => Len(S) \in 1 .. Len(S))
  BY <1>0, <1>1, ListMembers, Zenon
<1>3. /\ c = IF S = <<>> THEN 0 ELSE S[Len(S)]
      /\ S # <<>> => c \in Range(S)
  BY <1>2, Zenon DEF LastOf
<1> HIDE DEF c
<1>4. \A x \in 1 .. Len(ch) :
        /\ g[x].freed = ch[x].freed /\ g[x].input = ch[x].input
        /\ x # c => g[x] = ch[x]
        /\ Len(g) = Len(ch) => g[x].next = ch[x].next
  BY Zenon DEF Extends
<1>5. /\ Len(g) # Len(ch) => /\ Len(g) = Len(ch) + 1 /\ g[new].next = 0
                             /\ ~g[new].freed /\ ~g[new].input /\ (c # 0 => g[c].next = new)
  BY <1>0, Zenon DEF Extends, Plain
<1>6. /\ Len(ch) <= Len(g) /\ 1 .. Len(ch) \subseteq 1 .. Len(g)
      /\ Len(g) = Len(ch) + 1 => new \in 1 .. Len(g) /\ new \notin 1 .. Len(ch)
      /\ \A x \in 1 .. Len(g) : x \notin 1 .. Len(ch) <=> Len(g) # Len(ch) /\ x = new
  BY <1>0
<1> HIDE DEF S, T, new
<1>7. ASSUME NEW i \in Live(nd), i # f
      PROVE  mk[i] = nd[i] /\ ListOf(g, mk[i].content) = ListOf(ch, nd[i].content)
  <2>1. /\ i \in 1 .. Len(nd) /\ nd[i].content \in 0 .. Len(ch)
        /\ ChunksOf(nd, ch, i) \subseteq 1 .. Len(ch)
    BY <1>0, LiveTypes, Zenon
  <2>2. ASSUME NEW x \in ChunksOf(nd, ch, i) PROVE g[x].next = ch[x].next /\ g[x].freed = ch[x].freed
    <3>1. x \in 1 .. Len(ch) /\ x \notin Range(S)
      BY <1>1, <1>7, <2>1, Zenon DEF Partitioned
    <3>2. x # c
      <4>1. CASE S = <<>>
        BY <1>3, <3>1, <4>1
      <4>2. CASE S # <<>>
        BY <1>3, <3>1, <4>2, Zenon
      <4> QED BY <4>1, <4>2
    <3> QED BY <1>4, <3>1, <3>2, Zenon
  <2>3. ListOf(g, nd[i].content) = ListOf(ch, nd[i].content)
    BY <1>0, <1>6, <2>1, <2>2, MembersKept, Zenon DEF ChunksOf
  <2> QED BY <1>7, <2>1, <2>3, Zenon
<1>8. T = IF Len(g) = Len(ch) THEN S ELSE Append(S, new)
  <2>1. CASE Len(g) = Len(ch)
    <3>1. \A x \in Range(S) : g[x].next = ch[x].next /\ g[x].freed = ch[x].freed
      BY <1>2, <1>4, <2>1, Zenon
    <3>2. mk[f].content = nd[f].content
      BY <2>1, Zenon
    <3>3. ListOf(g, nd[f].content) = S
      BY <1>0, <1>1, <1>6, <3>1, MembersKept, Zenon DEF S
    <3> QED BY <2>1, <3>2, <3>3, Zenon DEF T
  <2>2. CASE Len(g) # Len(ch) /\ nd[f].content = 0
    <3>1. T = <<new>>
      <4>1. mk[f].content = new /\ new \in 1 .. Len(g) /\ g[new].next = 0
        BY <1>5, <1>6, <2>2, Zenon DEF new
      <4> QED BY <1>0, <4>1, ListOfOne, Zenon DEF T
    <3>2. S = <<>> /\ Append(<<>>, new) = <<new>>
      BY <1>2, <2>2
    <3> QED BY <2>2, <3>1, <3>2, Zenon
  <2>3. CASE Len(g) # Len(ch) /\ nd[f].content # 0
    <3>1. /\ nd[f].content \in 1 .. Len(ch) /\ mk[f].content = nd[f].content
          /\ new \in 1 .. Len(g) /\ g[new].next = 0 /\ g[c].next = new /\ S # <<>>
      <4>1. nd[f].content \in 1 .. Len(ch)
        BY <1>0, <1>1, <2>3
      <4>2. c # 0
        BY <1>2, <1>3, <2>3
      <4> QED BY <1>2, <1>5, <1>6, <2>3, <4>1, <4>2, Zenon
    <3>2. ASSUME NEW j \in 1 .. Len(S)
          PROVE  /\ ~ch[S[j]].freed /\ ~g[S[j]].freed
                 /\ g[S[j]].next = IF j = Len(S) THEN new ELSE ch[S[j]].next
      <4>1. S[j] \in Range(S) /\ S[j] \in 1 .. Len(ch)
        BY <1>2, Zenon
      <4>2. ~ch[S[j]].freed /\ ~g[S[j]].freed
        BY <1>1, <1>4, <4>1, Zenon DEF Partitioned
      <4>3. CASE j = Len(S)
        BY <1>3, <3>1, <4>2, <4>3, Zenon
      <4>4. CASE j # Len(S)
        <5>1. j < Len(S) /\ Len(S) \in 1 .. Len(S)
          BY <1>2, <4>4
        <5>2. S[j] < S[Len(S)] /\ S[Len(S)] \in 1 .. Len(ch)
          BY <1>0, <1>1, <1>2, <5>1, ListOrdered, Zenon DEF S
        <5>3. S[j] # c
          BY <1>3, <3>1, <4>1, <5>2
        <5> QED BY <1>4, <4>1, <4>2, <4>4, <5>3, Zenon
      <4> QED BY <4>3, <4>4
    <3>3. ListOf(g, nd[f].content) = Append(S, new)
      <4>1. Chained(ch) /\ Chained(g) /\ Len(ch) <= Len(g)
        BY <1>0, <1>6, Zenon
      <4>2. Continues(ch, g, ListOf(ch, nd[f].content), new)
        BY <3>2, Zenon DEF S, Continues
      <4>3. ListOf(g, nd[f].content) = Append(ListOf(ch, nd[f].content), new)
        BY <3>1, <4>1, <4>2, ListLonger
      <4> QED BY <4>3, Zenon DEF S
    <3> QED BY <2>3, <3>1, <3>3, Zenon DEF T
  <2> QED BY <2>1, <2>2, <2>3
<1>9. mk[f].content \in 0 .. Len(g) /\ ChunksOf(mk, g, f) = Range(T)
  BY <1>0, <1>1, <1>6 DEF T, ChunksOf
<1>10. ASSUME NEW x \in 1 .. Len(g)
       PROVE  x \in ChunksOf(mk, g, f) <=> x \in ChunksOf(nd, ch, f) \/ x \notin 1 .. Len(ch)
  <2>1. CASE Len(g) = Len(ch)
    BY <1>1, <1>6, <1>8, <1>9, <2>1, Zenon
  <2>2. CASE Len(g) # Len(ch)
    <3>1. x \in Range(Append(S, new)) <=> x \in Range(S) \/ x = new
      BY <1>0, <1>2, MembersAppend, Zenon
    <3> QED BY <1>1, <1>6, <1>8, <1>9, <2>2, <3>1, Zenon
  <2> QED BY <2>1, <2>2
<1>11. \A i \in Live(nd) : i # f => ChunksOf(mk, g, i) = ChunksOf(nd, ch, i)
  BY <1>7, Zenon DEF ChunksOf
<1>12. ~mk[f].freed /\ (mk[f].content = nd[f].content \/ nd[f].content = 0)
  BY <1>1, Zenon
<1>13. /\ \A x \in 1 .. Len(ch) : g[x].freed = ch[x].freed /\ g[x].input = ch[x].input
       /\ \A x \in 1 .. Len(g) : x \notin 1 .. Len(ch) => ~g[x].freed /\ ~g[x].input
  BY <1>4, <1>5, <1>6, Zenon
<1>14. Partitioned(mk, g)
  BY <1>0, <1>6, <1>9, <1>10, <1>11, <1>12, <1>13, GrowsPartitioned
<1> QED BY <1>7, <1>8, <1>14, Zenon DEF Written, S, T, new

-----------------------------------------------------------------------------
(* The descriptors.                                                        *)

(* Descriptor d may be as in table og: it points into its file, and when   *)
(* it writes no other one does.                                            *)
PlacedAt(D, mk, g, og, d) ==
  /\ og[d].chunk # 0 => og[d].chunk \in ChunksOf(mk, g, og[d].file)
  /\ og[d].acc # "RW" /\ ~og[d].append
  /\ og[d].acc = "W" => /\ og[d].chunk = LastOf(ListOf(g, mk[og[d].file].content))
                        /\ \A e \in D : e # d /\ og[e].file = og[d].file => og[e].acc # "W"

(* The other descriptors keep their chunks, and one that writes has the    *)
(* same list to write to.                                                  *)
OthersKept(D, nd, mk, ch, g, of, og, d) ==
  \A e \in D : e # d =>
    /\ og[e] = of[e]
    /\ of[e].file # 0 =>
         \/ ListOf(g, mk[of[e].file].content) = ListOf(ch, nd[of[e].file].content)
         \/ /\ of[e].acc # "W"
            /\ ChunksOf(nd, ch, of[e].file) \subseteq ChunksOf(mk, g, of[e].file)

(* Descriptors stay in place when the chunks and files of the others are   *)
(* kept and the one that moved is in place.                                *)
LEMMA PlacedChanged ==
  ASSUME NEW D, NEW nd, NEW mk, NEW ch, NEW g, NEW of, NEW og, NEW d,
         Placed(D, nd, ch, of), OthersKept(D, nd, mk, ch, g, of, og, d),
         d \in D /\ og[d].file # 0 => PlacedAt(D, mk, g, og, d)
  PROVE  Placed(D, mk, g, og)
<1> SUFFICES ASSUME NEW e \in D, og[e].file # 0 PROVE PlacedAt(D, mk, g, og, e)
  BY Zenon DEF Placed, PlacedAt
<1>1. CASE e = d
  BY <1>1, Zenon
<1>2. CASE e # d
  <2>1. og[e] = of[e]
    BY <1>2, Zenon DEF OthersKept
  <2>2. PlacedAt(D, nd, ch, of, e)
    BY <2>1, Zenon DEF Placed, PlacedAt
  <2>3. \/ ListOf(g, mk[of[e].file].content) = ListOf(ch, nd[of[e].file].content)
        \/ /\ of[e].acc # "W"
           /\ ChunksOf(nd, ch, of[e].file) \subseteq ChunksOf(mk, g, of[e].file)
    BY <1>2, <2>1, Zenon DEF OthersKept
  <2>4. of[e].chunk # 0 => of[e].chunk \in ChunksOf(mk, g, of[e].file)
    BY <2>2, <2>3, Zenon DEF PlacedAt, ChunksOf
  <2>5. of[e].acc # "RW" /\ ~of[e].append
    BY <2>2, Zenon DEF PlacedAt
  <2>6. ASSUME of[e].acc = "W"
        PROVE  /\ of[e].chunk = LastOf(ListOf(g, mk[of[e].file].content))
               /\ \A x \in D : x # e /\ og[x].file = of[e].file => og[x].acc # "W"
    <3>1. of[e].chunk = LastOf(ListOf(g, mk[of[e].file].content))
      BY <2>2, <2>3, <2>6, Zenon DEF PlacedAt
    <3>2. ASSUME NEW x \in D, x # e, og[x].file = of[e].file PROVE og[x].acc # "W"
      <4>1. CASE x = d
        <5>1. og[d].file # 0 /\ (og[d].acc = "W" => og[e].acc # "W")
          BY <1>2, <2>1, <3>2, <4>1, Zenon DEF PlacedAt
        <5> QED BY <2>1, <2>6, <4>1, <5>1, Zenon
      <4>2. CASE x # d
        <5>1. og[x] = of[x]
          BY <4>2, Zenon DEF OthersKept
        <5> QED BY <2>2, <2>6, <3>2, <5>1, Zenon DEF PlacedAt
      <4> QED BY <4>1, <4>2
    <3> QED BY <3>1, <3>2, Zenon
  <2> QED BY <2>1, <2>4, <2>5, <2>6, Zenon DEF PlacedAt
<1> QED BY <1>1, <1>2

-----------------------------------------------------------------------------
(* The rest of a list, from its m-th chunk on.                             *)

(* The list from a chunk in the middle of a list on is the rest of that    *)
(* list.                                                                   *)
LEMMA RestFacts ==
  ASSUME NEW ch, Chained(ch), NEW c \in 0 .. Len(ch), NEW m \in 1 .. Len(ListOf(ch, c))
  PROVE  LET F == ListOf(ch, c)
             R == ListOf(ch, F[m])
         IN  /\ F[m] \in 1 .. Len(ch) /\ Len(R) = Len(F) - m + 1
             /\ \A j \in 1 .. Len(R) : R[j] = F[m - 1 + j]
             /\ Range(R) \subseteq Range(F)
<1> DEFINE F == ListOf(ch, c)
           R == ListOf(ch, F[m])
<1>1. F[m] \in 1 .. Len(ch) /\ R = SubSeq(F, m, Len(F))
  BY ListRest, Zenon
<1>2. F \in Seq(1 .. Len(ch)) /\ Len(F) \in Nat /\ m \in 1 .. Len(F)
      /\ \A x : x \in Range(F) <=> \E j \in 1 .. Len(F) : F[j] = x
  BY ListMembers, Zenon
<1>3. R \in Seq(1 .. Len(ch)) /\ Len(R) \in Nat /\ \A x : x \in Range(R) <=> \E j \in 1 .. Len(R) : R[j] = x
  <2>1. F[m] \in 0 .. Len(ch)
    BY <1>1
  <2> QED BY <2>1, ListMembers, Zenon
<1> HIDE DEF F, R
<1>4. Len(R) = Len(F) - m + 1 /\ \A j \in 1 .. Len(R) : R[j] = F[m - 1 + j]
  <2>1. /\ m \in Int /\ Len(F) \in Int /\ m <= Len(F) /\ m \in Nat
        /\ \A i \in m .. Len(F) : F[i] \in 1 .. Len(ch)
    BY <1>2
  <2>2. /\ Len(SubSeq(F, m, Len(F))) = Len(F) - m + 1
        /\ \A i \in 1 .. Len(F) - m + 1 : SubSeq(F, m, Len(F))[i] = F[m + i - 1]
    BY <2>1, SubSeqProperties
  <2>3. \A j \in 1 .. Len(F) - m + 1 : m + j - 1 = m - 1 + j
    BY <2>1
  <2> QED BY <1>1, <2>2, <2>3, Zenon
<1>5. \A j \in 1 .. Len(R) : m - 1 + j \in 1 .. Len(F)
  BY <1>2, <1>4
<1>6. Range(R) \subseteq Range(F)
  BY <1>2, <1>3, <1>4, <1>5, Zenon
<1> QED BY <1>1, <1>4, <1>6, Zenon DEF F, R

(* The list R is the list F from its m-th element on.                      *)
IsRest(R, F, m) == Len(R) = Len(F) - m + 1 /\ \A j \in 1 .. Len(R) : R[j] = F[m - 1 + j]

(* A list from one of its chunks on is the rest of the list.               *)
LEMMA RestOfList ==
  ASSUME NEW ch, Chained(ch), NEW c \in 0 .. Len(ch), NEW m \in 1 .. Len(ListOf(ch, c))
  PROVE  IsRest(ListOf(ch, ListOf(ch, c)[m]), ListOf(ch, c), m)
BY RestFacts DEF IsRest

(* The bytes before its chunks.                                            *)
LEMMA RestBytes ==
  ASSUME NEW ch, Chained(ch), NEW c \in 0 .. Len(ch), NEW m \in 1 .. Len(ListOf(ch, c))
  PROVE  LET F == ListOf(ch, c)
             R == ListOf(ch, F[m])
         IN  \A j \in 0 .. Len(R) : BytesIn(ch, R, j) = BytesIn(ch, F, m - 1 + j) - BytesIn(ch, F, m - 1)
<1> DEFINE F == ListOf(ch, c)
           R == ListOf(ch, F[m])
           B(j) == BytesIn(ch, F, j)
           A(j) == BytesIn(ch, R, j)
           P == {j \in 0 .. Len(R) : A(j) = B(m - 1 + j) - B(m - 1)}
<1>1. /\ F[m] \in 1 .. Len(ch) /\ Len(R) = Len(F) - m + 1
      /\ \A j \in 1 .. Len(R) : R[j] = F[m - 1 + j]
  BY RestFacts
<1>2. F \in Seq(1 .. Len(ch)) /\ Len(F) \in Nat /\ m \in 1 .. Len(F)
  BY ListMembers, Zenon
<1>3. R \in Seq(1 .. Len(ch)) /\ Len(R) \in Nat
  <2>1. F[m] \in 0 .. Len(ch)
    BY <1>1
  <2> QED BY <2>1, ListMembers, Zenon
<1> HIDE DEF F, R
<1>4. ch \in Seq(ChunkSet)
  BY Zenon DEF Chained
<1>5. /\ B(0) = 0 /\ \A k \in 0 .. Len(F) : B(k) \in Nat
      /\ \A k \in 0 .. Len(F) - 1 : B(k + 1) = B(k) + Len(ch[F[k + 1]].data)
  BY <1>2, <1>4, BytesGrow, Zenon
<1>6. /\ A(0) = 0 /\ \A k \in 0 .. Len(R) : A(k) \in Nat
      /\ \A k \in 0 .. Len(R) - 1 : A(k + 1) = A(k) + Len(ch[R[k + 1]].data)
  BY <1>3, <1>4, BytesGrow, Zenon
<1> HIDE DEF A, B
<1>7. 0 \in P
  <2>1. 0 \in 0 .. Len(R) /\ m - 1 \in 0 .. Len(F) /\ m - 1 + 0 = m - 1
    BY <1>2, <1>3
  <2> QED BY <2>1, <1>5, <1>6
<1>8. ASSUME NEW j \in 0 .. Len(R) - 1, j \in P PROVE j + 1 \in P
  <2> DEFINE i == m - 1 + j
  <2>1. /\ j + 1 \in 0 .. Len(R) /\ j \in 0 .. Len(R) /\ i \in 0 .. Len(F) - 1 /\ i \in 0 .. Len(F)
        /\ m - 1 + (j + 1) = i + 1 /\ j + 1 \in 1 .. Len(R) /\ m - 1 \in 0 .. Len(F)
        /\ i + 1 \in 1 .. Len(F)
    BY <1>1, <1>2, <1>3, SMTT(30)
  <2>2. A(j) = B(i) - B(m - 1)
    BY <1>8, Zenon
  <2> HIDE DEF i
  <2>3. R[j + 1] = F[i + 1]
    <3>1. R[j + 1] = F[m - 1 + (j + 1)]
      BY <1>1, <2>1
    <3> QED BY <2>1, <3>1, Zenon
  <2>4. /\ A(j + 1) = A(j) + Len(ch[F[i + 1]].data) /\ B(i + 1) = B(i) + Len(ch[F[i + 1]].data)
    BY <1>5, <1>6, <2>1, <2>3, Zenon
  <2>5. A(j) \in Nat /\ B(i) \in Nat /\ B(m - 1) \in Nat
    BY <1>5, <1>6, <2>1, Zenon
  <2>6. Len(ch[F[i + 1]].data) \in Nat
    <3>1. F[i + 1] \in 1 .. Len(ch)
      BY <1>2, <2>1, SMTT(30)
    <3>2. ch[F[i + 1]].data \in Seq(Int)
      BY <1>4, <3>1, ChunkTypes, Zenon
    <3> QED BY <3>2
  <2>7. A(j + 1) = B(i + 1) - B(m - 1)
    BY <2>2, <2>4, <2>5, <2>6
  <2> QED BY <2>1, <2>7, Zenon
<1>9. 0 .. Len(R) \subseteq P
  BY <1>3, <1>7, <1>8, FromZero, Zenon
<1>10. \A j \in 0 .. Len(R) : A(j) = B(m - 1 + j) - B(m - 1)
  BY <1>9, Zenon
<1> QED BY <1>10, Zenon DEF A, B, F, R

-----------------------------------------------------------------------------
(* The operators of the model and those of the lemmas about chunks.        *)

(* First returns the least element, or 0 when there is none.               *)
LEMMA FirstFacts ==
  ASSUME NEW K \in SUBSET (Nat \ {0})
  PROVE  /\ First(K) = 0 <=> K = {}
         /\ K # {} => First(K) \in K /\ \A y \in K : First(K) <= y
<1>1. K \in SUBSET Nat
  BY Zenon
<1>2. K # {} => Min(K) \in K /\ \A y \in K : Min(K) <= y
  BY <1>1, MinFacts, Zenon
<1> QED BY <1>2, Zenon DEF First

(* The list of the chunks of a file, before and after a step.              *)
LEMMA ChunksIsListOf ==
  /\ \A c : Chunks(c) = ListOf(chunk, c)
  /\ \A c : Chunks(c)' = ListOf(chunk', c)
BY Zenon DEF Chunks, ListOf, NULL

(* The bytes in a list of chunks, and how many come before one of them.    *)
LEMMA DataOfIs ==
  /\ \A S : DataOf(S) = DataIn(chunk, S) /\ DataOf(S)' = DataIn(chunk', S)
  /\ \A S, j : UsedBefore(S, j) = BytesIn(chunk, S, j - 1)
BY Zenon DEF DataOf, DataIn, UsedBefore, BytesIn

(* The capacity in front of a chunk of a list.                             *)
LEMMA CapBeforeIs == \A S, j : CapBefore(S, j) = CapIn(chunk, S, j - 1)
BY Zenon DEF CapBefore, CapIn

(* Chunks that are freed.                                                  *)
LEMMA FreedFacts ==
  ASSUME NEW ch, Sane(ch), NEW S
  PROVE  /\ Sane(Freed(ch, S)) /\ Len(Freed(ch, S)) = Len(ch)
         /\ \A i \in 1 .. Len(ch) :
              Freed(ch, S)[i] = IF i \in Range(S) THEN FreedChunk ELSE ch[i]
         /\ FreedChunk \in ChunkSet /\ FreedChunk.freed /\ FreedChunk.data = <<>>
         /\ FreedChunk.next = 0 /\ ~FreedChunk.input
<1> DEFINE g == Freed(ch, S)
<1>0. /\ ch \in Seq(ChunkSet) /\ Len(ch) \in Nat
      /\ \A i \in 1 .. Len(ch) :
           /\ ch[i] \in ChunkSet /\ ch[i].next \in 0 .. Len(ch) /\ (ch[i].next # 0 => i < ch[i].next)
           /\ Len(ch[i].data) \in Nat /\ Len(ch[i].data) <= ch[i].cap /\ ch[i].cap \in Nat
  BY SaneTypes, Zenon
<1>1. /\ FreedChunk \in ChunkSet /\ FreedChunk.freed /\ FreedChunk.data = <<>>
      /\ FreedChunk.next = 0 /\ ~FreedChunk.input /\ FreedChunk.cap = 0 /\ Len(FreedChunk.data) = 0
  BY DEF FreedChunk, ChunkSet, NULL
<1>2. /\ g \in Seq(ChunkSet) /\ Len(g) = Len(ch) /\ Len(ch) \in Nat
      /\ \A i \in 1 .. Len(ch) : g[i] = IF i \in Range(S) THEN FreedChunk ELSE ch[i]
  <2> HIDE DEF FreedChunk
  <2> QED BY <1>1, SaneTypes DEF Freed
<1> HIDE DEF g
<1>3. Sane(g)
  <2>1. ASSUME NEW i \in 1 .. Len(g)
        PROVE  (g[i].next # 0 => i < g[i].next /\ g[i].next <= Len(g)) /\ Len(g[i].data) <= g[i].cap
    <3> HIDE DEF FreedChunk
    <3> QED BY <1>0, <1>1, <1>2
  <2> QED BY <2>1, <1>2, Zenon DEF Sane, Chained
<1> QED BY <1>1, <1>2, <1>3, Zenon DEF g


-----------------------------------------------------------------------------
(* Names and descriptors of m files; descriptors point to one of n chunks. *)
Named(dir, m) == dir \in [Names -> Nat] /\ \A name \in Names : dir[name] <= m

Table(of, m, n) ==
  /\ of \in [Descriptors -> DescSet]
  /\ \A d \in Descriptors : of[d].file <= m /\ of[d].chunk <= n

Typed(nd, ch, dir, of) ==
  /\ Sane(ch)
  /\ Nodes(nd, Len(ch))
  /\ Named(dir, Len(nd))
  /\ Table(of, Len(nd), Len(ch))

(* After a fault only the chunks are still looked at.                      *)
TypeInv ==
  /\ Sane(chunk)
  /\ status = "ok" => Typed(node, chunk, directory, open_files) /\ written \in Nat

(* The fields of a table of descriptors and their types.                   *)
LEMMA TableTypes ==
  ASSUME NEW of, NEW m \in Nat, NEW n \in Nat, Table(of, m, n)
  PROVE  /\ of \in [Descriptors -> DescSet]
         /\ \A d \in Descriptors :
              /\ of[d] \in DescSet /\ of[d].file \in 0 .. m /\ of[d].chunk \in 0 .. n
              /\ of[d].offset \in Int /\ of[d].acc \in {"R", "W", "RW"} /\ of[d].append \in BOOLEAN
<1>1. /\ of \in [Descriptors -> DescSet]
      /\ \A d \in Descriptors : of[d] \in DescSet /\ of[d].file <= m /\ of[d].chunk <= n
  BY Zenon DEF Table
<1>2. \A r \in DescSet : /\ r.file \in Nat /\ r.chunk \in Nat /\ r.offset \in Int
                         /\ r.acc \in {"R", "W", "RW"} /\ r.append \in BOOLEAN
  BY Zenon DEF DescSet
<1> QED BY <1>1, <1>2

-----------------------------------------------------------------------------
(* Chunks that are allocated and filled.                                   *)

(* A new chunk holds what it was made for.                                 *)
LEMMA NewIsPlain ==
  ASSUME NEW size \in Nat, NEW data \in Seq(Int), Len(data) <= size
  PROVE  Plain(NewChunk(size, data)) /\ NewChunk(size, data).data = data
<1> DEFINE m == ((size + ChunkSize - 1) \div ChunkSize) * ChunkSize
           r == NewChunk(size, data)
<1>1. m \in Nat /\ size <= m
  <2>1. ChunkSize \in Nat \ {0}
    BY FilesAssumption, Zenon
  <2> QED BY <2>1, RoundedUp, Zenon
<1>2. r = [cap |-> m, data |-> data, next |-> 0, input |-> FALSE, freed |-> FALSE]
  BY Zenon DEF NewChunk, NULL
<1> HIDE DEF m, r
<1>3. /\ r.data = data /\ r.next = 0 /\ r.input = FALSE /\ r.freed = FALSE /\ r.cap = m
      /\ r \in ChunkSet
  BY <1>1, <1>2, Zenon DEF ChunkSet
<1>4. Len(data) <= m
  BY <1>1
<1> QED BY <1>3, <1>4, Zenon DEF Plain, r

(* Bytes nobody has written, as many as are asked for.                     *)
LEMMA JunkFacts ==
  ASSUME NEW n \in Int
  PROVE  JunkBytes(n) \in Seq(Int) /\ Len(JunkBytes(n)) = IF n > 0 THEN n ELSE 0
<1>1. CASE n > 0
  BY <1>1 DEF JunkBytes, Junk
<1>2. CASE ~(n > 0)
  <2>1. 1 .. n = {}
    BY <1>2
  <2>2. JunkBytes(n) = <<>>
    BY <2>1 DEF JunkBytes
  <2> QED BY <1>2, <2>2
<1> QED BY <1>1, <1>2

(* The parts of what write and pwrite prepare.                             *)
LEMMA PreparedParts ==
  \A ch, content, current, how :
    LET p == Prepared(ch, content, current, how)
    IN  p.ch = ch /\ p.content = content /\ p.current = current /\ p.how = how
BY DEF Prepared

(* The array ch once the bytes are in chunk c and, as far as they do not   *)
(* fit, in a new one: the copying loop of write.                           *)
Part(ch, c, bytes) == Min({Len(bytes), ch[c].cap - Len(ch[c].data)})

Head1(ch, c, bytes) == [ch EXCEPT ![c].data = @ \o SubSeq(bytes, 1, Part(ch, c, bytes))]

Filled(ch, c, bytes) ==
  IF Part(ch, c, bytes) = Len(bytes) THEN Head1(ch, c, bytes)
  ELSE Append([Head1(ch, c, bytes) EXCEPT ![c].next = Len(ch) + 1],
              NewChunk(Len(bytes) - Part(ch, c, bytes),
                       SubSeq(bytes, Part(ch, c, bytes) + 1, Len(bytes))))

(* What the loop makes of the array.                                       *)
LEMMA FilledFacts ==
  ASSUME NEW ch, Sane(ch), NEW c \in 1 .. Len(ch), NEW bytes \in Seq(Int)
  PROVE  LET part == Part(ch, c, bytes)
             g    == Filled(ch, c, bytes)
         IN  /\ Extends(ch, g, c)
             /\ part \in Nat /\ part <= Len(bytes)
             /\ g[c].data = ch[c].data \o SubSeq(bytes, 1, part)
             /\ Len(g) = Len(ch) <=> part = Len(bytes)
             /\ part < Len(bytes) =>
                  /\ Len(g) = Len(ch) + 1
                  /\ g[Len(ch) + 1].data = SubSeq(bytes, part + 1, Len(bytes))
<1> DEFINE part == Part(ch, c, bytes)
           x    == ch[c].data \o SubSeq(bytes, 1, part)
           h    == Head1(ch, c, bytes)
           g    == Filled(ch, c, bytes)
           n    == Len(bytes)
           r    == NewChunk(n - part, SubSeq(bytes, part + 1, n))
<1>1. n \in Nat /\ ch[c].cap \in Nat /\ ch[c].data \in Seq(Int) /\ Len(ch[c].data) \in Nat
      /\ Len(ch[c].data) <= ch[c].cap /\ Len(ch) \in Nat
  BY SaneTypes
<1>2. part \in Nat /\ part <= n /\ part <= ch[c].cap - Len(ch[c].data)
  <2> DEFINE room == ch[c].cap - Len(ch[c].data)
  <2>0. part = Min({n, room})
    BY Zenon DEF Part
  <2>1. n \in Int /\ room \in Int /\ n \in Nat /\ room \in Nat
    BY <1>1
  <2> HIDE DEF n, room, part
  <2>2. part = IF n <= room THEN n ELSE room
    BY <2>0, <2>1, MinOfTwo, Zenon
  <2>3. part \in Nat /\ part <= n /\ part <= room
    BY <1>1, <2>1, <2>2
  <2> QED BY <2>3, Zenon DEF room
<1> HIDE DEF part, n
<1>3. SubSeq(bytes, 1, part) \in Seq(Int) /\ Len(SubSeq(bytes, 1, part)) = part
  BY <1>2, Halves, Zenon DEF n
<1>4. x \in Seq(Int) /\ Len(x) <= ch[c].cap
  <2> DEFINE u == ch[c].data
             v == SubSeq(bytes, 1, part)
  <2>0. u \in Seq(Int) /\ v \in Seq(Int) /\ Len(v) = part
    BY <1>1, <1>3, Zenon
  <2> HIDE DEF v
  <2>1. u \in Seq(Int) /\ v \in Seq(Int) /\ Len(u) + Len(v) <= ch[c].cap
    BY <1>1, <1>2, <2>0
  <2> HIDE DEF u
  <2>2. u \o v \in Seq(Int) /\ Len(u \o v) = Len(u) + Len(v)
    BY <2>1
  <2> QED BY <2>1, <2>2, Zenon DEF u, v
<1>5. h = WithData(ch, c, x)
  BY Zenon DEF Head1, part, WithData
<1> HIDE DEF x, h
<1>6. Extends(ch, h, c) /\ Len(h) = Len(ch) /\ h[c].data = x
  BY <1>4, <1>5, DataChanged, Zenon
<1>7. CASE part = n
  <2>1. g = h
    BY <1>7, Zenon DEF Filled, h, part, n
  <2> HIDE DEF g
  <2>2. Extends(ch, g, c) /\ g[c].data = ch[c].data \o SubSeq(bytes, 1, part) /\ Len(g) = Len(ch)
    BY <1>6, <2>1, Zenon DEF x
  <2>3. ~(part < n)
    BY <1>1, <1>2, <1>7
  <2> QED BY <1>2, <1>7, <2>2, <2>3, Zenon DEF g, part, n
<1>8. CASE part # n
  <2>1. g = Linked(h, c, r)
    BY <1>8, <1>6, Zenon DEF Filled, Linked, h, part, n
  <2>2. /\ SubSeq(bytes, part + 1, n) \in Seq(Int) /\ Len(SubSeq(bytes, part + 1, n)) = n - part
        /\ n - part \in Nat
    <3>1. n - part \in Nat
      BY <1>1, <1>2
    <3> QED BY <3>1, <1>2, Halves, Zenon DEF n
  <2>3. Plain(r) /\ r.data = SubSeq(bytes, part + 1, n)
    <3> DEFINE m == n - part
               y == SubSeq(bytes, part + 1, n)
    <3>1. m \in Nat /\ y \in Seq(Int) /\ Len(y) <= m
      BY <2>2
    <3> HIDE DEF m, y
    <3>2. Plain(NewChunk(m, y)) /\ NewChunk(m, y).data = y
      BY <3>1, NewIsPlain, Zenon
    <3> QED BY <3>2, Zenon DEF m, y
  <2> HIDE DEF g, r
  <2>4. Sane(h) /\ c \in 1 .. Len(h)
    BY <1>6, Zenon DEF Extends
  <2>5. /\ Extends(h, g, c) /\ Len(g) = Len(h) + 1 /\ g[Len(h) + 1] = r
        /\ g[c].data = h[c].data
    BY <2>1, <2>3, <2>4, ChunkLinked
  <2>6. Extends(ch, g, c)
    BY <1>6, <2>5, ExtendsTwice, Zenon
  <2>7. Len(g) = Len(ch) + 1 /\ Len(g) # Len(ch) /\ g[Len(ch) + 1].data = SubSeq(bytes, part + 1, n)
    BY <1>1, <1>6, <2>3, <2>5
  <2>8. g[c].data = ch[c].data \o SubSeq(bytes, 1, part)
    BY <1>6, <2>5, Zenon DEF x
  <2> QED BY <1>2, <1>8, <2>6, <2>7, <2>8, Zenon DEF g, part, n
<1> QED BY <1>7, <1>8, Zenon

-----------------------------------------------------------------------------
(* Changes of the descriptor table.                                        *)

(* Descriptor d becomes r, or moves to another place.                      *)
Put(of, d, r) == [of EXCEPT ![d] = r]

Moved(of, d, c, off) == [of EXCEPT ![d] = [of[d] EXCEPT !.chunk = c, !.offset = off]]

(* More chunks and files do not matter to what is there.                   *)
LEMMA TypesGrow ==
  ASSUME NEW nd, NEW dir, NEW of, NEW m \in Nat, NEW n \in Nat, NEW k \in Nat, NEW l \in Nat,
         m <= k, n <= l
  PROVE  /\ Nodes(nd, n) => Nodes(nd, l)
         /\ Named(dir, m) => Named(dir, k)
         /\ Table(of, m, n) => Table(of, k, l)
<1>1. ASSUME Nodes(nd, n) PROVE Nodes(nd, l)
  <2>1. nd \in Seq(NodeSet) /\ \A f \in 1 .. Len(nd) : nd[f].content \in 0 .. n
    BY <1>1, NodeTypes, Zenon
  <2> QED BY <2>1 DEF Nodes
<1>2. ASSUME Named(dir, m) PROVE Named(dir, k)
  BY <1>2 DEF Named
<1>3. ASSUME Table(of, m, n) PROVE Table(of, k, l)
  <2>1. /\ of \in [Descriptors -> DescSet]
        /\ \A d \in Descriptors : of[d].file \in 0 .. m /\ of[d].chunk \in 0 .. n
    BY <1>3, TableTypes, Zenon
  <2> QED BY <2>1 DEF Table
<1> QED BY <1>1, <1>2, <1>3, Zenon

(* A table with one descriptor replaced.                                   *)
LEMMA PutFacts ==
  ASSUME NEW of, NEW m \in Nat, NEW n \in Nat, Table(of, m, n), NEW d \in Descriptors,
         NEW r \in DescSet, r.file <= m, r.chunk <= n
  PROVE  /\ Table(Put(of, d, r), m, n) /\ Put(of, d, r)[d] = r
         /\ \A e \in Descriptors : e # d => Put(of, d, r)[e] = of[e]
<1>1. of \in [Descriptors -> DescSet] /\ \A e \in Descriptors : of[e].file <= m /\ of[e].chunk <= n
  BY Zenon DEF Table
<1>2. /\ Put(of, d, r) \in [Descriptors -> DescSet] /\ Put(of, d, r)[d] = r
      /\ \A e \in Descriptors : e # d => Put(of, d, r)[e] = of[e]
  BY <1>1, Zenon DEF Put
<1>3. ASSUME NEW e \in Descriptors
      PROVE  Put(of, d, r)[e].file <= m /\ Put(of, d, r)[e].chunk <= n
  <2>1. CASE e = d
    BY <2>1, <1>2, Zenon
  <2>2. CASE e # d
    BY <2>2, <1>1, <1>2, Zenon
  <2> QED BY <2>1, <2>2, Zenon
<1> QED BY <1>2, <1>3, Zenon DEF Table

(* Only this entry changes.                                                *)
OnlyPut(of, og, d, r) == og[d] = r /\ \A e \in Descriptors : e # d => og[e] = of[e]

(* The entry d is put, and no other.                                       *)
LEMMA PutsOnly ==
  ASSUME NEW of, NEW m \in Nat, NEW n \in Nat, Table(of, m, n), NEW d \in Descriptors,
         NEW r \in DescSet, r.file <= m, r.chunk <= n
  PROVE  OnlyPut(of, Put(of, d, r), d, r)
<1>1. of \in [Descriptors -> DescSet]
  BY Zenon DEF Table
<1> QED BY <1>1, Zenon DEF OnlyPut, Put

(* A table with one descriptor at another place of its file.               *)
LEMMA MovedFacts ==
  ASSUME NEW of, NEW m \in Nat, NEW n \in Nat, Table(of, m, n), NEW d \in Descriptors,
         NEW c \in 0 .. n, NEW off \in Int
  PROVE  LET g == Moved(of, d, c, off)
         IN  /\ Table(g, m, n)
             /\ g[d].file = of[d].file /\ g[d].acc = of[d].acc /\ g[d].append = of[d].append
             /\ g[d].chunk = c /\ g[d].offset = off
             /\ \A e \in Descriptors : e # d => g[e] = of[e]
<1> DEFINE g == Moved(of, d, c, off)
           r == [of[d] EXCEPT !.chunk = c, !.offset = off]
<1>1. of[d] \in DescSet /\ of[d].file \in 0 .. m /\ c \in Nat
  BY TableTypes
<1>2. /\ r \in DescSet /\ r.file = of[d].file /\ r.acc = of[d].acc /\ r.append = of[d].append
      /\ r.chunk = c /\ r.offset = off
  BY <1>1, Zenon DEF DescSet
<1>3. g = Put(of, d, r)
  BY Zenon DEF Moved, Put
<1> HIDE DEF g, r
<1>4. r.file <= m /\ r.chunk <= n
  BY <1>1, <1>2
<1>5. /\ Table(g, m, n) /\ g[d] = r
      /\ \A e \in Descriptors : e # d => g[e] = of[e]
  BY <1>2, <1>3, <1>4, PutFacts
<1> QED BY <1>2, <1>5, Zenon DEF g

(* The forms in which the model writes it.                                 *)
ToPlace(of, d, c, off) == [of EXCEPT ![d].chunk = c, ![d].offset = off]

ToChunk(of, d, c, off) == [of EXCEPT ![d].offset = off, ![d].chunk = c]

ToOffset(of, d, off) == [of EXCEPT ![d].offset = off]

(* The updates of a position that the calls write are such moves.          *)
LEMMA MovedForms ==
  ASSUME NEW of, NEW m \in Nat, NEW n \in Nat, Table(of, m, n), NEW d \in Descriptors, NEW c, NEW off
  PROVE  /\ ToPlace(of, d, c, off) = Moved(of, d, c, off)
         /\ ToChunk(of, d, c, off) = Moved(of, d, c, off)
         /\ ToOffset(of, d, off) = Moved(of, d, of[d].chunk, off)
<1>1. of \in [Descriptors -> DescSet] /\ of[d] \in DescSet
  BY TableTypes, Zenon
<1>2. ToPlace(of, d, c, off) = Moved(of, d, c, off)
  BY <1>1, Zenon DEF Moved, ToPlace
<1>3. ToChunk(of, d, c, off) = Moved(of, d, c, off)
  BY <1>1, Zenon DEF Moved, ToChunk, DescSet
<1>4. ToOffset(of, d, off) = Moved(of, d, of[d].chunk, off)
  BY <1>1, Zenon DEF Moved, ToOffset, DescSet
<1> QED BY <1>2, <1>3, <1>4, Zenon

(* What the types say of a descriptor that is open and of a name in use.   *)
LEMMA StateTypes ==
  ASSUME TypeInv, status = "ok"
  PROVE  /\ Sane(chunk) /\ Len(chunk) \in Nat /\ Len(node) \in Nat
         /\ Nodes(node, Len(chunk)) /\ Named(directory, Len(node))
         /\ Table(open_files, Len(node), Len(chunk)) /\ written \in Nat
         /\ \A name \in Names : directory[name] \in 0 .. Len(node)
         /\ \A d \in Descriptors : /\ open_files[d].file \in 0 .. Len(node)
                                   /\ open_files[d].chunk \in 0 .. Len(chunk)
                                   /\ open_files[d].offset \in Int
         /\ \A f \in 1 .. Len(node) : /\ node[f].content \in 0 .. Len(chunk)
                                      /\ node[f].links \in Int /\ node[f].opens \in Int
<1>1. /\ Sane(chunk) /\ Nodes(node, Len(chunk)) /\ Named(directory, Len(node))
      /\ Table(open_files, Len(node), Len(chunk)) /\ written \in Nat
  BY Zenon DEF TypeInv, Typed
<1>2. Len(chunk) \in Nat
  BY <1>1, SaneTypes, Zenon
<1>3. /\ Len(node) \in Nat
      /\ \A f \in 1 .. Len(node) : /\ node[f].content \in 0 .. Len(chunk)
                                   /\ node[f].links \in Int /\ node[f].opens \in Int
  BY <1>1, <1>2, NodeTypes, Zenon
<1>4. \A d \in Descriptors : /\ open_files[d].file \in 0 .. Len(node)
                             /\ open_files[d].chunk \in 0 .. Len(chunk)
                             /\ open_files[d].offset \in Int
  BY <1>1, <1>2, <1>3, TableTypes, Zenon
<1>5. \A name \in Names : directory[name] \in 0 .. Len(node)
  BY <1>1, <1>3 DEF Named
<1> QED BY <1>1, <1>2, <1>3, <1>4, <1>5, Zenon

-----------------------------------------------------------------------------
(* The types are kept.                                                     *)

(* A step that ends with a fault keeps the types.                          *)
LEMMA FaultTyped ==
  ASSUME TypeInv, status' # "ok", chunk' = chunk
  PROVE  TypeInv'
BY Zenon DEF TypeInv

(* A call that returns an error keeps the types.                           *)
LEMMA FailTyped ==
  ASSUME TypeInv, status = "ok", NEW code, Fails(code)
  PROVE  TypeInv'
BY Zenon DEF TypeInv, Fails, Returns

(* A crash keeps the types.                                                *)
LEMMA CrashTyped ==
  ASSUME TypeInv, NEW fault, fault # "ok", Crashes(fault)
  PROVE  TypeInv'
BY FaultTyped, Zenon DEF Crashes, Faulty

(* New bytes, as many as are written.                                      *)
LEMMA FreshFacts ==
  ASSUME written \in Nat, NEW len \in Nat
  PROVE  Fresh(len) \in Seq(Int) /\ Len(Fresh(len)) = len
BY DEF Fresh

(* free_data frees the chunks of the file or changes its counts only.      *)
LEMMA free_dataFacts ==
  ASSUME TypeInv, status = "ok", NEW f \in 1 .. Len(node), NEW links \in Int, NEW opens \in Int,
         free_data(f, links, opens)
  PROVE  \/ status' # "ok" /\ chunk' = chunk
         \/ /\ status' = "ok" /\ Sane(chunk') /\ Len(chunk') = Len(chunk)
            /\ Nodes(node', Len(chunk)) /\ Len(node') = Len(node)
            /\ node'[f].links = links /\ node'[f].opens = opens
            /\ node'[f].freed = Dead(links, opens) /\ node'[f].content = node[f].content
            /\ \A i \in 1 .. Len(node) : i # f => node'[i] = node[i]
            /\ chunk' = IF Dead(links, opens) THEN Freed(chunk, Chunks(node[f].content)) ELSE chunk
            /\ Dead(links, opens) => FreeFault(Chunks(node[f].content)) = "ok"
<1> DEFINE S    == Chunks(node[f].content)
           dead == Dead(links, opens)
<1>0. /\ Sane(chunk) /\ Len(chunk) \in Nat /\ Nodes(node, Len(chunk))
  BY StateTypes, Zenon
<1>1. \/ dead /\ FreeFault(S) # "ok" /\ Faulty(FreeFault(S))
      \/ /\ dead => FreeFault(S) = "ok"
         /\ node' = [node EXCEPT ![f].links = links, ![f].opens = opens, ![f].freed = dead]
         /\ chunk' = IF dead THEN Freed(chunk, S) ELSE chunk
         /\ Returns(0, <<>>)
  BY Zenon DEF free_data
<1>2. dead \in BOOLEAN
  BY Zenon DEF Dead
<1> HIDE DEF S, dead
<1>3. CASE dead /\ FreeFault(S) # "ok" /\ Faulty(FreeFault(S))
  BY <1>3, Zenon DEF Faulty
<1>4. CASE /\ dead => FreeFault(S) = "ok"
           /\ node' = [node EXCEPT ![f].links = links, ![f].opens = opens, ![f].freed = dead]
           /\ chunk' = IF dead THEN Freed(chunk, S) ELSE chunk
           /\ Returns(0, <<>>)
  <2>1. status' = "ok"
    BY <1>4, Zenon DEF Returns
  <2>2. Sane(chunk') /\ Len(chunk') = Len(chunk)
    <3>1. Sane(Freed(chunk, S)) /\ Len(Freed(chunk, S)) = Len(chunk)
      BY <1>0, FreedFacts, Zenon
    <3> QED BY <1>0, <1>4, <3>1, Zenon
  <2>3. /\ Nodes(node', Len(chunk)) /\ Len(node') = Len(node)
        /\ node'[f].links = links /\ node'[f].opens = opens
        /\ node'[f].freed = dead /\ node'[f].content = node[f].content
        /\ \A i \in 1 .. Len(node) : i # f => node'[i] = node[i]
    <3> DEFINE g == Recounted(node, f, links, opens, dead)
    <3>1. /\ Nodes(g, Len(chunk)) /\ Len(g) = Len(node)
          /\ g[f].links = links /\ g[f].opens = opens
          /\ g[f].freed = dead /\ g[f].content = node[f].content
          /\ \A i \in 1 .. Len(node) : i # f => g[i] = node[i]
      BY <1>0, <1>2, CountsChanged
    <3> HIDE DEF g
    <3>2. node' = g
      BY <1>4, Zenon DEF g, Recounted
    <3> QED BY <3>1, <3>2, Zenon
  <2> QED BY <1>4, <2>1, <2>2, <2>3, Zenon DEF S, dead
<1> QED BY <1>1, <1>3, <1>4, Zenon

(* A descriptor that is not open.                                          *)
LEMMA ClosedFacts == Closed \in DescSet /\ Closed.file = 0 /\ Closed.chunk = 0
BY DEF Closed, DescSet, NULL

(* close keeps the types.                                                  *)
LEMMA CloseTyped ==
  ASSUME TypeInv, NEW d \in Descriptors, dandelion_close(d)
  PROVE  TypeInv'
<1> DEFINE f == open_files[d].file
<1>0. status = "ok"
  BY Zenon DEF dandelion_close
<1>1. CASE Fails(EBADF)
  BY <1>0, <1>1, FailTyped, Zenon
<1>2. CASE /\ f # NULL /\ free_data(f, node[f].links, node[f].opens - 1)
           /\ open_files' = [open_files EXCEPT ![d] = Closed]
           /\ UNCHANGED <<directory, written>>
  <2>1. f \in 1 .. Len(node) /\ node[f].links \in Int /\ node[f].opens - 1 \in Int
    BY <1>0, <1>2, StateTypes DEF NULL
  <2>2. /\ Len(chunk) \in Nat /\ Len(node) \in Nat /\ Table(open_files, Len(node), Len(chunk))
        /\ Named(directory, Len(node)) /\ written \in Nat
    BY <1>0, StateTypes, Zenon
  <2>3. Table(open_files', Len(node), Len(chunk))
    <3>1. Closed.file <= Len(node) /\ Closed.chunk <= Len(chunk)
      BY <2>2, ClosedFacts
    <3>2. open_files' = Put(open_files, d, Closed)
      BY <1>2, Zenon DEF Put
    <3> QED BY <2>2, <3>1, <3>2, ClosedFacts, PutFacts, Zenon
  <2>4. \/ status' # "ok" /\ chunk' = chunk
        \/ /\ status' = "ok" /\ Sane(chunk') /\ Len(chunk') = Len(chunk)
           /\ Nodes(node', Len(chunk)) /\ Len(node') = Len(node)
    BY <1>0, <1>2, <2>1, free_dataFacts, Zenon
  <2>5. CASE status' # "ok" /\ chunk' = chunk
    BY <2>5, FaultTyped, Zenon
  <2>6. CASE /\ status' = "ok" /\ Sane(chunk') /\ Len(chunk') = Len(chunk)
             /\ Nodes(node', Len(chunk)) /\ Len(node') = Len(node)
    BY <1>2, <2>2, <2>3, <2>6, Zenon DEF TypeInv, Typed
  <2> QED BY <2>4, <2>5, <2>6, Zenon
<1> QED BY <1>1, <1>2, Zenon DEF dandelion_close

(* unlink keeps the types.                                                 *)
LEMMA UnlinkTyped ==
  ASSUME TypeInv, NEW name \in Names, dandelion_unlink(name)
  PROVE  TypeInv'
<1> DEFINE f == directory[name]
<1>0. status = "ok"
  BY Zenon DEF dandelion_unlink
<1>1. CASE Fails(ENOTDIR)
  BY <1>0, <1>1, FailTyped, Zenon
<1>2. CASE /\ f # NULL /\ free_data(f, node[f].links - 1, node[f].opens)
           /\ directory' = [directory EXCEPT ![name] = NULL]
           /\ UNCHANGED <<open_files, written>>
  <2>1. f \in 1 .. Len(node) /\ node[f].links - 1 \in Int /\ node[f].opens \in Int
    BY <1>0, <1>2, StateTypes DEF NULL
  <2>2. /\ Len(chunk) \in Nat /\ Len(node) \in Nat /\ Table(open_files, Len(node), Len(chunk))
        /\ Named(directory, Len(node)) /\ written \in Nat
    BY <1>0, StateTypes, Zenon
  <2>3. Named(directory', Len(node))
    BY <1>2, <2>2 DEF Named, NULL
  <2>4. \/ status' # "ok" /\ chunk' = chunk
        \/ /\ status' = "ok" /\ Sane(chunk') /\ Len(chunk') = Len(chunk)
           /\ Nodes(node', Len(chunk)) /\ Len(node') = Len(node)
    BY <1>0, <1>2, <2>1, free_dataFacts, Zenon
  <2>5. CASE status' # "ok" /\ chunk' = chunk
    BY <2>5, FaultTyped, Zenon
  <2>6. CASE /\ status' = "ok" /\ Sane(chunk') /\ Len(chunk') = Len(chunk)
             /\ Nodes(node', Len(chunk)) /\ Len(node') = Len(node)
    BY <1>2, <2>2, <2>3, <2>6, Zenon DEF TypeInv, Typed
  <2> QED BY <2>4, <2>5, <2>6, Zenon
<1> QED BY <1>1, <1>2, Zenon DEF dandelion_unlink

(* The files once open has created a missing one, and the file it opens.   *)
OpenNodes(name, mode) ==
  IF directory[name] # NULL THEN node
  ELSE Append(node, [content |-> NULL, links |-> 1, opens |-> 0, mode |-> mode, freed |-> FALSE])

OpenFile(name, mode) ==
  IF directory[name] # NULL THEN directory[name] ELSE Len(OpenNodes(name, mode))

OpenDesc(f, c, flags) ==
  [file |-> f, chunk |-> c, offset |-> 0, acc |-> flags.acc, append |-> flags.append]

(* The files once open has found the file or made a new one.               *)
LEMMA OpenNodesFacts ==
  ASSUME TypeInv, status = "ok", NEW name \in Names, NEW mode \in SUBSET {"r", "w"}
  PROVE  LET fs == OpenNodes(name, mode)
             f  == OpenFile(name, mode)
         IN  /\ Nodes(fs, Len(chunk)) /\ Len(fs) \in Nat /\ Len(node) <= Len(fs)
             /\ f \in 1 .. Len(fs)
             /\ \A i \in 1 .. Len(node) : fs[i] = node[i]
             /\ directory[name] # 0 => fs = node /\ f = directory[name]
             /\ directory[name] = 0 =>
                  /\ Len(fs) = Len(node) + 1 /\ f = Len(fs)
                  /\ fs[f].content = 0 /\ fs[f].links = 1 /\ fs[f].opens = 0 /\ ~fs[f].freed
<1> DEFINE fs == OpenNodes(name, mode)
           f  == OpenFile(name, mode)
           r  == [content |-> NULL, links |-> 1, opens |-> 0, mode |-> mode, freed |-> FALSE]
<1>1. /\ Len(chunk) \in Nat /\ Nodes(node, Len(chunk)) /\ Len(node) \in Nat
      /\ directory[name] \in 0 .. Len(node)
  BY StateTypes, Zenon
<1>2. CASE directory[name] # 0
  BY <1>1, <1>2 DEF OpenNodes, OpenFile, NULL
<1>3. CASE directory[name] = 0
  <2>1. fs = Append(node, r) /\ f = Len(fs)
    BY <1>3, Zenon DEF OpenNodes, OpenFile, NULL
  <2>2. r \in NodeSet /\ r.content = 0 /\ r.links = 1 /\ r.opens = 0 /\ ~r.freed
    BY DEF NodeSet, NULL
  <2> HIDE DEF r, fs, f
  <2>3. node \in Seq(NodeSet) /\ \A i \in 1 .. Len(node) : node[i].content <= Len(chunk)
    BY <1>1, Zenon DEF Nodes
  <2>4. /\ fs \in Seq(NodeSet) /\ Len(fs) = Len(node) + 1 /\ fs[Len(node) + 1] = r
        /\ \A i \in 1 .. Len(node) : fs[i] = node[i]
    BY <2>1, <2>2, <2>3
  <2>5. Nodes(fs, Len(chunk))
    BY <1>1, <2>2, <2>3, <2>4 DEF Nodes
  <2>6. f \in 1 .. Len(fs) /\ Len(fs) \in Nat /\ Len(node) <= Len(fs) /\ fs[f] = r
    BY <1>1, <2>1, <2>4
  <2> QED BY <1>3, <2>1, <2>2, <2>4, <2>5, <2>6, Zenon DEF fs, f
<1> QED BY <1>2, <1>3, Zenon

(* The ends of open_existing_file.                                         *)
LEMMA OpenEnds ==
  ASSUME status = "ok", NEW fs, NEW f, NEW d, NEW flags, open_existing_file(fs, f, d, flags)
  PROVE  LET S == Chunks(fs[f].content)
             c == IF flags.trunc THEN NULL ELSE fs[f].content
         IN  \/ status' # "ok" /\ chunk' = chunk /\ flags.trunc /\ FreeFault(S) # "ok"
             \/ status' = "ok" /\ node' = fs /\ UNCHANGED <<chunk, open_files>>
             \/ /\ status' = "ok" /\ node' = Opened(fs, f, c)
                /\ open_files' = Put(open_files, d, OpenDesc(f, c, flags))
                /\ chunk' = IF flags.trunc THEN Freed(chunk, S) ELSE chunk
                /\ flags.trunc => FreeFault(S) = "ok"
                /\ ret'.bytes = <<>>
<1> DEFINE S == Chunks(fs[f].content)
           c == IF flags.trunc THEN NULL ELSE fs[f].content
<1>1. CASE /\ node' = fs /\ Returns(EACCES, <<>>) /\ UNCHANGED <<chunk, open_files>>
  BY <1>1, Zenon DEF Returns
<1>2. CASE flags.trunc /\ FreeFault(S) # "ok" /\ Faulty(FreeFault(S))
  <2> HIDE DEF S
  <2>1. status' # "ok" /\ chunk' = chunk /\ flags.trunc /\ FreeFault(S) # "ok"
    BY <1>2, Zenon DEF Faulty
  <2> QED BY <2>1, Zenon DEF S
<1>3. CASE /\ flags.trunc => FreeFault(S) = "ok"
           /\ node' = [fs EXCEPT ![f].content = c, ![f].opens = @ + 1]
           /\ open_files' = [open_files EXCEPT ![d] =
                [file |-> f, chunk |-> c, offset |-> 0, acc |-> flags.acc, append |-> flags.append]]
           /\ chunk' = IF flags.trunc THEN Freed(chunk, S) ELSE chunk
           /\ Returns(d, <<>>)
  <2>1. status' = "ok" /\ ret'.bytes = <<>>
    BY <1>3, Zenon DEF Returns
  <2>2. /\ node' = Opened(fs, f, c)
        /\ open_files' = Put(open_files, d, OpenDesc(f, c, flags))
    BY <1>3, Zenon DEF Opened, Put, OpenDesc
  <2> QED BY <1>3, <2>1, <2>2, Zenon
<1> QED BY <1>1, <1>2, <1>3, Zenon DEF open_existing_file

(* open keeps the types.                                                   *)
LEMMA OpenTyped ==
  ASSUME TypeInv, NEW name \in Names, NEW flags \in OpenFlags, NEW mode \in OpenModes,
         dandelion_open(name, flags, mode)
  PROVE  TypeInv'
<1> DEFINE fs   == OpenNodes(name, mode)
           f    == OpenFile(name, mode)
           free == {d \in Descriptors : open_files[d].file = NULL}
           S    == Chunks(fs[f].content)
           c    == IF flags.trunc THEN NULL ELSE fs[f].content
<1>0. status = "ok" /\ mode \in SUBSET {"r", "w"} /\ flags \in Flags
  BY FilesAssumption, Zenon DEF dandelion_open
<1>1. CASE \E code : Fails(code)
  BY <1>0, <1>1, FailTyped, Zenon
<1>2. CASE /\ directory' = [directory EXCEPT ![name] = f]
           /\ \/ free = {} /\ node' = fs /\ Returns(EMFILE, <<>>) /\ UNCHANGED <<chunk, open_files>>
              \/ free # {} /\ open_existing_file(fs, f, Min(free), flags)
           /\ UNCHANGED written
  <2>1. /\ Nodes(fs, Len(chunk)) /\ Len(fs) \in Nat /\ Len(node) <= Len(fs)
        /\ f \in 1 .. Len(fs)
    BY <1>0, OpenNodesFacts, Zenon
  <2>2. /\ Sane(chunk) /\ Len(chunk) \in Nat /\ Len(node) \in Nat
        /\ Table(open_files, Len(node), Len(chunk))
        /\ Named(directory, Len(node)) /\ written \in Nat
    BY <1>0, StateTypes, Zenon
  <2> HIDE DEF fs, f
  <2>3. Table(open_files, Len(fs), Len(chunk)) /\ Named(directory, Len(fs))
    <3>1. Len(chunk) <= Len(chunk)
      BY <2>2
    <3> QED BY <2>1, <2>2, <3>1, TypesGrow, Zenon
  <2>4. Named(directory', Len(fs))
    BY <1>2, <2>1, <2>3 DEF Named
  <2>5. CASE status' = "ok" /\ node' = fs /\ UNCHANGED <<chunk, open_files>>
    BY <1>2, <2>1, <2>2, <2>3, <2>4, <2>5, Zenon DEF TypeInv, Typed
  <2>6. CASE status' # "ok" /\ chunk' = chunk
    BY <2>6, FaultTyped, Zenon
  <2>7. CASE /\ free # {} /\ status' = "ok" /\ node' = Opened(fs, f, c)
             /\ open_files' = Put(open_files, Min(free), OpenDesc(f, c, flags))
             /\ chunk' = IF flags.trunc THEN Freed(chunk, S) ELSE chunk
    <3>1. c \in 0 .. Len(chunk)
      BY <2>1, <2>2, NodeTypes DEF NULL
    <3>2. Sane(chunk') /\ Len(chunk') = Len(chunk)
      <4>1. Sane(Freed(chunk, S)) /\ Len(Freed(chunk, S)) = Len(chunk)
        BY <2>2, FreedFacts, Zenon
      <4> QED BY <2>2, <2>7, <4>1, Zenon
    <3> HIDE DEF c, S
    <3>3. Nodes(node', Len(chunk)) /\ Len(node') = Len(fs)
      BY <2>1, <2>2, <2>7, <3>1, OpenChanged, Zenon
    <3>4. Min(free) \in Descriptors
      <4>1. free \in SUBSET Nat /\ free # {}
        BY <2>7, FilesAssumption, Zenon
      <4> HIDE DEF free
      <4>2. Min(free) \in free
        BY <4>1, MinFacts, Zenon
      <4> QED BY <4>2, Zenon DEF free
    <3>5. LET r == OpenDesc(f, c, flags)
          IN  r \in DescSet /\ r.file <= Len(fs) /\ r.chunk <= Len(chunk)
      BY <1>0, <2>1, <2>2, <3>1 DEF OpenDesc, DescSet, Flags
    <3> HIDE DEF free
    <3>6. Table(open_files', Len(fs), Len(chunk))
      BY <2>1, <2>2, <2>3, <2>7, <3>4, <3>5, PutFacts, Zenon
    <3> QED BY <1>2, <2>2, <2>4, <2>7, <3>2, <3>3, <3>6, Zenon DEF TypeInv, Typed
  <2>8. \/ status' = "ok" /\ node' = fs /\ UNCHANGED <<chunk, open_files>>
        \/ free # {} /\ open_existing_file(fs, f, Min(free), flags)
    BY <1>0, <1>2, Zenon DEF Returns
  <2> QED BY <1>0, <2>5, <2>6, <2>7, <2>8, OpenEnds, Zenon
<1> QED BY <1>1, <1>2, Zenon DEF dandelion_open, OpenNodes, OpenFile

(* The lists of chunks and the bytes in front of their chunks.             *)
LEMMA ListTypes ==
  ASSUME Sane(chunk), NEW c \in 0 .. Len(chunk)
  PROVE  LET S == Chunks(c)
         IN  /\ S \in Seq(1 .. Len(chunk)) /\ Len(S) \in Nat /\ DOMAIN S = 1 .. Len(S)
             /\ S = <<>> <=> c = 0
             /\ c # 0 => Len(S) \in 1 .. Len(S) /\ S[1] = c
             /\ \A j \in 1 .. Len(S) : S[j] \in 1 .. Len(chunk)
             /\ Len(DataOf(S)) \in Nat
             /\ \A j \in 1 .. Len(S) + 1 : UsedBefore(S, j) \in Nat /\ CapBefore(S, j) \in Nat
<1> DEFINE S == Chunks(c)
<1>1. /\ Len(chunk) \in Nat /\ chunk \in Seq(ChunkSet)
  BY SaneTypes, Zenon
<1>2. IsChain(S, chunk, c)
  <2>1. Chained(chunk)
    BY Zenon DEF Sane
  <2>2. S = ListOf(chunk, c)
    BY ChunksIsListOf, Zenon
  <2> QED BY <2>1, <2>2, ListIsChain, Zenon
<1> HIDE DEF S
<1>3. S \in Seq(1 .. Len(chunk)) /\ (S = <<>> <=> c = 0) /\ (c # 0 => S[1] = c)
  BY <1>2, Zenon DEF IsChain
<1>4. /\ Len(S) \in Nat /\ DOMAIN S = 1 .. Len(S)
      /\ \A j \in 1 .. Len(S) : S[j] \in 1 .. Len(chunk)
      /\ c # 0 => Len(S) \in 1 .. Len(S)
  BY <1>3
<1>5. Len(DataOf(S)) = BytesIn(chunk, S, Len(S)) /\ \A k \in 0 .. Len(S) : BytesIn(chunk, S, k) \in Nat
  BY <1>1, <1>3, BytesGrow, DataOfIs, Zenon
<1>6. \A k \in 0 .. Len(S) : CapIn(chunk, S, k) \in Nat
  BY <1>1, <1>3, CapGrows, Zenon
<1>7. ASSUME NEW j \in 1 .. Len(S) + 1 PROVE UsedBefore(S, j) \in Nat /\ CapBefore(S, j) \in Nat
  <2>1. j - 1 \in 0 .. Len(S)
    BY <1>4
  <2> QED BY <2>1, <1>5, <1>6, DataOfIs, CapBeforeIs, Zenon
<1>8. Len(DataOf(S)) \in Nat
  BY <1>4, <1>5
<1> QED BY <1>3, <1>4, <1>7, <1>8, Zenon DEF S

(* Where the copying loop of read ends.                                    *)
LEMMA CopiedTypes ==
  ASSUME Sane(chunk), NEW c \in 1 .. Len(chunk), NEW off \in Int, NEW len \in Nat
  PROVE  LET r == Copied(c, off, len)
         IN  /\ r.chunk \in 1 .. Len(chunk) /\ r.offset \in Int
             /\ r.chunk \in Range(Chunks(c)) /\ (r.ok <=> ~chunk[r.chunk].freed)
<1> DEFINE S       == Chunks(c)
           at(j)   == IF j = 1 THEN off ELSE 0
           left(j) == used(S[j]) - at(j)
           K       == {j \in DOMAIN S : j = Len(S) \/ left(j) > len \/ left(j) < 0}
           k       == Min(K)
           n       == IF left(k) \in 0 .. len THEN left(k) ELSE len
<1>0. Len(chunk) \in Nat
  BY SaneTypes, Zenon
<1>1. c \in 0 .. Len(chunk) /\ c # 0
  BY <1>0
<1>2. /\ Len(S) \in Nat /\ DOMAIN S = 1 .. Len(S) /\ Len(S) \in 1 .. Len(S)
      /\ \A j \in 1 .. Len(S) : S[j] \in 1 .. Len(chunk)
  BY <1>1, ListTypes, Zenon
<1>3. /\ Copied(c, off, len).chunk = S[k] /\ Copied(c, off, len).offset = at(k) + n
      /\ Copied(c, off, len).ok = ~chunk[S[k]].freed
  BY Zenon DEF Copied
<1> HIDE DEF S
<1>4. K \in SUBSET Nat /\ K # {} /\ K \subseteq 1 .. Len(S)
  BY <1>2
<1> HIDE DEF K
<1>5. k \in 1 .. Len(S)
  BY <1>4, MinFacts, Zenon
<1> HIDE DEF k
<1>6. used(S[k]) \in Nat
  BY <1>2, <1>5, SaneTypes, Zenon DEF used
<1>7. S[k] \in 1 .. Len(chunk) /\ at(k) \in Int /\ n \in Int
  BY <1>2, <1>5, <1>6
<1>8. S[k] \in Range(S)
  BY <1>2, <1>5, Zenon DEF Range
<1> HIDE DEF at, n
<1>9. at(k) + n \in Int
  BY <1>7
<1> QED BY <1>3, <1>7, <1>8, <1>9, Zenon DEF S

(* read keeps the types.                                                   *)
LEMMA ReadTyped ==
  ASSUME TypeInv, NEW d \in Descriptors, NEW len \in Lengths, dandelion_read(d, len)
  PROVE  TypeInv'
<1> DEFINE o     == open_files[d]
           start == IF o.chunk = NULL THEN node[o.file].content ELSE o.chunk
           from  == IF o.chunk = NULL THEN 0 ELSE o.offset
           r     == Copied(start, from, len)
<1>0. status = "ok" /\ len \in Nat
  BY FilesAssumption, Zenon DEF dandelion_read
<1>1. CASE \E code : Fails(code)
  BY <1>0, <1>1, FailTyped, Zenon
<1>2. CASE Crashes("freed")
  BY <1>2, CrashTyped, Zenon
<1>t. /\ Sane(chunk) /\ Len(chunk) \in Nat /\ Len(node) \in Nat
      /\ Nodes(node, Len(chunk)) /\ Named(directory, Len(node))
      /\ Table(open_files, Len(node), Len(chunk)) /\ written \in Nat
      /\ o.file \in 0 .. Len(node) /\ o.chunk \in 0 .. Len(chunk) /\ o.offset \in Int
      /\ \A f \in 1 .. Len(node) : node[f].content \in 0 .. Len(chunk)
  BY <1>0, StateTypes, Zenon
<1>3. ASSUME NEW c \in 0 .. Len(chunk), NEW off \in Int, open_files' = Moved(open_files, d, c, off),
             status' = status, UNCHANGED <<node, chunk, directory, written>>
      PROVE  TypeInv'
  <2>1. Table(open_files', Len(node), Len(chunk))
    BY <1>t, <1>3, MovedFacts, Zenon
  <2> QED BY <1>t, <1>3, <2>1, Zenon DEF TypeInv, Typed
<1>4. CASE /\ open_files' = [open_files EXCEPT ![d].offset = 0]
           /\ Returns(0, <<>>)
           /\ UNCHANGED <<node, chunk, directory, written>>
  <2>0. open_files' = ToOffset(open_files, d, 0)
    BY <1>4, Zenon DEF ToOffset
  <2>1. open_files' = Moved(open_files, d, o.chunk, 0)
    BY <1>t, <2>0, MovedForms, Zenon
  <2>2. status' = status
    BY <1>4, Zenon DEF Returns
  <2> QED BY <1>t, <1>3, <1>4, <2>1, <2>2
<1>5. CASE /\ CanRead(d) /\ start # NULL
           /\ open_files' = [open_files EXCEPT ![d].chunk = r.chunk, ![d].offset = r.offset]
           /\ Returns(Len(r.bytes), r.bytes)
           /\ UNCHANGED <<node, chunk, directory, written>>
  <2>0. CanRead(d) /\ start # NULL
    BY <1>5, Zenon
  <2>1. start \in 1 .. Len(chunk) /\ from \in Int
    BY <1>t, <2>0 DEF CanRead, NULL
  <2> HIDE DEF start, from
  <2>2. r.chunk \in 1 .. Len(chunk) /\ r.offset \in Int
    BY <1>0, <1>t, <2>1, CopiedTypes, Zenon
  <2>3. open_files' = Moved(open_files, d, r.chunk, r.offset)
    <3>1. open_files' = ToPlace(open_files, d, r.chunk, r.offset)
      BY <1>5, Zenon DEF ToPlace
    <3> HIDE DEF r
    <3> QED BY <1>t, <3>1, MovedForms, Zenon
  <2>4. status' = status
    BY <1>5, Zenon DEF Returns
  <2> HIDE DEF r
  <2>5. r.chunk \in 0 .. Len(chunk)
    BY <1>t, <2>2
  <2> QED BY <1>3, <1>5, <2>2, <2>3, <2>4, <2>5, Zenon
<1> QED BY <1>1, <1>2, <1>4, <1>5, Zenon DEF dandelion_read

(* pread keeps the types.                                                  *)
LEMMA PreadTyped ==
  ASSUME TypeInv, NEW d \in Descriptors, NEW len \in Lengths, NEW off \in Offsets, pread(d, len, off)
  PROVE  TypeInv'
<1>0. status = "ok"
  BY Zenon DEF pread
<1>1. CASE \E code : Fails(code)
  BY <1>0, <1>1, FailTyped, Zenon
<1>2. CASE Crashes("freed") \/ Crashes("null")
  BY <1>2, CrashTyped, Zenon
<1>3. CASE status' = status /\ UNCHANGED <<node, chunk, directory, open_files, written>>
  BY <1>3, Zenon DEF TypeInv
<1> QED BY <1>1, <1>2, <1>3, Zenon DEF pread, Returns
=============================================================================
