----------------------------- MODULE TreeProofs -----------------------------
(***************************************************************************)
(* Theorems about the tree of Namespace.tla and the program of Session.tla,*)
(* for any number of names, paths, structures, descriptors and handles.    *)
(***************************************************************************)
EXTENDS Session, FiniteSetTheorems, WellFoundedInduction, TLAPS

-----------------------------------------------------------------------------
(* Numbers and recursion.                                                  *)

(* A set of numbers that is not empty has a least one.                     *)
LEMMA LeastExists ==
  ASSUME NEW S \in SUBSET Nat, S # {}
  PROVE  \E x \in S : \A y \in S : ~(y < x)
<1>1. PICK x \in S : \A y \in S : <<y, x>> \notin OpToRel(<, Nat)
  BY NatLessThanWellFounded, WFMin, Zenon
<1> QED BY <1>1, Zenon DEF OpToRel

(* A set that has 0 and, with a number, its successor, has all numbers up  *)
(* to N.                                                                   *)
LEMMA FromZero ==
  ASSUME NEW S, NEW N \in Nat, 0 \in S, \A n \in 0 .. N - 1 : n \in S => n + 1 \in S
  PROVE  0 .. N \subseteq S
<1> SUFFICES ASSUME (0 .. N) \ S # {} PROVE FALSE
  BY Zenon
<1> DEFINE T == (0 .. N) \ S
<1>1. T \in SUBSET Nat
  OBVIOUS
<1>2. PICK x \in T : \A y \in T : ~(y < x)
  BY <1>1, LeastExists, Zenon
<1>3. x # 0 /\ x - 1 \in 0 .. N - 1 /\ x - 1 \in S
  BY <1>2
<1> QED BY <1>3

(* The least of a set of numbers.                                          *)
LEMMA MinFacts ==
  ASSUME NEW K \in SUBSET Nat, K # {}
  PROVE  Min(K) \in K /\ \A y \in K : Min(K) <= y
<1>1. PICK x \in K : \A y \in K : ~(y < x)
  BY LeastExists, Zenon
<1>2. \A y \in K : x <= y
  BY <1>1
<1> QED BY <1>2, Zenon DEF Min

(* f begins with a, and g leads from each of its values to the next one.   *)
Steps(f, n, a, g) == f[0] = a /\ \A k \in 1 .. n : f[k] = g[<<k, f[k - 1]>>]

(* Every step function on a set can be followed for any number of steps.   *)
LEMMA Recursion ==
  ASSUME NEW n \in Nat, NEW A, NEW a \in A, NEW g \in [(1 .. n) \X A -> A]
  PROVE  \E f \in [0 .. n -> A] : Steps(f, n, a, g)
<1> DEFINE S == {m \in 0 .. n : \E f \in [0 .. m -> A] : Steps(f, m, a, g)}
<1>1. 0 \in S
  <2> DEFINE f == [k \in 0 .. 0 |-> a]
  <2>1. f \in [0 .. 0 -> A] /\ f[0] = a /\ 1 .. 0 = {} /\ 0 \in 0 .. n
    OBVIOUS
  <2> HIDE DEF f
  <2> QED BY <2>1, Zenon DEF Steps
<1>2. ASSUME NEW m \in 0 .. n - 1, m \in S PROVE m + 1 \in S
  <2>1. PICK f \in [0 .. m -> A] : Steps(f, m, a, g)
    BY <1>2
  <2> DEFINE h == [k \in 0 .. m + 1 |-> IF k = m + 1 THEN g[<<m + 1, f[m]>>] ELSE f[k]]
  <2>2. /\ m + 1 \in 1 .. n /\ m + 1 \in 0 .. n /\ m \in 0 .. m /\ 0 \in 0 .. m + 1 /\ 0 # m + 1
        /\ m + 1 \in 0 .. m + 1 /\ 0 \in 0 .. m
        /\ \A k \in 0 .. m + 1 : k # m + 1 => k \in 0 .. m
        /\ \A k \in 1 .. m + 1 : k - 1 \in 0 .. m /\ k - 1 \in 0 .. m + 1 /\ k - 1 # m + 1 /\ k \in 0 .. m + 1
        /\ \A k \in 1 .. m + 1 : k = m + 1 => k - 1 = m
        /\ \A k \in 1 .. m + 1 : k # m + 1 => k \in 1 .. m
    OBVIOUS
  <2>3. f[m] \in A /\ g[<<m + 1, f[m]>>] \in A /\ \A k \in 0 .. m : f[k] \in A
    <3>1. f[m] \in A /\ \A k \in 0 .. m : f[k] \in A
      BY <2>2, Zenon
    <3>2. <<m + 1, f[m]>> \in (1 .. n) \X A
      BY <2>2, <3>1, Zenon
    <3> QED BY <3>1, <3>2, Zenon
  <2>4. h \in [0 .. m + 1 -> A]
    BY <2>2, <2>3, Zenon
  <2>5. /\ h[0] = f[0] /\ h[m + 1] = g[<<m + 1, f[m]>>]
        /\ \A k \in 0 .. m + 1 : k # m + 1 => h[k] = f[k]
    BY <2>2, Zenon
  <2> HIDE DEF h
  <2>6. Steps(h, m + 1, a, g)
    <3>1. f[0] = a /\ \A k \in 1 .. m : f[k] = g[<<k, f[k - 1]>>]
      BY <2>1, Zenon DEF Steps
    <3>2. ASSUME NEW k \in 1 .. m + 1 PROVE h[k] = g[<<k, h[k - 1]>>]
      <4>1. h[k - 1] = f[k - 1]
        BY <2>2, <2>5, Zenon
      <4>2. CASE k = m + 1
        BY <4>1, <4>2, <2>2, <2>5, Zenon
      <4>3. CASE k # m + 1
        BY <4>1, <4>3, <2>2, <2>5, <3>1, Zenon
      <4> QED BY <4>2, <4>3, Zenon
    <3> QED BY <3>1, <3>2, <2>5, Zenon DEF Steps
  <2> QED BY <2>2, <2>4, <2>6
<1>3. 0 .. n \subseteq S
  <2> HIDE DEF S
  <2> QED BY <1>1, <1>2, FromZero, Zenon
<1>4. n \in S
  <2> HIDE DEF S
  <2>1. n \in 0 .. n
    OBVIOUS
  <2> QED BY <1>3, <2>1, Zenon
<1> QED BY <1>4, Zenon

-----------------------------------------------------------------------------
(* Walking through a list of siblings.                                     *)

NodeSet(m) ==
  [name: Int, dir: BOOLEAN, static: BOOLEAN, freed: BOOLEAN, parent: 0 .. m,
   child: 0 .. m, next: 0 .. m, links: Nat, opens: Nat]

IsTree(ns) == ns \in Seq(NodeSet(Len(ns))) /\ Len(ns) >= 1

LiveIn(ns) == {n \in DOMAIN ns : ~ns[n].freed}

(* Faults are negative, and what a walk returns otherwise is a number of a *)
(* structure or NULL.                                                      *)
Faults == Confused .. Freed

(* What the entries of a tree are.                                         *)
LEMMA TreeTypes ==
  ASSUME NEW ns, IsTree(ns)
  PROVE  /\ Len(ns) \in Nat /\ DOMAIN ns = 1 .. Len(ns) /\ Len(ns) >= 1
         /\ \A n \in 1 .. Len(ns) :
              /\ ns[n] \in NodeSet(Len(ns)) /\ n \in 0 .. Len(ns) /\ n # 0
              /\ ns[n].name \in Int /\ ns[n].links \in Nat /\ ns[n].opens \in Nat
              /\ ns[n].parent \in 0 .. Len(ns) /\ ns[n].child \in 0 .. Len(ns)
              /\ ns[n].next \in 0 .. Len(ns)
              /\ ns[n].dir \in BOOLEAN /\ ns[n].static \in BOOLEAN /\ ns[n].freed \in BOOLEAN
<1>1. /\ Len(ns) \in Nat /\ DOMAIN ns = 1 .. Len(ns) /\ Len(ns) >= 1
      /\ \A n \in 1 .. Len(ns) : ns[n] \in NodeSet(Len(ns)) /\ n \in 0 .. Len(ns) /\ n # 0
  BY DEF IsTree
<1>2. ASSUME NEW m, NEW r \in NodeSet(m)
      PROVE  /\ r.name \in Int /\ r.links \in Nat /\ r.opens \in Nat
             /\ r.parent \in 0 .. m /\ r.child \in 0 .. m /\ r.next \in 0 .. m
             /\ r.dir \in BOOLEAN /\ r.static \in BOOLEAN /\ r.freed \in BOOLEAN
  BY <1>2, Zenon DEF NodeSet
<1> QED BY <1>1, <1>2, Zenon

(* One more step of the search for a node in S, where w is what is found   *)
(* from the next node on.                                                  *)
Row(ns, S, w) ==
  [n \in 0 .. Len(ns) |->
     IF n = NULL THEN NULL
     ELSE IF ns[n].freed THEN Freed
     ELSE IF n \in S THEN n
     ELSE w[ns[n].next]]

Hangs(ns) == [n \in 0 .. Len(ns) |-> Hang]

Rows(f, ns, S) ==
  /\ f[0] = Row(ns, S, Hangs(ns))
  /\ \A k \in 1 .. Len(ns) : f[k] = Row(ns, S, f[k - 1])

Walking(f, ns, S) ==
  f = [k \in 0 .. Len(ns) |-> [n \in 0 .. Len(ns) |->
        IF n = NULL THEN NULL
        ELSE IF ns[n].freed THEN Freed
        ELSE IF n \in S THEN n
        ELSE IF k = 0 THEN Hang
        ELSE f[k - 1][ns[n].next]]]

(* A function that walks has a row for every number of steps.              *)
LEMMA WalkingIsRows ==
  ASSUME NEW ns, IsTree(ns), NEW S, NEW f
  PROVE  Walking(f, ns, S) <=> f = [k \in 0 .. Len(ns) |-> f[k]] /\ Rows(f, ns, S)
<1> DEFINE cell(k, n) == IF n = NULL THEN NULL
                         ELSE IF ns[n].freed THEN Freed
                         ELSE IF n \in S THEN n
                         ELSE IF k = 0 THEN Hang
                         ELSE f[k - 1][ns[n].next]
           row(k)     == [n \in 0 .. Len(ns) |-> cell(k, n)]
<1>1. /\ Len(ns) \in Nat /\ 0 \in 0 .. Len(ns)
      /\ \A k \in 0 .. Len(ns) : k # 0 => k \in 1 .. Len(ns)
      /\ \A k \in 1 .. Len(ns) : k # 0 /\ k \in 0 .. Len(ns)
      /\ \A n \in 1 .. Len(ns) : ns[n].next \in 0 .. Len(ns)
  BY TreeTypes
<1>2. row(0) = Row(ns, S, Hangs(ns))
  <2>1. \A n \in 0 .. Len(ns) : n # NULL => Hangs(ns)[ns[n].next] = Hang
    BY <1>1, Zenon DEF Hangs, NULL
  <2>2. \A n \in 0 .. Len(ns) : cell(0, n) = IF n = NULL THEN NULL ELSE IF ns[n].freed THEN Freed
          ELSE IF n \in S THEN n ELSE Hangs(ns)[ns[n].next]
    BY <2>1, Zenon
  <2> HIDE DEF cell
  <2> QED BY <2>2, Zenon DEF Row
<1>3. \A k \in 1 .. Len(ns) : row(k) = Row(ns, S, f[k - 1])
  <2>1. \A k \in 1 .. Len(ns), n \in 0 .. Len(ns) :
          cell(k, n) = IF n = NULL THEN NULL ELSE IF ns[n].freed THEN Freed
                       ELSE IF n \in S THEN n ELSE f[k - 1][ns[n].next]
    BY <1>1, Zenon
  <2> HIDE DEF cell
  <2> QED BY <2>1, Zenon DEF Row
<1>4. Walking(f, ns, S) <=> f = [k \in 0 .. Len(ns) |-> row(k)]
  BY Zenon DEF Walking
<1> HIDE DEF row
<1>5. ASSUME f = [k \in 0 .. Len(ns) |-> row(k)]
      PROVE  f = [k \in 0 .. Len(ns) |-> f[k]] /\ Rows(f, ns, S)
  <2>1. \A k \in 0 .. Len(ns) : f[k] = row(k)
    BY <1>5, Zenon
  <2> QED BY <1>1, <1>2, <1>3, <1>5, <2>1, Zenon DEF Rows
<1>6. ASSUME f = [k \in 0 .. Len(ns) |-> f[k]], Rows(f, ns, S)
      PROVE  f = [k \in 0 .. Len(ns) |-> row(k)]
  <2>1. \A k \in 0 .. Len(ns) : f[k] = row(k)
    BY <1>1, <1>2, <1>3, <1>6, Zenon DEF Rows
  <2> QED BY <1>6, <2>1, Zenon
<1> QED BY <1>4, <1>5, <1>6, Zenon

(* What FirstIn finds, as rows.                                            *)
FindsByRows(f, ns, S) == Rows(f, ns, S) /\ \A c : FirstIn(ns, c, S) = f[Len(ns)][c]

(* The recursive definition of FirstIn has a solution.                     *)
LEMMA FirstInRows ==
  ASSUME NEW ns, IsTree(ns), NEW S
  PROVE  \E f : FindsByRows(f, ns, S)
<1> DEFINE L == Len(ns)
           A == [0 .. L -> Hang .. L]
           g == [x \in (1 .. L) \X A |-> Row(ns, S, x[2])]
<1>1. /\ L \in Nat /\ 0 \in Hang .. L /\ Freed \in Hang .. L /\ Hang \in Hang .. L
      /\ \A n \in 1 .. L : ns[n].next \in 0 .. L
      /\ \A n \in 0 .. L : n \in Hang .. L /\ (n # NULL => n \in 1 .. L)
  BY TreeTypes DEF Hang, Freed, NULL
<1>2. ASSUME NEW w \in A PROVE Row(ns, S, w) \in A
  <2>1. \A n \in 0 .. L : (IF n = NULL THEN NULL ELSE IF ns[n].freed THEN Freed ELSE IF n \in S THEN n
                           ELSE w[ns[n].next]) \in Hang .. L
    BY <1>1, Zenon DEF NULL
  <2> QED BY <2>1, Zenon DEF Row
<1>3. Hangs(ns) \in A
  BY <1>1, Zenon DEF Hangs
<1>4. Row(ns, S, Hangs(ns)) \in A /\ g \in [(1 .. L) \X A -> A]
  <2> HIDE DEF A
  <2> QED BY <1>2, <1>3, Zenon
<1>5. PICK f \in [0 .. L -> A] : Steps(f, L, Row(ns, S, Hangs(ns)), g)
  <2> HIDE DEF A, g, L
  <2> QED BY <1>1, <1>4, Recursion, Zenon
<1>6. Rows(f, ns, S)
  <2>1. \A k \in 1 .. L : k - 1 \in 0 .. L
    BY <1>1
  <2>2. \A k \in 1 .. L : <<k, f[k - 1]>> \in (1 .. L) \X A
    <3> HIDE DEF A
    <3> QED BY <2>1, Zenon
  <2>3. \A k \in 1 .. L : g[<<k, f[k - 1]>>] = Row(ns, S, f[k - 1])
    <3> HIDE DEF A
    <3> QED BY <2>2
  <2> HIDE DEF g
  <2> QED BY <1>5, <2>3, Zenon DEF Steps, Rows
<1>7. Walking(f, ns, S)
  <2>1. f = [k \in 0 .. L |-> f[k]]
    BY Zenon
  <2> QED BY <2>1, <1>6, WalkingIsRows, Zenon
<1> DEFINE h == CHOOSE h : Walking(h, ns, S)
<1>8. Walking(h, ns, S)
  BY <1>7, Zenon
<1>9. \A c : FirstIn(ns, c, S) = h[Len(ns)][c]
  BY Zenon DEF FirstIn, Walking
<1> HIDE DEF h
<1> QED BY <1>8, <1>9, WalkingIsRows, Zenon DEF FindsByRows

(* The next row, and the first cell of each.                               *)
NextRows(f, ns, S) ==
  /\ \A k \in 0 .. Len(ns) - 1 : f[k + 1] = Row(ns, S, f[k])
  /\ \A k \in 0 .. Len(ns) : f[k][NULL] = NULL

(* What a row says about the one before it.                                *)
LEMMA RowsNext ==
  ASSUME NEW ns, IsTree(ns), NEW S, NEW f, Rows(f, ns, S)
  PROVE  NextRows(f, ns, S)
<1>1. /\ \A k \in 0 .. Len(ns) - 1 : k + 1 \in 1 .. Len(ns) /\ k + 1 - 1 = k
      /\ \A k \in 0 .. Len(ns) : k = 0 \/ k \in 1 .. Len(ns)
      /\ NULL \in 0 .. Len(ns)
  BY TreeTypes DEF NULL
<1>2. f[0] = Row(ns, S, Hangs(ns)) /\ \A k \in 1 .. Len(ns) : f[k] = Row(ns, S, f[k - 1])
  BY Zenon DEF Rows
<1>3. ASSUME NEW k \in 0 .. Len(ns) - 1 PROVE f[k + 1] = Row(ns, S, f[k])
  <2>1. k + 1 \in 1 .. Len(ns) /\ k + 1 - 1 = k
    BY <1>1, Zenon
  <2> QED BY <1>2, <2>1
<1>4. \A w : Row(ns, S, w)[NULL] = NULL
  BY <1>1, Zenon DEF Row
<1>5. ASSUME NEW k \in 0 .. Len(ns) PROVE f[k][NULL] = NULL
  <2>1. \E w : f[k] = Row(ns, S, w)
    BY <1>1, <1>2, Zenon
  <2> QED BY <2>1, <1>4, Zenon
<1> QED BY <1>3, <1>5, Zenon DEF NextRows

(* A search in a set V that is closed under steps to the next node returns *)
(* a fault, a live node in S, or NULL, if that is in V.                    *)
LEMMA FirstInClosed ==
  ASSUME NEW ns, IsTree(ns), NEW S, NEW V \in SUBSET (0 .. Len(ns)),
         \A n \in V : n # NULL /\ n \notin S => ns[n].next \in V,
         NEW c \in V
  PROVE  FirstIn(ns, c, S) \in {Freed, Hang} \cup (V \cap ({NULL} \cup (LiveIn(ns) \cap S)))
<1> DEFINE L == Len(ns)
           R == {Freed, Hang} \cup (V \cap ({NULL} \cup (LiveIn(ns) \cap S)))
<1>0. PICK f : FindsByRows(f, ns, S)
  BY FirstInRows, Zenon
<1>1. Rows(f, ns, S) /\ \A x : FirstIn(ns, x, S) = f[L][x]
  BY <1>0, Zenon DEF FindsByRows
<1>2. /\ L \in Nat /\ L \in 0 .. L
      /\ \A n \in 0 .. L : n # NULL => n \in DOMAIN ns
  BY TreeTypes DEF NULL
<1>3. ASSUME NEW w, \A n \in V : w[n] \in R
      PROVE  \A n \in V : Row(ns, S, w)[n] \in R
  BY <1>2, <1>3, Zenon DEF Row, LiveIn
<1>4. \A n \in V : Hangs(ns)[n] \in R
  BY Zenon DEF Hangs
<1> DEFINE T == {k \in 0 .. L : \A n \in V : f[k][n] \in R}
<1> HIDE DEF R
<1>5. 0 \in T
  <2>1. 0 \in 0 .. L
    BY <1>2
  <2> QED BY <2>1, <1>1, <1>3, <1>4, Zenon DEF Rows
<1>6. \A k \in 0 .. L - 1 : k \in T => k + 1 \in T
  <2>1. \A k \in 0 .. L - 1 : k + 1 \in 0 .. L
    BY <1>2
  <2>2. \A k \in 0 .. L - 1 : f[k + 1] = Row(ns, S, f[k])
    <3>1. NextRows(f, ns, S)
      BY <1>1, RowsNext, Zenon
    <3> QED BY <3>1, Zenon DEF NextRows
  <2> QED BY <2>1, <2>2, <1>3, Zenon
<1>7. L \in T
  <2> HIDE DEF T, L
  <2> QED BY <1>2, <1>5, <1>6, FromZero, Zenon
<1>8. f[L][c] \in R
  BY <1>7, Zenon
<1> QED BY <1>1, <1>8, Zenon DEF R

(* A search from anywhere, and from the end of the list.                   *)
LEMMA FirstInTyped ==
  ASSUME NEW ns, IsTree(ns), NEW S, NEW c \in 0 .. Len(ns)
  PROVE  FirstIn(ns, c, S) \in {Freed, Hang, NULL} \cup (LiveIn(ns) \cap S)
<1>1. \A n \in 0 .. Len(ns) : n # NULL => ns[n].next \in 0 .. Len(ns)
  BY TreeTypes DEF NULL
<1> QED BY <1>1, FirstInClosed, Zenon

(* A search that starts behind the end finds nothing.                      *)
LEMMA FirstInEnd ==
  ASSUME NEW ns, IsTree(ns), NEW S
  PROVE  FirstIn(ns, NULL, S) = NULL
<1>0. PICK f : FindsByRows(f, ns, S)
  BY FirstInRows, Zenon
<1>1. Rows(f, ns, S) /\ \A x : FirstIn(ns, x, S) = f[Len(ns)][x]
  BY <1>0, Zenon DEF FindsByRows
<1>2. NextRows(f, ns, S) /\ Len(ns) \in 0 .. Len(ns)
  <2>1. Len(ns) \in 0 .. Len(ns)
    BY TreeTypes
  <2> QED BY <1>1, <2>1, RowsNext, Zenon
<1> QED BY <1>1, <1>2, Zenon DEF NextRows

(* The nodes of Q with a larger name than x, and how they become fewer.    *)
Above(ns, Q, x) == {y \in Q : ns[y].name > ns[x].name}

(* The names above that of an entry get fewer along a sorted list.         *)
LEMMA AboveShrinks ==
  ASSUME NEW ns, IsTree(ns), NEW Q \in SUBSET DOMAIN ns, NEW x \in Q
  PROVE  /\ Cardinality(Above(ns, Q, x)) \in Nat
         /\ Cardinality(Above(ns, Q, x)) < Len(ns)
         /\ \A y \in Above(ns, Q, x) :
              Cardinality(Above(ns, Q, y)) < Cardinality(Above(ns, Q, x))
<1>1. /\ Len(ns) \in Nat /\ Q \in SUBSET (1 .. Len(ns)) /\ IsFiniteSet(1 .. Len(ns))
      /\ Cardinality(1 .. Len(ns)) = Len(ns)
  <2>1. Len(ns) \in Nat /\ DOMAIN ns = 1 .. Len(ns) /\ Len(ns) >= 1 /\ 1 \in Int /\ Len(ns) \in Int
    BY TreeTypes
  <2>2. IsFiniteSet(1 .. Len(ns)) /\ Cardinality(1 .. Len(ns)) = IF 1 > Len(ns) THEN 0 ELSE Len(ns) - 1 + 1
    BY <2>1, FS_Interval, Zenon
  <2> HIDE DEF IsTree
  <2> QED BY <2>1, <2>2
<1>2. \A n \in Q : ns[n].name \in Int
  BY <1>1, TreeTypes
<1>3. \A y \in Q : IsFiniteSet(Above(ns, Q, y)) /\ Cardinality(Above(ns, Q, y)) \in Nat
  <2>1. \A y \in Q : Above(ns, Q, y) \in SUBSET (1 .. Len(ns))
    BY <1>1, Zenon DEF Above
  <2> QED BY <1>1, <2>1, FS_Subset, FS_CardinalityType, Zenon
<1>4. ASSUME NEW T, IsFiniteSet(T), NEW U \in SUBSET T, NEW z \in T, z \notin U
      PROVE  Cardinality(U) < Cardinality(T)
  <2>1. IsFiniteSet(T \ {z}) /\ Cardinality(T \ {z}) = Cardinality(T) - 1 /\ U \in SUBSET (T \ {z})
    BY <1>4, FS_RemoveElement, Zenon
  <2>2. IsFiniteSet(U) /\ Cardinality(U) <= Cardinality(T \ {z})
    BY <2>1, FS_Subset, Zenon
  <2>3. Cardinality(U) \in Nat /\ Cardinality(T) \in Nat
    BY <1>4, <2>2, FS_CardinalityType, Zenon
  <2> QED BY <2>1, <2>2, <2>3
<1>5. Above(ns, Q, x) \in SUBSET (1 .. Len(ns)) /\ x \in 1 .. Len(ns) /\ x \notin Above(ns, Q, x)
  BY <1>1, <1>2 DEF Above
<1>6. ASSUME NEW y \in Above(ns, Q, x)
      PROVE  /\ Above(ns, Q, y) \in SUBSET Above(ns, Q, x) /\ y \notin Above(ns, Q, y) /\ y \in Q
  BY <1>2, <1>6 DEF Above
<1>7. Cardinality(Above(ns, Q, x)) < Len(ns)
  BY <1>1, <1>4, <1>5, Zenon
<1>8. \A y \in Above(ns, Q, x) : Cardinality(Above(ns, Q, y)) < Cardinality(Above(ns, Q, x))
  BY <1>3, <1>4, <1>6, Zenon
<1> QED BY <1>3, <1>7, <1>8, Zenon

(* A walk along growing names ends: it stays in Q until it meets a node of *)
(* S, unless the list may end, which is said by NULL in Z.                 *)
LEMMA WalkFinds ==
  ASSUME NEW ns, IsTree(ns), NEW S, NEW Q \in SUBSET LiveIn(ns), NEW Z \in SUBSET {NULL},
         \A x \in Q : x \notin S => ns[x].next \in Q \cup Z,
         \A x \in Q : x \notin S /\ ns[x].next \in Q => ns[ns[x].next].name > ns[x].name,
         NEW c \in Q
  PROVE  FirstIn(ns, c, S) \in (Q \cap S) \cup Z
<1> DEFINE L == Len(ns)
           R == (Q \cap S) \cup Z
<1>0. PICK f : FindsByRows(f, ns, S)
  BY FirstInRows, Zenon
<1>1. Rows(f, ns, S) /\ \A x : FirstIn(ns, x, S) = f[L][x]
  BY <1>0, Zenon DEF FindsByRows
<1>2. /\ L \in Nat /\ L \in 0 .. L /\ NULL \in 0 .. L /\ 0 \in 0 .. L
      /\ \A n \in Q : n # NULL /\ n \in 0 .. L /\ ~ns[n].freed /\ n \in DOMAIN ns
  BY TreeTypes DEF NULL, LiveIn
<1>3. \A k \in 0 .. L - 1 : k + 1 \in 0 .. L
  BY <1>2
<1>4. NextRows(f, ns, S)
  BY <1>1, RowsNext, Zenon
<1>5. /\ \A k \in 0 .. L - 1 : f[k + 1] = Row(ns, S, f[k])
      /\ \A k \in 0 .. L : f[k][NULL] = NULL
  BY <1>4, Zenon DEF NextRows
<1> DEFINE C(x) == Cardinality(Above(ns, Q, x))
           T == {k \in 0 .. L : \A x \in Q : C(x) < k => f[k][x] \in R}
<1>6. \A x \in Q : C(x) \in Nat /\ C(x) < L /\ \A y \in Above(ns, Q, x) : C(y) < C(x)
  <2>1. Q \in SUBSET DOMAIN ns
    BY Zenon DEF LiveIn
  <2> QED BY <2>1, AboveShrinks, Zenon
<1> HIDE DEF C, R
<1>7. 0 \in T
  <2>1. \A x \in Q : ~(C(x) < 0)
    BY <1>6
  <2> QED BY <1>2, <2>1, Zenon
<1>8. ASSUME NEW k \in 0 .. L - 1, k \in T PROVE k + 1 \in T
  <2>1. SUFFICES ASSUME NEW x \in Q, C(x) < k + 1 PROVE Row(ns, S, f[k])[x] \in R
    BY <1>3, <1>5, Zenon
  <2>2. CASE x \in S
    BY <1>2, <2>2, Zenon DEF Row, R
  <2>3. CASE x \notin S
    <3> DEFINE y == ns[x].next
    <3>1. Row(ns, S, f[k])[x] = f[k][y]
      BY <1>2, <2>3, Zenon DEF Row
    <3>2. CASE y \in Z
      <4>1. k \in 0 .. L
        BY <1>2
      <4> QED BY <3>1, <3>2, <4>1, <1>5, Zenon DEF R
    <3>3. CASE y \in Q
      <4>1. y \in Above(ns, Q, x)
        BY <2>3, <3>3, Zenon DEF Above
      <4>2. C(y) \in Nat /\ C(x) \in Nat /\ C(y) < C(x)
        BY <3>3, <4>1, <1>6, Zenon
      <4>3. C(y) < k
        BY <2>1, <4>2
      <4> QED BY <1>8, <3>1, <3>3, <4>3, Zenon
    <3> QED BY <2>3, <3>2, <3>3, Zenon
  <2> QED BY <2>2, <2>3, Zenon
<1>9. L \in T
  <2> HIDE DEF T, L
  <2> QED BY <1>2, <1>7, <1>8, FromZero, Zenon
<1> QED BY <1>1, <1>6, <1>9, Zenon DEF R

-----------------------------------------------------------------------------
(* Changing nodes.                                                         *)

(* What node q, which was r, has kept.                                     *)
Kept(q, r) ==
  q.name = r.name /\ q.dir = r.dir /\ q.static = r.static /\ q.freed = r.freed

OnlyNext(q, r) ==
  Kept(q, r) /\ q.parent = r.parent /\ q.child = r.child /\ q.links = r.links /\ q.opens = r.opens

OnlyChild(q, r) ==
  Kept(q, r) /\ q.parent = r.parent /\ q.next = r.next /\ q.links = r.links /\ q.opens = r.opens

OnlyOpens(q, r) ==
  Kept(q, r) /\ q.parent = r.parent /\ q.child = r.child /\ q.next = r.next /\ q.links = r.links

OnlyLinks(q, r) ==
  Kept(q, r) /\ q.parent = r.parent /\ q.child = r.child /\ q.next = r.next /\ q.opens = r.opens

OnlyPlace(q, r) ==
  Kept(q, r) /\ q.child = r.child /\ q.next = r.next /\ q.opens = r.opens

(* The five ways in which a node is changed.                               *)
IsNext(q, r, m, x) == q \in NodeSet(m) /\ OnlyNext(q, r) /\ q.next = x

(* A node whose next pointer changes.                                      *)
LEMMA NextChanged ==
  ASSUME NEW m, NEW r \in NodeSet(m), NEW x \in 0 .. m
  PROVE  IsNext([r EXCEPT !.next = x], r, m, x)
<1> DEFINE q == [r EXCEPT !.next = x]
<1>1. q \in NodeSet(m)
  BY Zenon DEF NodeSet
<1> QED BY <1>1 DEF NodeSet, OnlyNext, Kept, IsNext

IsChild(q, r, m, x) == q \in NodeSet(m) /\ OnlyChild(q, r) /\ q.child = x

(* A node whose child pointer changes.                                     *)
LEMMA ChildChanged ==
  ASSUME NEW m, NEW r \in NodeSet(m), NEW x \in 0 .. m
  PROVE  IsChild([r EXCEPT !.child = x], r, m, x)
<1> DEFINE q == [r EXCEPT !.child = x]
<1>1. q \in NodeSet(m)
  BY Zenon DEF NodeSet
<1> QED BY <1>1 DEF NodeSet, OnlyChild, Kept, IsChild

IsOpens(q, r, m, x) == q \in NodeSet(m) /\ OnlyOpens(q, r) /\ q.opens = x

(* A node whose count of opens changes.                                    *)
LEMMA OpensChanged ==
  ASSUME NEW m, NEW r \in NodeSet(m), NEW x \in Nat
  PROVE  IsOpens([r EXCEPT !.opens = x], r, m, x)
<1> DEFINE q == [r EXCEPT !.opens = x]
<1>1. q \in NodeSet(m)
  BY Zenon DEF NodeSet
<1> QED BY <1>1 DEF NodeSet, OnlyOpens, Kept, IsOpens

IsLinks(q, r, m, x) == q \in NodeSet(m) /\ OnlyLinks(q, r) /\ q.links = x

(* A node whose count of links changes.                                    *)
LEMMA LinksChanged ==
  ASSUME NEW m, NEW r \in NodeSet(m), NEW x \in Nat
  PROVE  IsLinks([r EXCEPT !.links = x], r, m, x)
<1> DEFINE q == [r EXCEPT !.links = x]
<1>1. q \in NodeSet(m)
  BY Zenon DEF NodeSet
<1> QED BY <1>1 DEF NodeSet, OnlyLinks, Kept, IsLinks

IsPlace(q, r, m, x, y) == q \in NodeSet(m) /\ OnlyPlace(q, r) /\ q.parent = x /\ q.links = y

(* A node whose parent and count of links change.                          *)
LEMMA PlaceChanged ==
  ASSUME NEW m, NEW r \in NodeSet(m), NEW x \in 0 .. m, NEW y \in Nat
  PROVE  IsPlace([r EXCEPT !.parent = x, !.links = y], r, m, x, y)
<1> DEFINE q == [r EXCEPT !.parent = x, !.links = y]
<1>1. q \in NodeSet(m)
  BY Zenon DEF NodeSet
<1> QED BY <1>1 DEF NodeSet, OnlyPlace, Kept, IsPlace

(* A tree with node q at n.                                                *)
Put(ns, n, q) == [ns EXCEPT ![n] = q]

IsPut(b, ns, n, q) ==
  /\ IsTree(b) /\ Len(b) = Len(ns) /\ b[n] = q
  /\ \A i \in 1 .. Len(ns) : i # n => b[i] = ns[i]

(* A node is replaced, the others stay.                                    *)
LEMMA PutTyped ==
  ASSUME NEW ns, IsTree(ns), NEW n \in 1 .. Len(ns), NEW q \in NodeSet(Len(ns))
  PROVE  IsPut(Put(ns, n, q), ns, n, q)
<1> DEFINE m == Len(ns)
           T == NodeSet(m)
           b == Put(ns, n, q)
<1>1. ns \in Seq(T) /\ m \in Nat /\ m >= 1 /\ n \in 1 .. m /\ q \in T
  BY DEF IsTree
<1> HIDE DEF T
<1>2. b \in Seq(T) /\ Len(b) = m /\ b[n] = q /\ \A i \in 1 .. m : i # n => b[i] = ns[i]
  BY <1>1 DEF Put
<1> HIDE DEF b
<1> QED BY <1>1, <1>2, Zenon DEF IsTree, IsPut, b, T

(* Only places in the tree change, or nodes are added that no one has      *)
(* open: all others are as open, as live and what they were.               *)
Grows(a, b) ==
  /\ IsTree(b) /\ Len(a) <= Len(b)
  /\ \A n \in 1 .. Len(a) : Kept(b[n], a[n]) /\ b[n].opens = a[n].opens
  /\ \A n \in Len(a) + 1 .. Len(b) : b[n].dir \/ b[n].opens = 0

(* Growth may be none.                                                     *)
LEMMA GrowsSelf ==
  ASSUME NEW a, IsTree(a)
  PROVE  Grows(a, a)
<1>1. Len(a) \in Nat
  BY TreeTypes, Zenon
<1>2. Len(a) <= Len(a) /\ Len(a) + 1 .. Len(a) = {}
  BY <1>1
<1> QED BY <1>2, Zenon DEF Grows, Kept

(* Growth can be put together.                                             *)
LEMMA GrowsOn ==
  ASSUME NEW a, NEW b, NEW c, IsTree(a), Grows(a, b), Grows(b, c)
  PROVE  Grows(a, c)
<1>1. Len(a) \in Nat /\ Len(b) \in Nat /\ Len(c) \in Nat /\ Len(a) <= Len(b) /\ Len(b) <= Len(c)
  BY TreeTypes, Zenon DEF Grows
<1>2. /\ Len(a) <= Len(c)
      /\ \A n \in 1 .. Len(a) : n \in 1 .. Len(b)
      /\ \A n \in Len(a) + 1 .. Len(c) : n \in Len(b) + 1 .. Len(c) \/ (n \in 1 .. Len(b) /\ n \in Len(a) + 1 .. Len(b))
  BY <1>1
<1>3. ASSUME NEW n \in Len(a) + 1 .. Len(c) PROVE c[n].dir \/ c[n].opens = 0
  BY <1>2, <1>3, Zenon DEF Grows, Kept
<1>4. ASSUME NEW n \in 1 .. Len(a) PROVE Kept(c[n], a[n]) /\ c[n].opens = a[n].opens
  <2>1. n \in 1 .. Len(b)
    BY <1>2, Zenon
  <2>2. Kept(b[n], a[n]) /\ b[n].opens = a[n].opens /\ Kept(c[n], b[n]) /\ c[n].opens = b[n].opens
    BY <2>1, Zenon DEF Grows
  <2> QED BY <2>2, Zenon DEF Kept
<1> QED BY <1>2, <1>3, <1>4, Zenon DEF Grows

(* Replacing a node by one that only differs in pointers and links.        *)
LEMMA PutGrows ==
  ASSUME NEW ns, IsTree(ns), NEW n \in 1 .. Len(ns), NEW q \in NodeSet(Len(ns)),
         Kept(q, ns[n]), q.opens = ns[n].opens
  PROVE  Grows(ns, Put(ns, n, q)) /\ Len(Put(ns, n, q)) = Len(ns)
<1> DEFINE b == Put(ns, n, q)
<1>1. IsPut(b, ns, n, q)
  BY PutTyped, Zenon
<1> HIDE DEF b
<1>2. Len(ns) \in Nat /\ IsTree(b) /\ Len(b) = Len(ns)
  BY <1>1, TreeTypes, Zenon DEF IsPut
<1>3. Len(ns) <= Len(b) /\ Len(ns) + 1 .. Len(b) = {}
  BY <1>2
<1>4. ASSUME NEW i \in 1 .. Len(ns) PROVE Kept(b[i], ns[i]) /\ b[i].opens = ns[i].opens
  <2>1. CASE i = n
    BY <1>1, <2>1, Zenon DEF IsPut
  <2>2. CASE i # n
    <3>1. b[i] = ns[i]
      BY <1>1, <2>2, Zenon DEF IsPut
    <3> QED BY <3>1, Zenon DEF Kept
  <2> QED BY <2>1, <2>2, Zenon
<1>5. Grows(ns, b) /\ Len(b) = Len(ns)
  BY <1>2, <1>3, <1>4, Zenon DEF Grows
<1> QED BY <1>5, Zenon DEF b

-----------------------------------------------------------------------------
(* Linking a node to a folder.                                             *)

Counted(ns, d, f) == Put(ns, f, [ns[f] EXCEPT !.parent = d, !.links = Up(ns[f].links)])

ChildPut(ns, d, x) == Put(ns, d, [ns[d] EXCEPT !.child = x])

NextPut(ns, p, x) == Put(ns, p, [ns[p] EXCEPT !.next = x])

(* Counts stay counts, also when they wrap around.                         *)
LEMMA UpTyped ==
  ASSUME NEW n \in Nat
  PROVE  Up(n) \in Nat /\ Down(n) \in Nat
<1>1. USHRT \in Nat /\ USHRT > 0
  BY NamespaceAssumption
<1> QED BY <1>1 DEF Up, Down

(* A count that does not wrap around.                                      *)
LEMMA ModPlain ==
  ASSUME NEW d \in Nat, d > 0, NEW n \in Nat, n < d
  PROVE  n % d = n /\ (n + d) % d = n
<1>1. ASSUME NEW x \in Nat, NEW k \in {0, 1}, x = n + k * d PROVE x % d = n
  <2> DEFINE q == x \div d
             r == x % d
  <2>1. q \in Int /\ r \in 0 .. d - 1 /\ x = d * q + r
    OBVIOUS
  <2> HIDE DEF q, r
  <2>2. d * q = n + k * d - r
    BY <1>1, <2>1
  <2>3. q > k => d * q >= d * (k + 1)
    BY <1>1, <2>1
  <2>4. q < k => d * q <= d * (k - 1)
    BY <1>1, <2>1
  <2>5. q = k
    BY <1>1, <2>1, <2>2, <2>3, <2>4
  <2>6. r = n
    BY <1>1, <2>2, <2>5, <2>1
  <2> QED BY <2>6 DEF r
<1> QED BY <1>1

(* Counting up below the limit of an unsigned short.                       *)
LEMMA UpPlain ==
  ASSUME NEW n \in Nat, n + 1 < USHRT
  PROVE  Up(n) = n + 1
<1>1. USHRT \in Nat /\ USHRT > 0 /\ n + 1 \in Nat
  BY NamespaceAssumption
<1> HIDE DEF Up
<1>2. (n + 1) % USHRT = n + 1
  BY <1>1, ModPlain, Zenon
<1> QED BY <1>2, Zenon DEF Up

(* Counting down above zero.                                               *)
LEMMA DownPlain ==
  ASSUME NEW n \in Nat, n > 0, n < USHRT
  PROVE  Down(n) = n - 1
<1>1. USHRT \in Nat /\ USHRT > 0 /\ n - 1 \in Nat /\ n - 1 < USHRT /\ n + USHRT - 1 = (n - 1) + USHRT
  BY NamespaceAssumption
<1>2. ((n - 1) + USHRT) % USHRT = n - 1
  BY <1>1, ModPlain, Zenon
<1> QED BY <1>1, <1>2, Zenon DEF Down

(* A node that gets a folder and one more link.                            *)
IsCounted(b, ns, d, f) ==
  /\ IsTree(b) /\ Len(b) = Len(ns) /\ Grows(ns, b)
  /\ OnlyPlace(b[f], ns[f]) /\ b[f].parent = d /\ b[f].links = Up(ns[f].links)
  /\ \A i \in 1 .. Len(ns) : i # f => b[i] = ns[i]

(* A file gets a parent and one link more.                                 *)
LEMMA CountedFacts ==
  ASSUME NEW ns, IsTree(ns), NEW d \in 1 .. Len(ns), NEW f \in 1 .. Len(ns)
  PROVE  IsCounted(Counted(ns, d, f), ns, d, f)
<1> DEFINE q == [ns[f] EXCEPT !.parent = d, !.links = Up(ns[f].links)]
           b == Counted(ns, d, f)
<1>1. ns[f] \in NodeSet(Len(ns)) /\ d \in 0 .. Len(ns) /\ Up(ns[f].links) \in Nat
  BY TreeTypes, UpTyped, Zenon
<1>2. IsPlace(q, ns[f], Len(ns), d, Up(ns[f].links))
  BY <1>1, PlaceChanged, Zenon
<1> HIDE DEF q
<1>3. q \in NodeSet(Len(ns)) /\ Kept(q, ns[f]) /\ q.opens = ns[f].opens
  BY <1>2, Zenon DEF OnlyPlace, IsPlace
<1>4. b = Put(ns, f, q)
  BY Zenon DEF Counted, q
<1>5. IsPut(b, ns, f, q) /\ Grows(ns, b)
  BY <1>3, <1>4, PutTyped, PutGrows, Zenon
<1> HIDE DEF b
<1>6. IsCounted(b, ns, d, f)
  BY <1>2, <1>5, Zenon DEF IsCounted, IsPut, IsPlace
<1> QED BY <1>6, Zenon DEF b

(* Another node behind p.                                                  *)
IsNextPut(b, ns, p, x) ==
  /\ IsTree(b) /\ Len(b) = Len(ns) /\ Grows(ns, b)
  /\ OnlyNext(b[p], ns[p]) /\ b[p].next = x
  /\ \A i \in 1 .. Len(ns) : i # p => b[i] = ns[i]

(* A next pointer is stored.                                               *)
LEMMA NextPutFacts ==
  ASSUME NEW ns, IsTree(ns), NEW p \in 1 .. Len(ns), NEW x \in 0 .. Len(ns)
  PROVE  IsNextPut(NextPut(ns, p, x), ns, p, x)
<1> DEFINE q == [ns[p] EXCEPT !.next = x]
           b == NextPut(ns, p, x)
<1>1. ns[p] \in NodeSet(Len(ns))
  BY TreeTypes, UpTyped, Zenon
<1>2. IsNext(q, ns[p], Len(ns), x)
  BY <1>1, NextChanged, Zenon
<1> HIDE DEF q
<1>3. q \in NodeSet(Len(ns)) /\ Kept(q, ns[p]) /\ q.opens = ns[p].opens
  BY <1>2, Zenon DEF OnlyNext, IsNext
<1>4. b = Put(ns, p, q)
  BY Zenon DEF NextPut, q
<1>5. IsPut(b, ns, p, q) /\ Grows(ns, b)
  BY <1>3, <1>4, PutTyped, PutGrows, Zenon
<1> HIDE DEF b
<1>6. IsNextPut(b, ns, p, x)
  BY <1>2, <1>5, Zenon DEF IsNextPut, IsPut, IsNext
<1> QED BY <1>6, Zenon DEF b

(* Another first child of d.                                               *)
IsChildPut(b, ns, d, x) ==
  /\ IsTree(b) /\ Len(b) = Len(ns) /\ Grows(ns, b)
  /\ OnlyChild(b[d], ns[d]) /\ b[d].child = x
  /\ \A i \in 1 .. Len(ns) : i # d => b[i] = ns[i]

(* A child pointer is stored.                                              *)
LEMMA ChildPutFacts ==
  ASSUME NEW ns, IsTree(ns), NEW d \in 1 .. Len(ns), NEW x \in 0 .. Len(ns)
  PROVE  IsChildPut(ChildPut(ns, d, x), ns, d, x)
<1> DEFINE q == [ns[d] EXCEPT !.child = x]
           b == ChildPut(ns, d, x)
<1>1. ns[d] \in NodeSet(Len(ns))
  BY TreeTypes, UpTyped, Zenon
<1>2. IsChild(q, ns[d], Len(ns), x)
  BY <1>1, ChildChanged, Zenon
<1> HIDE DEF q
<1>3. q \in NodeSet(Len(ns)) /\ Kept(q, ns[d]) /\ q.opens = ns[d].opens
  BY <1>2, Zenon DEF OnlyChild, IsChild
<1>4. b = Put(ns, d, q)
  BY Zenon DEF ChildPut, q
<1>5. IsPut(b, ns, d, q) /\ Grows(ns, b)
  BY <1>3, <1>4, PutTyped, PutGrows, Zenon
<1> HIDE DEF b
<1>6. IsChildPut(b, ns, d, x)
  BY <1>2, <1>5, Zenon DEF IsChildPut, IsPut, IsChild
<1> QED BY <1>6, Zenon DEF b

(* The two places of a new entry, as changes of one node after the other.  *)
LEMMA LinkFirstPuts ==
  ASSUME NEW ns, IsTree(ns), NEW d \in 1 .. Len(ns), NEW f \in 1 .. Len(ns)
  PROVE  LinkFirst(ns, d, f) = Tree(ChildPut(NextPut(ns, f, ns[d].child), d, f), f)
BY Zenon DEF LinkFirst, ChildPut, NextPut, Put

(* Linking behind a file is two stores.                                    *)
LEMMA LinkBehindPuts ==
  ASSUME NEW ns, IsTree(ns), NEW p \in 1 .. Len(ns), NEW f \in 1 .. Len(ns)
  PROVE  LinkBehind(ns, p, f) = Tree(NextPut(NextPut(ns, f, ns[p].next), p, f), f)
<1>1. ~(p < 0)
  BY TreeTypes
<1> QED BY <1>1, Zenon DEF LinkBehind, NextPut, Put

(* The store of link_file_to_folder in the file.                           *)
LEMMA CountedIs ==
  ASSUME NEW ns, IsTree(ns), NEW d \in 1 .. Len(ns), NEW f \in 1 .. Len(ns)
  PROVE  [ns EXCEPT ![f].parent = d, ![f].links = Up(@)] = Counted(ns, d, f)
<1> DEFINE r == [ns[f] EXCEPT !.parent = d]
           c == [ns EXCEPT ![f] = r]
<1>1. ns[f] \in NodeSet(Len(ns)) /\ d \in 0 .. Len(ns) /\ f \in DOMAIN ns
  BY TreeTypes, Zenon
<1>2. r.links = ns[f].links
  BY <1>1 DEF NodeSet
<1>3. c[f] = r
  BY <1>1, Zenon
<1>4. [ns EXCEPT ![f].parent = d, ![f].links = Up(@)] = [c EXCEPT ![f] = [c[f] EXCEPT !.links = Up(c[f].links)]]
  BY Zenon
<1>5. [c EXCEPT ![f] = [c[f] EXCEPT !.links = Up(c[f].links)]] = [c EXCEPT ![f] = [r EXCEPT !.links = Up(ns[f].links)]]
  BY <1>2, <1>3, Zenon
<1>6. ASSUME NEW x, NEW y, NEW g PROVE [[g EXCEPT ![f] = x] EXCEPT ![f] = y] = [g EXCEPT ![f] = y]
  OBVIOUS
<1>7. [c EXCEPT ![f] = [r EXCEPT !.links = Up(ns[f].links)]] = [ns EXCEPT ![f] = [r EXCEPT !.links = Up(ns[f].links)]]
  BY <1>6, Zenon
<1> QED BY <1>4, <1>5, <1>7, Zenon DEF Counted, Put

(* What link_file_to_folder does, by the place it finds.                   *)
LinkedFirst(ns, d, f) ==
  LET c == Counted(ns, d, f) IN ChildPut(NextPut(c, f, c[d].child), d, f)

LinkedBehind(ns, d, p, f) ==
  LET c == Counted(ns, d, f) IN NextPut(NextPut(c, f, c[p].next), p, f)

(* The nodes that an entry of this name is put behind.                     *)
Behind(ns, f) == {n \in DOMAIN ns : ns[n].next = NULL \/ ns[f].name < ns[ns[n].next].name}

LinkCases(r, ns, d, f) ==
  LET first == Alive(ns, ns[d].child)
      p     == FirstIn(ns, first, Behind(ns, f))
  IN  /\ ~ns[d].dir => r = Tree(ns, NULL)
      /\ ns[d].dir /\ first < 0 => r = Tree(ns, first)
      /\ ns[d].dir /\ ~(first < 0) /\ (first = NULL \/ ns[f].name < ns[first].name)
           => r = Tree(LinkedFirst(ns, d, f), f)
      /\ ns[d].dir /\ ~(first < 0) /\ first # NULL /\ ~(ns[f].name < ns[first].name) /\ p < 0
           => r = Tree(Counted(ns, d, f), p)
      /\ ns[d].dir /\ ~(first < 0) /\ first # NULL /\ ~(ns[f].name < ns[first].name) /\ ~(p < 0)
           => r = Tree(LinkedBehind(ns, d, p, f), f) /\ p \in LiveIn(ns) \cap Behind(ns, f)

(* A pointer that is followed is live, null, or reported as freed.         *)
LEMMA AliveTyped ==
  ASSUME NEW ns, IsTree(ns), NEW n \in 0 .. Len(ns)
  PROVE  /\ Alive(ns, n) = Freed \/ (Alive(ns, n) = n /\ (n = NULL \/ n \in LiveIn(ns)))
         /\ n \in LiveIn(ns) \cup {NULL} => Alive(ns, n) = n
         /\ Freed < 0
<1>1. n > 0 <=> n \in DOMAIN ns
  BY TreeTypes
<1>2. n = NULL \/ n \in DOMAIN ns
  BY TreeTypes DEF NULL
<1>3. NULL \notin DOMAIN ns /\ Freed < 0
  BY TreeTypes DEF NULL, Freed
<1> QED BY <1>1, <1>2, <1>3, Zenon DEF Alive, LiveIn

(* The cases of link_file_to_folder.                                       *)
LEMMA LinkHow ==
  ASSUME NEW ns, IsTree(ns), NEW d \in 1 .. Len(ns), NEW f \in 1 .. Len(ns)
  PROVE  LinkCases(link_file_to_folder(ns, d, f), ns, d, f)
<1> DEFINE r     == link_file_to_folder(ns, d, f)
           c     == Counted(ns, d, f)
           first == Alive(ns, ns[d].child)
           p     == FirstIn(ns, first, Behind(ns, f))
<1>1. r = IF ~ns[d].dir THEN Tree(ns, NULL)
          ELSE IF first < 0 THEN Tree(ns, first)
          ELSE IF first = NULL THEN LinkFirst(c, d, f)
          ELSE IF ns[f].name < ns[first].name THEN LinkFirst(c, d, f)
          ELSE LinkBehind(c, p, f)
  <2> DEFINE e == [ns EXCEPT ![f].parent = d, ![f].links = Up(@)]
  <2>1. e = c
    BY CountedIs, Zenon
  <2>2. r = IF ~ns[d].dir THEN Tree(ns, NULL)
            ELSE IF first < 0 THEN Tree(ns, first)
            ELSE IF first = NULL THEN LinkFirst(e, d, f)
            ELSE IF ns[f].name < ns[first].name THEN LinkFirst(e, d, f)
            ELSE LinkBehind(e, p, f)
    BY Zenon DEF link_file_to_folder, Behind
  <2> HIDE DEF c, e, r, p, first
  <2> QED BY <2>1, <2>2, Zenon
<1>2. IsTree(c) /\ Len(c) = Len(ns)
  <2>1. IsCounted(c, ns, d, f)
    BY CountedFacts, Zenon
  <2> QED BY <2>1, Zenon DEF IsCounted
<1>3. LinkFirst(c, d, f) = Tree(LinkedFirst(ns, d, f), f)
  BY <1>2, LinkFirstPuts, Zenon DEF LinkedFirst
<1>4. first = Freed \/ (first = ns[d].child /\ (first = NULL \/ first \in LiveIn(ns)))
  BY TreeTypes, AliveTyped, Zenon
<1>5. ASSUME ~(first < 0), first # NULL PROVE p \in {Freed, Hang} \cup (LiveIn(ns) \cap Behind(ns, f))
  <2>1. first \in 1 .. Len(ns) /\ 1 .. Len(ns) \in SUBSET (0 .. Len(ns)) /\ NULL \notin 1 .. Len(ns)
    <3>1. Freed < 0
      BY DEF Freed
    <3>2. first \in LiveIn(ns)
      BY <1>4, <1>5, <3>1, Zenon
    <3> QED BY <3>2, TreeTypes DEF LiveIn, NULL
  <2>2. \A n \in 1 .. Len(ns) : n \notin Behind(ns, f) => ns[n].next \in 1 .. Len(ns)
    <3>1. \A n \in 1 .. Len(ns) : ns[n].next = NULL \/ ns[n].next \in 1 .. Len(ns)
      BY TreeTypes DEF NULL
    <3>2. \A n \in 1 .. Len(ns) : ns[n].next = NULL => n \in Behind(ns, f)
      BY TreeTypes, Zenon DEF Behind
    <3> QED BY <3>1, <3>2, Zenon
  <2> HIDE DEF p, first
  <2>3. p \in {Freed, Hang} \cup ((1 .. Len(ns)) \cap ({NULL} \cup (LiveIn(ns) \cap Behind(ns, f))))
    BY <2>1, <2>2, FirstInClosed, Zenon DEF p
  <2> QED BY <2>1, <2>3, Zenon
<1>6. ASSUME p \in {Freed, Hang} \cup (LiveIn(ns) \cap Behind(ns, f))
      PROVE  /\ p < 0 => LinkBehind(c, p, f) = Tree(c, p)
             /\ ~(p < 0) => /\ LinkBehind(c, p, f) = Tree(LinkedBehind(ns, d, p, f), f)
                            /\ p \in LiveIn(ns) \cap Behind(ns, f)
  <2>1. Freed < 0 /\ Hang < 0
    BY DEF Freed, Hang
  <2>2. ~(p < 0) => p \in 1 .. Len(ns) /\ p \in LiveIn(ns) \cap Behind(ns, f)
    BY <1>6, <2>1, TreeTypes, Zenon DEF LiveIn
  <2> HIDE DEF p, c
  <2>3. p < 0 => LinkBehind(c, p, f) = Tree(c, p)
    BY Zenon DEF LinkBehind
  <2>4. ~(p < 0) => LinkBehind(c, p, f) = Tree(LinkedBehind(ns, d, p, f), f)
    BY <1>2, <2>2, LinkBehindPuts, Zenon DEF LinkedBehind, c
  <2> QED BY <2>2, <2>3, <2>4, Zenon
<1> HIDE DEF first, p, c, r
<1>7. LinkCases(r, ns, d, f)
  BY <1>1, <1>3, <1>5, <1>6, Zenon DEF LinkCases, first, p, c
<1> QED BY <1>7, Zenon DEF r

(* The parts of a result.                                                  *)
LEMMA TreeFields ==
  ASSUME NEW ns, NEW at, NEW r, r = Tree(ns, at)
  PROVE  r.ns = ns /\ r.at = at
BY DEF Tree

(* link_file_to_folder only adds to the tree.                              *)
LEMMA LinkGrows ==
  ASSUME NEW ns, IsTree(ns), NEW d \in 1 .. Len(ns), NEW f \in 1 .. Len(ns),
         NEW r, r = link_file_to_folder(ns, d, f)
  PROVE  Grows(ns, r.ns) /\ Len(r.ns) = Len(ns) /\ r.at \in {Freed, Hang, NULL, f}
<1> DEFINE first == Alive(ns, ns[d].child)
           p     == FirstIn(ns, first, Behind(ns, f))
           c     == Counted(ns, d, f)
<1>1. LinkCases(r, ns, d, f)
  BY LinkHow, Zenon
<1>2. IsTree(c) /\ Len(c) = Len(ns) /\ Grows(ns, c)
  <2>1. IsCounted(c, ns, d, f)
    BY CountedFacts, Zenon
  <2> QED BY <2>1, Zenon DEF IsCounted
<1>3. ASSUME NEW x, NEW y, r = Tree(x, y) PROVE r.ns = x /\ r.at = y
  BY <1>3, TreeFields, Zenon
<1>4. \A n \in 1 .. Len(ns) : n \in 0 .. Len(ns) /\ c[n].next \in 0 .. Len(ns) /\ c[n].child \in 0 .. Len(ns)
  <2> HIDE DEF c
  <2>1. \A n \in 1 .. Len(c) : n \in 0 .. Len(c) /\ c[n].next \in 0 .. Len(c) /\ c[n].child \in 0 .. Len(c)
    BY <1>2, TreeTypes, Zenon
  <2> QED BY <1>2, <2>1, Zenon
<1>5. ASSUME NEW x \in 0 .. Len(ns)
      PROVE  LET e == NextPut(c, f, x) IN IsTree(e) /\ Len(e) = Len(ns) /\ Grows(ns, e)
  <2> DEFINE e == NextPut(c, f, x)
  <2>1. IsNextPut(e, c, f, x)
    BY <1>2, NextPutFacts, Zenon
  <2> HIDE DEF e, c
  <2>2. IsTree(e) /\ Len(e) = Len(ns) /\ Grows(ns, e)
    BY <1>2, <2>1, GrowsOn, Zenon DEF IsNextPut
  <2> QED BY <2>2, Zenon DEF e
<1>6. ASSUME NEW e, IsTree(e), Len(e) = Len(ns), Grows(ns, e)
      PROVE  /\ \A n \in 1 .. Len(ns) : Grows(ns, NextPut(e, n, f)) /\ Len(NextPut(e, n, f)) = Len(ns)
             /\ Grows(ns, ChildPut(e, d, f)) /\ Len(ChildPut(e, d, f)) = Len(ns)
  <2>1. f \in 0 .. Len(e) /\ d \in 1 .. Len(e)
    BY <1>4, <1>6, Zenon
  <2>2. ASSUME NEW n \in 1 .. Len(ns)
        PROVE  Grows(ns, NextPut(e, n, f)) /\ Len(NextPut(e, n, f)) = Len(ns)
    <3>1. n \in 1 .. Len(e)
      BY <1>6, Zenon
    <3>2. IsNextPut(NextPut(e, n, f), e, n, f)
      BY <1>6, <2>1, <3>1, NextPutFacts, Zenon
    <3> QED BY <1>6, <3>2, GrowsOn, Zenon DEF IsNextPut
  <2>3. IsChildPut(ChildPut(e, d, f), e, d, f)
    BY <1>6, <2>1, ChildPutFacts, Zenon
  <2>4. Grows(ns, ChildPut(e, d, f)) /\ Len(ChildPut(e, d, f)) = Len(ns)
    BY <1>6, <2>3, GrowsOn, Zenon DEF IsChildPut
  <2> QED BY <2>2, <2>4, Zenon
<1>7. Grows(ns, LinkedFirst(ns, d, f)) /\ Len(LinkedFirst(ns, d, f)) = Len(ns)
  BY <1>4, <1>5, <1>6, Zenon DEF LinkedFirst
<1>8. \A n \in 1 .. Len(ns) : Grows(ns, LinkedBehind(ns, d, n, f)) /\ Len(LinkedBehind(ns, d, n, f)) = Len(ns)
  BY <1>4, <1>5, <1>6, Zenon DEF LinkedBehind
<1>9. LiveIn(ns) \subseteq 1 .. Len(ns) /\ Grows(ns, ns)
  BY TreeTypes, GrowsSelf, Zenon DEF LiveIn
<1>10. first < 0 => first = Freed
  <2>1. first = Freed \/ first = NULL \/ first \in 1 .. Len(ns)
    BY <1>9, TreeTypes, AliveTyped, Zenon
  <2>2. first = NULL \/ first \in 1 .. Len(ns) => ~(first < 0)
    <3> HIDE DEF first
    <3> QED BY TreeTypes DEF NULL
  <2> QED BY <2>1, <2>2, Zenon
<1>11. ASSUME first # NULL, ~(first < 0), p < 0 PROVE p \in {Freed, Hang}
  <2>1. first \in 0 .. Len(ns)
    BY <1>9, <1>11, TreeTypes, AliveTyped, Zenon
  <2> HIDE DEF first
  <2>2. p \in {Freed, Hang, NULL} \cup (LiveIn(ns) \cap Behind(ns, f))
    BY <2>1, FirstInTyped, Zenon
  <2> HIDE DEF p
  <2>3. p \notin 1 .. Len(ns) /\ p # NULL
    BY <1>11, TreeTypes DEF NULL
  <2> QED BY <2>2, <2>3, <1>9, Zenon
<1> HIDE DEF first, p, c
<1>12. \/ r = Tree(ns, NULL)
       \/ first < 0 /\ r = Tree(ns, first)
       \/ r = Tree(LinkedFirst(ns, d, f), f)
       \/ first # NULL /\ ~(first < 0) /\ p < 0 /\ r = Tree(c, p)
       \/ p \in LiveIn(ns) /\ r = Tree(LinkedBehind(ns, d, p, f), f)
  BY <1>1, Zenon DEF LinkCases, first, p, c
<1>13. CASE r = Tree(ns, NULL) \/ (first < 0 /\ r = Tree(ns, first))
  BY <1>3, <1>9, <1>10, <1>13, Zenon
<1>14. CASE r = Tree(LinkedFirst(ns, d, f), f)
  BY <1>3, <1>7, <1>14, Zenon
<1>15. CASE first # NULL /\ ~(first < 0) /\ p < 0 /\ r = Tree(c, p)
  BY <1>2, <1>3, <1>11, <1>15, Zenon
<1>16. CASE p \in LiveIn(ns) /\ r = Tree(LinkedBehind(ns, d, p, f), f)
  <2>1. p \in 1 .. Len(ns)
    BY <1>9, <1>16, Zenon
  <2>2. r.ns = LinkedBehind(ns, d, p, f) /\ r.at = f
    BY <1>3, <1>16, Zenon
  <2> QED BY <1>8, <2>1, <2>2, Zenon
<1> QED BY <1>12, <1>13, <1>14, <1>15, <1>16, Zenon

LinkGrown(r, ns, f) ==
  Grows(ns, r.ns) /\ Len(r.ns) = Len(ns) /\ r.at \in {Freed, Hang, NULL, f}

(* The same, in one word.                                                  *)
LEMMA LinkGrownIs ==
  ASSUME NEW ns, IsTree(ns), NEW d \in 1 .. Len(ns), NEW f \in 1 .. Len(ns)
  PROVE  LinkGrown(link_file_to_folder(ns, d, f), ns, f)
<1> DEFINE r == link_file_to_folder(ns, d, f)
<1>1. \A q : q = r => Grows(ns, q.ns) /\ Len(q.ns) = Len(ns) /\ q.at \in {Freed, Hang, NULL, f}
  BY LinkGrows, Zenon
<1> HIDE DEF r
<1>2. LinkGrown(r, ns, f)
  BY <1>1, Zenon DEF LinkGrown
<1> QED BY <1>2, Zenon DEF r

-----------------------------------------------------------------------------
(* Following a path.                                                       *)

(* What comes of a walk.                                                   *)
Places(ns) == Confused .. Len(ns)

(* find_file_in_dir returns a place.                                       *)
LEMMA FindInDirTyped ==
  ASSUME NEW ns, IsTree(ns), NEW d \in 1 .. Len(ns), NEW name
  PROVE  find_file_in_dir(ns, d, name) \in Places(ns)
<1>1. /\ {Freed, Hang, NULL} \cup LiveIn(ns) \subseteq Places(ns) /\ d \in Places(ns)
      /\ NULL \in Places(ns) /\ Freed \in Places(ns)
  BY TreeTypes DEF Places, Freed, Hang, NULL, Confused, LiveIn
<1>2. ASSUME NEW n \in 0 .. Len(ns) PROVE Alive(ns, n) \in Places(ns)
  BY <1>1, AliveTyped, Zenon
<1>3. ns[d].parent \in 0 .. Len(ns) /\ ns[d].child \in 0 .. Len(ns)
  BY TreeTypes, Zenon
<1>4. ASSUME NEW S PROVE FirstIn(ns, ns[d].child, S) \in Places(ns)
  BY <1>1, <1>3, FirstInTyped, Zenon
<1>5. ASSUME NEW x \in Places(ns), NEW y PROVE Exactly(ns, x, y) \in Places(ns)
  BY <1>1, Zenon DEF Exactly
<1> QED BY <1>1, <1>2, <1>3, <1>4, <1>5, Zenon DEF find_file_in_dir

StepInto(ns, d, name) ==
  IF d <= 0 THEN d ELSE IF ~ns[d].dir THEN NULL ELSE find_file_in_dir(ns, d, name)

(* A step along a path leads to a place.                                   *)
LEMMA StepTyped ==
  ASSUME NEW ns, IsTree(ns), NEW d \in Places(ns), NEW name
  PROVE  StepInto(ns, d, name) \in Places(ns)
<1>1. d <= 0 \/ d \in 1 .. Len(ns)
  BY TreeTypes DEF Places, Confused
<1>2. NULL \in Places(ns)
  BY TreeTypes DEF Places, NULL, Confused
<1> QED BY <1>1, <1>2, FindInDirTyped, Zenon DEF StepInto

IsWay(w, ns, path) ==
  /\ w[0] = ROOT
  /\ \A k \in 1 .. Len(path) : w[k] = StepInto(ns, w[k - 1], path[k])
  /\ \A k \in 0 .. Len(path) : w[k] \in Places(ns)

(* find_file follows a path step by step.                                  *)
LEMMA FindByWay ==
  ASSUME NEW ns, IsTree(ns), NEW C, NEW path \in Seq(C)
  PROVE  \E w : IsWay(w, ns, path) /\ find_file(ns, path) = w[Len(path)]
<1> DEFINE n    == Len(path)
           A    == Places(ns)
           into == [d \in Confused .. Len(ns) |-> [name \in Range(path) |->
                      IF d <= 0 THEN d ELSE IF ~ns[d].dir THEN NULL ELSE find_file_in_dir(ns, d, name)]]
           g    == [x \in (1 .. n) \X A |-> StepInto(ns, x[2], path[x[1]])]
           IsTo(w) == w = [k \in 0 .. n |-> IF k = 0 THEN ROOT ELSE into[w[k - 1]][path[k]]]
<1>1. /\ n \in Nat /\ n \in 0 .. n /\ 0 \in 0 .. n
      /\ \A k \in 1 .. n : path[k] \in Range(path) /\ k \in 0 .. n /\ k # 0 /\ k - 1 \in 0 .. n
      /\ \A k \in 0 .. n : k # 0 => k \in 1 .. n
  BY DEF Range
<1>2. ROOT \in A
  BY TreeTypes DEF Places, ROOT, Confused
<1>3. \A d \in A, k \in 1 .. n : into[d][path[k]] = StepInto(ns, d, path[k]) /\ StepInto(ns, d, path[k]) \in A
  <2>1. \A d \in A, k \in 1 .. n : into[d][path[k]] = StepInto(ns, d, path[k])
    BY <1>1, Zenon DEF StepInto, Places
  <2> HIDE DEF into
  <2> QED BY <2>1, StepTyped, Zenon
<1>4. g \in [(1 .. n) \X A -> A]
  <2> HIDE DEF into, A, n
  <2>1. \A x \in (1 .. n) \X A : StepInto(ns, x[2], path[x[1]]) \in A
    BY <1>3
  <2> QED BY <2>1, Zenon
<1>5. PICK f \in [0 .. n -> A] : Steps(f, n, ROOT, g)
  <2> HIDE DEF A, g, n
  <2> QED BY <1>1, <1>2, <1>4, Recursion, Zenon
<1>6. IsTo(f)
  <2>1. \A k \in 1 .. n : f[k - 1] \in A /\ <<k, f[k - 1]>> \in (1 .. n) \X A
    <3> HIDE DEF A
    <3> QED BY <1>1, Zenon
  <2>2. \A k \in 1 .. n : g[<<k, f[k - 1]>>] = StepInto(ns, f[k - 1], path[k])
    <3> HIDE DEF A, into
    <3> QED BY <2>1
  <2> HIDE DEF g, into
  <2>3. f[0] = ROOT /\ \A k \in 1 .. n : f[k] = into[f[k - 1]][path[k]]
    BY <1>3, <1>5, <2>1, <2>2, Zenon DEF Steps
  <2>4. \A k \in 0 .. n : f[k] = IF k = 0 THEN ROOT ELSE into[f[k - 1]][path[k]]
    BY <1>1, <2>3, Zenon
  <2>5. f = [k \in 0 .. n |-> f[k]]
    BY Zenon
  <2> QED BY <2>4, <2>5, Zenon
<1> DEFINE h == CHOOSE h : IsTo(h)
<1>7. IsTo(h)
  BY <1>6, Zenon
<1>8. find_file(ns, path) = h[n]
  BY Zenon DEF find_file
<1> HIDE DEF h, into
<1>9. h[0] = ROOT /\ \A k \in 1 .. n : h[k] = into[h[k - 1]][path[k]]
  BY <1>1, <1>7, Zenon
<1> DEFINE T == {k \in 0 .. n : h[k] \in A}
<1>10. 0 \in T
  BY <1>1, <1>2, <1>9, Zenon
<1>11. ASSUME NEW k \in 0 .. n - 1, k \in T PROVE k + 1 \in T
  <2>1. k + 1 \in 1 .. n /\ k + 1 \in 0 .. n /\ k + 1 - 1 = k
    BY <1>1
  <2>2. h[k + 1] = into[h[k]][path[k + 1]]
    <3> HIDE DEF A, n
    <3> QED BY <1>9, <2>1
  <2>3. h[k] \in A
    BY <1>11, Zenon
  <2>4. into[h[k]][path[k + 1]] = StepInto(ns, h[k], path[k + 1]) /\ StepInto(ns, h[k], path[k + 1]) \in A
    BY <1>3, <2>1, <2>3, Zenon
  <2> HIDE DEF A
  <2> QED BY <2>1, <2>2, <2>4, Zenon
<1>12. \A k \in 0 .. n : h[k] \in A
  <2>1. 0 .. n \subseteq T
    <3> HIDE DEF T, n
    <3> QED BY <1>1, <1>10, <1>11, FromZero, Zenon
  <2> QED BY <2>1, Zenon
<1>13. IsWay(h, ns, path)
  BY <1>1, <1>3, <1>9, <1>12, Zenon DEF IsWay
<1> QED BY <1>8, <1>13, Zenon

-----------------------------------------------------------------------------
(* Adding nodes.                                                           *)

IsAppend(b, ns, q) ==
  /\ IsTree(b) /\ Len(b) = Len(ns) + 1 /\ b[Len(ns) + 1] = q
  /\ \A i \in 1 .. Len(ns) : b[i] = ns[i]

(* A structure is added behind the others.                                 *)
LEMMA AppendFacts ==
  ASSUME NEW ns, IsTree(ns), NEW q \in NodeSet(Len(ns))
  PROVE  IsAppend(Append(ns, q), ns, q)
<1> DEFINE m == Len(ns)
           T == NodeSet(m + 1)
           b == Append(ns, q)
<1>1. m \in Nat /\ m >= 1 /\ ns \in Seq(NodeSet(m)) /\ 0 .. m \subseteq 0 .. m + 1
  BY DEF IsTree
<1>2. NodeSet(m) \subseteq T
  BY <1>1, Zenon DEF NodeSet
<1> HIDE DEF T
<1>3. ns \in Seq(T) /\ q \in T
  <2>1. \A i \in 1 .. m : ns[i] \in T
    BY <1>1, <1>2
  <2> QED BY <1>1, <1>2, <2>1
<1>4. b \in Seq(T) /\ Len(b) = m + 1 /\ b[m + 1] = q /\ \A i \in 1 .. m : b[i] = ns[i]
  BY <1>1, <1>3
<1>5. m + 1 >= 1
  BY <1>1
<1> HIDE DEF b
<1> QED BY <1>4, <1>5, Zenon DEF IsTree, IsAppend, T, b

(* A new structure that nobody has open adds to the tree.                  *)
LEMMA AppendGrows ==
  ASSUME NEW ns, IsTree(ns), NEW q \in NodeSet(Len(ns)), q.dir \/ q.opens = 0
  PROVE  Grows(ns, Append(ns, q))
<1> DEFINE b == Append(ns, q)
<1>1. IsAppend(b, ns, q)
  BY AppendFacts, Zenon
<1> HIDE DEF b
<1>2. Len(ns) \in Nat /\ Len(b) = Len(ns) + 1
  BY <1>1, TreeTypes, Zenon DEF IsAppend
<1>3. Len(ns) <= Len(b) /\ \A n \in Len(ns) + 1 .. Len(b) : n = Len(ns) + 1
  BY <1>2
<1>4. Grows(ns, b)
  BY <1>1, <1>3, Zenon DEF Grows, Kept, IsAppend
<1> QED BY <1>4, Zenon DEF b

(* The type of a new structure.                                            *)
LEMMA NewTyped ==
  ASSUME NEW m \in Nat, NEW name \in Int, NEW dir \in BOOLEAN, NEW counts \in Nat \X Nat
  PROVE  /\ NewNode(name, dir, counts) \in NodeSet(m)
         /\ NewNode(name, dir, counts).dir = dir /\ NewNode(name, dir, counts).opens = counts[2]
<1>1. 0 \in 0 .. m /\ counts[1] \in Nat /\ counts[2] \in Nat
  OBVIOUS
<1>2. NewNode(name, dir, counts) \in NodeSet(m)
  BY <1>1, Zenon DEF NewNode, NodeSet, NULL
<1> QED BY <1>2 DEF NewNode

IsNew(q, m, name, dir, links, opens) ==
  /\ q \in NodeSet(m) /\ q.name = name /\ q.dir = dir /\ ~q.static /\ ~q.freed
  /\ q.child = NULL /\ q.links = links /\ q.opens = opens

(* A new file, and a new directory whose memory was never used.            *)
LEMMA FileTyped ==
  ASSUME NEW m \in Nat, NEW name \in Int
  PROVE  /\ IsNew(NewNode(name, FALSE, <<0, 0>>), m, name, FALSE, 0, 0)
         /\ IsNew(NewNode(name, TRUE, <<0, 0>>), m, name, TRUE, 0, 0)
BY DEF IsNew, NewNode, NodeSet, NULL

(* The name of a file as it is stored.                                     *)
LEMMA StoredTyped ==
  ASSUME NEW name \in Names, NEW tail \in 0 .. 1
  PROVE  Stored(name, tail) \in Int /\ Stored(name, 0) \in Int /\ Stored(name, 0) > 0
<1>1. name \in Nat /\ name # 0
  BY NamespaceAssumption
<1> QED BY <1>1 DEF Stored

-----------------------------------------------------------------------------
(* create_directories.                                                     *)

SubStep(r, name, counts, filled) ==
  IF r.at <= 0 \/ name = DOT THEN r
  ELSE IF name = DOTDOT
  THEN IF r.ns[r.at].parent = NULL THEN r
       ELSE Tree(r.ns, Alive(r.ns, r.ns[r.at].parent))
  ELSE IF r.ns[r.at].dir
  THEN Enter(r, name, find_file_in_dir(r.ns, r.at, name), counts)
  ELSE Enter(r, name, IF filled THEN Confused ELSE NULL, counts)

(* A tree that has come out of ns, and the place that was reached.         *)
AnyNode ==
  [name: Int, dir: BOOLEAN, static: BOOLEAN, freed: BOOLEAN, parent: Nat,
   child: Nat, next: Nat, links: Nat, opens: Nat]

Grown(ns) ==
  {r \in [ns: Seq(AnyNode), at: Int] : Grows(ns, r.ns) /\ r.at \in Places(r.ns)}

(* A tree that has grown, with a place in it.                              *)
LEMMA GrownTree ==
  ASSUME NEW ns, IsTree(ns), NEW b, Grows(ns, b), NEW n \in Places(b)
  PROVE  Tree(b, n) \in Grown(ns)
<1>1. b \in Seq(AnyNode)
  <2>1. Len(b) \in Nat /\ b \in Seq(NodeSet(Len(b))) /\ 0 .. Len(b) \subseteq Nat
    BY DEF Grows, IsTree
  <2>2. NodeSet(Len(b)) \subseteq AnyNode
    BY <2>1, Zenon DEF NodeSet, AnyNode
  <2> QED BY <2>1, <2>2
<1>2. n \in Int
  BY DEF Places, Confused
<1>3. Tree(b, n) \in [ns: Seq(AnyNode), at: Int]
  BY <1>1, <1>2, Zenon DEF Tree
<1>4. Tree(b, n).ns = b /\ Tree(b, n).at = n
  BY TreeFields, Zenon
<1> QED BY <1>3, <1>4, Zenon DEF Grown

(* One component of create_directories that is a name.                     *)
LEMMA EnterTyped ==
  ASSUME NEW ns, IsTree(ns), NEW r \in Grown(ns), r.at > 0, NEW name \in Names,
         NEW found \in Places(r.ns), NEW counts \in Nat \X Nat
  PROVE  Enter(r, name, found, counts) \in Grown(ns)
<1> DEFINE t == r.ns
           q == NewNode(Stored(name, 0), TRUE, counts)
           b == Append(t, q)
           e == link_file_to_folder(b, r.at, Len(t) + 1)
<1>1. Grows(ns, t) /\ r.at \in Places(t) /\ IsTree(t)
  BY Zenon DEF Grown, Grows
<1> HIDE DEF t
<1>2. Len(t) \in Nat /\ Len(t) >= 1 /\ r.at \in 1 .. Len(t) /\ NULL \in Places(t) /\ Null \in Places(t)
  BY <1>1, TreeTypes DEF Places, Confused, NULL, Null
<1>3. q \in NodeSet(Len(t)) /\ q.dir
  <2>1. Stored(name, 0) \in Int /\ TRUE \in BOOLEAN
    BY StoredTyped
  <2> QED BY <1>2, <2>1, NewTyped, Zenon
<1> HIDE DEF q
<1>4. IsAppend(b, t, q) /\ Grows(t, b)
  BY <1>1, <1>3, AppendFacts, AppendGrows, Zenon
<1> HIDE DEF b
<1>5. IsTree(b) /\ Len(b) = Len(t) + 1
  BY <1>4, Zenon DEF IsAppend
<1>6. r.at \in 1 .. Len(b) /\ Len(t) + 1 \in 1 .. Len(b)
  BY <1>2, <1>5
<1>7. Grows(b, e.ns) /\ Len(e.ns) = Len(b) /\ e.at \in {Freed, Hang, NULL, Len(t) + 1}
  BY <1>5, <1>6, LinkGrows, Zenon
<1>8. IsTree(b) /\ Grows(ns, e.ns)
  BY <1>1, <1>4, <1>5, <1>7, GrowsOn, Zenon
<1>9. e.at \in Places(e.ns)
  <2> HIDE DEF e
  <2> QED BY <1>2, <1>5, <1>7 DEF Places, Freed, Hang, NULL, Confused
<1>10. e = Tree(e.ns, e.at)
  <2>1. LinkCases(e, b, r.at, Len(t) + 1)
    BY <1>5, <1>6, LinkHow, Zenon
  <2>2. \E x, y : e = Tree(x, y)
    <3> HIDE DEF e
    <3> QED BY <2>1, Zenon DEF LinkCases
  <2>3. PICK x, y : e = Tree(x, y)
    BY <2>2, Zenon
  <2> HIDE DEF e
  <2>4. e.ns = x /\ e.at = y
    BY <2>3 DEF Tree
  <2> QED BY <2>3, <2>4, Zenon
<1>11. e \in Grown(ns)
  <2> HIDE DEF e
  <2>1. Tree(e.ns, e.at) \in Grown(ns)
    BY <1>8, <1>9, GrownTree, Zenon
  <2> QED BY <1>10, <2>1, Zenon
<1>12. Tree(t, found) \in Grown(ns) /\ Tree(t, Null) \in Grown(ns) /\ Tree(t, NULL) \in Grown(ns)
  BY <1>1, <1>2, GrownTree, Zenon DEF t
<1> HIDE DEF e
<1>13. \/ Enter(r, name, found, counts) = Tree(t, found)
       \/ Enter(r, name, found, counts) = Tree(t, Null)
       \/ Enter(r, name, found, counts) = Tree(t, NULL)
       \/ Enter(r, name, found, counts) = e
  BY Zenon DEF Enter, Unless, e, b, q, t
<1> QED BY <1>11, <1>12, <1>13, Zenon

(* One component of create_directories.                                    *)
LEMMA SubTyped ==
  ASSUME NEW ns, IsTree(ns), NEW r \in Grown(ns), NEW name \in Names \cup {DOT, DOTDOT},
         NEW counts \in Nat \X Nat, NEW filled
  PROVE  SubStep(r, name, counts, filled) \in Grown(ns)
<1>1. Grows(ns, r.ns) /\ r.at \in Places(r.ns) /\ IsTree(r.ns)
  BY Zenon DEF Grown, Grows
<1>2. ASSUME ~(r.at <= 0) PROVE r.at \in 1 .. Len(r.ns) /\ r.at > 0
  BY <1>1, <1>2, TreeTypes DEF Places, Confused
<1>3. NULL \in Places(r.ns) /\ Confused \in Places(r.ns) /\ \A n \in 0 .. Len(r.ns) : Alive(r.ns, n) \in Places(r.ns)
  <2>1. /\ NULL \in Places(r.ns) /\ Confused \in Places(r.ns) /\ Freed \in Places(r.ns)
        /\ \A n \in 0 .. Len(r.ns) : n \in Places(r.ns)
    BY <1>1, TreeTypes DEF Places, Confused, NULL, Freed
  <2> QED BY <1>1, <2>1, AliveTyped, Zenon
<1>4. CASE r.at <= 0 \/ name = DOT
  BY <1>4, Zenon DEF SubStep
<1>5. CASE ~(r.at <= 0 \/ name = DOT) /\ name = DOTDOT
  <2>1. r.ns[r.at].parent \in 0 .. Len(r.ns)
    BY <1>1, <1>2, <1>5, TreeTypes, Zenon
  <2>2. Tree(r.ns, Alive(r.ns, r.ns[r.at].parent)) \in Grown(ns)
    BY <1>1, <1>3, <2>1, GrownTree, Zenon
  <2> QED BY <1>5, <2>2, Zenon DEF SubStep
<1>6. CASE ~(r.at <= 0 \/ name = DOT) /\ name # DOTDOT
  <2>1. name \in Names /\ r.at \in 1 .. Len(r.ns) /\ r.at > 0
    BY <1>2, <1>6, Zenon
  <2>2. find_file_in_dir(r.ns, r.at, name) \in Places(r.ns)
    BY <1>1, <2>1, FindInDirTyped, Zenon
  <2>3. (IF filled THEN Confused ELSE NULL) \in Places(r.ns)
    BY <1>3, Zenon
  <2> QED BY <1>6, <2>1, <2>2, <2>3, EnterTyped, Zenon DEF SubStep
<1> QED BY <1>4, <1>5, <1>6, Zenon

(* The trees on the way along a path.                                      *)
IsMade(w, ns, start, path, counts, filled) ==
  /\ w[0] = Tree(ns, IF ns[start].dir THEN start ELSE NULL)
  /\ \A k \in 1 .. Len(path) : w[k] = SubStep(w[k - 1], path[k], counts, filled)
  /\ \A k \in 0 .. Len(path) : w[k] \in Grown(ns)

MadeBy(r, ns, start, path, counts, filled) ==
  \E w : IsMade(w, ns, start, path, counts, filled) /\ r = w[Len(path)]

Components == Names \cup {DOT, DOTDOT}

(* create_directories goes along the path step by step.                    *)
LEMMA CreateByMade ==
  ASSUME NEW ns, IsTree(ns), NEW start \in 1 .. Len(ns), NEW path \in Seq(Components),
         NEW counts \in Nat \X Nat, NEW filled
  PROVE  MadeBy(create_directories(ns, start, path, counts, filled), ns, start, path, counts, filled)
<1> DEFINE n == Len(path)
           A == Grown(ns)
           a == Tree(ns, IF ns[start].dir THEN start ELSE NULL)
           g == [x \in (1 .. n) \X A |-> SubStep(x[2], path[x[1]], counts, filled)]
           IsTo(w) == w = [k \in 0 .. n |-> IF k = 0 THEN a ELSE SubStep(w[k - 1], path[k], counts, filled)]
<1>1. /\ n \in Nat /\ n \in 0 .. n /\ 0 \in 0 .. n
      /\ \A k \in 1 .. n : path[k] \in Components /\ k \in 0 .. n /\ k # 0 /\ k - 1 \in 0 .. n
      /\ \A k \in 0 .. n : k # 0 => k \in 1 .. n
  OBVIOUS
<1>2. a \in A
  <2>1. (IF ns[start].dir THEN start ELSE NULL) \in Places(ns)
    BY TreeTypes DEF Places, NULL, Confused
  <2> QED BY <2>1, GrowsSelf, GrownTree, Zenon
<1>3. \A r \in A, k \in 1 .. n : SubStep(r, path[k], counts, filled) \in A
  BY <1>1, SubTyped, Zenon DEF Components
<1> HIDE DEF a
<1>4. g \in [(1 .. n) \X A -> A]
  <2> HIDE DEF A, n
  <2>1. \A x \in (1 .. n) \X A : SubStep(x[2], path[x[1]], counts, filled) \in A
    BY <1>3
  <2> QED BY <2>1, Zenon
<1>5. PICK f \in [0 .. n -> A] : Steps(f, n, a, g)
  <2> HIDE DEF A, g, n
  <2> QED BY <1>1, <1>2, <1>4, Recursion, Zenon
<1>6. IsTo(f)
  <2>1. \A k \in 1 .. n : f[k - 1] \in A /\ <<k, f[k - 1]>> \in (1 .. n) \X A
    <3> HIDE DEF A
    <3> QED BY <1>1, Zenon
  <2>2. \A k \in 1 .. n : g[<<k, f[k - 1]>>] = SubStep(f[k - 1], path[k], counts, filled)
    <3> HIDE DEF A
    <3> QED BY <2>1
  <2> HIDE DEF g
  <2>3. f[0] = a /\ \A k \in 1 .. n : f[k] = SubStep(f[k - 1], path[k], counts, filled)
    BY <1>5, <2>2, Zenon DEF Steps
  <2>4. \A k \in 0 .. n : f[k] = IF k = 0 THEN a ELSE SubStep(f[k - 1], path[k], counts, filled)
    BY <1>1, <2>3, Zenon
  <2>5. f = [k \in 0 .. n |-> f[k]]
    BY Zenon
  <2> QED BY <2>4, <2>5, Zenon
<1> DEFINE h == CHOOSE h : IsTo(h)
<1>7. IsTo(h)
  BY <1>6, Zenon
<1>8. create_directories(ns, start, path, counts, filled) = h[n]
  BY Zenon DEF create_directories, SubStep, a
<1> HIDE DEF h
<1>9. h[0] = a /\ \A k \in 1 .. n : h[k] = SubStep(h[k - 1], path[k], counts, filled)
  BY <1>1, <1>7, Zenon
<1> DEFINE T == {k \in 0 .. n : h[k] \in A}
<1>10. 0 \in T
  BY <1>1, <1>2, <1>9, Zenon
<1>11. ASSUME NEW k \in 0 .. n - 1, k \in T PROVE k + 1 \in T
  <2>1. k + 1 \in 1 .. n /\ k + 1 \in 0 .. n /\ k + 1 - 1 = k
    BY <1>1
  <2>2. h[k + 1] = SubStep(h[k], path[k + 1], counts, filled)
    <3> HIDE DEF A, n
    <3> QED BY <1>9, <2>1
  <2>3. h[k] \in A
    BY <1>11, Zenon
  <2> HIDE DEF A
  <2> QED BY <1>3, <2>1, <2>2, <2>3, Zenon
<1>12. \A k \in 0 .. n : h[k] \in A
  <2>1. 0 .. n \subseteq T
    <3> HIDE DEF T, n
    <3> QED BY <1>1, <1>10, <1>11, FromZero, Zenon
  <2> QED BY <2>1, Zenon
<1>13. IsMade(h, ns, start, path, counts, filled)
  BY <1>9, <1>12, Zenon DEF IsMade, a
<1> QED BY <1>8, <1>13, Zenon DEF MadeBy

(* create_directories only adds to the tree.                               *)
LEMMA CreateGrows ==
  ASSUME NEW ns, IsTree(ns), NEW start \in 1 .. Len(ns), NEW path \in Seq(Components),
         NEW counts \in Nat \X Nat, NEW filled
  PROVE  create_directories(ns, start, path, counts, filled) \in Grown(ns)
<1> DEFINE r == create_directories(ns, start, path, counts, filled)
<1>1. MadeBy(r, ns, start, path, counts, filled)
  BY CreateByMade, Zenon
<1> HIDE DEF r
<1>2. PICK w : IsMade(w, ns, start, path, counts, filled) /\ r = w[Len(path)]
  BY <1>1, Zenon DEF MadeBy
<1>3. Len(path) \in 0 .. Len(path)
  OBVIOUS
<1>4. r \in Grown(ns)
  BY <1>2, <1>3, Zenon DEF IsMade
<1> QED BY <1>4, Zenon DEF r

-----------------------------------------------------------------------------
(* Giving up nodes.                                                        *)

(* The result of free_data: as before, with one node freed that had no     *)
(* links and was not open, or a fault.                                     *)
FreeCases(r, ns, f) ==
  \/ r.at \in {Freed, Hang}
  \/ r = Tree(ns, f) /\ ~Dead(ns[f])
  \/ r = Tree(Put(ns, f, FreedNode), f) /\ Dead(ns[f])

(* The cases of free_data.                                                 *)
LEMMA FreeHow ==
  ASSUME NEW ns, IsTree(ns), NEW f \in 1 .. Len(ns)
  PROVE  FreeCases(free_data(ns, f), ns, f)
<1> DEFINE r   == free_data(ns, f)
           S   == {n \in DOMAIN ns : Dead(ns[n])}
           bad == FirstIn(ns, ns[f].child, S)
<1>1. r = IF ~Dead(ns[f]) THEN Tree(ns, f)
          ELSE IF bad > 0 THEN Tree(ns, Freed)
          ELSE IF bad < 0 THEN Tree(ns, bad)
          ELSE Tree([ns EXCEPT ![f] = FreedNode], f)
  BY Zenon DEF free_data
<1>2. bad < 0 => bad \in {Freed, Hang}
  <2> HIDE DEF S
  <2>1. bad \in {Freed, Hang, NULL} \cup (LiveIn(ns) \cap S)
    BY TreeTypes, FirstInTyped, Zenon
  <2>2. \A n \in LiveIn(ns) \cup {NULL} : ~(n < 0)
    BY TreeTypes DEF LiveIn, NULL
  <2> HIDE DEF bad
  <2> QED BY <2>1, <2>2, Zenon
<1>3. Tree(ns, Freed).at = Freed /\ Tree(ns, bad).at = bad
  BY DEF Tree
<1> HIDE DEF r, bad
<1>4. FreeCases(r, ns, f)
  BY <1>1, <1>2, <1>3, Zenon DEF FreeCases, Put
<1> QED BY <1>4, Zenon DEF r

(* What free_data returns.                                                 *)
LEMMA FreeAt ==
  ASSUME NEW ns, IsTree(ns), NEW f \in 1 .. Len(ns)
  PROVE  free_data(ns, f).at \in {Freed, Hang, f}
<1> DEFINE r == free_data(ns, f)
<1>1. FreeCases(r, ns, f)
  BY FreeHow, Zenon
<1> HIDE DEF r
<1>2. r = Tree(ns, f) \/ r = Tree(Put(ns, f, FreedNode), f) => r.at = f
  BY DEF Tree
<1>3. r.at \in {Freed, Hang, f}
  BY <1>1, <1>2, Zenon DEF FreeCases
<1> QED BY <1>3, Zenon DEF r

(* The type of a structure that was freed.                                 *)
LEMMA FreedTyped ==
  ASSUME NEW m \in Nat
  PROVE  FreedNode \in NodeSet(m) /\ FreedNode.freed /\ ~FreedNode.dir
<1> DEFINE q == NewNode(0, FALSE, <<0, 0>>)
<1>1. q \in NodeSet(m) /\ ~q.dir
  BY DEF NewNode, NodeSet, NULL
<1>2. FreedNode = [q EXCEPT !.freed = TRUE]
  BY Zenon DEF FreedNode
<1> HIDE DEF q
<1> QED BY <1>1, <1>2 DEF NodeSet

(* Another number of links of f, and another number of openings.           *)
LinksPut(ns, f, x) == Put(ns, f, [ns[f] EXCEPT !.links = x])

OpensPut(ns, f, x) == Put(ns, f, [ns[f] EXCEPT !.opens = x])

IsLinksPut(b, ns, f, x) ==
  /\ IsTree(b) /\ Len(b) = Len(ns) /\ Grows(ns, b)
  /\ OnlyLinks(b[f], ns[f]) /\ b[f].links = x
  /\ \A i \in 1 .. Len(ns) : i # f => b[i] = ns[i]

(* A count of links is stored.                                             *)
LEMMA LinksPutFacts ==
  ASSUME NEW ns, IsTree(ns), NEW f \in 1 .. Len(ns), NEW x \in Nat
  PROVE  IsLinksPut(LinksPut(ns, f, x), ns, f, x)
<1> DEFINE q == [ns[f] EXCEPT !.links = x]
           b == LinksPut(ns, f, x)
<1>1. ns[f] \in NodeSet(Len(ns))
  BY TreeTypes, Zenon
<1>2. IsLinks(q, ns[f], Len(ns), x)
  BY <1>1, LinksChanged, Zenon
<1> HIDE DEF q
<1>3. q \in NodeSet(Len(ns)) /\ Kept(q, ns[f]) /\ q.opens = ns[f].opens
  BY <1>2, Zenon DEF OnlyLinks, IsLinks
<1>4. b = Put(ns, f, q)
  BY Zenon DEF LinksPut, q
<1>5. IsPut(b, ns, f, q) /\ Grows(ns, b)
  BY <1>3, <1>4, PutTyped, PutGrows, Zenon
<1> HIDE DEF b
<1>6. IsLinksPut(b, ns, f, x)
  BY <1>2, <1>5, Zenon DEF IsLinksPut, IsPut, IsLinks
<1> QED BY <1>6, Zenon DEF b

IsOpensPut(b, ns, f, x) ==
  /\ IsTree(b) /\ Len(b) = Len(ns)
  /\ OnlyOpens(b[f], ns[f]) /\ b[f].opens = x
  /\ \A i \in 1 .. Len(ns) : i # f => b[i] = ns[i]

(* A count of opens is stored.                                             *)
LEMMA OpensPutFacts ==
  ASSUME NEW ns, IsTree(ns), NEW f \in 1 .. Len(ns), NEW x \in Nat
  PROVE  IsOpensPut(OpensPut(ns, f, x), ns, f, x)
<1> DEFINE q == [ns[f] EXCEPT !.opens = x]
           b == OpensPut(ns, f, x)
<1>1. ns[f] \in NodeSet(Len(ns))
  BY TreeTypes, Zenon
<1>2. IsOpens(q, ns[f], Len(ns), x)
  BY <1>1, OpensChanged, Zenon
<1> HIDE DEF q
<1>3. q \in NodeSet(Len(ns))
  BY <1>2, Zenon DEF IsOpens
<1>4. b = Put(ns, f, q)
  BY Zenon DEF OpensPut, q
<1>5. IsPut(b, ns, f, q)
  BY <1>3, <1>4, PutTyped, Zenon
<1> HIDE DEF b
<1>6. IsOpensPut(b, ns, f, x)
  BY <1>2, <1>5, Zenon DEF IsOpensPut, IsPut, IsOpens
<1> QED BY <1>6, Zenon DEF b

(* What Unlinked does, by the place of the node.                           *)
Leads(ns, f) == {n \in DOMAIN ns : ns[n].next = f}

LessLinked(ns, f) == LinksPut(ns, f, Down(ns[f].links))

CutFirst(ns, f) == ChildPut(LessLinked(ns, f), ns[f].parent, ns[f].next)

CutAfter(ns, p, f) == LET c == LessLinked(ns, f) IN NextPut(c, p, c[f].next)

UnlinkCases(r, ns, f) ==
  LET p    == ns[f].parent
      prev == FirstIn(ns, ns[p].child, Leads(ns, f))
  IN  /\ p = NULL => r = Tree(ns, Null)
      /\ p # NULL /\ ns[p].freed => r = Tree(ns, Freed)
      /\ p # NULL /\ ~ns[p].freed /\ ns[p].child = f => r = free_data(CutFirst(ns, f), f)
      /\ p # NULL /\ ~ns[p].freed /\ ns[p].child # f
           => /\ prev < 0 => r = Tree(LessLinked(ns, f), prev)
              /\ prev = NULL => r = free_data(LessLinked(ns, f), f)
              /\ ~(prev < 0) /\ prev # NULL => r = free_data(CutAfter(ns, prev, f), f)

(* The cases of unlinking a file.                                          *)
LEMMA UnlinkHow ==
  ASSUME NEW ns, IsTree(ns), NEW f \in 1 .. Len(ns)
  PROVE  UnlinkCases(Unlinked(ns, f), ns, f)
<1> DEFINE r    == Unlinked(ns, f)
           p    == ns[f].parent
           c    == LessLinked(ns, f)
           prev == FirstIn(ns, ns[p].child, Leads(ns, f))
<1>1. r = IF p = NULL THEN Tree(ns, Null)
          ELSE IF ns[p].freed THEN Tree(ns, Freed)
          ELSE IF ns[p].child = f THEN free_data(ChildPut(c, p, ns[f].next), f)
          ELSE CutBehind(c, prev, f)
  BY Zenon DEF Unlinked, ChildPut, Put, LessLinked, LinksPut, Leads
<1>2. ChildPut(c, p, ns[f].next) = CutFirst(ns, f)
  BY Zenon DEF CutFirst
<1>3. CutBehind(c, prev, f) = IF prev < 0 THEN Tree(c, prev)
                              ELSE IF prev = NULL THEN free_data(c, f)
                              ELSE free_data(CutAfter(ns, prev, f), f)
  BY Zenon DEF CutBehind, CutAfter, NextPut, Put
<1> HIDE DEF r, p, c, prev
<1>4. ~(NULL < 0)
  BY DEF NULL
<1>5. UnlinkCases(r, ns, f)
  BY <1>1, <1>2, <1>3, <1>4, Zenon DEF UnlinkCases, p, c, prev
<1> QED BY <1>5, Zenon DEF r

(* The tree that free_data is called on when a node is unlinked.           *)
UnlinkGrows(r, ns, f) ==
  r.at \in {Null, Freed, Hang} \/ \E b : Grows(ns, b) /\ Len(b) = Len(ns) /\ r = free_data(b, f)

(* Unlinking changes pointers and counts of links only.                    *)
LEMMA UnlinkedGrows ==
  ASSUME NEW ns, IsTree(ns), NEW f \in 1 .. Len(ns)
  PROVE  UnlinkGrows(Unlinked(ns, f), ns, f)
<1> DEFINE r    == Unlinked(ns, f)
           p    == ns[f].parent
           c    == LessLinked(ns, f)
           prev == FirstIn(ns, ns[p].child, Leads(ns, f))
<1>1. UnlinkCases(r, ns, f)
  BY UnlinkHow, Zenon
<1>2. /\ ns[f].links \in Nat /\ ns[f].next \in 0 .. Len(ns) /\ p \in 0 .. Len(ns)
      /\ p # NULL => p \in 1 .. Len(ns) /\ ns[p].child \in 0 .. Len(ns)
  <2>1. ns[f].links \in Nat /\ ns[f].next \in 0 .. Len(ns) /\ p \in 0 .. Len(ns)
    BY TreeTypes, Zenon
  <2>2. p # NULL => p \in 1 .. Len(ns)
    BY <2>1 DEF NULL
  <2> QED BY <2>1, <2>2, TreeTypes, Zenon
<1>3. IsLinksPut(c, ns, f, Down(ns[f].links))
  BY <1>2, UpTyped, LinksPutFacts, Zenon DEF LessLinked
<1> HIDE DEF c, r
<1>4. IsTree(c) /\ Len(c) = Len(ns) /\ Grows(ns, c) /\ c[f].next = ns[f].next
  BY <1>3, Zenon DEF IsLinksPut, OnlyLinks
<1>5. ASSUME p # NULL PROVE Grows(ns, CutFirst(ns, f)) /\ Len(CutFirst(ns, f)) = Len(ns)
  <2>1. IsChildPut(CutFirst(ns, f), c, p, ns[f].next)
    BY <1>2, <1>4, <1>5, ChildPutFacts, Zenon DEF CutFirst, c
  <2>2. Grows(c, CutFirst(ns, f)) /\ Len(CutFirst(ns, f)) = Len(ns)
    BY <1>4, <2>1, Zenon DEF IsChildPut
  <2> QED BY <1>4, <2>2, GrowsOn, Zenon
<1>6. ASSUME NEW q \in 1 .. Len(ns) PROVE Grows(ns, CutAfter(ns, q, f)) /\ Len(CutAfter(ns, q, f)) = Len(ns)
  <2>1. IsNextPut(CutAfter(ns, q, f), c, q, c[f].next)
    BY <1>2, <1>4, <1>6, NextPutFacts, Zenon DEF CutAfter, c
  <2>2. Grows(c, CutAfter(ns, q, f)) /\ Len(CutAfter(ns, q, f)) = Len(ns)
    BY <1>4, <2>1, Zenon DEF IsNextPut
  <2> QED BY <1>4, <2>2, GrowsOn, Zenon
<1>7. p # NULL => (prev < 0 /\ prev \in {Freed, Hang}) \/ prev = NULL \/ prev \in 1 .. Len(ns)
  <2>1. p # NULL => prev \in {Freed, Hang, NULL} \cup (LiveIn(ns) \cap Leads(ns, f))
    BY <1>2, FirstInTyped, Zenon
  <2>2. Freed < 0 /\ Hang < 0
    BY DEF Freed, Hang
  <2>3. LiveIn(ns) \in SUBSET (1 .. Len(ns))
    BY TreeTypes, Zenon DEF LiveIn
  <2> HIDE DEF prev, p
  <2> QED BY <2>1, <2>2, <2>3, Zenon
<1>8. Tree(ns, Null).at = Null /\ Tree(ns, Freed).at = Freed /\ Tree(LessLinked(ns, f), prev).at = prev
  BY DEF Tree
<1>9. \/ r = Tree(ns, Null) \/ r = Tree(ns, Freed)
      \/ prev \in {Freed, Hang} /\ r = Tree(LessLinked(ns, f), prev)
      \/ p # NULL /\ r = free_data(CutFirst(ns, f), f)
      \/ r = free_data(c, f)
      \/ prev \in 1 .. Len(ns) /\ r = free_data(CutAfter(ns, prev, f), f)
  <2>1. \A n \in 1 .. Len(ns) : ~(n < 0)
    OBVIOUS
  <2>2. ~(NULL < 0)
    BY DEF NULL
  <2> QED BY <1>1, <1>7, <2>1, <2>2, Zenon DEF UnlinkCases, c
<1> HIDE DEF prev, p
<1>10. UnlinkGrows(r, ns, f)
  BY <1>4, <1>5, <1>6, <1>8, <1>9, Zenon DEF UnlinkGrows
<1> QED BY <1>10, Zenon DEF r

-----------------------------------------------------------------------------
(* Files that are open.                                                    *)

Users(of, f) == {d \in Descriptors : of[d] = f}

(* The count of a file is the number of descriptors that have it open.     *)
OpenSound(ns, of) ==
  /\ IsTree(ns) /\ of \in [Descriptors -> 0 .. Len(ns)]
  /\ \A f \in 1 .. Len(ns) : ~ns[f].freed /\ ~ns[f].dir => ns[f].opens = Cardinality(Users(of, f))

HandleSound(ns, ds) ==
  /\ ds \in [Handles -> [dir: 0 .. Len(ns), child: Nat]]
  /\ \A h \in Handles : ds[h].dir # NULL => ns[ds[h].dir].dir \/ ns[ds[h].dir].freed

(* Files that are open in of and live in a live in b as well.              *)
Stays(a, b, of) ==
  \A d \in Descriptors : of[d] # NULL /\ ~a[of[d]].freed /\ ~a[of[d]].dir
                           => ~b[of[d]].freed /\ ~b[of[d]].dir

UsersAre(U, of, f) ==
  /\ IsFiniteSet(U) /\ Cardinality(U) \in Nat /\ Cardinality(U) < USHRT
  /\ (Cardinality(U) = 0) <=> (U = {})
  /\ \A d \in Descriptors : of[d] # f => Cardinality(U) + 1 < USHRT /\ Cardinality(U \cup {d}) = Cardinality(U) + 1
  /\ \A d \in Descriptors : of[d] = f => Cardinality(U \ {d}) = Cardinality(U) - 1

(* Fewer descriptors than the count can tell apart have a file open.       *)
LEMMA UsersFacts ==
  ASSUME NEW of, NEW f
  PROVE  UsersAre(Users(of, f), of, f)
<1> DEFINE U == Users(of, f)
<1>1. IsFiniteSet(Descriptors) /\ IsFiniteSet(Handles) /\ U \in SUBSET Descriptors
  BY NamespaceAssumption, Zenon DEF Users
<1>2. USHRT \in Nat /\ Cardinality(Descriptors) + Cardinality(Handles) < USHRT
  BY NamespaceAssumption
<1>3. /\ Cardinality(Descriptors) \in Nat /\ Cardinality(Handles) \in Nat
      /\ IsFiniteSet(U) /\ Cardinality(U) \in Nat /\ Cardinality(U) <= Cardinality(Descriptors)
  BY <1>1, FS_CardinalityType, FS_Subset, Zenon
<1>4. (Cardinality(U) = 0) <=> (U = {})
  BY <1>3, FS_EmptySet, Zenon
<1>5. Cardinality(U) < USHRT
  BY <1>2, <1>3
<1>6. ASSUME NEW d \in Descriptors, of[d] # f
      PROVE  Cardinality(U) + 1 < USHRT /\ Cardinality(U \cup {d}) = Cardinality(U) + 1
  <2>1. d \notin U /\ U \cup {d} \in SUBSET Descriptors
    BY <1>1, <1>6, Zenon DEF Users
  <2> HIDE DEF U
  <2>2. Cardinality(U \cup {d}) = Cardinality(U) + 1
    BY <1>3, <2>1, FS_AddElement, Zenon
  <2>3. Cardinality(U \cup {d}) <= Cardinality(Descriptors)
    BY <1>1, <2>1, FS_Subset, Zenon
  <2> QED BY <1>2, <1>3, <2>2, <2>3
<1>7. ASSUME NEW d \in Descriptors, of[d] = f PROVE Cardinality(U \ {d}) = Cardinality(U) - 1
  <2>1. d \in U
    BY <1>7, Zenon DEF Users
  <2> HIDE DEF U
  <2> QED BY <1>3, <2>1, FS_RemoveElement, Zenon
<1> HIDE DEF U
<1>8. UsersAre(U, of, f)
  BY <1>3, <1>4, <1>5, <1>6, <1>7, Zenon DEF UsersAre
<1> QED BY <1>8, Zenon DEF U

(* A tree that grows stays sound.                                          *)
LEMMA GrowsSound ==
  ASSUME NEW ns, NEW of, OpenSound(ns, of), NEW b, Grows(ns, b)
  PROVE  OpenSound(b, of) /\ Stays(ns, b, of)
<1>1. IsTree(ns) /\ IsTree(b) /\ of \in [Descriptors -> 0 .. Len(ns)]
  BY Zenon DEF OpenSound, Grows
<1>2. Len(ns) \in Nat /\ Len(b) \in Nat /\ Len(ns) <= Len(b)
  BY <1>1, TreeTypes, Zenon DEF Grows
<1>3. /\ 0 .. Len(ns) \subseteq 0 .. Len(b)
      /\ \A f \in 1 .. Len(b) : f \in 1 .. Len(ns) \/ (f \in Len(ns) + 1 .. Len(b) /\ f \notin 0 .. Len(ns))
      /\ \A f \in 0 .. Len(ns) : f # NULL => f \in 1 .. Len(ns)
  BY <1>2 DEF NULL
<1>4. of \in [Descriptors -> 0 .. Len(b)]
  BY <1>1, <1>3, Zenon
<1>5. ASSUME NEW f \in 1 .. Len(b), ~b[f].freed, ~b[f].dir
      PROVE  b[f].opens = Cardinality(Users(of, f))
  <2>1. CASE f \in 1 .. Len(ns)
    BY <1>5, <2>1, Zenon DEF Grows, Kept, OpenSound
  <2>2. CASE f \in Len(ns) + 1 .. Len(b) /\ f \notin 0 .. Len(ns)
    <3>1. b[f].opens = 0
      BY <1>5, <2>2, Zenon DEF Grows
    <3>2. Users(of, f) = {}
      BY <1>1, <2>2, Zenon DEF Users
    <3> QED BY <3>1, <3>2, UsersFacts, Zenon DEF UsersAre
  <2> QED BY <1>3, <2>1, <2>2, Zenon
<1>6. Stays(ns, b, of)
  BY <1>1, <1>3, Zenon DEF Stays, Grows, Kept
<1> QED BY <1>1, <1>4, <1>5, <1>6, Zenon DEF OpenSound

(* Growth keeps the handles of directories.                                *)
LEMMA GrowsHandles ==
  ASSUME NEW ns, IsTree(ns), NEW ds, HandleSound(ns, ds), NEW b, Grows(ns, b)
  PROVE  HandleSound(b, ds)
<1>1. Len(ns) \in Nat /\ Len(b) \in Nat /\ Len(ns) <= Len(b) /\ IsTree(b)
  BY TreeTypes, Zenon DEF Grows
<1>2. \A f \in 0 .. Len(ns) : f \in 0 .. Len(b) /\ (f # NULL => f \in 1 .. Len(ns))
  BY <1>1 DEF NULL
<1>3. \A r \in [dir: 0 .. Len(ns), child: Nat] : r \in [dir: 0 .. Len(b), child: Nat] /\ r.dir \in 0 .. Len(ns)
  BY <1>2
<1>4. ds \in [Handles -> [dir: 0 .. Len(b), child: Nat]] /\ \A h \in Handles : ds[h].dir \in 0 .. Len(ns)
  BY <1>3, Zenon DEF HandleSound
<1>5. \A h \in Handles : ds[h].dir # NULL => b[ds[h].dir].dir \/ b[ds[h].dir].freed
  BY <1>2, <1>4, Zenon DEF HandleSound, Grows, Kept
<1> QED BY <1>4, <1>5, Zenon DEF HandleSound

(* What free_data does to a sound tree: a file that it frees is not open.  *)
FreeKeeps(r, ns, of, ds) ==
  /\ OpenSound(r.ns, of) /\ Stays(ns, r.ns, of) /\ Len(r.ns) = Len(ns)
  /\ HandleSound(ns, ds) => HandleSound(r.ns, ds)

(* A file that is freed was not open.                                      *)
LEMMA FreeSound ==
  ASSUME NEW ns, NEW of, OpenSound(ns, of), NEW f \in 1 .. Len(ns), NEW ds,
         NEW r, r = free_data(ns, f), ~(r.at < 0)
  PROVE  FreeKeeps(r, ns, of, ds)
<1>1. IsTree(ns) /\ of \in [Descriptors -> 0 .. Len(ns)]
  BY Zenon DEF OpenSound
<1>2. FreeCases(r, ns, f)
  BY <1>1, FreeHow, Zenon
<1>3. CASE r = Tree(ns, f)
  <2>1. r.ns = ns
    BY <1>3, TreeFields, Zenon
  <2> QED BY <2>1, Zenon DEF FreeKeeps, Stays
<1>4. CASE r = Tree(Put(ns, f, FreedNode), f) /\ Dead(ns[f])
  <2> DEFINE b == Put(ns, f, FreedNode)
  <2>1. r.ns = b
    BY <1>4, TreeFields, Zenon
  <2>2. FreedNode \in NodeSet(Len(ns)) /\ FreedNode.freed /\ ~FreedNode.dir
    BY <1>1, TreeTypes, FreedTyped, Zenon
  <2>3. IsPut(b, ns, f, FreedNode)
    BY <1>1, <2>2, PutTyped, Zenon
  <2> HIDE DEF b
  <2>4. IsTree(b) /\ Len(b) = Len(ns) /\ b[f].freed /\ \A i \in 1 .. Len(ns) : i # f => b[i] = ns[i]
    BY <2>2, <2>3, Zenon DEF IsPut
  <2>5. OpenSound(b, of)
    BY <1>1, <2>4, Zenon DEF OpenSound
  <2>6. \A n \in 0 .. Len(ns) : n # NULL => n \in 1 .. Len(ns)
    BY <1>1, TreeTypes DEF NULL
  <2>7. Stays(ns, b, of)
    <3> SUFFICES ASSUME NEW d \in Descriptors, of[d] # NULL, ~ns[of[d]].freed, ~ns[of[d]].dir
                 PROVE  ~b[of[d]].freed /\ ~b[of[d]].dir
      BY Zenon DEF Stays
    <3>1. of[d] \in 1 .. Len(ns)
      BY <1>1, <2>6, Zenon
    <3>2. of[d] # f
      <4> SUFFICES ASSUME of[d] = f PROVE FALSE
        BY Zenon
      <4>1. ns[f].opens = Cardinality(Users(of, f)) /\ ns[f].opens = 0
        BY <1>4, Zenon DEF OpenSound, Dead
      <4>2. Users(of, f) = {}
        BY <4>1, UsersFacts, Zenon DEF UsersAre
      <4> QED BY <4>2, Zenon DEF Users
    <3> QED BY <3>1, <3>2, <2>4, Zenon
  <2>8. ASSUME HandleSound(ns, ds) PROVE HandleSound(b, ds)
    <3>1. \A h \in Handles : ds[h].dir \in 0 .. Len(ns)
      BY <2>8 DEF HandleSound
    <3> QED BY <2>4, <2>6, <2>8, <3>1, Zenon DEF HandleSound
  <2> QED BY <2>1, <2>4, <2>5, <2>7, <2>8, Zenon DEF FreeKeeps
<1>5. Freed < 0 /\ Hang < 0
  BY DEF Freed, Hang
<1> QED BY <1>2, <1>3, <1>4, <1>5, Zenon DEF FreeCases

(* One more descriptor has f open.                                         *)
MoreOpen(ns, f) == OpensPut(ns, f, Up(ns[f].opens))

LessOpen(ns, f) == OpensPut(ns, f, Down(ns[f].opens))

(* Only how often f is open may have changed.                              *)
OpensOf(b, ns, f) ==
  /\ IsTree(b) /\ Len(b) = Len(ns)
  /\ \A i \in 1 .. Len(ns) : Kept(b[i], ns[i]) /\ (i # f => b[i] = ns[i])

(* Opening and closing change one count of opens.                          *)
LEMMA OpensOnly ==
  ASSUME NEW ns, IsTree(ns), NEW f \in 1 .. Len(ns)
  PROVE  OpensOf(MoreOpen(ns, f), ns, f) /\ OpensOf(LessOpen(ns, f), ns, f)
<1>1. ns[f].opens \in Nat
  BY TreeTypes, Zenon
<1>2. ASSUME NEW x \in Nat PROVE OpensOf(OpensPut(ns, f, x), ns, f)
  <2> DEFINE b == OpensPut(ns, f, x)
  <2>1. IsOpensPut(b, ns, f, x)
    BY OpensPutFacts, Zenon
  <2> HIDE DEF b
  <2>2. \A i \in 1 .. Len(ns) : b[i] = ns[i] => Kept(b[i], ns[i])
    BY Zenon DEF Kept
  <2>3. OpensOf(b, ns, f)
    BY <2>1, <2>2, Zenon DEF OpensOf, IsOpensPut, OnlyOpens
  <2> QED BY <2>3, Zenon DEF b
<1> QED BY <1>1, <1>2, UpTyped, Zenon DEF MoreOpen, LessOpen

(* Such a change keeps files open and handles sound.                       *)
LEMMA OpensOfKeeps ==
  ASSUME NEW ns, IsTree(ns), NEW f \in 1 .. Len(ns), NEW b, OpensOf(b, ns, f)
  PROVE  /\ \A of \in [Descriptors -> 0 .. Len(ns)] : Stays(ns, b, of)
         /\ \A ds : HandleSound(ns, ds) => HandleSound(b, ds)
<1>1. \A n \in 0 .. Len(ns) : n # NULL => n \in 1 .. Len(ns)
  BY TreeTypes DEF NULL
<1>2. ASSUME NEW of \in [Descriptors -> 0 .. Len(ns)] PROVE Stays(ns, b, of)
  BY <1>1, Zenon DEF Stays, OpensOf, Kept
<1>3. ASSUME NEW ds, HandleSound(ns, ds) PROVE HandleSound(b, ds)
  <2>1. \A h \in Handles : ds[h].dir \in 0 .. Len(ns)
    BY <1>3 DEF HandleSound
  <2> QED BY <1>1, <1>3, <2>1, Zenon DEF HandleSound, OpensOf, Kept
<1> QED BY <1>2, <1>3, Zenon

(* A descriptor is given to a file, which counts it.                       *)
LEMMA MoreOpenSound ==
  ASSUME NEW ns, NEW of, OpenSound(ns, of), NEW f \in 1 .. Len(ns),
         NEW m \in Descriptors, of[m] = NULL
  PROVE  OpenSound(MoreOpen(ns, f), [of EXCEPT ![m] = f])
<1> DEFINE b == MoreOpen(ns, f)
           o == [of EXCEPT ![m] = f]
<1>1. IsTree(ns) /\ of \in [Descriptors -> 0 .. Len(ns)]
  BY Zenon DEF OpenSound
<1>2. IsOpensPut(b, ns, f, Up(ns[f].opens))
  BY <1>1, TreeTypes, UpTyped, OpensPutFacts, Zenon DEF MoreOpen
<1>3. f \in 0 .. Len(ns) /\ f # NULL /\ ns[f].opens \in Nat
  BY <1>1, TreeTypes, Zenon DEF NULL
<1>4. o \in [Descriptors -> 0 .. Len(ns)] /\ o[m] = f /\ \A d \in Descriptors : d # m => o[d] = of[d]
  BY <1>1, <1>3, Zenon
<1> HIDE DEF b, o
<1>5. ASSUME NEW i \in 1 .. Len(ns), ~b[i].freed, ~b[i].dir
      PROVE  b[i].opens = Cardinality(Users(o, i))
  <2>1. CASE i # f
    <3>1. i # NULL
      BY <1>1, TreeTypes, Zenon DEF NULL
    <3>2. Users(o, i) = Users(of, i)
      BY <1>4, <2>1, <3>1, Zenon DEF Users
    <3>3. b[i] = ns[i]
      BY <1>2, <2>1, Zenon DEF IsOpensPut
    <3> QED BY <1>5, <3>2, <3>3, Zenon DEF OpenSound
  <2>2. CASE i = f
    <3>1. Users(o, f) = Users(of, f) \cup {m} /\ of[m] # f
      BY <1>3, <1>4, Zenon DEF Users
    <3>2. ns[f].opens = Cardinality(Users(of, f)) /\ b[f].opens = Up(ns[f].opens)
      BY <1>2, <1>5, <2>2, Zenon DEF IsOpensPut, OnlyOpens, Kept, OpenSound
    <3>3. ns[f].opens + 1 < USHRT /\ Cardinality(Users(o, f)) = ns[f].opens + 1
      <4> DEFINE U == Users(of, f)
      <4>1. UsersAre(U, of, f)
        BY UsersFacts, Zenon
      <4> HIDE DEF U
      <4>2. Cardinality(U) + 1 < USHRT /\ Cardinality(U \cup {m}) = Cardinality(U) + 1
        BY <3>1, <4>1, Zenon DEF UsersAre
      <4> QED BY <3>1, <3>2, <4>2, Zenon DEF U
    <3>5. Up(ns[f].opens) = ns[f].opens + 1
      BY <1>3, <3>3, UpPlain, Zenon
    <3> QED BY <2>2, <3>2, <3>3, <3>5, Zenon
  <2> QED BY <2>1, <2>2, Zenon
<1>6. OpenSound(b, o)
  BY <1>2, <1>4, <1>5, Zenon DEF OpenSound, IsOpensPut
<1> QED BY <1>6, Zenon DEF b, o

(* A descriptor is taken from a file, which counts it.                     *)
LEMMA LessOpenSound ==
  ASSUME NEW ns, NEW of, OpenSound(ns, of), NEW f \in 1 .. Len(ns),
         NEW m \in Descriptors, of[m] = f
  PROVE  OpenSound(LessOpen(ns, f), [of EXCEPT ![m] = NULL])
<1> DEFINE b == LessOpen(ns, f)
           o == [of EXCEPT ![m] = NULL]
<1>1. IsTree(ns) /\ of \in [Descriptors -> 0 .. Len(ns)]
  BY Zenon DEF OpenSound
<1>2. IsOpensPut(b, ns, f, Down(ns[f].opens))
  BY <1>1, TreeTypes, UpTyped, OpensPutFacts, Zenon DEF LessOpen
<1>3. NULL \in 0 .. Len(ns) /\ f # NULL /\ ns[f].opens \in Nat
  BY <1>1, TreeTypes DEF NULL
<1>4. o \in [Descriptors -> 0 .. Len(ns)] /\ o[m] = NULL /\ \A d \in Descriptors : d # m => o[d] = of[d]
  BY <1>1, <1>3, Zenon
<1> HIDE DEF b, o
<1>5. ASSUME NEW i \in 1 .. Len(ns), ~b[i].freed, ~b[i].dir
      PROVE  b[i].opens = Cardinality(Users(o, i))
  <2>0. i # NULL
    BY <1>1, TreeTypes, Zenon DEF NULL
  <2>1. CASE i # f
    <3>2. Users(o, i) = Users(of, i)
      BY <1>4, <2>0, <2>1, Zenon DEF Users
    <3>3. b[i] = ns[i]
      BY <1>2, <2>1, Zenon DEF IsOpensPut
    <3> QED BY <1>5, <3>2, <3>3, Zenon DEF OpenSound
  <2>2. CASE i = f
    <3>1. Users(o, f) = Users(of, f) \ {m}
      BY <1>3, <1>4, Zenon DEF Users
    <3>2. ns[f].opens = Cardinality(Users(of, f)) /\ b[f].opens = Down(ns[f].opens)
      BY <1>2, <1>5, <2>2, Zenon DEF IsOpensPut, OnlyOpens, Kept, OpenSound
    <3>3. ns[f].opens < USHRT /\ Cardinality(Users(o, f)) = ns[f].opens - 1 /\ Cardinality(Users(o, f)) \in Nat
      <4> DEFINE U == Users(of, f)
      <4>1. UsersAre(U, of, f) /\ UsersAre(Users(o, f), o, f)
        BY UsersFacts, Zenon
      <4> HIDE DEF U
      <4>2. Cardinality(U) < USHRT /\ Cardinality(U \ {m}) = Cardinality(U) - 1 /\ Cardinality(Users(o, f)) \in Nat
        BY <4>1, Zenon DEF UsersAre
      <4> QED BY <3>1, <3>2, <4>2, Zenon DEF U
    <3>4. ns[f].opens > 0
      BY <1>3, <3>3
    <3>5. Down(ns[f].opens) = ns[f].opens - 1
      BY <1>3, <3>3, <3>4, DownPlain, Zenon
    <3> QED BY <2>2, <3>2, <3>3, <3>5, Zenon
  <2> QED BY <2>1, <2>2, Zenon
<1>6. OpenSound(b, o)
  BY <1>2, <1>4, <1>5, Zenon DEF OpenSound, IsOpensPut
<1> QED BY <1>6, Zenon DEF b, o

(* The count of a directory says nothing about files.                      *)
LEMMA DirOpensSound ==
  ASSUME NEW ns, NEW of, OpenSound(ns, of), NEW f \in 1 .. Len(ns), ns[f].dir,
         NEW b, OpensOf(b, ns, f)
  PROVE  OpenSound(b, of)
BY Zenon DEF OpenSound, OpensOf, Kept

(* What find_file returns.                                                 *)
LEMMA FindTyped ==
  ASSUME NEW ns, IsTree(ns), NEW path \in Seq(Components)
  PROVE  find_file(ns, path) \in Places(ns)
<1> DEFINE r == find_file(ns, path)
<1>1. \E w : IsWay(w, ns, path) /\ r = w[Len(path)]
  BY FindByWay, Zenon
<1> HIDE DEF r
<1>2. PICK w : IsWay(w, ns, path) /\ r = w[Len(path)]
  BY <1>1, Zenon
<1>3. Len(path) \in 0 .. Len(path)
  OBVIOUS
<1>4. r \in Places(ns)
  BY <1>2, <1>3, Zenon DEF IsWay
<1> QED BY <1>4, Zenon DEF r

(* A place above zero is a file.                                           *)
LEMMA PlacesFacts ==
  ASSUME NEW ns, IsTree(ns), NEW n \in Places(ns)
  PROVE  n \in Int /\ (n > 0 => n \in 1 .. Len(ns)) /\ ROOT \in 1 .. Len(ns)
BY TreeTypes DEF Places, Confused, ROOT

(* The parts of a path.                                                    *)
LEMMA PathFacts ==
  ASSUME NEW path \in Paths
  PROVE  /\ path \in Seq(Components) /\ Front(path) \in Seq(Components)
         /\ path # <<>> => Last(path) \in Components /\ <<Last(path)>> \in Seq(Components)
<1>1. path \in Seq(Components)
  BY NamespaceAssumption, Zenon DEF Components
<1> HIDE DEF Components
<1>2. Front(path) \in Seq(Components)
  BY <1>1 DEF Front
<1>3. path # <<>> => Last(path) \in Components
  BY <1>1 DEF Last
<1> QED BY <1>1, <1>2, <1>3

-----------------------------------------------------------------------------
(* The invariant of all clients, and that files stay open.                 *)

OpenInv == OpenSound(node, open_files) /\ HandleSound(node, dirs)

OpenNext == OpenSound(node', open_files') /\ HandleSound(node', dirs')

(* What FilesStayOpen says of a step.                                      *)
FilesStay ==
  \A d \in Descriptors :
    LET f == open_files[d]
    IN  f # NULL /\ ~node[f].freed /\ ~node[f].dir /\ open_files'[d] = f => ~node'[f].freed

(* Steps that leave the tree and the descriptors alone.                    *)
LEMMA NothingOpened ==
  ASSUME OpenInv, UNCHANGED <<node, open_files>>, HandleSound(node, dirs')
  PROVE  OpenNext /\ FilesStay
BY Zenon DEF OpenInv, OpenNext, FilesStay

(* Steps that leave everything alone.                                      *)
LEMMA SameOpen ==
  ASSUME OpenInv, UNCHANGED <<node, open_files, dirs>>
  PROVE  OpenNext /\ FilesStay
BY Zenon DEF OpenInv, OpenNext, FilesStay

(* Calls that fail.                                                        *)
LEMMA FailsOpen ==
  ASSUME OpenInv, NEW c, Fails(c) \/ Crashes(c)
  PROVE  OpenNext /\ FilesStay
<1>1. UNCHANGED <<node, open_files, dirs>>
  BY Zenon DEF Fails, Crashes
<1> QED BY <1>1, SameOpen, Zenon

(* Open files stay if they stay in the tree.                               *)
LEMMA StaysFiles ==
  ASSUME Stays(node, node', open_files)
  PROVE  FilesStay
BY Zenon DEF Stays, FilesStay

(* Steps that only add to the tree.                                        *)
LEMMA GrownOpen ==
  ASSUME OpenInv, Grows(node, node'), UNCHANGED <<open_files, dirs>>
  PROVE  OpenNext /\ FilesStay
<1>1. OpenSound(node, open_files) /\ HandleSound(node, dirs) /\ IsTree(node)
  BY Zenon DEF OpenInv, OpenSound
<1>2. OpenSound(node', open_files) /\ Stays(node, node', open_files)
  BY <1>1, GrowsSound, Zenon
<1>3. HandleSound(node', dirs)
  BY <1>1, GrowsHandles, Zenon
<1> QED BY <1>2, <1>3, StaysFiles, Zenon DEF OpenNext

(* The end of dandelion_open, for a file that was found or made.           *)
LEMMA OpenNodeOpen ==
  ASSUME OpenInv, NEW ns, Grows(node, ns), NEW f \in 1 .. Len(ns), OpenNode(ns, f)
  PROVE  OpenNext /\ FilesStay
<1> DEFINE free == {d \in Descriptors : open_files[d] = NULL}
           m    == Min(free)
<1>1. CASE node' = ns /\ UNCHANGED <<open_files, dirs>>
  BY <1>1, GrownOpen, Zenon
<1>2. CASE /\ free # {} /\ node' = [ns EXCEPT ![f].opens = Up(@)]
           /\ open_files' = [open_files EXCEPT ![m] = f] /\ UNCHANGED dirs
  <2>1. free \in SUBSET Nat
    BY NamespaceAssumption, Zenon
  <2>2. m \in free
    <3> HIDE DEF free
    <3> QED BY <1>2, <2>1, MinFacts, Zenon
  <2>3. m \in Descriptors /\ open_files[m] = NULL
    BY <2>2, Zenon
  <2> HIDE DEF m, free
  <2>4. OpenSound(node, open_files) /\ HandleSound(node, dirs) /\ IsTree(node) /\ IsTree(ns)
    BY Zenon DEF OpenInv, OpenSound, Grows
  <2>5. OpenSound(ns, open_files) /\ Stays(node, ns, open_files) /\ HandleSound(ns, dirs)
    BY <2>4, GrowsSound, GrowsHandles, Zenon
  <2>6. node' = MoreOpen(ns, f)
    BY <1>2, Zenon DEF MoreOpen, OpensPut, Put
  <2>7. OpenSound(node', open_files')
    <3>1. OpenSound(MoreOpen(ns, f), [open_files EXCEPT ![m] = f])
      BY <2>3, <2>5, MoreOpenSound, Zenon
    <3>2. open_files' = [open_files EXCEPT ![m] = f]
      BY <1>2, Zenon
    <3> QED BY <2>6, <3>1, <3>2, Zenon
  <2>8. OpensOf(node', ns, f)
    BY <2>4, <2>6, OpensOnly, Zenon
  <2>9. Stays(ns, node', open_files) /\ HandleSound(node', dirs)
    <3>1. open_files \in [Descriptors -> 0 .. Len(ns)]
      BY <2>5, Zenon DEF OpenSound
    <3> QED BY <2>4, <2>5, <2>8, <3>1, OpensOfKeeps, Zenon
  <2>10. FilesStay
    BY <2>5, <2>9, Zenon DEF Stays, FilesStay
  <2> QED BY <1>2, <2>7, <2>9, <2>10, Zenon DEF OpenNext
<1> QED BY <1>1, <1>2, Zenon DEF OpenNode

(* dandelion_open with the file it has linked.                             *)
LEMMA OpenMadeOpen ==
  ASSUME OpenInv, NEW made, NEW with, Grows(node, with), Grows(node, made.ns),
         made.at > 0 => made.at \in 1 .. Len(made.ns), OpenMade(made, with)
  PROVE  OpenNext /\ FilesStay
<1>1. CASE Crashes(made.at)
  BY <1>1, FailsOpen, Zenon
<1>2. CASE node' = with /\ UNCHANGED <<open_files, dirs>>
  BY <1>2, GrownOpen, Zenon
<1>3. CASE made.at > 0 /\ OpenNode(made.ns, made.at)
  BY <1>3, OpenNodeOpen, Zenon
<1> QED BY <1>1, <1>2, <1>3, Zenon DEF OpenMade

(* dandelion_open with a new file.                                         *)
LEMMA CreateOpen ==
  ASSUME OpenInv, NEW way, Grows(node, way.ns), way.at > 0 => way.at \in 1 .. Len(way.ns),
         NEW file \in NodeSet(Len(way.ns)), file.opens = 0, CreateAndOpen(way, file)
  PROVE  OpenNext /\ FilesStay
<1>1. CASE Crashes(way.at)
  BY <1>1, FailsOpen, Zenon
<1>2. CASE node' = way.ns /\ UNCHANGED <<open_files, dirs>>
  BY <1>2, GrownOpen, Zenon
<1> DEFINE with == Append(way.ns, file)
           made == link_file_to_folder(with, way.at, Len(with))
<1>3. CASE way.at > 0 /\ OpenMade(made, with)
  <2>1. IsTree(node) /\ IsTree(way.ns)
    BY Zenon DEF OpenInv, OpenSound, Grows
  <2>2. IsAppend(with, way.ns, file) /\ Grows(way.ns, with)
    BY <2>1, AppendFacts, AppendGrows, Zenon
  <2> HIDE DEF with
  <2>3. IsTree(with) /\ Len(with) = Len(way.ns) + 1 /\ Len(way.ns) \in Nat /\ way.at \in 1 .. Len(way.ns)
    BY <1>3, <2>1, <2>2, TreeTypes, Zenon DEF IsAppend
  <2>4. way.at \in 1 .. Len(with) /\ Len(with) \in 1 .. Len(with)
    BY <2>3
  <2>5. Grows(with, made.ns) /\ Len(made.ns) = Len(with) /\ made.at \in {Freed, Hang, NULL, Len(with)}
    BY <2>3, <2>4, LinkGrows, Zenon
  <2> HIDE DEF made
  <2>6. Grows(node, with) /\ Grows(node, made.ns)
    BY <2>1, <2>2, <2>3, <2>5, GrowsOn, Zenon
  <2>7. made.at > 0 => made.at \in 1 .. Len(made.ns)
    BY <2>4, <2>5 DEF Freed, Hang, NULL
  <2> QED BY <1>3, <2>6, <2>7, OpenMadeOpen, Zenon
<1> QED BY <1>1, <1>2, <1>3, Zenon DEF CreateAndOpen

(* What create_directories makes, for any path.                            *)
LEMMA CreateWay ==
  ASSUME NEW ns, IsTree(ns), NEW start \in 1 .. Len(ns), NEW path \in Seq(Components),
         NEW counts \in Leftovers, NEW filled,
         NEW r, r = create_directories(ns, start, path, counts, filled)
  PROVE  Grows(ns, r.ns) /\ r.at \in Places(r.ns) /\ (r.at > 0 => r.at \in 1 .. Len(r.ns))
<1>1. counts \in Nat \X Nat
  BY NamespaceAssumption, Zenon
<1>2. r \in Grown(ns)
  BY <1>1, CreateGrows, Zenon
<1>3. Grows(ns, r.ns) /\ r.at \in Places(r.ns) /\ IsTree(r.ns)
  BY <1>2, Zenon DEF Grown, Grows
<1> QED BY <1>3, PlacesFacts, Zenon

(* Every step of dandelion_open.                                           *)
LEMMA OpenOpen ==
  ASSUME OpenInv, NEW path \in Paths, NEW creat, NEW excl, dandelion_open(path, creat, excl)
  PROVE  OpenNext /\ FilesStay
<1> DEFINE found == find_file(node, path)
<1>1. IsTree(node) /\ path \in Seq(Components) /\ Front(path) \in Seq(Components) /\ ROOT \in 1 .. Len(node)
  <2>1. IsTree(node)
    BY Zenon DEF OpenInv, OpenSound
  <2> QED BY <2>1, PathFacts, PlacesFacts, FindTyped, Zenon
<1>2. found > 0 => found \in 1 .. Len(node)
  BY <1>1, FindTyped, PlacesFacts, Zenon
<1>3. \/ Crashes(found) \/ Fails(EEXIST) \/ Fails(ENOENT)
      \/ found = NULL /\ \E tail \in Tails, counts \in Leftovers, filled \in Filled :
           CreateAndOpen(create_directories(node, ROOT, Front(path), counts, filled),
                         NewNode(Stored(Last(path), tail), FALSE, <<0, 0>>))
      \/ found > 0 /\ OpenNode(node, found)
  BY Zenon DEF dandelion_open
<1>4. CASE found > 0 /\ OpenNode(node, found)
  <2> HIDE DEF found
  <2>1. Grows(node, node)
    BY <1>1, GrowsSelf, Zenon
  <2> QED BY <1>2, <1>4, <2>1, OpenNodeOpen, Zenon
<1>5. ASSUME found = NULL, NEW tail \in Tails, NEW counts \in Leftovers, NEW filled \in Filled,
             CreateAndOpen(create_directories(node, ROOT, Front(path), counts, filled),
                           NewNode(Stored(Last(path), tail), FALSE, <<0, 0>>))
      PROVE  OpenNext /\ FilesStay
  <2> DEFINE way  == create_directories(node, ROOT, Front(path), counts, filled)
             file == NewNode(Stored(Last(path), tail), FALSE, <<0, 0>>)
  <2>1. Grows(node, way.ns) /\ (way.at > 0 => way.at \in 1 .. Len(way.ns))
    BY <1>1, CreateWay, Zenon
  <2>2. path # <<>>
    <3> SUFFICES ASSUME path = <<>> PROVE FALSE
      BY Zenon
    <3>1. \E w : IsWay(w, node, path) /\ found = w[Len(path)]
      BY <1>1, FindByWay, Zenon
    <3>2. Len(path) = 0
      OBVIOUS
    <3>3. found = ROOT
      BY <3>1, <3>2, Zenon DEF IsWay
    <3> QED BY <1>5, <3>3 DEF ROOT, NULL
  <2>3. Stored(Last(path), tail) \in Int
    <3>1. Last(path) \in Components
      BY <2>2, PathFacts, Zenon
    <3>2. Names \subseteq Nat /\ tail \in 0 .. 1
      BY NamespaceAssumption, Zenon
    <3>3. Last(path) \in Int
      <4>1. Last(path) \in Names \/ Last(path) = DOT \/ Last(path) = DOTDOT
        BY <3>1, Zenon DEF Components
      <4>2. DOT \in Int /\ DOTDOT \in Int /\ \A x \in Names : x \in Int
        BY <3>2 DEF DOT, DOTDOT
      <4> QED BY <4>1, <4>2, Zenon
    <3> QED BY <3>2, <3>3 DEF Stored
  <2>4. Len(way.ns) \in Nat
    BY <2>1, TreeTypes, Zenon DEF Grows
  <2>5. file \in NodeSet(Len(way.ns)) /\ file.opens = 0
    <3> HIDE DEF way
    <3>1. IsNew(file, Len(way.ns), Stored(Last(path), tail), FALSE, 0, 0)
      BY <2>3, <2>4, FileTyped, Zenon
    <3> QED BY <3>1, Zenon DEF IsNew
  <2> HIDE DEF way, file
  <2>6. CreateAndOpen(way, file)
    BY <1>5, Zenon DEF way, file
  <2> QED BY <2>1, <2>5, <2>6, CreateOpen, Zenon
<1> HIDE DEF found
<1>6. CASE Crashes(found) \/ Fails(EEXIST) \/ Fails(ENOENT)
  BY <1>6, FailsOpen, Zenon
<1> QED BY <1>3, <1>4, <1>5, <1>6, Zenon

(* Every step of dandelion_close.                                          *)
LEMMA CloseOpen ==
  ASSUME OpenInv, NEW d \in Descriptors, dandelion_close(d)
  PROVE  OpenNext /\ FilesStay
<1> DEFINE f == open_files[d]
           c == [node EXCEPT ![f].opens = Down(@)]
           r == free_data(c, f)
           o == [open_files EXCEPT ![d] = NULL]
<1>1. OpenSound(node, open_files) /\ HandleSound(node, dirs) /\ IsTree(node)
      /\ open_files \in [Descriptors -> 0 .. Len(node)]
  BY Zenon DEF OpenInv, OpenSound
<1>2. \/ Fails(EBADF) \/ Crashes(Freed) \/ Crashes(r.at)
      \/ f # NULL /\ r.at > 0 /\ node' = r.ns /\ open_files' = o /\ UNCHANGED dirs
  BY Zenon DEF dandelion_close
<1>3. CASE f # NULL /\ r.at > 0 /\ node' = r.ns /\ open_files' = o /\ UNCHANGED dirs
  <2>1. f \in 1 .. Len(node)
    <3>1. f \in 0 .. Len(node) /\ f # NULL
      BY <1>1, <1>3, Zenon
    <3> HIDE DEF f
    <3> QED BY <3>1 DEF NULL
  <2>2. c = LessOpen(node, f)
    BY Zenon DEF LessOpen, OpensPut, Put
  <2>3. OpenSound(LessOpen(node, f), o)
    BY <1>1, <2>1, LessOpenSound, Zenon
  <2> HIDE DEF c, f, o
  <2>4. OpensOf(c, node, f)
    BY <1>1, <2>1, <2>2, OpensOnly, Zenon
  <2>5. HandleSound(c, dirs) /\ Stays(node, c, open_files)
    BY <1>1, <2>1, <2>4, OpensOfKeeps, Zenon
  <2>6. OpenSound(c, o) /\ f \in 1 .. Len(c)
    BY <2>1, <2>2, <2>3, <2>4, Zenon DEF OpensOf
  <2>7. ~(r.at < 0)
    <3>1. r.at \in {Freed, Hang, f}
      BY <2>4, <2>6, FreeAt, Zenon DEF OpensOf
    <3> HIDE DEF r
    <3> QED BY <1>3, <2>1, <3>1 DEF Freed, Hang
  <2>8. FreeKeeps(r, c, o, dirs)
    BY <2>6, <2>7, FreeSound, Zenon
  <2> HIDE DEF r
  <2>9. OpenNext
    BY <1>3, <2>5, <2>8, Zenon DEF OpenNext, FreeKeeps
  <2>10. FilesStay
    <3> SUFFICES ASSUME NEW e \in Descriptors, open_files[e] # NULL, ~node[open_files[e]].freed,
                        ~node[open_files[e]].dir, open_files'[e] = open_files[e]
                 PROVE  ~node'[open_files[e]].freed
      BY Zenon DEF FilesStay
    <3>1. ~c[open_files[e]].freed /\ ~c[open_files[e]].dir
      BY <2>5, Zenon DEF Stays
    <3>2. o[e] = open_files[e]
      BY <1>3, Zenon
    <3> QED BY <1>3, <2>8, <3>1, <3>2, Zenon DEF FreeKeeps, Stays
  <2> QED BY <2>9, <2>10, Zenon
<1>4. CASE Fails(EBADF) \/ Crashes(Freed) \/ Crashes(r.at)
  <2> HIDE DEF r
  <2> QED BY <1>4, FailsOpen, Zenon
<1> QED BY <1>2, <1>3, <1>4, Zenon

(* Every step of dandelion_opendir.                                        *)
LEMMA OpendirOpen ==
  ASSUME OpenInv, NEW h \in Handles, NEW path \in Paths, dandelion_opendir(h, path)
  PROVE  OpenNext /\ FilesStay
<1> DEFINE d == find_file(node, path)
           e == [dir |-> d, child |-> 0]
<1>1. OpenSound(node, open_files) /\ HandleSound(node, dirs) /\ IsTree(node)
      /\ open_files \in [Descriptors -> 0 .. Len(node)]
  BY Zenon DEF OpenInv, OpenSound
<1>2. \/ Crashes(d) \/ Fails(ENOENT) \/ Fails(ENOTDIR)
      \/ /\ d > 0 /\ node[d].dir /\ node' = [node EXCEPT ![d].opens = Up(@)]
         /\ dirs' = [dirs EXCEPT ![h] = e] /\ UNCHANGED open_files
  BY Zenon DEF dandelion_opendir
<1>3. d > 0 => d \in 1 .. Len(node)
  BY <1>1, PathFacts, FindTyped, PlacesFacts, Zenon
<1> HIDE DEF d
<1>4. CASE /\ d > 0 /\ node[d].dir /\ node' = [node EXCEPT ![d].opens = Up(@)]
           /\ dirs' = [dirs EXCEPT ![h] = e] /\ UNCHANGED open_files
  <2>1. d \in 1 .. Len(node)
    BY <1>3, <1>4, Zenon
  <2>2. node' = MoreOpen(node, d)
    BY <1>4, Zenon DEF MoreOpen, OpensPut, Put
  <2>3. OpensOf(node', node, d)
    BY <1>1, <2>1, <2>2, OpensOnly, Zenon
  <2>4. OpenSound(node', open_files)
    BY <1>1, <1>4, <2>1, <2>3, DirOpensSound, Zenon
  <2>5. HandleSound(node', dirs) /\ Stays(node, node', open_files)
    BY <1>1, <2>1, <2>3, OpensOfKeeps, Zenon
  <2>6. Len(node') = Len(node) /\ node'[d].dir
    BY <1>4, <2>1, <2>3, Zenon DEF OpensOf, Kept
  <2>7. e \in [dir: 0 .. Len(node'), child: Nat] /\ e.dir = d
    BY <2>1, <2>6
  <2> HIDE DEF e
  <2>8. dirs' \in [Handles -> [dir: 0 .. Len(node'), child: Nat]]
    BY <1>4, <2>5, <2>7, Zenon DEF HandleSound
  <2>9. \A i \in Handles : dirs'[i] = IF i = h THEN e ELSE dirs[i]
    BY <1>4, <2>5, Zenon DEF HandleSound
  <2>10. HandleSound(node', dirs')
    BY <2>5, <2>6, <2>7, <2>8, <2>9, Zenon DEF HandleSound
  <2> QED BY <1>4, <2>4, <2>5, <2>10, StaysFiles, Zenon DEF OpenNext
<1>5. CASE Crashes(d) \/ Fails(ENOENT) \/ Fails(ENOTDIR)
  BY <1>5, FailsOpen, Zenon
<1> QED BY <1>2, <1>4, <1>5, Zenon

(* Another entry for one handle.                                           *)
LEMMA HandleChanged ==
  ASSUME NEW ns, NEW ds, HandleSound(ns, ds), NEW h \in Handles,
         NEW e \in [dir: 0 .. Len(ns), child: Nat], e.dir = NULL \/ e.dir = ds[h].dir
  PROVE  HandleSound(ns, [ds EXCEPT ![h] = e])
<1> DEFINE q == [ds EXCEPT ![h] = e]
<1>1. ds \in [Handles -> [dir: 0 .. Len(ns), child: Nat]]
  BY Zenon DEF HandleSound
<1>2. /\ q \in [Handles -> [dir: 0 .. Len(ns), child: Nat]]
      /\ \A i \in Handles : q[i] = IF i = h THEN e ELSE ds[i]
  BY <1>1, Zenon
<1> HIDE DEF q
<1>3. HandleSound(ns, q)
  BY <1>2, Zenon DEF HandleSound
<1> QED BY <1>3, Zenon DEF q

(* Every step of dandelion_closedir.                                       *)
LEMMA ClosedirOpen ==
  ASSUME OpenInv, NEW h \in Handles, dandelion_closedir(h)
  PROVE  OpenNext /\ FilesStay
<1> DEFINE d == dirs[h].dir
           c == [node EXCEPT ![d].opens = Down(@)]
           r == free_data(c, d)
           e == [dir |-> NULL, child |-> 0]
<1>1. OpenSound(node, open_files) /\ HandleSound(node, dirs) /\ IsTree(node)
      /\ open_files \in [Descriptors -> 0 .. Len(node)]
      /\ dirs \in [Handles -> [dir: 0 .. Len(node), child: Nat]]
  BY Zenon DEF OpenInv, OpenSound, HandleSound
<1>2. \/ Crashes(Freed) \/ Crashes(r.at)
      \/ /\ d # NULL /\ ~node[d].freed /\ r.at > 0 /\ node' = r.ns
         /\ dirs' = [dirs EXCEPT ![h] = e] /\ UNCHANGED open_files
  BY Zenon DEF dandelion_closedir
<1>3. CASE /\ d # NULL /\ ~node[d].freed /\ r.at > 0 /\ node' = r.ns
           /\ dirs' = [dirs EXCEPT ![h] = e] /\ UNCHANGED open_files
  <2>1. d \in 1 .. Len(node) /\ node[d].dir
    <3>1. d \in 0 .. Len(node)
      BY <1>1
    <3>2. node[d].dir
      BY <1>1, <1>3, Zenon DEF HandleSound
    <3> HIDE DEF d
    <3> QED BY <1>3, <3>1, <3>2 DEF NULL
  <2>2. c = LessOpen(node, d)
    BY Zenon DEF LessOpen, OpensPut, Put
  <2> HIDE DEF c, d
  <2>3. OpensOf(c, node, d)
    BY <1>1, <2>1, <2>2, OpensOnly, Zenon
  <2>4. OpenSound(c, open_files) /\ HandleSound(c, dirs) /\ Stays(node, c, open_files)
    BY <1>1, <2>1, <2>3, DirOpensSound, OpensOfKeeps, Zenon
  <2>5. Len(c) = Len(node) /\ d \in 1 .. Len(c) /\ IsTree(c) /\ Len(c) \in Nat
    BY <1>1, <2>1, <2>3, TreeTypes, Zenon DEF OpensOf
  <2>6. ~(r.at < 0)
    <3>1. r.at \in {Freed, Hang, d}
      BY <2>5, FreeAt, Zenon
    <3> HIDE DEF r
    <3> QED BY <1>3, <2>1, <3>1 DEF Freed, Hang
  <2>7. FreeKeeps(r, c, open_files, dirs)
    BY <2>4, <2>5, <2>6, FreeSound, Zenon
  <2> HIDE DEF r
  <2>8. OpenSound(node', open_files) /\ Len(node') = Len(c) /\ HandleSound(node', dirs) /\ Stays(c, node', open_files)
    BY <1>3, <2>4, <2>7, Zenon DEF FreeKeeps
  <2>9. e \in [dir: 0 .. Len(node'), child: Nat] /\ e.dir = NULL
    BY <2>5, <2>8 DEF NULL
  <2> HIDE DEF e
  <2>10. HandleSound(node', dirs')
    <3>1. HandleSound(node', [dirs EXCEPT ![h] = e])
      BY <2>8, <2>9, HandleChanged, Zenon
    <3>2. dirs' = [dirs EXCEPT ![h] = e]
      BY <1>3, Zenon
    <3> QED BY <3>1, <3>2, Zenon
  <2>11. Stays(node, node', open_files)
    BY <2>4, <2>8, Zenon DEF Stays
  <2> QED BY <1>3, <2>8, <2>10, <2>11, StaysFiles, Zenon DEF OpenNext
<1>4. CASE Crashes(Freed) \/ Crashes(r.at)
  <2> HIDE DEF r
  <2> QED BY <1>4, FailsOpen, Zenon
<1> QED BY <1>2, <1>3, <1>4, Zenon

(* Every step of dandelion_readdir.                                        *)
LEMMA ReaddirOpen ==
  ASSUME OpenInv, NEW h \in Handles, dandelion_readdir(h)
  PROVE  OpenNext /\ FilesStay
<1> DEFINE k == dirs[h].child
           e == [dirs[h] EXCEPT !.child = k + 1]
<1>1. OpenSound(node, open_files) /\ HandleSound(node, dirs) /\ IsTree(node)
      /\ dirs \in [Handles -> [dir: 0 .. Len(node), child: Nat]]
  BY Zenon DEF OpenInv, OpenSound, HandleSound
<1>2. \/ Crashes(Freed) \/ Fails(ENOENT) \/ Fails(NoMore)
      \/ dirs' = [dirs EXCEPT ![h] = e] /\ UNCHANGED <<node, open_files>>
  BY Zenon DEF dandelion_readdir
<1>3. CASE dirs' = [dirs EXCEPT ![h] = e] /\ UNCHANGED <<node, open_files>>
  <2>1. e \in [dir: 0 .. Len(node), child: Nat] /\ e.dir = dirs[h].dir
    <3>1. dirs[h] \in [dir: 0 .. Len(node), child: Nat]
      BY <1>1, Zenon
    <3> QED BY <3>1
  <2> HIDE DEF e
  <2>2. HandleSound(node, [dirs EXCEPT ![h] = e])
    BY <1>1, <2>1, HandleChanged, Zenon
  <2>3. dirs' = [dirs EXCEPT ![h] = e]
    BY <1>3, Zenon
  <2>4. HandleSound(node, dirs')
    BY <2>2, <2>3, Zenon
  <2> QED BY <1>3, <2>4, NothingOpened, Zenon
<1>4. CASE Crashes(Freed) \/ Fails(ENOENT) \/ Fails(NoMore)
  BY <1>4, FailsOpen, Zenon
<1> QED BY <1>2, <1>3, <1>4, Zenon

(* Every step of dandelion_seekdir.                                        *)
LEMMA SeekdirOpen ==
  ASSUME OpenInv, NEW h \in Handles, NEW k \in Nat, dandelion_seekdir(h, k)
  PROVE  OpenNext /\ FilesStay
<1> DEFINE e == [dirs[h] EXCEPT !.child = k]
<1>1. OpenSound(node, open_files) /\ HandleSound(node, dirs) /\ IsTree(node)
      /\ dirs \in [Handles -> [dir: 0 .. Len(node), child: Nat]]
  BY Zenon DEF OpenInv, OpenSound, HandleSound
<1>2. dirs' = [dirs EXCEPT ![h] = e] /\ UNCHANGED <<node, open_files>>
  BY Zenon DEF dandelion_seekdir
<1>3. e \in [dir: 0 .. Len(node), child: Nat] /\ e.dir = dirs[h].dir
  <2>1. dirs[h] \in [dir: 0 .. Len(node), child: Nat]
    BY <1>1, Zenon
  <2> QED BY <2>1
<1> HIDE DEF e
<1>4. HandleSound(node, [dirs EXCEPT ![h] = e])
  BY <1>1, <1>3, HandleChanged, Zenon
<1>5. dirs' = [dirs EXCEPT ![h] = e]
  BY <1>2, Zenon
<1>6. HandleSound(node, dirs')
  BY <1>4, <1>5, Zenon
<1> QED BY <1>2, <1>6, NothingOpened, Zenon

(* Removing a path frees no file that is open.                             *)
LEMMA UnlinkedOpen ==
  ASSUME OpenInv, NEW f \in 1 .. Len(node), NEW r, r = Unlinked(node, f), r.at > 0,
         node' = r.ns, UNCHANGED <<open_files, dirs>>
  PROVE  OpenNext /\ FilesStay
<1>1. OpenSound(node, open_files) /\ HandleSound(node, dirs) /\ IsTree(node)
  BY Zenon DEF OpenInv, OpenSound
<1>2. UnlinkGrows(r, node, f)
  BY <1>1, UnlinkedGrows, Zenon
<1>4. CASE r.at \in {Null, Freed, Hang}
  BY <1>4 DEF Null, Freed, Hang
<1>5. CASE \E b : Grows(node, b) /\ Len(b) = Len(node) /\ r = free_data(b, f)
  <2>1. PICK b : Grows(node, b) /\ Len(b) = Len(node) /\ r = free_data(b, f)
    BY <1>5, Zenon
  <2>2. OpenSound(b, open_files) /\ Stays(node, b, open_files) /\ HandleSound(b, dirs) /\ IsTree(b)
    <3>1. IsTree(b)
      BY <2>1, Zenon DEF Grows
    <3> QED BY <1>1, <2>1, <3>1, GrowsSound, GrowsHandles, Zenon
  <2>3. f \in 1 .. Len(b)
    BY <2>1, Zenon
  <2>4. ~(r.at < 0)
    <3>1. r.at \in {Freed, Hang, f}
      BY <2>1, <2>2, <2>3, FreeAt, Zenon
    <3> QED BY <3>1 DEF Freed, Hang
  <2>5. FreeKeeps(r, b, open_files, dirs)
    BY <2>1, <2>2, <2>3, <2>4, FreeSound, Zenon
  <2>6. OpenSound(node', open_files) /\ HandleSound(node', dirs) /\ Stays(b, node', open_files)
    BY <2>2, <2>5, Zenon DEF FreeKeeps
  <2>7. Stays(node, node', open_files)
    BY <2>2, <2>6, Zenon DEF Stays
  <2> QED BY <2>6, <2>7, StaysFiles, Zenon DEF OpenNext
<1> QED BY <1>2, <1>4, <1>5, Zenon DEF UnlinkGrows

(* Every step of dandelion_unlink and dandelion_rmdir.                     *)
LEMMA RemoveOpen ==
  ASSUME OpenInv, NEW path \in Paths, dandelion_unlink(path) \/ dandelion_rmdir(path)
  PROVE  OpenNext /\ FilesStay
<1> DEFINE f == find_file(node, path)
           r == Unlinked(node, f)
<1>1. IsTree(node)
  BY Zenon DEF OpenInv, OpenSound
<1>2. f > 0 => f \in 1 .. Len(node)
  BY <1>1, PathFacts, FindTyped, PlacesFacts, Zenon
<1>3. \/ Crashes(f) \/ Fails(ENOTDIR) \/ Fails(ENOENT) \/ Fails(ENOTEMPTY) \/ Crashes(r.at)
      \/ f > 0 /\ r.at > 0 /\ node' = r.ns /\ UNCHANGED <<open_files, dirs>>
  BY Zenon DEF dandelion_unlink, dandelion_rmdir
<1> HIDE DEF f
<1>4. CASE f > 0 /\ r.at > 0 /\ node' = r.ns /\ UNCHANGED <<open_files, dirs>>
  BY <1>2, <1>4, UnlinkedOpen, Zenon
<1> HIDE DEF r
<1>5. CASE Crashes(f) \/ Fails(ENOTDIR) \/ Fails(ENOENT) \/ Fails(ENOTEMPTY) \/ Crashes(r.at)
  BY <1>5, FailsOpen, Zenon
<1> QED BY <1>3, <1>4, <1>5, Zenon

(* Every step of dandelion_mkdir.                                          *)
LEMMA MkdirOpen ==
  ASSUME OpenInv, NEW path \in Paths, dandelion_mkdir(path)
  PROVE  OpenNext /\ FilesStay
<1> DEFINE p     == find_file(node, IF path = <<>> THEN <<>> ELSE Front(path))
           found == find_file_in_dir(node, p, Last(path))
           made(c) == create_directories(node, p, <<Last(path)>>, c, FALSE)
<1>1. IsTree(node)
  BY Zenon DEF OpenInv, OpenSound
<1>2. p > 0 => p \in 1 .. Len(node)
  <2> DEFINE q == IF path = <<>> THEN <<>> ELSE Front(path)
  <2>1. q \in Seq(Components)
    <3>1. path \in Seq(Components) /\ Front(path) \in Seq(Components)
      BY PathFacts, Zenon
    <3> QED BY <3>1, Zenon
  <2> HIDE DEF q
  <2>2. find_file(node, q) > 0 => find_file(node, q) \in 1 .. Len(node)
    BY <1>1, <2>1, FindTyped, PlacesFacts, Zenon
  <2> QED BY <2>2, Zenon DEF q
<1>3. \/ Crashes(p) \/ Fails(ENOENT) \/ Fails(ENOTDIR) \/ Fails(0) \/ Crashes(found) \/ Fails(EEXIST)
      \/ p > 0 /\ path # <<>> /\ \E counts \in Leftovers : MakeDirectory(made(counts))
  BY Zenon DEF dandelion_mkdir
<1> HIDE DEF p, found
<1>4. ASSUME p > 0, path # <<>>, NEW counts \in Leftovers, MakeDirectory(made(counts))
      PROVE  OpenNext /\ FilesStay
  <2> DEFINE r == made(counts)
  <2>1. <<Last(path)>> \in Seq(Components) /\ p \in 1 .. Len(node)
    BY <1>2, <1>4, PathFacts, Zenon
  <2>2. Grows(node, r.ns)
    BY <1>1, <2>1, CreateWay, Zenon
  <2> HIDE DEF r
  <2>3. Crashes(r.at) \/ (node' = r.ns /\ UNCHANGED <<open_files, dirs>>)
    BY <1>4, Zenon DEF MakeDirectory, r
  <2> QED BY <2>2, <2>3, FailsOpen, GrownOpen, Zenon
<1>5. CASE Crashes(p) \/ Fails(ENOENT) \/ Fails(ENOTDIR) \/ Fails(0) \/ Crashes(found) \/ Fails(EEXIST)
  BY <1>5, FailsOpen, Zenon
<1> QED BY <1>3, <1>4, <1>5, Zenon

(* The end of dandelion_link.                                              *)
LEMMA LinkedOpen ==
  ASSUME OpenInv, NEW f \in 1 .. Len(node), NEW way, Grows(node, way.ns),
         way.at > 0 => way.at \in 1 .. Len(way.ns), LinkInto(f, way)
  PROVE  OpenNext /\ FilesStay
<1> DEFINE r == link_file_to_folder(way.ns, way.at, f)
<1>1. CASE Crashes(way.at)
  BY <1>1, FailsOpen, Zenon
<1>2. CASE node' = way.ns /\ UNCHANGED <<open_files, dirs>>
  BY <1>2, GrownOpen, Zenon
<1>3. CASE way.at > 0 /\ Linked(r, f)
  <2>1. IsTree(node) /\ IsTree(way.ns) /\ way.at \in 1 .. Len(way.ns) /\ Len(node) <= Len(way.ns)
    BY <1>3, Zenon DEF OpenInv, OpenSound, Grows
  <2>2. f \in 1 .. Len(way.ns)
    <3>1. Len(node) \in Nat /\ Len(way.ns) \in Nat
      BY <2>1, TreeTypes, Zenon
    <3> QED BY <2>1, <3>1
  <2>3. Grows(way.ns, r.ns) /\ Len(r.ns) = Len(way.ns)
    <3>1. LinkGrown(r, way.ns, f)
      BY <2>1, <2>2, LinkGrownIs, Zenon
    <3> HIDE DEF r
    <3> QED BY <3>1, Zenon DEF LinkGrown
  <2> HIDE DEF r
  <2>4. IsTree(r.ns) /\ f \in 1 .. Len(r.ns) /\ Grows(node, r.ns)
    <3>1. IsTree(r.ns) /\ f \in 1 .. Len(r.ns)
      BY <2>2, <2>3, Zenon DEF Grows
    <3> QED BY <2>1, <2>3, <3>1, GrowsOn, Zenon
  <2>5. CASE Crashes(r.at)
    BY <2>5, FailsOpen, Zenon
  <2>6. CASE node' = [r.ns EXCEPT ![f].links = Up(@)] /\ UNCHANGED <<open_files, dirs>>
    <3> DEFINE b == LinksPut(r.ns, f, Up(r.ns[f].links))
    <3>1. node' = b
      BY <2>6, Zenon DEF LinksPut, Put
    <3>2. IsLinksPut(b, r.ns, f, Up(r.ns[f].links))
      BY <2>4, TreeTypes, UpTyped, LinksPutFacts, Zenon
    <3> HIDE DEF b
    <3>3. Grows(r.ns, b)
      BY <3>2, Zenon DEF IsLinksPut
    <3>4. Grows(node, node')
      BY <2>1, <2>4, <3>1, <3>3, GrowsOn, Zenon
    <3> QED BY <2>6, <3>4, GrownOpen, Zenon
  <2> QED BY <1>3, <2>5, <2>6, Zenon DEF Linked
<1> QED BY <1>1, <1>2, <1>3, Zenon DEF LinkInto

(* Every step of dandelion_link.                                           *)
LEMMA LinkOpen ==
  ASSUME OpenInv, NEW old \in Paths, NEW new \in Paths, dandelion_link(old, new)
  PROVE  OpenNext /\ FilesStay
<1> DEFINE f    == find_file(node, old)
           used == find_file(node, new)
<1>1. IsTree(node) /\ ROOT \in 1 .. Len(node)
  <2>1. IsTree(node)
    BY Zenon DEF OpenInv, OpenSound
  <2> QED BY <2>1, PathFacts, FindTyped, PlacesFacts, Zenon
<1>2. f > 0 => f \in 1 .. Len(node)
  BY <1>1, PathFacts, FindTyped, PlacesFacts, Zenon
<1>3. \/ Crashes(f) \/ Fails(ENOTDIR) \/ Fails(EPERM) \/ Fails(EMLINK) \/ Crashes(used) \/ Fails(EEXIST)
      \/ f > 0 /\ \E counts \in Leftovers, filled \in Filled :
           LinkInto(f, create_directories(node, ROOT, Front(new), counts, filled))
  BY Zenon DEF dandelion_link
<1> HIDE DEF f, used
<1>4. ASSUME f > 0, NEW counts \in Leftovers, NEW filled \in Filled,
             LinkInto(f, create_directories(node, ROOT, Front(new), counts, filled))
      PROVE  OpenNext /\ FilesStay
  <2> DEFINE way == create_directories(node, ROOT, Front(new), counts, filled)
  <2>1. Front(new) \in Seq(Components)
    BY PathFacts, Zenon
  <2>2. Grows(node, way.ns) /\ (way.at > 0 => way.at \in 1 .. Len(way.ns))
    BY <1>1, <2>1, CreateWay, Zenon
  <2> HIDE DEF way
  <2>3. LinkInto(f, way)
    BY <1>4, Zenon DEF way
  <2> QED BY <1>2, <1>4, <2>2, <2>3, LinkedOpen, Zenon
<1>5. CASE Crashes(f) \/ Fails(ENOTDIR) \/ Fails(EPERM) \/ Fails(EMLINK) \/ Crashes(used) \/ Fails(EEXIST)
  BY <1>5, FailsOpen, Zenon
<1> QED BY <1>3, <1>4, <1>5, Zenon

(* The type of a static folder.                                            *)
LEMMA StaticTyped ==
  ASSUME NEW m \in Nat, NEW name \in Int
  PROVE  StaticNode(name) \in NodeSet(m) /\ StaticNode(name).dir
BY DEF StaticNode, NodeSet, NULL

(* The two static folders that fs_initialize begins with.                  *)
Begin == <<StaticNode(0), StaticNode(Stored(Min(Names), 0))>>

(* The type of the first tree.                                             *)
LEMMA BeginTyped == IsTree(Begin) /\ Len(Begin) = 2 /\ \A n \in 1 .. 2 : Begin[n].dir
<1> DEFINE x == StaticNode(0)
           y == StaticNode(Stored(Min(Names), 0))
           T == NodeSet(2)
<1>1. Stored(Min(Names), 0) \in Int
  <2>1. Names \in SUBSET Nat /\ Names # {}
    BY NamespaceAssumption
  <2>2. Min(Names) \in Names
    BY <2>1, MinFacts, Zenon
  <2>3. 0 \in 0 .. 1
    OBVIOUS
  <2> QED BY <2>2, <2>3, StoredTyped, Zenon
<1>2. x \in T /\ y \in T /\ x.dir /\ y.dir
  <2>1. 0 \in Int /\ 2 \in Nat
    OBVIOUS
  <2> QED BY <1>1, <2>1, StaticTyped, Zenon
<1> HIDE DEF x, y
<1>3. <<x, y>> \in Seq(NodeSet(2)) /\ Len(<<x, y>>) = 2 /\ \A n \in 1 .. 2 : <<x, y>>[n].dir
  <2> HIDE DEF T
  <2>1. <<x, y>> \in Seq(T)
    BY <1>2
  <2>2. \A n \in 1 .. 2 : <<x, y>>[n].dir
    BY <1>2
  <2> QED BY <2>1, <2>2 DEF T
<1>4. Begin = <<x, y>>
  BY Zenon DEF Begin, x, y
<1> QED BY <1>3, <1>4 DEF IsTree

(* The invariant holds in the beginning.                                   *)
LEMMA OpenInit ==
  ASSUME Init
  PROVE  OpenInv
<1> DEFINE e == [dir |-> NULL, child |-> 0]
<1>1. /\ node = link_file_to_folder(Begin, ROOT, 2).ns
      /\ open_files = [d \in Descriptors |-> NULL] /\ dirs = [h \in Handles |-> e]
  BY Zenon DEF Init, Begin
<1>2. IsTree(Begin) /\ Len(Begin) = 2 /\ ROOT \in 1 .. Len(Begin) /\ 2 \in 1 .. Len(Begin)
      /\ NULL \in 0 .. Len(Begin) /\ \A n \in 1 .. Len(Begin) : Begin[n].dir
  BY BeginTyped DEF ROOT, NULL
<1>3. Grows(Begin, node)
  BY <1>1, <1>2, LinkGrows, Zenon
<1>4. OpenSound(Begin, open_files)
  BY <1>1, <1>2, Zenon DEF OpenSound
<1>5. e \in [dir: 0 .. Len(Begin), child: Nat] /\ e.dir = NULL
  BY <1>2
<1> HIDE DEF e
<1>6. HandleSound(Begin, dirs)
  BY <1>1, <1>5, Zenon DEF HandleSound
<1> QED BY <1>2, <1>3, <1>4, <1>6, GrowsSound, GrowsHandles, Zenon DEF OpenInv

(* Every step keeps the invariant and the open files.                      *)
LEMMA OpenStep ==
  ASSUME OpenInv, [Next]_vars
  PROVE  OpenNext /\ FilesStay
<1>1. Cardinality(Names) \in Nat
  BY NamespaceAssumption, FS_CardinalityType, Zenon
<1>2. \A k \in 0 .. Cardinality(Names) : k \in Nat
  BY <1>1
<1>3. CASE UNCHANGED vars
  <2>1. UNCHANGED <<node, open_files, dirs>>
    BY <1>3, Zenon DEF vars
  <2> QED BY <2>1, SameOpen, Zenon
<1>4. CASE \E path \in Paths, creat, excl \in BOOLEAN : dandelion_open(path, creat, excl)
  BY <1>4, OpenOpen, Zenon
<1>5. CASE \E d \in Descriptors : dandelion_close(d)
  BY <1>5, CloseOpen, Zenon
<1>6. CASE \E h \in Handles, path \in Paths : dandelion_opendir(h, path)
  BY <1>6, OpendirOpen, Zenon
<1>7. CASE \E h \in Handles : dandelion_closedir(h)
  BY <1>7, ClosedirOpen, Zenon
<1>8. CASE \E h \in Handles : dandelion_readdir(h)
  BY <1>8, ReaddirOpen, Zenon
<1>9. CASE \E h \in Handles, k \in 0 .. Cardinality(Names) : dandelion_seekdir(h, k)
  BY <1>2, <1>9, SeekdirOpen, Zenon
<1>10. CASE \E path \in Paths : dandelion_unlink(path) \/ dandelion_rmdir(path)
  BY <1>10, RemoveOpen, Zenon
<1>11. CASE \E path \in Paths : dandelion_mkdir(path)
  BY <1>11, MkdirOpen, Zenon
<1>12. CASE \E old, new \in Paths : dandelion_link(old, new)
  BY <1>12, LinkOpen, Zenon
<1> QED BY <1>3, <1>4, <1>5, <1>6, <1>7, <1>8, <1>9, <1>10, <1>11, <1>12, Zenon DEF Next

(* The invariant of the next state, in its own words.                      *)
LEMMA OpenPrimed ==
  ASSUME OpenNext
  PROVE  OpenInv'
BY Zenon DEF OpenNext, OpenInv, OpenSound, HandleSound, IsTree, NodeSet, Users, NULL

(* Whatever paths clients use, and whatever is left in the memory of new   *)
(* directories, no file is deallocated while a descriptor has it open.     *)
THEOREM OpenFilesStay == Spec => FilesStayOpen
<1>1. Init => OpenInv
  BY OpenInit, Zenon
<1>2. OpenInv /\ [Next]_vars => OpenInv'
  BY OpenStep, OpenPrimed, Zenon
<1>3. OpenInv /\ [Next]_vars =>
        [\A d \in Descriptors :
           LET f == open_files[d]
           IN  f # NULL /\ ~node[f].freed /\ ~node[f].dir /\ open_files'[d] = f
                 => ~node'[f].freed]_vars
  BY OpenStep, Zenon DEF FilesStay
<1> QED BY <1>1, <1>2, <1>3, PTL DEF Spec, FilesStayOpen

-----------------------------------------------------------------------------
(* The program of Session: what it means that it ends with 0.              *)

Fields ==
  {"pc", "set", "item", "dir", "argv", "environ", "placed", "walk", "calls", "lost",
   "errno", "code"}

IsSeq(s) == \E S : s \in Seq(S)

NamedOf(g) ==
  UNION {{<<s, i>> : i \in {j \in DOMAIN g.inputs[s].items :
                              g.inputs[s].items[j].path # <<>>}} :
           s \in {t \in DOMAIN g.inputs : g.inputs[t].name # <<>>}}

(* The items that come before item i of set s.                             *)
Earlier(x, s, i) == x[1] < s \/ (x[1] = s /\ x[2] < i)

Before(g, s, i) == {x \in NamedOf(g) : Earlier(x, s, i)}

Counts(p, B) == IsFiniteSet(B) /\ Len(p) = Cardinality(B)

(* What is known of a program that is at pc, in set s and item i, has      *)
(* placed p and ends with c.                                               *)
ProgSound(pc, s, i, p, c, g) ==
  /\ s \in Nat \ {0} /\ i \in Nat /\ IsSeq(p)
  /\ pc = "boot" => s = 1 /\ i = 0 /\ p = <<>>
  /\ pc = "inputs" => Counts(p, Before(g, s, i))
  /\ pc = "inputs" /\ i > 0 => s \in DOMAIN g.inputs /\ g.inputs[s].name # <<>>
  /\ pc \in {"folders", "stdin", "main", "ending"} => Len(p) = Cardinality(NamedOf(g))
  /\ pc = "exited" /\ c = 0 => Len(p) = Cardinality(NamedOf(g)) /\ s > Len(g.outputs)

ProgInv ==
  /\ DOMAIN prog = Fields /\ given \in Given
  /\ ProgSound(prog.pc, prog.set, prog.item, prog.placed, prog.code, given)

ProgNext ==
  /\ DOMAIN prog' = Fields /\ given' \in Given
  /\ ProgSound(prog'.pc, prog'.set, prog'.item, prog'.placed, prog'.code, given')

(* Where the next step leaves the program.                                 *)
ProgIs(pc, s, i, p, c) ==
  /\ DOMAIN prog' = Fields /\ given' = given
  /\ prog'.pc = pc /\ prog'.set = s /\ prog'.item = i /\ prog'.placed = p /\ prog'.code = c

(* A step that leaves the program sound.                                   *)
LEMMA ProgStep ==
  ASSUME ProgInv, NEW pc, NEW s, NEW i, NEW p, NEW c, ProgIs(pc, s, i, p, c),
         ProgSound(pc, s, i, p, c, given)
  PROVE  ProgNext
BY Zenon DEF ProgInv, ProgIs, ProgNext

(* A program that leaves because of an error does not end with 0.          *)
LEMMA LeaveStep ==
  ASSUME ProgInv, Leave
  PROVE  ProgNext
<1>1. DOMAIN prog = Fields /\ prog' = [prog EXCEPT !.pc = "exited", !.code = E] /\ given' = given
  BY Zenon DEF ProgInv, Leave
<1>2. ProgIs("exited", prog.set, prog.item, prog.placed, E)
  BY <1>1 DEF ProgIs, Fields
<1>3. E # 0
  BY DEF E
<1>4. "exited" \notin {"boot", "inputs", "folders", "stdin", "main", "ending"}
  OBVIOUS
<1>5. ProgSound("exited", prog.set, prog.item, prog.placed, E, given)
  BY <1>3, <1>4, Zenon DEF ProgInv, ProgSound
<1> QED BY <1>2, <1>5, ProgStep, Zenon

(* Steps that leave the program where it is.                               *)
SameProg ==
  ProgIs(prog.pc, prog.set, prog.item, prog.placed, prog.code)

(* Steps that do not move the program keep it sound.                       *)
LEMMA SameStep ==
  ASSUME ProgInv, SameProg
  PROVE  ProgNext
BY ProgStep, Zenon DEF ProgInv, SameProg

(* So do steps that break it.                                              *)
LEMMA BreakStep ==
  ASSUME ProgInv, NEW f, Breaks(f)
  PROVE  ProgNext
<1>1. SameProg
  BY Zenon DEF Breaks, own, ProgInv, SameProg, ProgIs
<1> QED BY <1>1, SameStep, Zenon

(* The types of what is given.                                             *)
GivenOK(g) ==
  /\ Len(g.inputs) \in Nat /\ DOMAIN g.inputs = 1 .. Len(g.inputs)
  /\ Len(g.outputs) \in Nat
  /\ \A s \in 1 .. Len(g.inputs) :
       /\ Len(g.inputs[s].items) \in Nat
       /\ DOMAIN g.inputs[s].items = 1 .. Len(g.inputs[s].items)

(* What is given has its type.                                             *)
LEMMA GivenTyped ==
  ASSUME NEW g \in Given
  PROVE  GivenOK(g)
<1> DEFINE I == [path: Path, data: BOOLEAN]
           S == [name: Path, items: Seq(I)]
<1>1. g.inputs \in Seq(S) /\ g.outputs \in Seq(Path)
  BY SessionAssumption, Zenon
<1>2. \A r \in S : r.items \in Seq(I)
  OBVIOUS
<1> HIDE DEF S, I
<1>3. /\ Len(g.inputs) \in Nat /\ DOMAIN g.inputs = 1 .. Len(g.inputs)
      /\ \A s \in 1 .. Len(g.inputs) : g.inputs[s] \in S
  BY <1>1
<1>4. Len(g.outputs) \in Nat
  BY <1>1
<1>5. \A q \in Seq(I) : Len(q) \in Nat /\ DOMAIN q = 1 .. Len(q)
  OBVIOUS
<1> QED BY <1>2, <1>3, <1>4, <1>5, Zenon DEF GivenOK

(* The pairs of a set and an item that have a name.                        *)
NamedPair(g, s, i) ==
  /\ s \in 1 .. Len(g.inputs) /\ i \in 1 .. Len(g.inputs[s].items)
  /\ g.inputs[s].name # <<>> /\ g.inputs[s].items[i].path # <<>>

(* The named items are the pairs with names.                               *)
LEMMA NamedPairs ==
  ASSUME NEW g, GivenOK(g)
  PROVE  /\ \A x \in NamedOf(g) : x = <<x[1], x[2]>> /\ NamedPair(g, x[1], x[2])
         /\ \A s, i : NamedPair(g, s, i) => <<s, i>> \in NamedOf(g)
<1> DEFINE J(s) == {j \in DOMAIN g.inputs[s].items : g.inputs[s].items[j].path # <<>>}
           T(s) == {<<s, i>> : i \in J(s)}
           D    == {t \in DOMAIN g.inputs : g.inputs[t].name # <<>>}
<1>1. NamedOf(g) = UNION {T(s) : s \in D}
  BY Zenon DEF NamedOf
<1>2. \A s, i : i \in J(s) <=> i \in DOMAIN g.inputs[s].items /\ g.inputs[s].items[i].path # <<>>
  BY Zenon
<1>3. \A s : s \in D <=> s \in DOMAIN g.inputs /\ g.inputs[s].name # <<>>
  BY Zenon
<1>4. \A s, x : x \in T(s) <=> \E i \in J(s) : x = <<s, i>>
  BY Zenon
<1> HIDE DEF J, D
<1>5. \A s, i : s \in D /\ i \in J(s) <=> NamedPair(g, s, i)
  BY <1>2, <1>3, Zenon DEF NamedPair, GivenOK
<1> HIDE DEF T
<1>6. \A x : x \in NamedOf(g) <=> \E s \in D : x \in T(s)
  BY <1>1, Zenon
<1>7. ASSUME NEW x \in NamedOf(g) PROVE x = <<x[1], x[2]>> /\ NamedPair(g, x[1], x[2])
  <2>0. PICK s \in D : x \in T(s)
    BY <1>6, Zenon
  <2>1. PICK i \in J(s) : x = <<s, i>>
    BY <1>4, <2>0, Zenon
  <2>2. x[1] = s /\ x[2] = i
    BY <2>1
  <2> QED BY <1>5, <2>1, <2>2, Zenon
<1>8. ASSUME NEW s, NEW i, NamedPair(g, s, i) PROVE <<s, i>> \in NamedOf(g)
  BY <1>4, <1>5, <1>6, <1>8, Zenon
<1> QED BY <1>7, <1>8, Zenon

(* How the items that come before change.                                  *)
LEMMA BeforeFacts ==
  ASSUME NEW g, GivenOK(g), NEW s \in Nat, NEW i \in Nat
  PROVE  /\ Before(g, 1, 0) = {}
         /\ s > Len(g.inputs) => Before(g, s, i) = NamedOf(g)
         /\ g.inputs[s].name = <<>> => Before(g, s + 1, 0) = Before(g, s, 0)
         /\ Before(g, s, 1) = Before(g, s, 0)
         /\ ~NamedPair(g, s, i) => Before(g, s, i + 1) = Before(g, s, i)
         /\ s \in 1 .. Len(g.inputs) /\ i > Len(g.inputs[s].items) => Before(g, s + 1, 0) = Before(g, s, i)
<1> DEFINE N == NamedOf(g)
<1>1. \A x \in N : /\ NamedPair(g, x[1], x[2]) /\ x[1] \in 1 .. Len(g.inputs)
                   /\ x[2] \in 1 .. Len(g.inputs[x[1]].items) /\ g.inputs[x[1]].name # <<>>
  BY NamedPairs, Zenon DEF NamedPair
<1>2. Len(g.inputs) \in Nat /\ \A t \in 1 .. Len(g.inputs) : Len(g.inputs[t].items) \in Nat
  BY Zenon DEF GivenOK
<1>3. \A x \in N : x[1] \in Nat /\ x[2] \in Nat /\ x[1] >= 1 /\ x[2] >= 1
  BY <1>1, <1>2
<1>4. \A t, j, x : x \in Before(g, t, j) <=> x \in N /\ Earlier(x, t, j)
  BY Zenon DEF Before
<1> HIDE DEF N
<1>5. Before(g, 1, 0) = {}
  <2>1. \A x \in N : ~Earlier(x, 1, 0)
    BY <1>3 DEF Earlier
  <2> QED BY <1>4, <2>1, Zenon
<1>6. ASSUME s > Len(g.inputs) PROVE Before(g, s, i) = N
  <2>1. \A x \in N : Earlier(x, s, i)
    BY <1>1, <1>2, <1>6 DEF Earlier
  <2> QED BY <1>4, <2>1, Zenon
<1>7. ASSUME g.inputs[s].name = <<>> PROVE Before(g, s + 1, 0) = Before(g, s, 0)
  <2>1. \A x \in N : x[1] # s
    BY <1>1, <1>7, Zenon
  <2>2. \A x \in N : Earlier(x, s + 1, 0) <=> Earlier(x, s, 0)
    BY <1>3, <2>1 DEF Earlier
  <2>8. \A x : x \in Before(g, s + 1, 0) <=> x \in Before(g, s, 0)
    BY <1>4, <2>2, Zenon
  <2> QED BY <2>8, Zenon
<1>8. Before(g, s, 1) = Before(g, s, 0)
  <2>1. \A x \in N : Earlier(x, s, 1) <=> Earlier(x, s, 0)
    BY <1>3 DEF Earlier
  <2>8. \A x : x \in Before(g, s, 1) <=> x \in Before(g, s, 0)
    BY <1>4, <2>1, Zenon
  <2> QED BY <2>8, Zenon
<1>9. ASSUME ~NamedPair(g, s, i) PROVE Before(g, s, i + 1) = Before(g, s, i)
  <2>1. \A x \in N : ~(x[1] = s /\ x[2] = i)
    BY <1>1, <1>9, Zenon
  <2>2. \A x \in N : Earlier(x, s, i + 1) <=> Earlier(x, s, i)
    BY <1>3, <2>1 DEF Earlier
  <2>8. \A x : x \in Before(g, s, i + 1) <=> x \in Before(g, s, i)
    BY <1>4, <2>2, Zenon
  <2> QED BY <2>8, Zenon
<1>10. ASSUME s \in 1 .. Len(g.inputs), i > Len(g.inputs[s].items) PROVE Before(g, s + 1, 0) = Before(g, s, i)
  <2>1. \A x \in N : x[1] = s => x[2] < i
    BY <1>1, <1>2, <1>10
  <2>2. \A x \in N : Earlier(x, s + 1, 0) <=> Earlier(x, s, i)
    BY <1>3, <2>1 DEF Earlier
  <2>8. \A x : x \in Before(g, s + 1, 0) <=> x \in Before(g, s, i)
    BY <1>4, <2>2, Zenon
  <2> QED BY <2>8, Zenon
<1> QED BY <1>5, <1>6, <1>7, <1>8, <1>9, <1>10, Zenon DEF N

(* An item that has a name is added to those that come before.             *)
LEMMA BeforeItem ==
  ASSUME NEW g, GivenOK(g), NEW s \in Nat, NEW i \in Nat, NamedPair(g, s, i)
  PROVE  /\ Before(g, s, i + 1) = Before(g, s, i) \cup {<<s, i>>}
         /\ <<s, i>> \notin Before(g, s, i)
<1> DEFINE N == NamedOf(g)
<1>1. \A x \in N : x = <<x[1], x[2]>> /\ x[1] \in 1 .. Len(g.inputs) /\ x[2] \in 1 .. Len(g.inputs[x[1]].items)
  BY NamedPairs, Zenon DEF NamedPair
<1>2. <<s, i>> \in N
  BY NamedPairs, Zenon
<1>3. \A x \in N : x[1] \in Int /\ x[2] \in Int
  BY <1>1
<1>4. \A t, j, x : x \in Before(g, t, j) <=> x \in N /\ Earlier(x, t, j)
  BY Zenon DEF Before
<1> HIDE DEF N
<1>5. \A x \in N : Earlier(x, s, i + 1) <=> Earlier(x, s, i) \/ x = <<s, i>>
  <2>1. \A x \in N : (x[1] = s /\ x[2] = i) <=> x = <<s, i>>
    BY <1>1
  <2>2. \A x \in N : Earlier(x, s, i + 1) <=> Earlier(x, s, i) \/ (x[1] = s /\ x[2] = i)
    BY <1>3 DEF Earlier
  <2> QED BY <2>1, <2>2, Zenon
<1>6. Before(g, s, i + 1) = Before(g, s, i) \cup {<<s, i>>}
  BY <1>2, <1>4, <1>5, Zenon
<1>7. <<s, i>> \notin Before(g, s, i)
  <2>1. ~Earlier(<<s, i>>, s, i)
    BY DEF Earlier
  <2> QED BY <1>4, <2>1, Zenon
<1> QED BY <1>6, <1>7, Zenon

(* One file more has been placed.                                          *)
LEMMA PlacedMore ==
  ASSUME NEW p, NEW e, IsSeq(p)
  PROVE  IsSeq(Append(p, e)) /\ Len(Append(p, e)) = Len(p) + 1 /\ Len(p) \in Nat
<1>1. PICK S : p \in Seq(S)
  BY Zenon DEF IsSeq
<1> DEFINE T == S \cup {e}
<1>2. p \in Seq(T) /\ e \in T
  BY <1>1
<1> HIDE DEF T
<1>3. Append(p, e) \in Seq(T) /\ Len(Append(p, e)) = Len(p) + 1 /\ Len(p) \in Nat
  BY <1>2
<1> QED BY <1>3, Zenon DEF IsSeq

(* One file more for one item more.                                        *)
LEMMA CountsMore ==
  ASSUME NEW p, NEW e, NEW B, NEW x, IsSeq(p), Counts(p, B), x \notin B
  PROVE  Counts(Append(p, e), B \cup {x})
<1>1. IsFiniteSet(B) /\ Len(p) = Cardinality(B)
  BY Zenon DEF Counts
<1>2. IsFiniteSet(B \cup {x}) /\ Cardinality(B \cup {x}) = Cardinality(B) + 1
  BY <1>1, FS_AddElement
<1>3. Len(Append(p, e)) = Len(p) + 1
  BY PlacedMore, Zenon
<1> QED BY <1>1, <1>2, <1>3, Zenon DEF Counts

(* What ProgInv says of the program as it is.                              *)
LEMMA ProgNow ==
  ASSUME ProgInv
  PROVE  /\ prog.set \in Nat \ {0} /\ prog.item \in Nat /\ IsSeq(prog.placed)
         /\ DOMAIN prog = Fields /\ given \in Given /\ GivenOK(given)
         /\ prog.pc = "boot" => prog.set = 1 /\ prog.item = 0 /\ prog.placed = <<>>
         /\ prog.pc = "inputs" => Counts(prog.placed, Before(given, prog.set, prog.item))
         /\ prog.pc = "inputs" /\ prog.item > 0 =>
              prog.set \in DOMAIN given.inputs /\ given.inputs[prog.set].name # <<>>
         /\ prog.pc \in {"folders", "stdin", "main", "ending"} =>
              Len(prog.placed) = Cardinality(NamedOf(given))
BY GivenTyped, Zenon DEF ProgInv, ProgSound

(* While the inputs are read, and behind them.                             *)
LEMMA InputsSound ==
  ASSUME NEW s \in Nat \ {0}, NEW i \in Nat, NEW p, NEW c, NEW g, IsSeq(p),
         Counts(p, Before(g, s, i)),
         i > 0 => s \in DOMAIN g.inputs /\ g.inputs[s].name # <<>>
  PROVE  ProgSound("inputs", s, i, p, c, g)
<1>1. "inputs" # "boot" /\ "inputs" # "exited" /\ "inputs" \notin {"folders", "stdin", "main", "ending"}
  OBVIOUS
<1> QED BY <1>1, Zenon DEF ProgSound

(* The program behind its inputs.                                          *)
LEMMA LaterSound ==
  ASSUME NEW pc \in {"folders", "stdin", "main", "ending"}, NEW s \in Nat \ {0}, NEW i \in Nat,
         NEW p, NEW c, NEW g, IsSeq(p), Len(p) = Cardinality(NamedOf(g))
  PROVE  ProgSound(pc, s, i, p, c, g)
<1>1. pc # "boot" /\ pc # "exited" /\ pc # "inputs"
  OBVIOUS
<1> QED BY <1>1, Zenon DEF ProgSound

(* The steps of fs_initialize.                                             *)
LEMMA StaticStep ==
  ASSUME ProgInv, AddStatic
  PROVE  ProgNext
<1>1. CASE Leave
  BY <1>1, LeaveStep, Zenon
<1>2. CASE ~Leave
  <2>1. prog.pc = "boot" /\ prog' = [prog EXCEPT !.pc = "inputs"] /\ given' = given
    BY <1>2, Zenon DEF AddStatic, At, Builds
  <2>2. ProgIs("inputs", prog.set, prog.item, prog.placed, prog.code)
    BY <2>1, ProgNow DEF ProgIs, Fields
  <2>3. prog.set = 1 /\ prog.item = 0 /\ prog.placed = <<>> /\ GivenOK(given) /\ IsSeq(prog.placed)
    BY <2>1, ProgNow, Zenon
  <2>4. Before(given, 1, 0) = {}
    BY <2>3, BeforeFacts
  <2>5. Counts(<<>>, {})
    BY FS_EmptySet DEF Counts
  <2>6. ~(0 > 0) /\ 1 \in Nat \ {0} /\ 0 \in Nat
    OBVIOUS
  <2>7. ProgSound("inputs", prog.set, prog.item, prog.placed, prog.code, given)
    BY <2>3, <2>4, <2>5, <2>6, InputsSound, Zenon
  <2> QED BY <2>2, <2>7, ProgStep, Zenon
<1> QED BY <1>1, <1>2

(* The step to an input set.                                               *)
LEMMA InputSetStep ==
  ASSUME ProgInv, AddInputSet
  PROVE  ProgNext
<1> DEFINE way == AddDirectories(ROOT, Set.name)
<1>1. prog.pc = "inputs" /\ prog.set <= Len(given.inputs) /\ prog.item = 0
  BY Zenon DEF AddInputSet, At
<1>2. /\ prog.set \in Nat \ {0} /\ prog.item \in Nat /\ IsSeq(prog.placed) /\ GivenOK(given)
      /\ DOMAIN prog = Fields /\ Counts(prog.placed, Before(given, prog.set, 0))
  BY <1>1, ProgNow, Zenon
<1>3. prog.set \in DOMAIN given.inputs /\ prog.set + 1 \in Nat \ {0}
  BY <1>1, <1>2 DEF GivenOK
<1>4. \/ Set.name = <<>> /\ given' = given /\ prog' = GoTo(prog.set + 1, "inputs")
      \/ Set.name # <<>> /\ given' = given /\ prog' = [prog EXCEPT !.item = 1, !.dir = way.at]
      \/ Leave
      \/ Breaks(way.at)
  BY Zenon DEF AddInputSet, Builds
<1> HIDE DEF way
<1>5. CASE Set.name = <<>> /\ given' = given /\ prog' = GoTo(prog.set + 1, "inputs")
  <2>1. ProgIs("inputs", prog.set + 1, 0, prog.placed, prog.code)
    BY <1>2, <1>5 DEF ProgIs, Fields, GoTo
  <2>2. Before(given, prog.set + 1, 0) = Before(given, prog.set, 0)
    BY <1>2, <1>5, BeforeFacts DEF Set
  <2>3. ~(0 > 0) /\ 0 \in Nat
    OBVIOUS
  <2>4. ProgSound("inputs", prog.set + 1, 0, prog.placed, prog.code, given)
    BY <1>2, <1>3, <2>2, <2>3, InputsSound, Zenon
  <2> QED BY <2>1, <2>4, ProgStep, Zenon
<1>6. CASE Set.name # <<>> /\ given' = given /\ prog' = [prog EXCEPT !.item = 1, !.dir = way.at]
  <2>1. ProgIs("inputs", prog.set, 1, prog.placed, prog.code)
    BY <1>1, <1>2, <1>6 DEF ProgIs, Fields
  <2>2. Before(given, prog.set, 1) = Before(given, prog.set, 0)
    BY <1>2, BeforeFacts
  <2>3. 1 \in Nat
    OBVIOUS
  <2>4. ProgSound("inputs", prog.set, 1, prog.placed, prog.code, given)
    BY <1>2, <1>3, <1>6, <2>2, <2>3, InputsSound, Zenon DEF Set
  <2> QED BY <2>1, <2>4, ProgStep, Zenon
<1> QED BY <1>4, <1>5, <1>6, LeaveStep, BreakStep, Zenon

(* The step that places a file.                                            *)
LEMMA PlacedStep ==
  ASSUME ProgInv, NEW r, NEW f, prog.pc = "inputs", prog.item > 0, prog.item <= Len(Set.items),
         Item.path # <<>>, Placed(r, f)
  PROVE  ProgNext
<1> DEFINE e == [path |-> Set.name \o Item.path, file |-> f]
           q == Append(prog.placed, e)
<1>1. /\ prog.set \in Nat \ {0} /\ prog.item \in Nat /\ IsSeq(prog.placed) /\ GivenOK(given)
      /\ DOMAIN prog = Fields /\ Counts(prog.placed, Before(given, prog.set, prog.item))
      /\ prog.set \in DOMAIN given.inputs /\ given.inputs[prog.set].name # <<>>
  BY ProgNow, Zenon
<1>2. \/ Leave \/ Breaks(r.at) \/ Breaks(Null)
      \/ /\ given' = given
         /\ prog' = [prog EXCEPT !.item = @ + 1, !.argv = Array(ARGV, @),
                       !.environ = Array(ENVIRON, @), !.placed = q]
  BY Zenon DEF Placed, Builds
<1>3. ASSUME given' = given,
             prog' = [prog EXCEPT !.item = @ + 1, !.argv = Array(ARGV, @),
                       !.environ = Array(ENVIRON, @), !.placed = q]
      PROVE  ProgNext
  <2> HIDE DEF q
  <2>1. ProgIs("inputs", prog.set, prog.item + 1, q, prog.code)
    BY <1>1, <1>3 DEF ProgIs, Fields
  <2>2. NamedPair(given, prog.set, prog.item)
    BY <1>1 DEF NamedPair, GivenOK, Set, Item
  <2>3. /\ Before(given, prog.set, prog.item + 1) = Before(given, prog.set, prog.item) \cup {<<prog.set, prog.item>>}
        /\ <<prog.set, prog.item>> \notin Before(given, prog.set, prog.item)
    BY <1>1, <2>2, BeforeItem, Zenon
  <2>4. Counts(q, Before(given, prog.set, prog.item) \cup {<<prog.set, prog.item>>})
    BY <1>1, <2>3, CountsMore, Zenon DEF q
  <2>5. IsSeq(q)
    BY <1>1, PlacedMore, Zenon DEF q
  <2>6. prog.item + 1 \in Nat
    BY <1>1
  <2>7. ProgSound("inputs", prog.set, prog.item + 1, q, prog.code, given)
    BY <1>1, <2>3, <2>4, <2>5, <2>6, InputsSound, Zenon
  <2> QED BY <2>1, <2>7, ProgStep, Zenon
<1> QED BY <1>2, <1>3, LeaveStep, BreakStep, Zenon

(* The step to an input item.                                              *)
LEMMA InputItemStep ==
  ASSUME ProgInv, AddInputItem
  PROVE  ProgNext
<1> DEFINE way  == AddDirectories(prog.dir, Front(Item.path))
           with == Append(way.ns, NewNode(Stored(Last(Item.path), 0), FALSE, <<0, 0>>))
<1>1. prog.pc = "inputs" /\ prog.item > 0 /\ prog.item <= Len(Set.items)
  BY Zenon DEF AddInputItem, At
<1>2. /\ prog.set \in Nat \ {0} /\ prog.item \in Nat /\ IsSeq(prog.placed) /\ GivenOK(given)
      /\ DOMAIN prog = Fields /\ Counts(prog.placed, Before(given, prog.set, prog.item))
      /\ prog.set \in DOMAIN given.inputs /\ given.inputs[prog.set].name # <<>>
  BY <1>1, ProgNow, Zenon
<1>3. \/ Item.path = <<>> /\ given' = given /\ prog' = [prog EXCEPT !.item = @ + 1]
      \/ Leave
      \/ Breaks(way.at)
      \/ Item.path # <<>> /\ Placed(link_file_to_folder(with, way.at, Len(with)), Len(with))
  BY Zenon DEF AddInputItem, Builds
<1> HIDE DEF way, with
<1>4. CASE Item.path = <<>> /\ given' = given /\ prog' = [prog EXCEPT !.item = @ + 1]
  <2>1. ProgIs("inputs", prog.set, prog.item + 1, prog.placed, prog.code)
    BY <1>1, <1>2, <1>4 DEF ProgIs, Fields
  <2>2. ~NamedPair(given, prog.set, prog.item)
    BY <1>4, Zenon DEF NamedPair, Set, Item
  <2>3. Before(given, prog.set, prog.item + 1) = Before(given, prog.set, prog.item)
    BY <1>2, <2>2, BeforeFacts
  <2>4. prog.item + 1 \in Nat
    BY <1>2
  <2>5. ProgSound("inputs", prog.set, prog.item + 1, prog.placed, prog.code, given)
    BY <1>2, <2>3, <2>4, InputsSound, Zenon
  <2> QED BY <2>1, <2>5, ProgStep, Zenon
<1>5. CASE Item.path # <<>> /\ Placed(link_file_to_folder(with, way.at, Len(with)), Len(with))
  BY <1>1, <1>5, PlacedStep, Zenon
<1> QED BY <1>3, <1>4, <1>5, LeaveStep, BreakStep, Zenon

(* The step to the next set, or behind the last one.                       *)
LEMMA NextSetStep ==
  ASSUME ProgInv, NextInputSet
  PROVE  ProgNext
<1>1. prog.pc = "inputs" /\ given' = given
  BY Zenon DEF NextInputSet, At, Builds
<1>2. /\ prog.set \in Nat \ {0} /\ prog.item \in Nat /\ IsSeq(prog.placed) /\ GivenOK(given)
      /\ DOMAIN prog = Fields /\ Counts(prog.placed, Before(given, prog.set, prog.item))
      /\ prog.item > 0 => prog.set \in DOMAIN given.inputs
  BY <1>1, ProgNow, Zenon
<1>3. prog.set + 1 \in Nat \ {0} /\ 0 \in Nat /\ ~(0 > 0) /\ 1 \in Nat \ {0}
  BY <1>2
<1>4. CASE prog.item > 0 /\ prog.item > Len(Set.items) /\ prog' = GoTo(prog.set + 1, "inputs")
  <2>1. ProgIs("inputs", prog.set + 1, 0, prog.placed, prog.code)
    BY <1>1, <1>2, <1>4 DEF ProgIs, Fields, GoTo
  <2>2. prog.set \in 1 .. Len(given.inputs) /\ prog.item > Len(given.inputs[prog.set].items)
    BY <1>2, <1>4, Zenon DEF GivenOK, Set
  <2>3. Before(given, prog.set + 1, 0) = Before(given, prog.set, prog.item)
    BY <1>2, <2>2, BeforeFacts
  <2>4. ProgSound("inputs", prog.set + 1, 0, prog.placed, prog.code, given)
    BY <1>2, <1>3, <2>3, InputsSound, Zenon
  <2> QED BY <2>1, <2>4, ProgStep, Zenon
<1>5. CASE prog.set > Len(given.inputs) /\ prog' = GoTo(1, "folders")
  <2>1. ProgIs("folders", 1, 0, prog.placed, prog.code)
    BY <1>1, <1>2, <1>5 DEF ProgIs, Fields, GoTo
  <2>2. Before(given, prog.set, prog.item) = NamedOf(given)
    BY <1>2, <1>5, BeforeFacts
  <2>3. Len(prog.placed) = Cardinality(NamedOf(given))
    BY <1>2, <2>2, Zenon DEF Counts
  <2>4. ProgSound("folders", 1, 0, prog.placed, prog.code, given)
    BY <1>2, <1>3, <2>3, LaterSound, Zenon
  <2> QED BY <2>1, <2>4, ProgStep, Zenon
<1> QED BY <1>4, <1>5, Zenon DEF NextInputSet

(* Steps behind the inputs, which go to pc and set s.                      *)
LEMMA LaterStep ==
  ASSUME ProgInv, prog.pc \in {"folders", "stdin", "main", "ending"},
         NEW pc \in {"folders", "stdin", "main", "ending"}, NEW s \in Nat \ {0}, NEW i \in Nat, NEW c,
         ProgIs(pc, s, i, prog.placed, c)
  PROVE  ProgNext
<1>1. IsSeq(prog.placed) /\ Len(prog.placed) = Cardinality(NamedOf(given))
  BY ProgNow, Zenon
<1>2. ProgSound(pc, s, i, prog.placed, c, given)
  BY <1>1, LaterSound, Zenon
<1> QED BY <1>2, ProgStep, Zenon

(* The step to the folder of an output set.                                *)
LEMMA FolderStep ==
  ASSUME ProgInv, AddOutputFolder
  PROVE  ProgNext
<1> DEFINE way == AddDirectories(ROOT, given.outputs[prog.set])
<1>1. prog.pc = "folders" /\ prog.pc \in {"folders", "stdin", "main", "ending"}
  BY Zenon DEF AddOutputFolder, At
<1>2. DOMAIN prog = Fields /\ prog.set \in Nat \ {0}
  BY ProgNow, Zenon
<1>3. prog.set + 1 \in Nat \ {0} /\ 0 \in Nat /\ 1 \in Nat \ {0}
  BY <1>2
<1>4. \/ given' = given /\ prog' = GoTo(1, "stdin")
      \/ given' = given /\ prog' = GoTo(prog.set + 1, "folders")
      \/ Leave
      \/ Breaks(way.at)
  BY Zenon DEF AddOutputFolder, Builds
<1> HIDE DEF way
<1>5. CASE given' = given /\ prog' = GoTo(1, "stdin")
  <2>1. ProgIs("stdin", 1, 0, prog.placed, prog.code)
    BY <1>2, <1>5 DEF ProgIs, Fields, GoTo
  <2> QED BY <1>1, <1>3, <2>1, LaterStep, Zenon
<1>6. CASE given' = given /\ prog' = GoTo(prog.set + 1, "folders")
  <2>1. ProgIs("folders", prog.set + 1, 0, prog.placed, prog.code)
    BY <1>2, <1>6 DEF ProgIs, Fields, GoTo
  <2> QED BY <1>1, <1>3, <2>1, LaterStep, Zenon
<1> QED BY <1>4, <1>5, <1>6, LeaveStep, BreakStep, Zenon

(* The step to main.                                                       *)
LEMMA StdinStep ==
  ASSUME ProgInv, AddStdin
  PROVE  ProgNext
<1>1. prog.pc = "stdin" /\ prog.pc \in {"folders", "stdin", "main", "ending"}
  BY Zenon DEF AddStdin, At
<1>2. DOMAIN prog = Fields /\ prog.set \in Nat \ {0} /\ prog.item \in Nat
  BY ProgNow, Zenon
<1>3. \/ given' = given /\ Ready
      \/ Leave
      \/ Breaks(Null)
  BY Zenon DEF AddStdin, Builds
<1>4. CASE given' = given /\ Ready
  <2>1. ProgIs("main", prog.set, prog.item, prog.placed, prog.code)
    BY <1>2, <1>4 DEF ProgIs, Fields, Ready
  <2> QED BY <1>1, <1>2, <2>1, LaterStep, Zenon
<1> QED BY <1>3, <1>4, LeaveStep, BreakStep, Zenon

(* The calls of main do not move the program.                              *)
LEMMA MainStep ==
  ASSUME ProgInv, Call \/ (\E path \in Paths : stat(path)) \/ Unsupported
  PROVE  ProgNext
<1>1. DOMAIN prog = Fields
  BY ProgNow, Zenon
<1>2. \/ /\ given' = given
         /\ prog' = [prog EXCEPT !.errno = process_error(ret'.code), !.calls = @ + 1]
      \/ given' = given /\ prog' = [prog EXCEPT !.errno = process_error(ENOTDIR)]
      \/ given' = given /\ prog' = [prog EXCEPT !.errno = E]
  BY Zenon DEF Call, stat, Unsupported, Streams, Processes, Limits, Sockets, SetsErrno
<1>3. SameProg
  BY <1>1, <1>2 DEF SameProg, ProgIs, Fields
<1> QED BY <1>3, SameStep, Zenon

(* The end of main.                                                        *)
LEMMA ReturnStep ==
  ASSUME ProgInv, Return \/ _exit
  PROVE  ProgNext
<1>1. prog.pc = "main" /\ prog.pc \in {"folders", "stdin", "main", "ending"}
  BY Zenon DEF Return, _exit, At
<1>2. DOMAIN prog = Fields
  BY ProgNow, Zenon
<1>3. PICK c : Ending(c)
  BY Zenon DEF Return, _exit
<1>4. given' = given /\ prog' = [GoTo(1, "ending") EXCEPT !.code = c]
  BY <1>3, Zenon DEF Ending
<1>5. ProgIs("ending", 1, 0, prog.placed, c)
  BY <1>2, <1>4 DEF ProgIs, Fields, GoTo
<1>6. 1 \in Nat \ {0} /\ 0 \in Nat
  OBVIOUS
<1> QED BY <1>1, <1>5, <1>6, LaterStep, Zenon

(* The steps of fs_terminate.                                              *)
LEMMA NextOutputStep ==
  ASSUME ProgInv, At("ending"), NextOutputSet
  PROVE  ProgNext
<1>1. prog.pc = "ending" /\ prog.pc \in {"folders", "stdin", "main", "ending"}
  BY Zenon DEF At
<1>2. DOMAIN prog = Fields /\ prog.set \in Nat \ {0}
  BY ProgNow, Zenon
<1>3. given' = given /\ prog' = [GoTo(prog.set + 1, "ending") EXCEPT !.walk = <<>>]
  BY Zenon DEF NextOutputSet
<1>4. ProgIs("ending", prog.set + 1, 0, prog.placed, prog.code)
  BY <1>2, <1>3 DEF ProgIs, Fields, GoTo
<1>5. prog.set + 1 \in Nat \ {0} /\ 0 \in Nat
  BY <1>2
<1> QED BY <1>1, <1>4, <1>5, LaterStep, Zenon

(* The walk goes on.                                                       *)
LEMMA GoesStep ==
  ASSUME ProgInv, NEW w, NEW gone, Goes(w, gone)
  PROVE  ProgNext
<1>1. DOMAIN prog = Fields
  BY ProgNow, Zenon
<1>2. given' = given /\ prog' = [prog EXCEPT !.walk = w, !.lost = @ \/ gone]
  BY Zenon DEF Goes
<1>3. SameProg
  BY <1>1, <1>2 DEF SameProg, ProgIs, Fields
<1> QED BY <1>3, SameStep, Zenon

(* The step to an output set.                                              *)
LEMMA OutputSetStep ==
  ASSUME ProgInv, OutputSet
  PROVE  ProgNext
<1> DEFINE d == FolderOf(given.outputs[prog.set])
           w == <<[next |-> node[d].child, path |-> <<>>]>>
<1>1. At("ending")
  BY Zenon DEF OutputSet
<1>2. \/ Breaks(d) \/ Breaks(Confused) \/ NextOutputSet
      \/ given' = given /\ prog' = [prog EXCEPT !.walk = w]
  BY Zenon DEF OutputSet
<1> HIDE DEF d, w
<1>3. CASE given' = given /\ prog' = [prog EXCEPT !.walk = w]
  <2>1. DOMAIN prog = Fields
    BY ProgNow, Zenon
  <2>2. SameProg
    BY <1>3, <2>1 DEF SameProg, ProgIs, Fields
  <2> QED BY <2>2, SameStep, Zenon
<1> QED BY <1>1, <1>2, <1>3, BreakStep, NextOutputStep, Zenon

(* The step to a file of an output set.                                    *)
LEMMA OutputEntryStep ==
  ASSUME ProgInv, OutputEntry
  PROVE  ProgNext
<1>1. \/ Leave \/ Breaks(Freed) \/ Breaks(Null)
      \/ \E w, gone : Goes(w, gone)
  BY Zenon DEF OutputEntry, OutputDirectory, OutputFile
<1> QED BY <1>1, LeaveStep, BreakStep, GoesStep, Zenon

(* The step out of a folder.                                               *)
LEMMA FolderDoneStep ==
  ASSUME ProgInv, FolderDone
  PROVE  ProgNext
<1>1. At("ending") /\ (NextOutputSet \/ \E w, gone : Goes(w, gone))
  BY Zenon DEF FolderDone
<1> QED BY <1>1, NextOutputStep, GoesStep, Zenon

(* The step that ends the program behind the last output set.              *)
LEMMA ExitStep ==
  ASSUME ProgInv, dandelion_exit
  PROVE  ProgNext
<1>1. /\ prog.pc = "ending" /\ prog.pc \in {"folders", "stdin", "main", "ending"}
      /\ prog.set > Len(given.outputs) /\ given' = given /\ prog' = [prog EXCEPT !.pc = "exited"]
  BY Zenon DEF dandelion_exit, At
<1>2. /\ DOMAIN prog = Fields /\ prog.set \in Nat \ {0} /\ prog.item \in Nat /\ IsSeq(prog.placed)
      /\ Len(prog.placed) = Cardinality(NamedOf(given))
  BY <1>1, ProgNow, Zenon
<1>3. ProgIs("exited", prog.set, prog.item, prog.placed, prog.code)
  BY <1>1, <1>2 DEF ProgIs, Fields
<1>4. "exited" \notin {"boot", "inputs", "folders", "stdin", "main", "ending"}
  OBVIOUS
<1>5. ProgSound("exited", prog.set, prog.item, prog.placed, prog.code, given)
  BY <1>1, <1>2, <1>4, Zenon DEF ProgSound
<1> QED BY <1>3, <1>5, ProgStep, Zenon

(* Every step of the program keeps it sound.                               *)
LEMMA ProgInductive ==
  ASSUME ProgInv, [SessionNext]_all
  PROVE  ProgNext
<1>1. CASE UNCHANGED all
  <2>1. SameProg
    BY <1>1, Zenon DEF all, own, ProgInv, SameProg, ProgIs
  <2> QED BY <2>1, SameStep, Zenon
<1>2. CASE SessionNext
  BY <1>2, StaticStep, InputSetStep, InputItemStep, NextSetStep, FolderStep, StdinStep, MainStep,
     ReturnStep, OutputSetStep, OutputEntryStep, FolderDoneStep, ExitStep, Zenon
     DEF SessionNext, fs_initialize, fs_terminate
<1> QED BY <1>1, <1>2, Zenon

(* The program is sound in the beginning.                                  *)
LEMMA ProgInit ==
  ASSUME SessionInit
  PROVE  ProgInv
<1>1. given \in Given /\ prog = [pc |-> "boot", set |-> 1, item |-> 0, dir |-> NULL,
             argv |-> "null", environ |-> "null", placed |-> <<>>,
             walk |-> <<>>, calls |-> 0, lost |-> FALSE, errno |-> 0, code |-> 0]
  BY Zenon DEF SessionInit
<1>2. /\ DOMAIN prog = Fields /\ prog.pc = "boot" /\ prog.set = 1 /\ prog.item = 0
      /\ prog.placed = <<>> /\ prog.code = 0
  BY <1>1 DEF Fields
<1>3. <<>> \in Seq({}) /\ 1 \in Nat \ {0} /\ 0 \in Nat
  OBVIOUS
<1>4. "boot" \notin {"inputs", "folders", "stdin", "main", "ending", "exited"}
  OBVIOUS
<1>5. ProgSound("boot", 1, 0, <<>>, 0, given)
  BY <1>3, <1>4, Zenon DEF ProgSound, IsSeq
<1> QED BY <1>1, <1>2, <1>5, Zenon DEF ProgInv

(* For every platform and every program: a program that ends with 0 was    *)
(* given all of its inputs and all of its output sets were gone through    *)
(* (fs_initialize, fs_terminate and the exit code of __initialization).    *)
THEOREM ZeroIsDone == SessionSpec => []ZeroMeansDone
<1>1. SessionInit => ProgInv
  BY ProgInit
<1>2. ProgInv /\ [SessionNext]_all => ProgInv'
  <2>1. ProgNext => ProgInv'
    BY Zenon DEF ProgNext, ProgInv
  <2> QED BY <2>1, ProgInductive
<1>3. ProgInv => ZeroMeansDone
  <2>1. Named = NamedOf(given)
    BY Zenon DEF Named, NamedOf
  <2> QED BY <2>1, Zenon DEF ProgInv, ProgSound, ZeroMeansDone
<1> QED BY <1>1, <1>2, <1>3, PTL DEF SessionSpec
=============================================================================
