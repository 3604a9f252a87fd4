----------------------------- MODULE HeapProofs -----------------------------
(***************************************************************************)
(* What the steps of dandelion_alloc, dandelion_free and sbrk do to the    *)
(* slabs of a heap, for heaps and requests of any size: rows of slabs and  *)
(* how they are cut and joined, how an allocation is taken out of a free   *)
(* slab, how the heap is set up, grows and is fenced in; that every        *)
(* operation takes a sound heap to a sound heap, and the theorems that     *)
(* follow: the invariants of the allocator, that the search of             *)
(* dandelion_alloc visits the slabs of the heap, and that the allocator    *)
(* and sbrk implement MemoryService.                                       *)
(***************************************************************************)
EXTENDS Heap, WellFoundedInduction, TLAPS

(* The types of the parts of a heap.                                       *)
LEMMA HeapParts ==
  ASSUME NEW h \in Heaps
  PROVE  /\ h.slabs \subseteq Nat /\ h.slabs \subseteq Index
         /\ h.fences \subseteq Nat /\ h.fences \subseteq Index
         /\ h.last \in Nat /\ h.last \in Index
         /\ h.mem \in [Index -> Nat]
         /\ \A i \in Index : /\ h.mem[i] \in 0 .. MAX_VAL
                            /\ End(h, i) \in Nat
                            /\ Untag(h.mem[i]) \in Nat
<1>1. Flag \in Nat
  BY HeapAssumption, Zenon
<1>2. Index \subseteq Nat
  BY DEF Index
<1>3. /\ h.slabs \subseteq Index /\ h.fences \subseteq Index /\ h.last \in Index
      /\ h.mem \in [Index -> 0 .. MAX_VAL]
  BY Zenon DEF Heaps
<1>4. \A n \in 0 .. MAX_VAL : Untag(n) \in Nat
  BY <1>1 DEF Untag, is_occupied, MAX_VAL
<1>5. \A i \in Index : h.mem[i] \in 0 .. MAX_VAL
  BY <1>3, Zenon
<1>6. h.mem \in [Index -> Nat]
  BY <1>1, <1>3 DEF MAX_VAL
<1> QED BY <1>2, <1>3, <1>4, <1>5, <1>6, Zenon DEF End

-----------------------------------------------------------------------------
(* How rows of slabs are cut and joined.                                   *)

(* A row of slabs can be cut at any slab.                                  *)
LEMMA TilesCut ==
  ASSUME NEW h \in Heaps, NEW a \in Nat, NEW b \in Nat, NEW c \in Nat,
         Tiles(h, a, c), a <= b, b <= c, b \in h.slabs \cup {c}
  PROVE  Tiles(h, a, b) /\ Tiles(h, b, c)
<1>t. \A s \in h.slabs : s \in Nat /\ End(h, s) \in Nat
  BY HeapParts, Zenon
<1>1. a < b => a \in h.slabs
  BY DEF Tiles
<1>2. ASSUME NEW s \in h.slabs, a <= s, s < b
      PROVE  /\ s <= End(h, s) /\ End(h, s) < b
             /\ Untag(h.mem[End(h, s)]) = s
             /\ IsFree(h, End(h, s)) <=> IsFree(h, s)
             /\ End(h, s) + 1 \in h.slabs \cup {b}
             /\ \A t \in h.slabs : s < t => End(h, s) < t
  BY <1>2, <1>t DEF Tiles
<1>3. ASSUME NEW t \in h.slabs \cup {b}, a < t, t <= b
      PROVE  /\ Untag(h.mem[t - 1]) \in h.slabs
             /\ a <= Untag(h.mem[t - 1]) /\ Untag(h.mem[t - 1]) < t
             /\ End(h, Untag(h.mem[t - 1])) = t - 1
  BY <1>3, <1>t DEF Tiles
<1>4. Tiles(h, a, b)
  BY <1>1, <1>2, <1>3, Zenon DEF Tiles
<1>5. ASSUME NEW t \in h.slabs \cup {c}, b < t, t <= c
      PROVE  b <= Untag(h.mem[t - 1])
  <2> DEFINE p == Untag(h.mem[t - 1])
  <2>1. p \in h.slabs /\ a <= p /\ End(h, p) = t - 1
    BY <1>5, <1>t DEF Tiles
  <2>2. CASE p < b
    BY <2>1, <2>2, <1>2, <1>5, <1>t
  <2> QED BY <2>1, <2>2, <1>t
<1>6. Tiles(h, b, c)
  BY <1>5, <1>t DEF Tiles
<1> QED BY <1>4, <1>6, Zenon

(* Two rows of slabs that meet make one.                                   *)
LEMMA TilesJoin ==
  ASSUME NEW h \in Heaps, NEW a \in Nat, NEW b \in Nat, NEW c \in Nat,
         Tiles(h, a, b), Tiles(h, b, c), a <= b, b <= c
  PROVE  Tiles(h, a, c)
<1>t. \A s \in h.slabs : s \in Nat /\ End(h, s) \in Nat
  BY HeapParts, Zenon
<1>1. a < c => a \in h.slabs
  BY DEF Tiles
<1>2. ASSUME NEW s \in h.slabs, a <= s, s < c
      PROVE  /\ s <= End(h, s) /\ End(h, s) < c
             /\ Untag(h.mem[End(h, s)]) = s
             /\ IsFree(h, End(h, s)) <=> IsFree(h, s)
             /\ End(h, s) + 1 \in h.slabs \cup {c}
             /\ \A t \in h.slabs : s < t => End(h, s) < t
  <2>1. CASE s < b
    <3>1. /\ s <= End(h, s) /\ End(h, s) < b
          /\ Untag(h.mem[End(h, s)]) = s
          /\ IsFree(h, End(h, s)) <=> IsFree(h, s)
          /\ End(h, s) + 1 \in h.slabs \cup {b}
          /\ \A t \in h.slabs : s < t => End(h, s) < t
      BY <1>2, <2>1, Zenon DEF Tiles
    <3>2. b < c => b \in h.slabs
      BY Zenon DEF Tiles
    <3> QED BY <3>1, <3>2, <1>t
  <2>2. CASE b <= s
    BY <1>2, <2>2, Zenon DEF Tiles
  <2> QED BY <2>1, <2>2, <1>t
<1>3. ASSUME NEW t \in h.slabs \cup {c}, a < t, t <= c
      PROVE  /\ Untag(h.mem[t - 1]) \in h.slabs
             /\ a <= Untag(h.mem[t - 1]) /\ Untag(h.mem[t - 1]) < t
             /\ End(h, Untag(h.mem[t - 1])) = t - 1
  <2>1. CASE t <= b
    BY <1>3, <2>1, <1>t DEF Tiles
  <2>2. CASE b < t
    <3>1. /\ Untag(h.mem[t - 1]) \in h.slabs
          /\ b <= Untag(h.mem[t - 1]) /\ Untag(h.mem[t - 1]) < t
          /\ End(h, Untag(h.mem[t - 1])) = t - 1
      BY <1>3, <2>2, <1>t, Zenon DEF Tiles
    <3> QED BY <3>1, <1>t
  <2> QED BY <2>1, <2>2, <1>t
<1> QED BY <1>1, <1>2, <1>3, Zenon DEF Tiles

(* A row of slabs depends only on its own words.                           *)
LEMMA TilesFrame ==
  ASSUME NEW h \in Heaps, NEW g \in Heaps, NEW a \in Nat, NEW b \in Nat,
         Tiles(h, a, b),
         \A i \in a .. b - 1 : g.mem[i] = h.mem[i],
         \A i \in a .. b - 1 : i \in g.slabs <=> i \in h.slabs
  PROVE  Tiles(g, a, b)
<1>t. /\ \A s \in h.slabs : s \in Nat /\ End(h, s) \in Nat
      /\ \A s \in g.slabs : s \in Nat /\ End(g, s) \in Nat
  BY HeapParts, Zenon
<1>1. a < b => a \in g.slabs
  BY DEF Tiles
<1>2. ASSUME NEW s \in g.slabs, a <= s, s < b
      PROVE  /\ s <= End(g, s) /\ End(g, s) < b
             /\ Untag(g.mem[End(g, s)]) = s
             /\ IsFree(g, End(g, s)) <=> IsFree(g, s)
             /\ End(g, s) + 1 \in g.slabs \cup {b}
             /\ \A t \in g.slabs : s < t => End(g, s) < t
  <2>1. s \in h.slabs /\ s \in a .. b - 1 /\ End(g, s) = End(h, s)
    BY <1>2, <1>t DEF End
  <2>2. /\ s <= End(h, s) /\ End(h, s) < b
        /\ Untag(h.mem[End(h, s)]) = s
        /\ IsFree(h, End(h, s)) <=> IsFree(h, s)
        /\ End(h, s) + 1 \in h.slabs \cup {b}
        /\ \A t \in h.slabs : s < t => End(h, s) < t
    BY <1>2, <2>1, Zenon DEF Tiles
  <2>3. End(h, s) \in a .. b - 1
    BY <1>2, <2>1, <2>2, <1>t
  <2>4. g.mem[s] = h.mem[s] /\ g.mem[End(h, s)] = h.mem[End(h, s)]
    BY <2>1, <2>3, Zenon
  <2>5. End(g, s) + 1 \in g.slabs \cup {b}
    BY <2>1, <2>2, <2>3, <1>t
  <2>6. ASSUME NEW t \in g.slabs, s < t PROVE End(g, s) < t
    BY <2>1, <2>2, <2>3, <2>6, <1>t
  <2> QED BY <2>1, <2>2, <2>4, <2>5, <2>6, Zenon DEF IsFree
<1>3. ASSUME NEW t \in g.slabs \cup {b}, a < t, t <= b
      PROVE  /\ Untag(g.mem[t - 1]) \in g.slabs
             /\ a <= Untag(g.mem[t - 1]) /\ Untag(g.mem[t - 1]) < t
             /\ End(g, Untag(g.mem[t - 1])) = t - 1
  <2> DEFINE p == Untag(h.mem[t - 1])
  <2>1. t \in h.slabs \cup {b} /\ t - 1 \in a .. b - 1
    BY <1>3, <1>t
  <2>2. p \in h.slabs /\ a <= p /\ p < t /\ End(h, p) = t - 1
    BY <1>3, <2>1, Zenon DEF Tiles
  <2>3. p \in a .. b - 1
    BY <1>3, <2>1, <2>2, <1>t
  <2>4. Untag(g.mem[t - 1]) = p /\ p \in g.slabs /\ End(g, p) = End(h, p)
    BY <2>1, <2>2, <2>3, Zenon DEF End
  <2> QED BY <2>2, <2>4, Zenon
<1> QED BY <1>1, <1>2, <1>3, Zenon DEF Tiles

(* A single slab.                                                          *)
LEMMA TilesOne ==
  ASSUME NEW h \in Heaps, NEW a \in h.slabs, NEW b \in Nat,
         a < b, End(h, a) = b - 1, Untag(h.mem[b - 1]) = a,
         IsFree(h, b - 1) <=> IsFree(h, a),
         \A t \in h.slabs : t <= a \/ b <= t
  PROVE  Tiles(h, a, b)
<1>t. a \in Nat /\ \A s \in h.slabs : s \in Nat /\ End(h, s) \in Nat
  BY HeapParts, Zenon
<1> QED BY <1>t DEF Tiles

-----------------------------------------------------------------------------
(* What a change of the words a..b-1 does to a heap.                       *)

(* The values of descriptors.                                              *)
LEMMA TagFacts ==
  /\ Flag \in Nat /\ MAX_VAL \in 0 .. MAX_VAL /\ is_occupied(MAX_VAL)
  /\ \A i \in Index : /\ i \in Nat /\ i < Flag
                      /\ i \in 0 .. MAX_VAL /\ i + Flag \in 0 .. MAX_VAL
                      /\ ~is_occupied(i) /\ Untag(i) = i
                      /\ is_occupied(i + Flag) /\ Untag(i + Flag) = i
<1>1. Flag \in Nat /\ HeapEnd \in Nat /\ HeapBegin \in Nat /\ HeapBegin > 0
      /\ Flag > HeapEnd /\ HeapBegin <= HeapEnd
  BY HeapAssumption, Zenon
<1>2. \A i \in Index : i \in Nat /\ i < Flag
  BY <1>1 DEF Index, Word
<1> QED BY <1>1, <1>2 DEF MAX_VAL, is_occupied, Untag

(* Indices are an interval from 0.                                         *)
LEMMA IndexInterval == \A i \in Index, j \in Nat : j <= i => j \in Index
BY HeapAssumption DEF Index, Word

(* Facts about one slab of a row.                                          *)
LEMMA SlabFacts ==
  ASSUME NEW h \in Heaps, WellFormed(h), NEW s \in h.slabs
  PROVE  /\ s \in Nat /\ End(h, s) \in Nat /\ s <= End(h, s) /\ End(h, s) < h.last
         /\ s \in Index /\ End(h, s) \in Index /\ End(h, s) + 1 \in Index
         /\ Untag(h.mem[End(h, s)]) = s
         /\ IsFree(h, End(h, s)) <=> IsFree(h, s)
         /\ End(h, s) + 1 \in h.slabs \cup {h.last}
         /\ \A t \in h.slabs : s < t => End(h, s) < t
         /\ s # 0 => /\ s - 1 \in Index
                     /\ Untag(h.mem[s - 1]) \in h.slabs
                     /\ Untag(h.mem[s - 1]) < s
                     /\ End(h, Untag(h.mem[s - 1])) = s - 1
<1>1. /\ h.slabs \subseteq Nat /\ h.slabs \subseteq Index
      /\ h.last \in Nat /\ h.last \in Index /\ End(h, s) \in Nat
  BY HeapParts, Zenon
<1>2. Tiles(h, 0, h.last) /\ s < h.last /\ 0 <= s /\ s \in Nat
  BY <1>1 DEF WellFormed
<1>3. \A i \in Nat : i <= h.last => i \in Index
  BY <1>1, IndexInterval, Zenon
<1>4. /\ s <= End(h, s) /\ End(h, s) < h.last
      /\ Untag(h.mem[End(h, s)]) = s
      /\ IsFree(h, End(h, s)) <=> IsFree(h, s)
      /\ End(h, s) + 1 \in h.slabs \cup {h.last}
      /\ \A t \in h.slabs : s < t => End(h, s) < t
  BY <1>2, Zenon DEF Tiles
<1>5. s # 0 => /\ Untag(h.mem[s - 1]) \in h.slabs
               /\ Untag(h.mem[s - 1]) < s
               /\ End(h, Untag(h.mem[s - 1])) = s - 1
  BY <1>1, <1>2 DEF Tiles
<1> QED BY <1>1, <1>2, <1>3, <1>4, <1>5

(* Slab s of h is an occupied slab of g that still holds its words.        *)
Keeps(h, g, s) ==
  /\ s \in g.slabs /\ ~IsFree(g, s)
  /\ End(h, s) <= End(g, s)
  /\ \A w \in s + 1 .. End(h, s) - 1 : g.mem[w] = h.mem[w]

(* Slab s of g is a free slab that h has too.                              *)
StillFree(h, g, s) ==
  s \in h.slabs /\ IsFree(h, s) /\ End(g, s) = End(h, s)

(* g differs from h only in the words and slabs of a..b-1.                 *)
Outside(h, g, a, b) ==
  \A i \in Index : (i < a \/ b <= i) =>
    g.mem[i] = h.mem[i] /\ (i \in g.slabs <=> i \in h.slabs)

(* Replacing the slabs of a..b-1 by others that tile the same words keeps  *)
(* the heap well formed.                                                   *)
LEMMA Rewrite ==
  ASSUME NEW h \in Heaps, NEW g \in Heaps, WellFormed(h),
         NEW a \in h.slabs, NEW b \in h.slabs \cup {h.last}, a < b,
         g.last = h.last, Outside(h, g, a, b), Tiles(g, a, b)
  PROVE  /\ WellFormed(g)
         /\ \A s \in h.slabs : (s < a \/ b <= s) =>
              /\ s \in g.slabs /\ End(g, s) = End(h, s)
              /\ IsFree(g, s) <=> IsFree(h, s)
              /\ \A w \in s .. End(h, s) : g.mem[w] = h.mem[w]
<1>1. /\ a \in Nat /\ b \in Nat /\ h.last \in Nat /\ b <= h.last
      /\ h.slabs \subseteq Nat /\ g.slabs \subseteq Nat
      /\ h.slabs \subseteq Index /\ g.slabs \subseteq Index
      /\ \A i \in Nat : i <= h.last => i \in Index
  <2>1. \A i \in Nat : i <= h.last => i \in Index
    BY HeapParts, IndexInterval, Zenon
  <2> QED BY <2>1, HeapParts DEF WellFormed
<1>2. Tiles(h, 0, a) /\ Tiles(h, a, h.last)
  BY <1>1, TilesCut DEF WellFormed
<1>3. Tiles(h, b, h.last)
  BY <1>1, <1>2, TilesCut
<1>4. Tiles(g, 0, a)
  BY <1>1, <1>2, TilesFrame DEF Outside
<1>5. Tiles(g, b, h.last)
  BY <1>1, <1>3, TilesFrame DEF Outside
<1>6. Tiles(g, 0, h.last)
  BY <1>1, <1>4, <1>5, TilesJoin
<1>7. WellFormed(g)
  <2>1. ASSUME NEW s \in g.slabs PROVE s < g.last
    <3>1. CASE s < b
      BY <3>1, <1>1
    <3>2. CASE b <= s
      BY <3>2, <1>1, Zenon DEF Outside, WellFormed
    <3> QED BY <3>1, <3>2, <1>1
  <2>2. g.mem[h.last] = h.mem[h.last]
    BY <1>1, HeapParts, Zenon DEF Outside
  <2> QED BY <1>6, <2>1, <2>2, Zenon DEF WellFormed
<1>8. ASSUME NEW s \in h.slabs, s < a \/ b <= s
      PROVE  /\ s \in g.slabs /\ End(g, s) = End(h, s)
             /\ IsFree(g, s) <=> IsFree(h, s)
             /\ \A w \in s .. End(h, s) : g.mem[w] = h.mem[w]
  <2>1. s \in Index /\ g.mem[s] = h.mem[s] /\ s \in g.slabs
    BY <1>1, <1>8, Zenon DEF Outside
  <2>2. End(h, s) \in Nat /\ End(h, s) < h.last /\ (s < a => End(h, s) < a)
    BY SlabFacts, Zenon
  <2>3. ASSUME NEW w \in s .. End(h, s) PROVE g.mem[w] = h.mem[w]
    <3>1. w \in Nat /\ w \in Index /\ (w < a \/ b <= w)
      BY <2>2, <1>1, <1>8
    <3> QED BY <3>1, Zenon DEF Outside
  <2> QED BY <2>1, <2>3, Zenon DEF End, IsFree
<1> QED BY <1>7, <1>8, Zenon

(* ... and coalesced, when the replaced part is and its free slabs touch   *)
(* no free slab outside.                                                   *)
LEMMA RewriteCoalesced ==
  ASSUME NEW h \in Heaps, NEW g \in Heaps, WellFormed(h), Coalesced(h),
         NEW a \in h.slabs, NEW b \in h.slabs \cup {h.last}, a < b,
         g.last = h.last, Outside(h, g, a, b), Tiles(g, a, b),
         a # 0 /\ IsFree(h, a - 1) => ~IsFree(g, a),
         \A s \in g.slabs : a <= s /\ s < b /\ IsFree(g, s) /\ End(g, s) + 1 \in g.slabs
                              => ~IsFree(g, End(g, s) + 1)
  PROVE  Coalesced(g)
<1>1. /\ WellFormed(g)
      /\ \A s \in h.slabs : (s < a \/ b <= s) =>
           s \in g.slabs /\ End(g, s) = End(h, s) /\ (IsFree(g, s) <=> IsFree(h, s))
  BY Rewrite
<1>2. /\ a \in Nat /\ b \in Nat /\ h.slabs \subseteq Nat /\ g.slabs \subseteq Nat
      /\ g.slabs \subseteq Index
  BY HeapParts, Zenon
<1>3. \A s \in g.slabs : (s < a \/ b <= s) => s \in h.slabs
  BY <1>2, Zenon DEF Outside
<1> SUFFICES ASSUME NEW s \in g.slabs, IsFree(g, s), End(g, s) + 1 \in g.slabs
             PROVE  ~IsFree(g, End(g, s) + 1)
  BY Zenon DEF Coalesced
<1>4. CASE a <= s /\ s < b
  BY <1>4, Zenon
<1>5. CASE b <= s
  <2>1. s \in h.slabs /\ End(g, s) = End(h, s) /\ IsFree(h, s)
    BY <1>1, <1>2, <1>3, <1>5, Zenon
  <2>2. End(h, s) + 1 > s /\ End(h, s) \in Nat
    BY <2>1, SlabFacts
  <2>3. b <= End(g, s) + 1
    BY <1>2, <1>5, <2>1, <2>2
  <2>4. End(h, s) + 1 \in h.slabs
    BY <1>3, <2>1, <2>3, Zenon
  <2> QED BY <1>1, <2>1, <2>3, <2>4, Zenon DEF Coalesced
<1>6. CASE s < a
  <2>1. s \in h.slabs /\ End(g, s) = End(h, s) /\ IsFree(h, s)
    BY <1>1, <1>3, <1>6, Zenon
  <2>2. End(h, s) \in Nat /\ End(h, s) < a /\ (IsFree(h, End(h, s)) <=> IsFree(h, s))
    BY <2>1, <1>6, SlabFacts, Zenon
  <2>3. CASE End(h, s) + 1 = a
    <3>1. End(h, s) = a - 1 /\ a # 0
      BY <1>2, <1>6, <2>1, <2>2, <2>3
    <3> QED BY <2>1, <2>2, <2>3, <3>1, Zenon
  <2>4. CASE End(h, s) + 1 < a
    <3>1. End(h, s) + 1 \in h.slabs
      BY <1>3, <2>1, <2>4, Zenon
    <3> QED BY <1>1, <2>1, <2>4, <3>1, Zenon DEF Coalesced
  <2> QED BY <1>2, <2>2, <2>3, <2>4
<1> QED BY <1>2, <1>4, <1>5, <1>6

-----------------------------------------------------------------------------
(* dandelion_free on an occupied slab i.                                   *)

(* dandelion_free: the freed slab and its free neighbours become one, and  *)
(* every other slab is kept.                                               *)
LEMMA MergedHeap ==
  ASSUME NEW h \in Heaps, WellFormed(h), Coalesced(h),
         NEW i \in h.slabs, ~IsFree(h, i)
  PROVE  LET g == Merged(h, i, End(h, i))
         IN  /\ g \in Heaps /\ WellFormed(g) /\ Coalesced(g)
             /\ g.last = h.last /\ g.fences = h.fences
             /\ \A s \in h.slabs : ~IsFree(h, s) /\ s # i => Keeps(h, g, s)
             /\ \A s \in g.slabs : ~IsFree(g, s) => s # i /\ s \in h.slabs /\ ~IsFree(h, s)
             /\ \A s \in g.slabs : IsFree(g, s) =>
                  \/ s <= i /\ End(h, i) <= End(g, s)
                  \/ StillFree(h, g, s)
<1> DEFINE e     == End(h, i)
           start == IF i # 0 /\ ~is_occupied(h.mem[i - 1]) THEN h.mem[i - 1] ELSE i
           end   == IF ~is_occupied(h.mem[e + 1]) THEN h.mem[e + 1] ELSE e
           g     == Merged(h, i, e)
<1>0. /\ h.slabs \subseteq Nat /\ h.slabs \subseteq Index /\ h.last \in Nat
      /\ h.last \in Index /\ h.mem \in [Index -> 0 .. MAX_VAL]
      /\ h.mem[h.last] = MAX_VAL /\ is_occupied(MAX_VAL)
  BY HeapParts, TagFacts, Zenon DEF WellFormed, Heaps
<1>1. /\ i \in Nat /\ e \in Nat /\ i <= e /\ e < h.last /\ e \in Index /\ e + 1 \in Index
      /\ e + 1 \in h.slabs \cup {h.last}
  BY SlabFacts, Zenon
<1>2. /\ start \in h.slabs /\ start <= i
      /\ \A t \in h.slabs : start < t /\ t < i => FALSE
      /\ start # i => IsFree(h, start)
      /\ start # 0 => ~IsFree(h, start - 1)
  <2>1. CASE i # 0 /\ ~is_occupied(h.mem[i - 1])
    <3> DEFINE p == Untag(h.mem[i - 1])
    <3>1. start = p
      BY <2>1, Zenon DEF Untag
    <3>2. p \in h.slabs /\ p < i /\ End(h, p) = i - 1 /\ p \in Nat
      BY <2>1, <1>0, SlabFacts, Zenon
    <3>3. IsFree(h, p)
      BY <2>1, <3>2, SlabFacts, Zenon DEF IsFree
    <3>4. \A t \in h.slabs : p < t => i - 1 < t
      BY <3>2, SlabFacts
    <3>5. ASSUME p # 0 PROVE ~IsFree(h, p - 1)
      <4> DEFINE q == Untag(h.mem[p - 1])
      <4>1. q \in h.slabs /\ End(h, q) = p - 1
        BY <3>2, <3>5, SlabFacts
      <4>2. IsFree(h, p - 1) <=> IsFree(h, q)
        BY <4>1, SlabFacts
      <4>3. End(h, q) + 1 = p
        BY <4>1, <3>2
      <4> QED BY <4>1, <4>2, <4>3, <3>2, <3>3, Zenon DEF Coalesced
    <3>6. \A t \in h.slabs : p < t /\ t < i => FALSE
      BY <3>4, <1>0, <1>1
    <3> HIDE DEF start, p
    <3> QED BY <3>1, <3>2, <3>3, <3>5, <3>6, <1>1
  <2>2. CASE ~(i # 0 /\ ~is_occupied(h.mem[i - 1]))
    <3>1. start = i
      BY <2>2, Zenon
    <3> QED BY <3>1, <2>2, <1>0, <1>1 DEF IsFree
  <2> QED BY <2>1, <2>2, Zenon
<1>3. /\ end \in Nat /\ e <= end /\ end < h.last /\ end \in Index
      /\ end + 1 \in h.slabs \cup {h.last}
      /\ \A t \in h.slabs : e + 1 < t /\ t <= end => FALSE
      /\ e + 1 \in h.slabs /\ e < end => IsFree(h, e + 1)
      /\ end + 1 \in h.slabs => ~IsFree(h, end + 1)
  <2>1. CASE ~is_occupied(h.mem[e + 1])
    <3>1. e + 1 \in h.slabs /\ IsFree(h, e + 1)
      BY <2>1, <1>0, <1>1, Zenon DEF IsFree
    <3>2. end = End(h, e + 1)
      BY <2>1, Zenon DEF End, Untag
    <3> QED BY <3>1, <3>2, <1>0, <1>1, SlabFacts DEF Coalesced
  <2>2. CASE is_occupied(h.mem[e + 1])
    <3>1. end = e
      BY <2>2, Zenon
    <3> QED BY <3>1, <2>2, <1>0, <1>1 DEF IsFree
  <2> QED BY <2>1, <2>2, Zenon
<1>4. g = [h EXCEPT !.mem = MarkFree(h.mem, start, end),
                    !.slabs = {t \in @ : t <= start \/ t > end}]
  BY Zenon DEF Merged
<1>5. /\ start \in Nat /\ start \in Index /\ start <= end
      /\ start \in 0 .. MAX_VAL /\ end \in 0 .. MAX_VAL
  BY <1>0, <1>1, <1>2, <1>3, TagFacts
<1>6. /\ g.mem = MarkFree(h.mem, start, end)
      /\ g.slabs = {t \in h.slabs : t <= start \/ t > end}
      /\ g.last = h.last /\ g.fences = h.fences
      /\ g \in Heaps
  <2> DEFINE m == MarkFree(h.mem, start, end)
             S == {t \in h.slabs : t <= start \/ t > end}
  <2> HIDE DEF start, end, g
  <2>1. m \in [Index -> 0 .. MAX_VAL] /\ S \in SUBSET Index
    BY <1>0, <1>5, Zenon DEF MarkFree
  <2>2. g = [h EXCEPT !.mem = m, !.slabs = S]
    BY <1>4, Zenon
  <2> HIDE DEF m, S
  <2>3. g.mem = m /\ g.slabs = S /\ g.last = h.last /\ g.fences = h.fences /\ g \in Heaps
    BY <2>1, <2>2, Zenon DEF Heaps
  <2> QED BY <2>3, Zenon DEF m, S
<1> HIDE DEF start, end, g, e
<1>7. /\ g.mem[start] = end /\ g.mem[end] = start
      /\ \A w \in Index : w # start /\ w # end => g.mem[w] = h.mem[w]
  BY <1>0, <1>3, <1>5, <1>6 DEF MarkFree
<1>8. Outside(h, g, start, end + 1)
  BY <1>0, <1>3, <1>5, <1>6, <1>7 DEF Outside
<1>9. /\ IsFree(g, start) /\ End(g, start) = end
      /\ IsFree(g, end) /\ Untag(g.mem[end]) = start
  BY <1>3, <1>5, <1>7, TagFacts, Zenon DEF IsFree, End
<1>10. start \in g.slabs /\ \A t \in g.slabs : t <= start \/ end + 1 <= t
  BY <1>0, <1>2, <1>3, <1>5, <1>6
<1>11. Tiles(g, start, end + 1)
  BY <1>3, <1>5, <1>6, <1>9, <1>10, TilesOne
<1>12. /\ WellFormed(g)
       /\ \A s \in h.slabs : (s < start \/ end + 1 <= s) =>
            /\ s \in g.slabs /\ End(g, s) = End(h, s)
            /\ IsFree(g, s) <=> IsFree(h, s)
            /\ \A w \in s .. End(h, s) : g.mem[w] = h.mem[w]
  BY <1>2, <1>3, <1>5, <1>6, <1>8, <1>11, Rewrite
<1>13. Coalesced(g)
  <2>1. ASSUME NEW s \in g.slabs, start <= s, s < end + 1, IsFree(g, s),
               End(g, s) + 1 \in g.slabs
        PROVE  ~IsFree(g, End(g, s) + 1)
    <3>1. s = start
      BY <2>1, <1>0, <1>3, <1>5, <1>6, <1>10
    <3>2. end + 1 \in h.slabs
      BY <2>1, <3>1, <1>6, <1>9, Zenon
    <3> QED BY <3>1, <3>2, <1>3, <1>9, <1>12
  <2> QED BY <2>1, <1>2, <1>3, <1>5, <1>6, <1>8, <1>11, RewriteCoalesced
<1>14. ASSUME NEW s \in h.slabs, ~IsFree(h, s), s # i PROVE Keeps(h, g, s)
  <2>1. s < start \/ end + 1 <= s
    BY <1>14, <1>0, <1>1, <1>2, <1>3, <1>5, SlabFacts DEF e
  <2>2. s \in Nat /\ End(h, s) \in Nat
    BY SlabFacts, Zenon
  <2> QED BY <2>1, <2>2, <1>12, <1>14 DEF Keeps
<1>15. ASSUME NEW s \in g.slabs, ~IsFree(g, s)
       PROVE  s # i /\ s \in h.slabs /\ ~IsFree(h, s)
  <2>1. s # start /\ s \in h.slabs
    BY <1>6, <1>9, <1>15, Zenon
  <2>2. s < start \/ end + 1 <= s
    BY <2>1, <1>10, <1>15, <1>0, <1>5
  <2> QED BY <2>1, <2>2, <1>0, <1>1, <1>2, <1>3, <1>5, <1>12, <1>15
<1>16. ASSUME NEW s \in g.slabs, IsFree(g, s)
       PROVE  (s <= i /\ e <= End(g, s)) \/ StillFree(h, g, s)
  <2>1. CASE s = start
    BY <2>1, <1>2, <1>3, <1>9, Zenon
  <2>2. CASE s # start
    <3>1. s \in h.slabs /\ (s < start \/ end + 1 <= s)
      BY <2>2, <1>0, <1>5, <1>6, <1>10, SMTT(30)
    <3> QED BY <3>1, <1>12, <1>16, Zenon DEF StillFree
  <2> QED BY <2>1, <2>2, Zenon
<1> QED BY <1>6, <1>12, <1>13, <1>14, <1>15, <1>16, Zenon DEF g, e

-----------------------------------------------------------------------------
(* The last part of dandelion_alloc.                                       *)

(* Taking sz words from the front of an occupied slab.                     *)
LEMMA CarvedHeap ==
  ASSUME NEW h \in Heaps, WellFormed(h), Coalesced(h),
         NEW c \in h.slabs, ~IsFree(h, c), NEW sz \in Nat, sz > 0,
         c + sz + 1 <= End(h, c),
         End(h, c) + 1 \in h.slabs => ~IsFree(h, End(h, c) + 1)
  PROVE  LET g == Carved(h, c, End(h, c), sz)
         IN  /\ g \in Heaps /\ WellFormed(g) /\ Coalesced(g)
             /\ g.last = h.last /\ g.fences = h.fences
             /\ c \in g.slabs /\ ~IsFree(g, c) /\ c + sz + 1 <= End(g, c)
             /\ \A s \in h.slabs : ~IsFree(h, s) /\ s # c => Keeps(h, g, s)
             /\ \A s \in g.slabs : ~IsFree(g, s) => s \in h.slabs /\ ~IsFree(h, s)
             /\ \A s \in g.slabs : IsFree(g, s) => s + 2 <= End(g, s) \/ StillFree(h, g, s)
<1> DEFINE end   == End(h, c)
           fit   == c + sz + 1
           split == end > fit + 2
           stop  == IF split THEN fit ELSE end
           m     == MarkOccupied(IF split THEN MarkFree(h.mem, fit + 1, end) ELSE h.mem, c, stop)
           S     == h.slabs \cup {c} \cup (IF split THEN {fit + 1} ELSE {})
           g     == Carved(h, c, end, sz)
<1>0. /\ h.slabs \subseteq Nat /\ h.slabs \subseteq Index
      /\ h.last \in Nat /\ h.last \in Index /\ h.mem \in [Index -> 0 .. MAX_VAL]
  BY HeapParts, Zenon DEF Heaps
<1>1. /\ c \in Nat /\ end \in Nat /\ end < h.last /\ c \in Index /\ end \in Index
      /\ end + 1 \in h.slabs \cup {h.last} /\ fit \in Nat /\ c < fit /\ fit <= end
      /\ \A t \in h.slabs : c < t => end < t
  BY SlabFacts
<1>2. \A n \in Nat : n <= end => /\ n \in Index /\ n \in 0 .. MAX_VAL
                                 /\ n + Flag \in 0 .. MAX_VAL
  BY <1>1, IndexInterval, TagFacts, Zenon
<1>3. /\ stop \in Nat /\ fit <= stop /\ stop <= end
      /\ split => stop = fit /\ fit + 3 <= end
      /\ ~split => stop = end
  BY <1>1
<1>4. g = [h EXCEPT !.mem = m, !.slabs = S]
  BY Zenon DEF Carved
<1> HIDE DEF end, fit, split, stop, g
<1>5. m \in [Index -> 0 .. MAX_VAL] /\ S \in SUBSET Index
  BY <1>0, <1>1, <1>2, <1>3 DEF MarkFree, MarkOccupied
<1>6. /\ m[c] = stop + Flag /\ m[stop] = c + Flag
      /\ split => m[fit + 1] = end /\ m[end] = fit + 1
      /\ \A w \in Index : (w < c \/ end < w) => m[w] = h.mem[w]
  BY <1>0, <1>1, <1>2, <1>3 DEF MarkFree, MarkOccupied
<1> HIDE DEF m
<1>7. \A t \in Nat : (t < c \/ end + 1 <= t) => (t \in S <=> t \in h.slabs)
  BY <1>1, <1>3
<1>8. /\ c \in S
      /\ split => fit + 1 \in S
      /\ \A t \in S : c < t /\ t <= end => split /\ t = fit + 1
  BY <1>0, <1>1, <1>3
<1> HIDE DEF S
<1>9. g.mem = m /\ g.slabs = S /\ g.last = h.last /\ g.fences = h.fences /\ g \in Heaps
  BY <1>4, <1>5, Zenon DEF Heaps
<1>10. Outside(h, g, c, end + 1)
  BY <1>0, <1>1, <1>6, <1>7, <1>9, TagFacts DEF Outside
<1>i. /\ c \in Index /\ stop \in Index /\ end \in Index
      /\ split => fit + 1 \in Index
  BY <1>1, <1>2, <1>3
<1>11. c \in g.slabs /\ ~IsFree(g, c) /\ End(g, c) = stop /\ ~IsFree(g, stop)
       /\ Untag(g.mem[stop]) = c
  <2>1. g.mem[c] = stop + Flag /\ g.mem[stop] = c + Flag /\ c \in g.slabs
    BY <1>6, <1>8, <1>9, Zenon
  <2>2. /\ is_occupied(stop + Flag) /\ Untag(stop + Flag) = stop
        /\ is_occupied(c + Flag) /\ Untag(c + Flag) = c
    BY <1>i, TagFacts, Zenon
  <2> QED BY <2>1, <2>2, Zenon DEF IsFree, End
<1>12. split => /\ fit + 1 \in g.slabs /\ IsFree(g, fit + 1) /\ End(g, fit + 1) = end
                /\ IsFree(g, end) /\ Untag(g.mem[end]) = fit + 1
  <2>1. split => g.mem[fit + 1] = end /\ g.mem[end] = fit + 1 /\ fit + 1 \in g.slabs
    BY <1>6, <1>8, <1>9, Zenon
  <2>2. split => /\ ~is_occupied(end) /\ Untag(end) = end
                 /\ ~is_occupied(fit + 1) /\ Untag(fit + 1) = fit + 1
    BY <1>i, TagFacts, Zenon
  <2> QED BY <2>1, <2>2, Zenon DEF IsFree, End
<1>13. g.slabs \subseteq Nat /\ \A t \in g.slabs : c < t /\ t <= end => split /\ t = fit + 1
  BY <1>8, <1>9, HeapParts, Zenon
<1>14. Tiles(g, c, end + 1)
  <2>1. Tiles(g, c, stop + 1)
    BY <1>1, <1>3, <1>9, <1>11, <1>13, TilesOne
  <2>2. ASSUME split PROVE Tiles(g, fit + 1, end + 1)
    BY <2>2, <1>1, <1>3, <1>9, <1>12, <1>13, TilesOne
  <2> QED BY <2>1, <2>2, <1>1, <1>3, <1>9, TilesJoin
<1>15. /\ WellFormed(g)
       /\ \A s \in h.slabs : (s < c \/ end + 1 <= s) =>
            /\ s \in g.slabs /\ End(g, s) = End(h, s)
            /\ IsFree(g, s) <=> IsFree(h, s)
            /\ \A w \in s .. End(h, s) : g.mem[w] = h.mem[w]
  BY <1>1, <1>9, <1>10, <1>14, Rewrite
<1>16. Coalesced(g)
  <2>1. ASSUME NEW s \in g.slabs, c <= s, s < end + 1, IsFree(g, s), End(g, s) + 1 \in g.slabs
        PROVE  ~IsFree(g, End(g, s) + 1)
    <3>1. split /\ s = fit + 1 /\ End(g, s) = end
      BY <2>1, <1>1, <1>11, <1>12, <1>13
    <3>2. end + 1 \in h.slabs
      BY <2>1, <3>1, <1>1, <1>7, <1>9
    <3>3. ~IsFree(h, end + 1)
      BY <3>2, Zenon DEF end
    <3> QED BY <3>1, <3>2, <3>3, <1>15, <1>0
  <2> QED BY <2>1, <1>1, <1>9, <1>10, <1>11, <1>14, RewriteCoalesced
<1>17. ASSUME NEW s \in h.slabs, ~IsFree(h, s), s # c PROVE Keeps(h, g, s)
  <2>1. s \in Nat /\ End(h, s) \in Nat
    BY SlabFacts, Zenon
  <2>2. s < c \/ end + 1 <= s
    BY <1>17, <1>1, <2>1
  <2> QED BY <2>1, <2>2, <1>15, <1>17 DEF Keeps
<1>18. ASSUME NEW s \in g.slabs, ~IsFree(g, s) PROVE s \in h.slabs /\ ~IsFree(h, s)
  <2>1. CASE s = c
    BY <2>1, Zenon
  <2>2. CASE s < c \/ end + 1 <= s
    BY <2>2, <1>7, <1>9, <1>13, <1>15, <1>18, Zenon
  <2> QED BY <2>1, <2>2, <1>1, <1>12, <1>13, <1>18
<1>19. ASSUME NEW s \in g.slabs, IsFree(g, s)
       PROVE  s + 2 <= End(g, s) \/ StillFree(h, g, s)
  <2>1. CASE s < c \/ end + 1 <= s
    BY <2>1, <1>7, <1>9, <1>13, <1>15, <1>19, Zenon DEF StillFree
  <2>2. CASE split /\ s = fit + 1
    BY <2>2, <1>1, <1>3, <1>12
  <2> QED BY <2>1, <2>2, <1>1, <1>11, <1>13, <1>19
<1> QED BY <1>1, <1>3, <1>9, <1>11, <1>15, <1>16, <1>17, <1>18, <1>19, Zenon DEF g, end, fit

(* In front of a free slab there is an occupied one, "otherwise would have *)
(* been fused".                                                            *)
LEMMA FrontOccupied ==
  ASSUME NEW h \in Heaps, WellFormed(h), Coalesced(h),
         NEW s \in h.slabs, IsFree(h, s), s # 0
  PROVE  ~IsFree(h, s - 1) /\ ~IsFree(h, Untag(h.mem[s - 1]))
<1> DEFINE p == Untag(h.mem[s - 1])
<1>1. p \in h.slabs /\ End(h, p) = s - 1 /\ s \in Nat
  BY SlabFacts, Zenon
<1>2. IsFree(h, s - 1) <=> IsFree(h, p)
  BY <1>1, SlabFacts
<1>3. End(h, p) + 1 = s
  BY <1>1
<1> QED BY <1>1, <1>2, <1>3, Zenon DEF Coalesced

(* The heap once the words in front of c have been dealt with: c and the   *)
(* rest of the free slab it is cut from are an occupied slab.              *)
Aligned(h, start, skip) ==
  [Skipped(h, start, skip) EXCEPT
     !.mem = MarkOccupied(Skipped(h, start, skip).mem, start + skip, h.mem[start]),
     !.slabs = Skipped(h, start, skip).slabs \cup {start + skip}]

(* What the three ways to treat the gap in front of c have in common: heap *)
(* g has an occupied slab at c up to the end of the free slab start of h,  *)
(* and what was between a and c is in slab a.                              *)
ClosesGap(h, g, start, a, c) ==
  /\ h \in Heaps /\ g \in Heaps /\ WellFormed(h) /\ Coalesced(h)
  /\ start \in h.slabs /\ IsFree(h, start) /\ a \in h.slabs /\ a <= start
  /\ c \in Nat /\ start <= c /\ c < End(h, start)
  /\ g.last = h.last /\ Outside(h, g, a, End(h, start) + 1)
  /\ c \in g.slabs /\ ~IsFree(g, c) /\ End(g, c) = End(h, start)
  /\ ~IsFree(g, End(h, start)) /\ Untag(g.mem[End(h, start)]) = c
  /\ \A t \in g.slabs : a <= t /\ t <= End(h, start) => t = a \/ t = c
  /\ a < c => /\ a \in g.slabs /\ End(g, a) = c - 1 /\ Untag(g.mem[c - 1]) = a
              /\ IsFree(g, c - 1) <=> IsFree(g, a)
  /\ \/ a = start /\ (a < c => IsFree(g, a))
     \/ /\ a # start /\ End(h, a) = start - 1 /\ ~IsFree(g, a) /\ ~IsFree(h, a)
        /\ \A w \in a + 1 .. start - 2 : g.mem[w] = h.mem[w]

(* Such a heap is sound if h is, and keeps the other slabs.                *)
LEMMA GapFilled ==
  ASSUME NEW h \in Heaps, NEW g \in Heaps, WellFormed(h), Coalesced(h),
         NEW start \in h.slabs, IsFree(h, start), NEW a \in h.slabs, a <= start,
         NEW c \in Nat, start <= c, c < End(h, start),
         g.last = h.last, Outside(h, g, a, End(h, start) + 1),
         c \in g.slabs, ~IsFree(g, c), End(g, c) = End(h, start),
         ~IsFree(g, End(h, start)), Untag(g.mem[End(h, start)]) = c,
         \A t \in g.slabs : a <= t /\ t <= End(h, start) => t = a \/ t = c,
         a < c => /\ a \in g.slabs /\ End(g, a) = c - 1 /\ Untag(g.mem[c - 1]) = a
                  /\ IsFree(g, c - 1) <=> IsFree(g, a),
         \/ a = start /\ (a < c => IsFree(g, a))
         \/ /\ a # start /\ End(h, a) = start - 1 /\ ~IsFree(g, a) /\ ~IsFree(h, a)
            /\ \A w \in a + 1 .. start - 2 : g.mem[w] = h.mem[w]
  PROVE  /\ WellFormed(g) /\ Coalesced(g)
         /\ End(g, c) + 1 \in g.slabs => ~IsFree(g, End(g, c) + 1)
         /\ \A s \in h.slabs : ~IsFree(h, s) => Keeps(h, g, s)
         /\ \A s \in g.slabs : ~IsFree(g, s) => s = c \/ (s \in h.slabs /\ ~IsFree(h, s))
         /\ \A s \in g.slabs : IsFree(g, s) => s = a \/ StillFree(h, g, s)
<1> DEFINE end == End(h, start)
<1>1. /\ start \in Nat /\ a \in Nat /\ end \in Nat /\ start <= end /\ end < h.last
      /\ end + 1 \in h.slabs \cup {h.last} /\ h.last \in Nat /\ h.slabs \subseteq Nat
      /\ \A t \in h.slabs : start < t => end < t
      /\ g.slabs \subseteq Nat /\ g.slabs \subseteq Index
  BY SlabFacts, HeapParts, Zenon
<1> HIDE DEF end
<1>2. Tiles(g, a, end + 1)
  <2>1. Tiles(g, c, end + 1)
    BY <1>1, TilesOne DEF end
  <2>2. a < c => Tiles(g, a, c)
    BY <1>1, TilesOne DEF end
  <2> QED BY <2>1, <2>2, <1>1, TilesJoin DEF end
<1>3. /\ WellFormed(g)
      /\ \A s \in h.slabs : (s < a \/ end + 1 <= s) =>
           /\ s \in g.slabs /\ End(g, s) = End(h, s)
           /\ IsFree(g, s) <=> IsFree(h, s)
           /\ \A w \in s .. End(h, s) : g.mem[w] = h.mem[w]
  BY <1>1, <1>2, Rewrite DEF end
<1>4. \A t \in g.slabs : (t < a \/ end + 1 <= t) => t \in h.slabs
  BY <1>1, Zenon DEF Outside, end
<1>5. end + 1 \in g.slabs => ~IsFree(g, end + 1)
  <2>1. end + 1 \in h.slabs => ~IsFree(h, end + 1)
    BY Zenon DEF Coalesced, end
  <2> QED BY <2>1, <1>1, <1>3, <1>4
<1>6. Coalesced(g)
  <2>1. ASSUME NEW s \in g.slabs, a <= s, s < end + 1, IsFree(g, s), End(g, s) + 1 \in g.slabs
        PROVE  ~IsFree(g, End(g, s) + 1)
    BY <2>1, <1>1 DEF end
  <2>2. ASSUME a # 0, IsFree(h, a - 1) PROVE ~IsFree(g, a)
    BY <2>2, FrontOccupied, Zenon
  <2> QED BY <2>1, <2>2, <1>1, <1>2, RewriteCoalesced DEF end
<1>7. ASSUME NEW s \in h.slabs, ~IsFree(h, s) PROVE Keeps(h, g, s)
  <2>1. s \in Nat /\ End(h, s) \in Nat /\ s # start
    BY <1>7, SlabFacts, Zenon
  <2>2. CASE s < a \/ end + 1 <= s
    BY <2>1, <2>2, <1>3, <1>7 DEF Keeps
  <2>3. CASE s = a
    BY <2>1, <2>3, <1>1 DEF Keeps
  <2>4. CASE a < s /\ s < end + 1
    <3>1. s < start
      BY <2>1, <2>4, <1>1
    <3>2. End(h, a) < s
      BY <2>4, SlabFacts, Zenon
    <3> QED BY <3>1, <3>2, <2>1, <2>4, <1>1
  <2> QED BY <2>1, <2>2, <2>3, <2>4, <1>1
<1>8. ASSUME NEW s \in g.slabs, ~IsFree(g, s), s # c PROVE s \in h.slabs /\ ~IsFree(h, s)
  <2>1. CASE s < a \/ end + 1 <= s
    BY <2>1, <1>3, <1>4, <1>8, Zenon
  <2>2. CASE s = a /\ a # start
    BY <2>2, Zenon
  <2> QED BY <2>1, <2>2, <1>1, <1>8 DEF end
<1>9. ASSUME NEW s \in g.slabs, IsFree(g, s), s # a PROVE StillFree(h, g, s)
  <2>1. s < a \/ end + 1 <= s
    BY <1>1, <1>9, SMTT(30) DEF end
  <2> QED BY <2>1, <1>3, <1>4, <1>9, Zenon DEF StillFree
<1> QED BY <1>3, <1>5, <1>6, <1>7, <1>8, <1>9, Zenon DEF end

(* The same, of the conditions taken together.                             *)
LEMMA GapClosed ==
  ASSUME NEW h, NEW g, NEW start, NEW a, NEW c, ClosesGap(h, g, start, a, c)
  PROVE  /\ WellFormed(g) /\ Coalesced(g)
         /\ End(g, c) + 1 \in g.slabs => ~IsFree(g, End(g, c) + 1)
         /\ \A s \in h.slabs : ~IsFree(h, s) => Keeps(h, g, s)
         /\ \A s \in g.slabs : ~IsFree(g, s) => s = c \/ (s \in h.slabs /\ ~IsFree(h, s))
         /\ \A s \in g.slabs : IsFree(g, s) => s = a \/ StillFree(h, g, s)
BY GapFilled, SMTT(60) DEF ClosesGap

(* The alignment code of dandelion_alloc.                                  *)
LEMMA AlignedHeap ==
  ASSUME NEW h \in Heaps, WellFormed(h), Coalesced(h),
         NEW start \in h.slabs, IsFree(h, start),
         NEW skip \in Nat, start + skip < End(h, start)
  PROVE  LET g == Aligned(h, start, skip)
             c == start + skip
         IN  /\ Skipped(h, start, skip) \in Heaps
             /\ g \in Heaps /\ WellFormed(g) /\ Coalesced(g)
             /\ g.last = h.last /\ g.fences = h.fences
             /\ c \in g.slabs /\ ~IsFree(g, c) /\ End(g, c) = End(h, start)
             /\ End(g, c) + 1 \in g.slabs => ~IsFree(g, End(g, c) + 1)
             /\ \A s \in h.slabs : ~IsFree(h, s) => Keeps(h, g, s)
             /\ \A s \in g.slabs : ~IsFree(g, s) => s = c \/ (s \in h.slabs /\ ~IsFree(h, s))
             /\ skip = 0 \/ (skip < 3 /\ start # 0) =>
                  \A s \in g.slabs : IsFree(g, s) => StillFree(h, g, s)
<1> DEFINE g   == Aligned(h, start, skip)
           c   == start + skip
           end == End(h, start)
           h1  == Skipped(h, start, skip)
           m   == MarkOccupied(h1.mem, c, end)
           S   == h1.slabs \cup {c}
<1>0. /\ h.slabs \subseteq Nat /\ h.slabs \subseteq Index /\ h.last \in Nat
      /\ h.last \in Index /\ h.mem \in [Index -> 0 .. MAX_VAL]
  BY HeapParts, Zenon DEF Heaps
<1>1. /\ start \in Nat /\ c \in Nat /\ end \in Nat /\ start <= c /\ c < end /\ end < h.last
      /\ \A t \in h.slabs : start < t => end < t
      /\ h.mem[start] = end
  <2>1. h.mem[start] = end
    BY Zenon DEF End, Untag, IsFree
  <2> QED BY <2>1, SlabFacts
<1>2. \A n \in Nat : n <= end => /\ n \in Index /\ n \in 0 .. MAX_VAL
                                 /\ n + Flag \in 0 .. MAX_VAL
                                 /\ ~is_occupied(n) /\ Untag(n) = n
                                 /\ is_occupied(n + Flag) /\ Untag(n + Flag) = n
  <2>1. \A n \in Nat : n <= end => n \in Index
    BY <1>0, <1>1, IndexInterval
  <2> QED BY <2>1, TagFacts, Zenon
<1>3. g = [h1 EXCEPT !.mem = m, !.slabs = S]
  BY <1>1, Zenon DEF Aligned
<1>s. /\ skip # 0 /\ skip < 3 /\ start # 0
           => h1 = [h EXCEPT !.mem = MarkOccupied(h.mem, Untag(h.mem[start - 1]), c - 1),
                             !.slabs = h.slabs \ {start}]
      /\ skip # 0 /\ ~(skip < 3 /\ start # 0)
           => h1 = [h EXCEPT !.mem = MarkFree(h.mem, start, c - 1)]
  <2>1. start + skip - 1 = c - 1
    BY <1>1
  <2> QED BY <2>1, Zenon DEF Skipped
<1>c. c \in Index /\ end \in Index
  BY <1>1, <1>2, SMTT(30)
<1>d. SUFFICES /\ h1 \in Heaps
               /\ g \in Heaps /\ WellFormed(g) /\ Coalesced(g)
               /\ g.last = h.last /\ g.fences = h.fences
               /\ c \in g.slabs /\ ~IsFree(g, c) /\ End(g, c) = end
               /\ End(g, c) + 1 \in g.slabs => ~IsFree(g, End(g, c) + 1)
               /\ \A s \in h.slabs : ~IsFree(h, s) => Keeps(h, g, s)
               /\ \A s \in g.slabs : ~IsFree(g, s) =>
                    s = c \/ (s \in h.slabs /\ ~IsFree(h, s))
               /\ skip = 0 \/ (skip < 3 /\ start # 0) =>
                    \A s \in g.slabs : IsFree(g, s) => StillFree(h, g, s)
  BY Zenon
<1> HIDE DEF g, end, h1, c
<1>4. ASSUME h1 \in Heaps, h1.last = h.last, h1.fences = h.fences
      PROVE  /\ g \in Heaps /\ g.mem = m /\ g.slabs = S
             /\ g.last = h.last /\ g.fences = h.fences
             /\ g.mem[c] = end + Flag /\ g.mem[end] = c + Flag
             /\ \A w \in Index : w # c /\ w # end => g.mem[w] = h1.mem[w]
             /\ c \in g.slabs /\ ~IsFree(g, c) /\ End(g, c) = end
             /\ ~IsFree(g, end) /\ Untag(g.mem[end]) = c
  <2>1. h1.mem \in [Index -> 0 .. MAX_VAL] /\ h1.slabs \in SUBSET Index
    BY <1>4, Zenon DEF Heaps
  <2>2. m \in [Index -> 0 .. MAX_VAL] /\ S \in SUBSET Index
    BY <2>1, <1>1, <1>2, <1>c DEF MarkOccupied
  <2>3. /\ m[c] = end + Flag /\ m[end] = c + Flag /\ c \in S
        /\ \A w \in Index : w # c /\ w # end => m[w] = h1.mem[w]
    BY <2>1, <1>1, <1>c, Zenon DEF MarkOccupied
  <2> HIDE DEF m, S
  <2>4. g \in Heaps /\ g.mem = m /\ g.slabs = S /\ g.last = h.last /\ g.fences = h.fences
    BY <2>2, <1>3, <1>4, Zenon DEF Heaps
  <2> QED BY <2>3, <2>4, <1>1, <1>2 DEF IsFree, End
<1>5. CASE skip = 0
  <2>1. h1 = h
    BY <1>5, Zenon DEF h1, Skipped
  <2>2. c = start
    BY <1>1, <1>5 DEF c
  <2>3. Outside(h, g, start, end + 1)
    BY <2>1, <2>2, <1>0, <1>1, <1>4, TagFacts DEF Outside
  <2>4. \A t \in g.slabs : start <= t /\ t <= end => t = start
    BY <2>1, <2>2, <1>0, <1>1, <1>4
  <2>5. /\ g \in Heaps /\ h1 \in Heaps /\ g.last = h.last /\ g.fences = h.fences
        /\ c \in g.slabs /\ ~IsFree(g, c) /\ End(g, c) = end
        /\ ~IsFree(g, end) /\ Untag(g.mem[end]) = c
    BY <2>1, <1>4, Zenon
  <2>6. ClosesGap(h, g, start, start, c)
    <3> HIDE DEF g, c
    <3> QED BY <2>2, <2>3, <2>4, <2>5, <1>1 DEF ClosesGap, end
  <2>7. /\ WellFormed(g) /\ Coalesced(g)
        /\ End(g, c) + 1 \in g.slabs => ~IsFree(g, End(g, c) + 1)
        /\ \A s \in h.slabs : ~IsFree(h, s) => Keeps(h, g, s)
        /\ \A s \in g.slabs : ~IsFree(g, s) => s = c \/ (s \in h.slabs /\ ~IsFree(h, s))
        /\ \A s \in g.slabs : IsFree(g, s) => s = start \/ StillFree(h, g, s)
    BY <2>6, GapClosed, Zenon
  <2>8. \A s \in g.slabs : IsFree(g, s) => StillFree(h, g, s)
    BY <2>2, <2>5, <2>7, Zenon
  <2> QED BY <2>5, <2>7, <2>8, Zenon
<1>6. CASE skip # 0 /\ skip < 3 /\ start # 0
  <2> DEFINE p  == Untag(h.mem[start - 1])
             m1 == MarkOccupied(h.mem, p, c - 1)
             S1 == h.slabs \ {start}
  <2>1. /\ p \in h.slabs /\ p < start /\ End(h, p) = start - 1 /\ ~IsFree(h, p)
        /\ p \in Nat /\ \A t \in h.slabs : p < t => start - 1 < t
    BY <1>1, <1>6, SlabFacts, FrontOccupied
  <2>2. h1 = [h EXCEPT !.mem = m1, !.slabs = S1]
    BY <1>6, <1>s, Zenon
  <2>3. c - 1 \in Nat /\ c - 1 \in Index /\ start <= c - 1 /\ c - 1 < end /\ p \in Index
    BY <1>0, <1>1, <1>2, <1>6, <2>1 DEF c
  <2> HIDE DEF p
  <2>4. m1 \in [Index -> 0 .. MAX_VAL] /\ S1 \in SUBSET Index
    BY <1>0, <1>1, <1>2, <2>1, <2>3 DEF MarkOccupied
  <2>5. /\ m1[p] = c - 1 + Flag /\ m1[c - 1] = p + Flag
        /\ \A w \in Index : w # p /\ w # c - 1 => m1[w] = h.mem[w]
    BY <1>0, <2>1, <2>3, Zenon DEF MarkOccupied
  <2> HIDE DEF m1
  <2>6. /\ h1 \in Heaps /\ h1.mem = m1 /\ h1.slabs = S1
        /\ h1.last = h.last /\ h1.fences = h.fences
    <3> HIDE DEF S1
    <3> QED BY <2>2, <2>4, Zenon DEF Heaps
  <2>7. Outside(h, g, p, end + 1)
    BY <2>1, <2>3, <2>5, <2>6, <1>0, <1>1, <1>4, TagFacts DEF Outside
  <2>8. \A t \in g.slabs : p <= t /\ t <= end => t = p \/ t = c
    BY <2>1, <2>6, <1>0, <1>1, <1>4
  <2>9. g.mem[p] = c - 1 + Flag /\ g.mem[c - 1] = p + Flag /\ p \in g.slabs
    BY <2>1, <2>3, <2>5, <2>6, <1>1, <1>4
  <2>10. /\ ~IsFree(g, p) /\ ~IsFree(g, c - 1)
         /\ End(g, p) = c - 1 /\ Untag(g.mem[c - 1]) = p
    BY <2>3, <2>9, TagFacts, Zenon DEF IsFree, End
  <2>11. \A w \in p + 1 .. start - 2 : g.mem[w] = h.mem[w]
    <3>1. \A w \in p + 1 .. start - 2 :
            w \in Nat /\ w <= end /\ w # p /\ w # c - 1 /\ w # c /\ w # end
      BY <2>1, <2>3, <1>1
    <3> QED BY <3>1, <2>5, <2>6, <1>2, <1>4, Zenon
  <2>12. /\ g \in Heaps /\ g.last = h.last /\ g.fences = h.fences
         /\ c \in g.slabs /\ ~IsFree(g, c) /\ End(g, c) = end
         /\ ~IsFree(g, end) /\ Untag(g.mem[end]) = c
    BY <2>6, <1>4, Zenon
  <2>13. p \in h.slabs /\ p <= start /\ p # start /\ p < c
    BY <2>1, <1>1, SMTT(30)
  <2> HIDE DEF g, c, h1, S1
  <2>14. /\ WellFormed(g) /\ Coalesced(g)
         /\ End(g, c) + 1 \in g.slabs => ~IsFree(g, End(g, c) + 1)
         /\ \A s \in h.slabs : ~IsFree(h, s) => Keeps(h, g, s)
         /\ \A s \in g.slabs : ~IsFree(g, s) => s = c \/ (s \in h.slabs /\ ~IsFree(h, s))
         /\ \A s \in g.slabs : IsFree(g, s) => s = p \/ StillFree(h, g, s)
    <3>1. ClosesGap(h, g, start, p, c)
      BY <2>1, <2>7, <2>8, <2>9, <2>10, <2>11, <2>12, <2>13, <1>1, Zenon DEF end, ClosesGap
    <3> QED BY <3>1, GapClosed, Zenon
  <2>15. \A s \in g.slabs : IsFree(g, s) => StillFree(h, g, s)
    BY <2>10, <2>14, Zenon
  <2> QED BY <2>6, <2>12, <2>14, <2>15, Zenon DEF g, c, h1, end
<1>7. CASE skip # 0 /\ ~(skip < 3 /\ start # 0)
  <2> DEFINE m1 == MarkFree(h.mem, start, c - 1)
  <2>2. h1 = [h EXCEPT !.mem = m1]
    BY <1>7, <1>s, Zenon
  <2>3. c - 1 \in Nat /\ c - 1 \in Index /\ start <= c - 1 /\ c - 1 < end /\ start \in Index
    BY <1>0, <1>1, <1>2, <1>7 DEF c
  <2>4. m1 \in [Index -> 0 .. MAX_VAL]
    BY <1>0, <1>1, <1>2, <2>3 DEF MarkFree
  <2>5. /\ m1[start] = c - 1 /\ m1[c - 1] = start
        /\ \A w \in Index : w # start /\ w # c - 1 => m1[w] = h.mem[w]
    BY <1>0, <2>3, Zenon DEF MarkFree
  <2> HIDE DEF m1
  <2>6. /\ h1 \in Heaps /\ h1.mem = m1 /\ h1.slabs = h.slabs
        /\ h1.last = h.last /\ h1.fences = h.fences
    BY <2>2, <2>4, Zenon DEF Heaps
  <2>7. Outside(h, g, start, end + 1)
    <3>1. \A w \in Index : w < start \/ w >= end + 1 => w # start /\ w # c - 1 /\ w # c /\ w # end
      BY <2>3, <1>1, TagFacts
    <3> HIDE DEF g, c
    <3> QED BY <3>1, <2>5, <2>6, <1>0, <1>1, <1>4, SMTT(30) DEF Outside
  <2>8. \A t \in g.slabs : start <= t /\ t <= end => t = start \/ t = c
    BY <2>6, <1>0, <1>1, <1>4
  <2>9. g.mem[start] = c - 1 /\ g.mem[c - 1] = start /\ start \in g.slabs
    BY <2>3, <2>5, <2>6, <1>1, <1>4
  <2>10. /\ IsFree(g, start) /\ IsFree(g, c - 1)
         /\ End(g, start) = c - 1 /\ Untag(g.mem[c - 1]) = start
    BY <2>3, <2>9, TagFacts, Zenon DEF IsFree, End
  <2>11. start <= start /\ start <= c /\ c < end
    BY <2>3, <1>1
  <2>12. /\ WellFormed(g) /\ Coalesced(g)
         /\ End(g, c) + 1 \in g.slabs => ~IsFree(g, End(g, c) + 1)
         /\ \A s \in h.slabs : ~IsFree(h, s) => Keeps(h, g, s)
         /\ \A s \in g.slabs : ~IsFree(g, s) => s = c \/ (s \in h.slabs /\ ~IsFree(h, s))
    <3>1. /\ g \in Heaps /\ g.last = h.last
          /\ c \in g.slabs /\ ~IsFree(g, c) /\ End(g, c) = end
          /\ ~IsFree(g, end) /\ Untag(g.mem[end]) = c
      BY <2>6, <1>4, Zenon
    <3> HIDE DEF g, c
    <3>2. ClosesGap(h, g, start, start, c)
      BY <2>7, <2>8, <2>9, <2>10, <2>11, <3>1, <1>1, Zenon DEF end, ClosesGap
    <3> QED BY <3>2, GapClosed, Zenon
  <2> QED BY <2>6, <2>12, <1>4, <1>7, Zenon
<1> QED BY <1>5, <1>6, <1>7

-----------------------------------------------------------------------------
(* The tail of dandelion_alloc: the chosen free slab is turned into an     *)
(* occupied one for the request; all other occupied slabs keep their words.*)
LEMMA PlacedHeap ==
  ASSUME NEW h \in Heaps, WellFormed(h), Coalesced(h),
         NEW start \in h.slabs, IsFree(h, start),
         NEW skip \in Nat, NEW sz \in Nat, sz > 0,
         start + skip + sz + 1 <= h.mem[start]
  PROVE  LET c == start + skip
             g == Carved(Skipped(h, start, skip), c, h.mem[start], sz)
         IN  /\ g \in Heaps /\ WellFormed(g) /\ Coalesced(g)
             /\ g.last = h.last /\ g.fences = h.fences
             /\ c \in g.slabs /\ ~IsFree(g, c) /\ c + sz + 1 <= End(g, c)
             /\ ~(c \in h.slabs /\ ~IsFree(h, c))
             /\ \A s \in h.slabs : ~IsFree(h, s) => Keeps(h, g, s)
             /\ \A s \in g.slabs : ~IsFree(g, s) => s = c \/ (s \in h.slabs /\ ~IsFree(h, s))
             /\ skip = 0 \/ (skip < 3 /\ start # 0) =>
                  \A s \in g.slabs : IsFree(g, s) => s + 2 <= End(g, s) \/ StillFree(h, g, s)
<1> DEFINE c   == start + skip
           end == h.mem[start]
           h1  == Skipped(h, start, skip)
           f   == Aligned(h, start, skip)
           g   == Carved(h1, c, end, sz)
<1>1. /\ End(h, start) = end /\ start \in Nat /\ end \in Nat /\ c \in Nat
      /\ start <= c /\ c + sz + 1 <= end /\ start + skip < End(h, start)
      /\ end \in Index /\ c \in Index
      /\ \A t \in h.slabs : start < t => end < t
  <2>1. End(h, start) = end
    BY Zenon DEF End, Untag, IsFree
  <2>2. start \in Nat /\ End(h, start) \in Nat /\ End(h, start) \in Index
        /\ \A t \in h.slabs : start < t => End(h, start) < t
    BY SlabFacts, Zenon
  <2> QED BY <2>1, <2>2, IndexInterval, SMTT(30)
<1>2. /\ h1 \in Heaps
      /\ f \in Heaps /\ WellFormed(f) /\ Coalesced(f)
      /\ f.last = h.last /\ f.fences = h.fences
      /\ c \in f.slabs /\ ~IsFree(f, c) /\ End(f, c) = end
      /\ end + 1 \in f.slabs => ~IsFree(f, end + 1)
      /\ \A s \in h.slabs : ~IsFree(h, s) => Keeps(h, f, s)
      /\ \A s \in f.slabs : ~IsFree(f, s) => s = c \/ (s \in h.slabs /\ ~IsFree(h, s))
      /\ skip = 0 \/ (skip < 3 /\ start # 0) =>
           \A s \in f.slabs : IsFree(f, s) => StillFree(h, f, s)
  BY <1>1, AlignedHeap
<1>3. f = [h1 EXCEPT !.mem = MarkOccupied(h1.mem, c, end), !.slabs = h1.slabs \cup {c}]
  BY Zenon DEF Aligned
<1>4. ~(c \in h.slabs /\ ~IsFree(h, c))
  BY <1>1
<1> HIDE DEF h1, f, g, c, end
<1>5. g = Carved(f, c, end, sz)
  <2> DEFINE fit   == c + sz + 1
             split == end > fit + 2
             stop  == IF split THEN fit ELSE end
             M(m)  == MarkOccupied(IF split THEN MarkFree(m, fit + 1, end) ELSE m, c, stop)
             T(S)  == S \cup {c} \cup (IF split THEN {fit + 1} ELSE {})
  <2>1. h1.mem \in [Index -> 0 .. MAX_VAL]
    BY <1>2, Zenon DEF Heaps
  <2>2. f.mem = MarkOccupied(h1.mem, c, end) /\ f.slabs = h1.slabs \cup {c}
        /\ f.last = h1.last /\ f.fences = h1.fences
    BY <1>2, <1>3, Zenon DEF Heaps
  <2>3. g = [h1 EXCEPT !.mem = M(h1.mem), !.slabs = T(h1.slabs)]
    BY Zenon DEF g, Carved
  <2>4. Carved(f, c, end, sz) = [f EXCEPT !.mem = M(f.mem), !.slabs = T(f.slabs)]
    BY Zenon DEF Carved
  <2>5. T(f.slabs) = T(h1.slabs)
    BY <2>2, Zenon
  <2>6. M(f.mem) = M(h1.mem)
    <3>1. CASE split
      BY <3>1, <2>1, <2>2, <1>1, IndexInterval, Zenon DEF MarkOccupied, MarkFree
    <3>2. CASE ~split
      BY <3>2, <2>1, <2>2, <1>1, Zenon DEF MarkOccupied, MarkFree
    <3> QED BY <3>1, <3>2, Zenon
  <2> HIDE DEF M, T
  <2> DEFINE k == Carved(f, c, end, sz)
  <2>7. k \in Heaps
    BY <1>1, <1>2, CarvedHeap
  <2> HIDE DEF k
  <2>8. /\ k.mem = M(f.mem) /\ k.slabs = T(f.slabs)
        /\ k.last = f.last /\ k.fences = f.fences
        /\ M(f.mem) \in [Index -> 0 .. MAX_VAL] /\ T(f.slabs) \in SUBSET Index
    <3>1. k = [f EXCEPT !.mem = M(f.mem), !.slabs = T(f.slabs)]
      BY <2>4, Zenon DEF k
    <3> QED BY <3>1, <2>7, <1>2, Zenon DEF Heaps
  <2>9. /\ g \in Heaps /\ g.mem = M(h1.mem) /\ g.slabs = T(h1.slabs)
        /\ g.last = h1.last /\ g.fences = h1.fences
    BY <2>3, <2>5, <2>6, <2>8, <1>2, Zenon DEF Heaps
  <2>10. g = k
    BY <2>2, <2>5, <2>6, <2>7, <2>8, <2>9, SMTT(30) DEF Heaps
  <2> QED BY <2>10, Zenon DEF k
<1>6. /\ g \in Heaps /\ WellFormed(g) /\ Coalesced(g)
      /\ g.last = f.last /\ g.fences = f.fences
      /\ c \in g.slabs /\ ~IsFree(g, c) /\ c + sz + 1 <= End(g, c)
      /\ \A s \in f.slabs : ~IsFree(f, s) /\ s # c => Keeps(f, g, s)
      /\ \A s \in g.slabs : ~IsFree(g, s) => s \in f.slabs /\ ~IsFree(f, s)
      /\ \A s \in g.slabs : IsFree(g, s) => s + 2 <= End(g, s) \/ StillFree(f, g, s)
  <2>1. g = Carved(f, c, End(f, c), sz) /\ c + sz + 1 <= End(f, c)
        /\ (End(f, c) + 1 \in f.slabs => ~IsFree(f, End(f, c) + 1))
    BY <1>1, <1>2, <1>5, Zenon
  <2>2. /\ f \in Heaps /\ WellFormed(f) /\ Coalesced(f) /\ c \in f.slabs /\ ~IsFree(f, c)
    BY <1>2, Zenon
  <2> DEFINE k == Carved(f, c, End(f, c), sz)
  <2>3. /\ k \in Heaps /\ WellFormed(k) /\ Coalesced(k)
        /\ k.last = f.last /\ k.fences = f.fences
        /\ c \in k.slabs /\ ~IsFree(k, c) /\ c + sz + 1 <= End(k, c)
        /\ \A s \in f.slabs : ~IsFree(f, s) /\ s # c => Keeps(f, k, s)
        /\ \A s \in k.slabs : ~IsFree(k, s) => s \in f.slabs /\ ~IsFree(f, s)
        /\ \A s \in k.slabs : IsFree(k, s) => s + 2 <= End(k, s) \/ StillFree(f, k, s)
    BY <2>1, <2>2, CarvedHeap, Zenon
  <2>4. g = k
    BY <2>1, Zenon
  <2> HIDE DEF k
  <2> QED BY <2>3, <2>4, Zenon
<1>7. ASSUME NEW s \in h.slabs, ~IsFree(h, s) PROVE Keeps(h, g, s)
  <2>1. Keeps(h, f, s) /\ s # c
    BY <1>2, <1>4, <1>7, Zenon
  <2>2. s \in f.slabs /\ ~IsFree(f, s) /\ End(h, s) <= End(f, s)
        /\ \A w \in s + 1 .. End(h, s) - 1 : f.mem[w] = h.mem[w]
    BY <2>1, Zenon DEF Keeps
  <2>3. /\ s \in g.slabs /\ ~IsFree(g, s) /\ End(f, s) <= End(g, s)
        /\ \A w \in s + 1 .. End(f, s) - 1 : g.mem[w] = f.mem[w]
    BY <2>1, <2>2, <1>6, Zenon DEF Keeps
  <2>4. s \in Nat /\ End(h, s) \in Nat /\ End(f, s) \in Nat /\ End(g, s) \in Nat
    BY <2>2, <2>3, <1>2, <1>6, SlabFacts, HeapParts, Zenon
  <2> QED BY <2>2, <2>3, <2>4 DEF Keeps
<1>8. skip = 0 \/ (skip < 3 /\ start # 0) =>
        \A s \in g.slabs : IsFree(g, s) => s + 2 <= End(g, s) \/ StillFree(h, g, s)
  BY <1>2, <1>6, Zenon DEF StillFree
<1> QED BY <1>2, <1>4, <1>6, <1>7, <1>8, Zenon DEF g, c, end, h1

-----------------------------------------------------------------------------
(* New memory from sbrk.                                                   *)

(* The first slab.                                                         *)
LEMMA FirstHeapFacts ==
  ASSUME NEW h \in Heaps, NEW n \in Nat, n >= 3, n - 1 \in Index
  PROVE  LET g == FirstHeap(h, n)
         IN  /\ g \in Heaps /\ WellFormed(g) /\ Coalesced(g)
             /\ g.slabs = {0} /\ g.fences = {} /\ g.last = n - 1
             /\ IsFree(g, 0) /\ g.mem[0] = n - 2
<1> DEFINE m == [MarkFree(h.mem, 0, n - 2) EXCEPT ![n - 1] = MAX_VAL]
           g == FirstHeap(h, n)
<1>1. n - 2 \in Nat /\ n - 1 \in Nat /\ 0 \in Index /\ n - 2 \in Index
  BY IndexInterval
<1>2. /\ n - 2 \in 0 .. MAX_VAL /\ 0 \in 0 .. MAX_VAL /\ MAX_VAL \in 0 .. MAX_VAL
      /\ ~is_occupied(n - 2) /\ Untag(n - 2) = n - 2
      /\ ~is_occupied(0) /\ Untag(0) = 0
  BY <1>1, TagFacts, Zenon
<1>3. h.mem \in [Index -> 0 .. MAX_VAL]
  BY Zenon DEF Heaps
<1>4. /\ m \in [Index -> 0 .. MAX_VAL]
      /\ m[0] = n - 2 /\ m[n - 2] = 0 /\ m[n - 1] = MAX_VAL
  BY <1>1, <1>2, <1>3 DEF MarkFree
<1>5. g = [mem |-> m, last |-> n - 1, slabs |-> {0}, fences |-> {}]
  BY Zenon DEF FirstHeap
<1> HIDE DEF m, g
<1>6. /\ g \in Heaps /\ g.mem = m /\ g.last = n - 1 /\ g.slabs = {0} /\ g.fences = {}
  BY <1>1, <1>4, <1>5, Zenon DEF Heaps
<1>7. /\ IsFree(g, 0) /\ IsFree(g, n - 2) /\ End(g, 0) = n - 2 /\ Untag(g.mem[n - 2]) = 0
  BY <1>2, <1>4, <1>6, Zenon DEF IsFree, End
<1>8. Tiles(g, 0, n - 1)
  BY <1>1, <1>6, <1>7, TilesOne
<1>9. WellFormed(g)
  BY <1>1, <1>4, <1>6, <1>8 DEF WellFormed
<1>10. Coalesced(g)
  BY <1>1, <1>6, <1>7 DEF Coalesced
<1> QED BY <1>4, <1>6, <1>7, <1>9, <1>10, Zenon DEF g

(* A heap of which everything behind word a is new.                        *)
LEMMA Extended ==
  ASSUME NEW h \in Heaps, NEW g \in Heaps, WellFormed(h), Coalesced(h),
         NEW a \in h.slabs \cup {h.last}, a < g.last,
         \A i \in Index : i < a => g.mem[i] = h.mem[i] /\ (i \in g.slabs <=> i \in h.slabs),
         Tiles(g, a, g.last), \A t \in g.slabs : t < g.last,
         g.mem[g.last] = MAX_VAL,
         a # 0 /\ IsFree(h, a - 1) => ~IsFree(g, a),
         \A s \in g.slabs : a <= s /\ IsFree(g, s) /\ End(g, s) + 1 \in g.slabs
                              => ~IsFree(g, End(g, s) + 1)
  PROVE  /\ WellFormed(g) /\ Coalesced(g)
         /\ \A s \in h.slabs : s < a =>
              /\ s \in g.slabs /\ End(g, s) = End(h, s)
              /\ IsFree(g, s) <=> IsFree(h, s)
              /\ \A w \in s .. End(h, s) : g.mem[w] = h.mem[w]
<1>1. /\ a \in Nat /\ h.last \in Nat /\ g.last \in Nat /\ a <= h.last
      /\ h.slabs \subseteq Nat /\ g.slabs \subseteq Nat
      /\ h.slabs \subseteq Index /\ g.slabs \subseteq Index
      /\ \A i \in Nat : i <= h.last => i \in Index
  <2>1. \A i \in Nat : i <= h.last => i \in Index
    BY HeapParts, IndexInterval, Zenon
  <2> QED BY <2>1, HeapParts DEF WellFormed
<1>2. Tiles(h, 0, a)
  BY <1>1, TilesCut DEF WellFormed
<1>3. Tiles(g, 0, a)
  BY <1>1, <1>2, TilesFrame
<1>4. WellFormed(g)
  BY <1>1, <1>3, TilesJoin DEF WellFormed
<1>5. ASSUME NEW s \in h.slabs, s < a
      PROVE  /\ s \in g.slabs /\ End(g, s) = End(h, s)
             /\ IsFree(g, s) <=> IsFree(h, s)
             /\ \A w \in s .. End(h, s) : g.mem[w] = h.mem[w]
             /\ End(h, s) < a /\ End(h, s) \in Nat
  <2>1. s \in Index /\ g.mem[s] = h.mem[s] /\ s \in g.slabs
    BY <1>1, <1>5, Zenon
  <2>2. End(h, s) \in Nat /\ End(h, s) < a
    BY <1>5, SlabFacts
  <2>3. ASSUME NEW w \in s .. End(h, s) PROVE g.mem[w] = h.mem[w]
    <3>1. w \in Nat /\ w \in Index /\ w < a
      BY <2>2, <1>1, <1>5
    <3> QED BY <3>1, Zenon
  <2> QED BY <2>1, <2>2, <2>3, Zenon DEF End, IsFree
<1>6. ASSUME NEW s \in g.slabs, s < a, IsFree(g, s), End(g, s) + 1 \in g.slabs
      PROVE  ~IsFree(g, End(g, s) + 1)
  <2>1. s \in h.slabs /\ End(g, s) = End(h, s) /\ IsFree(h, s)
        /\ End(h, s) < a /\ End(h, s) \in Nat
    BY <1>1, <1>5, <1>6, Zenon
  <2>2. CASE End(h, s) + 1 = a
    <3>1. End(h, s) = a - 1 /\ a # 0
      BY <1>1, <2>1, <2>2
    <3>2. IsFree(h, End(h, s))
      BY <2>1, SlabFacts, Zenon
    <3> QED BY <3>1, <3>2, <2>1, <2>2, Zenon
  <2>3. CASE End(h, s) + 1 < a
    <3>1. End(h, s) + 1 \in h.slabs
      BY <1>1, <1>6, <2>1, <2>3, Zenon
    <3> QED BY <3>1, <1>5, <2>1, <2>3, Zenon DEF Coalesced
  <2> QED BY <1>1, <2>1, <2>2, <2>3
<1>7. Coalesced(g)
  BY <1>1, <1>6 DEF Coalesced
<1> QED BY <1>4, <1>5, <1>7, Zenon

(* Growing the heap by n words at index first: they end up in one free     *)
(* slab, joined with a free slab in front or behind a fence, and every     *)
(* occupied slab keeps its words.                                          *)
LEMMA GrownHeap ==
  ASSUME NEW h \in Heaps, WellFormed(h), Coalesced(h),
         NEW first \in Nat, first >= h.last + 1,
         NEW n \in Nat, n >= 4, first + n - 1 \in Index
  PROVE  LET g     == Grown(h, first, n)
             start == GrowStart(h, first)
         IN  /\ g \in Heaps /\ WellFormed(g) /\ Coalesced(g)
             /\ g.last = first + n - 1
             /\ start \in g.slabs /\ IsFree(g, start) /\ g.mem[start] = first + n - 2
             /\ start <= first + 1
             /\ \A s \in h.slabs : ~IsFree(h, s) => Keeps(h, g, s)
             /\ \A s \in g.slabs : ~IsFree(g, s) =>
                  \/ s = h.last /\ s \in g.fences
                  \/ s \in h.slabs /\ ~IsFree(h, s)
             /\ \A s \in h.slabs : IsFree(h, s) /\ s # start =>
                  s \in g.slabs /\ IsFree(g, s) /\ End(g, s) = End(h, s)
             /\ \A s \in g.slabs : IsFree(g, s) /\ s # start => s \in h.slabs /\ IsFree(h, s)
             /\ IF first = h.last + 1 THEN g.fences = h.fences
                ELSE /\ g.fences = h.fences \cup {h.last}
                     /\ h.last \in g.slabs /\ ~IsFree(g, h.last)
                     /\ End(g, h.last) = first
<1> DEFINE start == GrowStart(h, first)
           last  == first + n - 1
           fence == first # h.last + 1
           m0    == IF fence THEN MarkOccupied(h.mem, h.last, first) ELSE h.mem
           m     == [MarkFree(m0, start, last - 1) EXCEPT ![last] = MAX_VAL]
           S     == h.slabs \cup (IF fence THEN {h.last, start} ELSE {start})
           F     == h.fences \cup (IF fence THEN {h.last} ELSE {})
           g     == Grown(h, first, n)
           a     == IF fence THEN h.last ELSE start
<1>0. /\ h.slabs \subseteq Nat /\ h.slabs \subseteq Index /\ h.last \in Nat
      /\ h.fences \subseteq Index
      /\ h.last \in Index /\ h.mem \in [Index -> 0 .. MAX_VAL] /\ h.last > 0
      /\ \A t \in h.slabs : t < h.last
  BY HeapParts, Zenon DEF Heaps, WellFormed
<1>1. /\ last \in Nat /\ last - 1 \in Nat /\ last \in Index /\ h.last < last - 1
      /\ first < last - 1 /\ first + 1 <= last - 1
      /\ \A i \in Nat : i <= last => i \in Index
  <2>1. \A i \in Nat : i <= last => i \in Index
    BY IndexInterval, Zenon
  <2> QED BY <2>1, <1>0
<1>2. g = [mem |-> m, last |-> last, slabs |-> S, fences |-> F]
  BY Zenon DEF Grown
<1>3. /\ a \in h.slabs \cup {h.last} /\ a <= start /\ start <= first + 1
      /\ start \in Nat
      /\ a # 0 /\ IsFree(h, a - 1) => fence
      /\ fence => start = first + 1 /\ h.last < first /\ a = h.last
      /\ ~fence => start = a /\ first = h.last + 1
      /\ \A t \in h.slabs : t <= a
      /\ a \in h.slabs => IsFree(h, a)
  <2> DEFINE p == Untag(h.mem[h.last - 1])
  <2>1. p \in h.slabs /\ p < h.last /\ End(h, p) = h.last - 1 /\ p \in Nat
        /\ \A t \in h.slabs : p < t => h.last - 1 < t
    <3>1. p \in h.slabs /\ p < h.last /\ End(h, p) = h.last - 1
      BY <1>0 DEF WellFormed, Tiles
    <3> QED BY <3>1, SlabFacts
  <2>2. IsFree(h, p) <=> ~is_occupied(h.mem[h.last - 1])
    <3>1. IsFree(h, End(h, p)) <=> IsFree(h, p)
      BY <2>1, SlabFacts, Zenon
    <3> QED BY <3>1, <2>1, Zenon DEF IsFree
  <2>3. CASE fence
    <3>1. start = first + 1 /\ a = h.last
      BY <2>3, Zenon DEF GrowStart
    <3>2. h.last \notin h.slabs
      BY <1>0
    <3> HIDE DEF start, a
    <3> QED BY <3>1, <3>2, <2>3, <1>0
  <2>4. CASE ~fence /\ ~is_occupied(h.mem[h.last - 1])
    <3>1. start = p /\ a = p
      BY <2>4, Zenon DEF GrowStart, Untag
    <3>2. p # 0 => ~IsFree(h, p - 1)
      BY <2>1, <2>2, <2>4, FrontOccupied, Zenon
    <3>3. \A t \in h.slabs : t <= p
      BY <2>1, <1>0
    <3> HIDE DEF start, a, p
    <3> QED BY <3>1, <3>2, <3>3, <2>1, <2>2, <2>4, <1>0
  <2>5. CASE ~fence /\ is_occupied(h.mem[h.last - 1])
    <3>1. start = h.last /\ a = h.last
      BY <2>5, Zenon DEF GrowStart
    <3>2. h.last \notin h.slabs
      BY <1>0
    <3> HIDE DEF start, a
    <3> QED BY <3>1, <3>2, <2>5, <1>0 DEF IsFree
  <2> QED BY <2>3, <2>4, <2>5, Zenon
<1> HIDE DEF start, a, g, last
<1>4. /\ start \in Index /\ start <= last - 1
      /\ last - 1 \in Index /\ h.last \in Index /\ first \in Index
      /\ a \in Nat /\ a < last
  BY <1>0, <1>1, <1>3
<1>5. m0 \in [Index -> 0 .. MAX_VAL]
  BY <1>0, <1>4, TagFacts, Zenon DEF MarkOccupied
<1>6. /\ m \in [Index -> 0 .. MAX_VAL]
      /\ S \in SUBSET Index /\ F \in SUBSET Index
  BY <1>0, <1>1, <1>3, <1>4, <1>5, TagFacts, Zenon DEF MarkFree
<1>7. /\ m[last] = MAX_VAL /\ m[start] = last - 1 /\ m[last - 1] = start
      /\ \A i \in Index : i # start /\ i # last - 1 /\ i # last => m[i] = m0[i]
  BY <1>1, <1>3, <1>4, <1>5 DEF MarkFree
<1>8. /\ fence => m[h.last] = first + Flag /\ m[first] = h.last + Flag
      /\ \A i \in Index : i < a => m[i] = h.mem[i]
  BY <1>0, <1>1, <1>3, <1>4, <1>7 DEF MarkOccupied
<1>9. /\ start \in S /\ (fence => h.last \in S)
      /\ \A t \in S : t \in h.slabs \/ t = start \/ (fence /\ t = h.last)
      /\ h.slabs \subseteq S
  BY Zenon
<1> HIDE DEF m0, m, S, F
<1>10. /\ g \in Heaps /\ g.mem = m /\ g.last = last /\ g.slabs = S /\ g.fences = F
  BY <1>1, <1>2, <1>6, Zenon DEF Heaps
<1>11. /\ start \in g.slabs /\ IsFree(g, start) /\ End(g, start) = last - 1
       /\ IsFree(g, last - 1) /\ Untag(g.mem[last - 1]) = start
  BY <1>4, <1>7, <1>9, <1>10, <1>1, <1>3, TagFacts, Zenon DEF IsFree, End
<1>12. fence => /\ h.last \in g.slabs /\ ~IsFree(g, h.last) /\ End(g, h.last) = first
                /\ ~IsFree(g, first) /\ Untag(g.mem[first]) = h.last
  BY <1>4, <1>8, <1>9, <1>10, TagFacts DEF IsFree, End
<1>13. /\ \A t \in g.slabs : t < last
       /\ \A t \in g.slabs : a <= t => t = start \/ (fence /\ t = h.last)
       /\ \A i \in Index : i < a => (i \in g.slabs <=> i \in h.slabs)
       /\ g.slabs \subseteq Nat
  BY <1>0, <1>1, <1>3, <1>4, <1>9, <1>10, HeapParts
<1>14. Tiles(g, a, last)
  <2>1. Tiles(g, start, last)
    BY <1>1, <1>3, <1>4, <1>10, <1>11, <1>13, TilesOne
  <2>2. ASSUME fence PROVE Tiles(g, h.last, first + 1)
    <3>1. /\ h.last \in g.slabs /\ first + 1 \in Nat /\ h.last < first + 1
          /\ End(g, h.last) = (first + 1) - 1 /\ Untag(g.mem[(first + 1) - 1]) = h.last
          /\ IsFree(g, (first + 1) - 1) <=> IsFree(g, h.last)
      BY <2>2, <1>0, <1>3, <1>12
    <3>2. \A t \in g.slabs : t <= h.last \/ first + 1 <= t
      BY <2>2, <1>0, <1>3, <1>13
    <3> QED BY <3>1, <3>2, <1>10, TilesOne, Zenon
  <2> QED BY <2>1, <2>2, <1>0, <1>1, <1>3, <1>10, TilesJoin
<1>15. ASSUME NEW s \in g.slabs, a <= s, IsFree(g, s), End(g, s) + 1 \in g.slabs
       PROVE  ~IsFree(g, End(g, s) + 1)
  BY <1>15, <1>1, <1>11, <1>12, <1>13
<1>16. /\ WellFormed(g) /\ Coalesced(g)
       /\ \A s \in h.slabs : s < a =>
            /\ s \in g.slabs /\ End(g, s) = End(h, s)
            /\ IsFree(g, s) <=> IsFree(h, s)
            /\ \A w \in s .. End(h, s) : g.mem[w] = h.mem[w]
  BY <1>1, <1>3, <1>4, <1>7, <1>8, <1>10, <1>12, <1>13, <1>14, <1>15, Extended
<1>17. ASSUME NEW s \in h.slabs, ~IsFree(h, s) PROVE Keeps(h, g, s)
  <2>1. s < a /\ s \in Nat /\ End(h, s) \in Nat
    BY <1>17, <1>0, <1>3, <1>4, SlabFacts
  <2> QED BY <2>1, <1>16, <1>17 DEF Keeps
<1>f. IF fence THEN g.fences = h.fences \cup {h.last} ELSE g.fences = h.fences
  BY <1>10, Zenon DEF F
<1>18. ASSUME NEW s \in g.slabs, ~IsFree(g, s)
       PROVE  (s = h.last /\ s \in g.fences) \/ (s \in h.slabs /\ ~IsFree(h, s))
  <2>1. CASE a <= s
    <3>1. fence /\ s = h.last
      BY <2>1, <1>11, <1>13, <1>18, Zenon
    <3> QED BY <3>1, <1>f, Zenon
  <2>2. CASE s < a
    BY <2>2, <1>0, <1>13, <1>16, <1>18, HeapParts, <1>10, Zenon
  <2> QED BY <2>1, <2>2, <1>4, <1>13
<1>19. ASSUME NEW s \in h.slabs, IsFree(h, s), s # start
       PROVE  s \in g.slabs /\ IsFree(g, s) /\ End(g, s) = End(h, s)
  <2>1. s < a
    BY <1>19, <1>0, <1>3, <1>4
  <2> QED BY <2>1, <1>16, <1>19, Zenon
<1>20. ASSUME NEW s \in g.slabs, IsFree(g, s), s # start
       PROVE  s \in h.slabs /\ IsFree(h, s)
  <2>1. s < a
    BY <1>20, <1>4, <1>12, <1>13
  <2>2. s \in h.slabs
    BY <2>1, <1>10, <1>13, HeapParts, Zenon
  <2> QED BY <2>1, <2>2, <1>16, <1>20, Zenon
<1>21. g.mem[start] = first + n - 2
  BY <1>7, <1>10, <1>1 DEF last
<1> QED BY <1>3, <1>10, <1>11, <1>12, <1>16, <1>17, <1>18, <1>19, <1>20, <1>f, <1>21
        DEF g, start, last

-----------------------------------------------------------------------------
(* Sizes and alignments.                                                   *)

(* Division rounds down.                                                   *)
LEMMA DivFacts ==
  ASSUME NEW x \in Nat, NEW p \in Nat, p > 0
  PROVE  /\ (x \div p) * p = x - (x % p) /\ (x \div p) * p \in Nat
         /\ x \div p \in Nat /\ x % p \in Nat /\ x % p < p
BY Z3

(* Whole pages are whole words.                                            *)
LEMMA WholeWords ==
  ASSUME NEW q \in Nat, NEW p \in Nat, p % 8 = 0
  PROVE  \E j \in Nat : q * p = 8 * j
<1>1. p = 8 * (p \div 8) /\ p \div 8 \in Nat
  BY Z3
<1>2. PICK k \in Nat : p = 8 * k
  BY <1>1, Zenon
<1>3. q * p = 8 * (q * k) /\ q * k \in Nat
  BY <1>2, Z3
<1> QED BY <1>3, Zenon

(* What get_sbrk_size returns has room for the request, four descriptors   *)
(* and, by the bytes of the alignment counted in words, some more.         *)
LEMMA SbrkSizeFacts ==
  ASSUME NEW sz \in Nat, sz > 0, NEW al \in Nat, al > 0
  PROVE  LET need == get_sbrk_size(sz, al)
         IN  /\ need \in Nat /\ need % 8 = 0
             /\ need \div 8 \in Nat /\ need = 8 * (need \div 8)
             /\ need \div 8 >= sz + 5
<1> DEFINE x    == sz * 8 + 32 + al + PageSize - 1
           q    == x \div PageSize
           need == get_sbrk_size(sz, al)
<1>1. PageSize \in Nat /\ PageSize > 0 /\ PageSize % 8 = 0
  BY PageAssumption, Zenon DEF Word
<1>2. x \in Nat
  BY <1>1
<1>3. need = q * PageSize
  BY DEF get_sbrk_size, Word
<1>4. q * PageSize = x - (x % PageSize) /\ q \in Nat /\ x % PageSize < PageSize
      /\ x % PageSize \in Nat /\ q * PageSize \in Nat
  BY <1>1, <1>2, DivFacts, Zenon
<1>5. PICK j \in Nat : q * PageSize = 8 * j
  BY <1>1, <1>4, WholeWords, Zenon
<1>6. q * PageSize >= sz * 8 + 32 + al
  <2> DEFINE r == x % PageSize
             y == q * PageSize
  <2>1. y = x - r /\ r < PageSize /\ r \in Nat /\ y \in Nat
    BY <1>4, Zenon
  <2> HIDE DEF r, y, q
  <2>2. y >= sz * 8 + 32 + al
    BY <2>1, <1>1
  <2> QED BY <2>2, Zenon DEF y
<1> HIDE DEF need, q
<1>7. need = 8 * j /\ need >= sz * 8 + 33
  BY <1>3, <1>5, <1>6
<1> QED BY <1>7 DEF need

(* The words left out in front of an aligned slab.                         *)
LEMMA RoundingFacts ==
  ASSUME NEW i \in Nat, NEW al \in Nat, al > 0
  PROVE  /\ Rounding(i, al) \in Nat /\ Rounding(i, al) < al
         /\ (i + Rounding(i, al) + 1) % al = 0
<1> DEFINE r == (i + 1) % al
<1>1. r \in Nat /\ r < al /\ ((i + 1) \div al) * al = i + 1 - r /\ (i + 1) \div al \in Nat
  BY DivFacts
<1>2. \A k \in Nat : (k * al) % al = 0
  BY Z3
<1>3. CASE r = 0
  BY <1>3, <1>1 DEF Rounding
<1>4. CASE r # 0
  <2>1. Rounding(i, al) = al - r
    BY <1>4, Zenon DEF Rounding
  <2>2. i + (al - r) + 1 = ((i + 1) \div al + 1) * al
    <3> DEFINE q == (i + 1) \div al
    <3>1. q * al = i + 1 - r /\ q \in Nat /\ r \in Nat
      BY <1>1, Zenon
    <3> HIDE DEF q, r
    <3>2. (q + 1) * al = q * al + al
      BY <3>1, Z3
    <3>3. (q + 1) * al = i + (al - r) + 1
      BY <3>1, <3>2
    <3> QED BY <3>3, Zenon DEF q
  <2>3. (i + 1) \div al + 1 \in Nat
    BY <1>1
  <2>4. (i + (al - r) + 1) % al = 0
    BY <1>2, <2>2, <2>3, Zenon
  <2>5. al - r \in Nat /\ al - r < al
    BY <1>1, <1>4
  <2> QED BY <2>1, <2>4, <2>5, Zenon
<1> QED BY <1>3, <1>4, Zenon

(* local_size and local_alignment.                                         *)
LEMMA RequestFacts ==
  /\ \A n \in Nat : n > 0 => LocalSize(n) \in Nat /\ LocalSize(n) > 0
  /\ \A n \in Nat : LocalAlignment(n) \in Nat /\ LocalAlignment(n) > 0
  /\ \A n \in Nat : n <= 16 => LocalAlignment(n) <= 2
  /\ \A n \in Nat : n < Flag => \A i \in Index : i + LocalAlignment(n) <= Flag
<1>1. /\ Flag \in Nat /\ Flag >= 2 /\ HeapEnd - HeapBegin <= Flag - 2
      /\ HeapEnd - HeapBegin \in Nat
  BY HeapAssumption
<1>2. \A i \in Index : i \in Nat /\ i <= (Flag + 6) \div 8
  BY <1>1 DEF Index, Word
<1>3. \A n \in Nat : n < Flag => LocalAlignment(n) <= (Flag + 6) \div 8
  BY <1>1 DEF LocalAlignment, Word
<1>4. \A n \in Nat : n > 0 => LocalSize(n) \in Nat /\ LocalSize(n) > 0
  BY DEF LocalSize, Word
<1>5. \A n \in Nat : /\ LocalAlignment(n) \in Nat /\ LocalAlignment(n) > 0
                     /\ n <= 16 => LocalAlignment(n) <= 2
  BY DEF LocalAlignment, Word
<1>6. (Flag + 6) \div 8 + (Flag + 6) \div 8 <= Flag /\ (Flag + 6) \div 8 \in Nat
  BY <1>1
<1>7. ASSUME NEW n \in Nat, n < Flag, NEW i \in Index PROVE i + LocalAlignment(n) <= Flag
  <2> DEFINE d == (Flag + 6) \div 8
             l == LocalAlignment(n)
  <2>1. i \in Nat /\ i <= d /\ l \in Nat /\ l <= d /\ d \in Nat /\ d + d <= Flag
    BY <1>2, <1>3, <1>5, <1>6, <1>7, Zenon
  <2> HIDE DEF d, l
  <2>2. i + l <= Flag
    BY <2>1, <1>1
  <2> QED BY <2>2, Zenon DEF l
<1>8. \A n \in Nat : n < Flag => \A i \in Index : i + LocalAlignment(n) <= Flag
  BY <1>7, Zenon
<1>9. \A n \in Nat : n <= 16 => LocalAlignment(n) <= 2
  BY <1>5, Zenon
<1>10. \A n \in Nat : LocalAlignment(n) \in Nat /\ LocalAlignment(n) > 0
  BY <1>5, Zenon
<1> QED BY <1>4, <1>8, <1>9, <1>10, Zenon

(* Rounding up to whole words.                                             *)
LEMMA RoundUpFacts ==
  \A n \in Nat : RoundUp(n) \in Nat /\ RoundUp(n) % 8 = 0 /\ n <= RoundUp(n) /\ RoundUp(n) <= n + 7
BY DEF RoundUp, Word

-----------------------------------------------------------------------------
(* Stores by the clients.                                                  *)

(* The heap g is h with the words W overwritten.                           *)
IsStored(g, h, W, v) ==
  /\ g \in Heaps /\ WellFormed(g) /\ Coalesced(g)
  /\ g.last = h.last /\ g.slabs = h.slabs /\ g.fences = h.fences
  /\ \A s \in h.slabs : End(g, s) = End(h, s) /\ (IsFree(g, s) <=> IsFree(h, s))
  /\ \A i \in Index : g.mem[i] = IF i \in W THEN v ELSE h.mem[i]

(* Words behind the heap or between the two descriptors of a slab can be   *)
(* overwritten.                                                            *)
LEMMA StoredHeap ==
  ASSUME NEW h \in Heaps, WellFormed(h), Coalesced(h), NEW W, NEW v \in 0 .. MAX_VAL,
         \A w \in W : w \in Nat /\ (h.last < w \/ \E s \in h.slabs : s < w /\ w < End(h, s))
  PROVE  IsStored(Stored(h, W, v), h, W, v)
<1> DEFINE m == [i \in Index |-> IF i \in W THEN v ELSE h.mem[i]]
           g == Stored(h, W, v)
<1>1. h.mem \in [Index -> 0 .. MAX_VAL]
  BY Zenon DEF Heaps
<1>2. m \in [Index -> 0 .. MAX_VAL]
  BY <1>1, Zenon
<1>3. g = [h EXCEPT !.mem = m]
  BY Zenon DEF Stored
<1>4. \A i \in Index : m[i] = IF i \in W THEN v ELSE h.mem[i]
  BY Zenon
<1> HIDE DEF g, m
<1>5. g \in Heaps /\ g.mem = m /\ g.last = h.last /\ g.slabs = h.slabs /\ g.fences = h.fences
  BY <1>2, <1>3, Zenon DEF Heaps
<1>6. /\ h.slabs \subseteq Nat /\ h.slabs \subseteq Index /\ h.last \in Nat /\ h.last \in Index
  BY HeapParts, Zenon
<1>7. ASSUME NEW s \in h.slabs
      PROVE  /\ s \notin W /\ End(h, s) \notin W
             /\ g.mem[s] = h.mem[s] /\ g.mem[End(h, s)] = h.mem[End(h, s)]
             /\ End(g, s) = End(h, s)
  <2>1. /\ s \in Nat /\ End(h, s) \in Nat /\ s <= End(h, s) /\ End(h, s) < h.last
        /\ s \in Index /\ End(h, s) \in Index
    BY SlabFacts, Zenon
  <2>2. ASSUME NEW t \in h.slabs PROVE ~(t < s /\ s < End(h, t))
    BY <2>1, SlabFacts
  <2>3. ASSUME NEW t \in h.slabs PROVE ~(t < End(h, s) /\ End(h, s) < End(h, t))
    <3>1. /\ t \in Nat /\ End(h, t) \in Nat
          /\ t < s => End(h, t) < s
          /\ s < t => End(h, s) < t
      BY SlabFacts, Zenon
    <3> QED BY <2>1, <3>1
  <2>4. s \notin W /\ End(h, s) \notin W
    BY <2>1, <2>2, <2>3, <1>6
  <2>5. g.mem[s] = h.mem[s] /\ g.mem[End(h, s)] = h.mem[End(h, s)]
    BY <2>1, <2>4, <1>4, <1>5, Zenon
  <2> QED BY <2>4, <2>5, Zenon DEF End
<1>8. h.last \notin W /\ g.mem[h.last] = h.mem[h.last]
  <2>1. \A t \in h.slabs : End(h, t) < h.last /\ End(h, t) \in Nat
    BY SlabFacts, Zenon
  <2>2. h.last \notin W
    BY <2>1, <1>6
  <2> QED BY <2>2, <1>4, <1>5, <1>6, Zenon
<1>9. ASSUME NEW t \in h.slabs \cup {h.last}, 0 < t
      PROVE  g.mem[t - 1] = h.mem[t - 1]
  <2> DEFINE p == Untag(h.mem[t - 1])
  <2>1. t <= h.last
    BY <1>6 DEF WellFormed
  <2>2. p \in h.slabs /\ End(h, p) = t - 1
    BY <2>1, <1>9, Zenon DEF WellFormed, Tiles
  <2> HIDE DEF p
  <2> QED BY <2>2, <1>7, Zenon
<1>10. \A s \in h.slabs : IsFree(g, s) <=> IsFree(h, s)
  BY <1>7, Zenon DEF IsFree
<1>11. WellFormed(g)
  <2>1. ASSUME NEW s \in h.slabs, 0 <= s, s < h.last
        PROVE  /\ s <= End(g, s) /\ End(g, s) < h.last
               /\ Untag(g.mem[End(g, s)]) = s
               /\ IsFree(g, End(g, s)) <=> IsFree(g, s)
               /\ End(g, s) + 1 \in h.slabs \cup {h.last}
               /\ \A t \in h.slabs : s < t => End(g, s) < t
    <3>1. End(g, s) = End(h, s) /\ g.mem[s] = h.mem[s] /\ g.mem[End(h, s)] = h.mem[End(h, s)]
      BY <1>7, Zenon
    <3>2. /\ s <= End(h, s) /\ End(h, s) < h.last
          /\ Untag(h.mem[End(h, s)]) = s
          /\ IsFree(h, End(h, s)) <=> IsFree(h, s)
          /\ End(h, s) + 1 \in h.slabs \cup {h.last}
          /\ \A t \in h.slabs : s < t => End(h, s) < t
      BY SlabFacts, Zenon
    <3> QED BY <3>1, <3>2, Zenon DEF IsFree
  <2>2. ASSUME NEW t \in h.slabs \cup {h.last}, 0 < t, t <= h.last
        PROVE  /\ Untag(g.mem[t - 1]) \in h.slabs
               /\ 0 <= Untag(g.mem[t - 1]) /\ Untag(g.mem[t - 1]) < t
               /\ End(g, Untag(g.mem[t - 1])) = t - 1
    <3> DEFINE p == Untag(h.mem[t - 1])
    <3>1. p \in h.slabs /\ 0 <= p /\ p < t /\ End(h, p) = t - 1
      BY <2>2, Zenon DEF WellFormed, Tiles
    <3>2. Untag(g.mem[t - 1]) = p
      BY <2>2, <1>9, Zenon
    <3> HIDE DEF p
    <3> QED BY <3>1, <3>2, <1>7, Zenon
  <2>3. Tiles(g, 0, h.last)
    BY <2>1, <2>2, <1>5, Zenon DEF Tiles, WellFormed
  <2> QED BY <2>3, <1>5, <1>8, Zenon DEF WellFormed
<1>12. Coalesced(g)
  BY <1>5, <1>7, <1>10, Zenon DEF Coalesced
<1>13. IsStored(g, h, W, v)
  BY <1>4, <1>5, <1>7, <1>10, <1>11, <1>12, Zenon DEF IsStored
<1> QED BY <1>13, Zenon DEF g

-----------------------------------------------------------------------------
(* The inductive invariant.  Sound says of a heap h at root, with sbrk at  *)
(* base, the live allocations lv and the foreign regions fo what holds     *)
(* whenever the program is outside the allocator.  The steps of            *)
(* dandelion_alloc work on intermediate heaps, hence the parameters.       *)

SoundSlabs(h) ==
  /\ h \in Heaps /\ WellFormed(h) /\ Coalesced(h)
  /\ h.fences \subseteq h.slabs
  /\ \A s \in h.fences : ~IsFree(h, s)

SoundLive(h, lv) ==
  /\ lv \subseteq [ptr: Index, len: Nat, al: Nat]
  /\ \A a \in lv : /\ a.len > 0 /\ a.al > 0 /\ a.ptr % a.al = 0
                   /\ a.ptr - 1 \in h.slabs \ h.fences
                   /\ ~IsFree(h, a.ptr - 1)
                   /\ a.ptr + a.len <= End(h, a.ptr - 1)
  /\ \A a, b \in lv : a # b => a.ptr # b.ptr

NoLeak(h, lv) ==
  \A s \in h.slabs : ~IsFree(h, s) => s \in h.fences \/ \E a \in lv : a.ptr = s + 1

(* Foreign regions are disjoint, below word k, and fenced off.             *)
SoundForeign(h, k, fo) ==
  /\ fo \subseteq [lo: Index, hi: Index]
  /\ \A f \in fo : /\ f.lo < f.hi /\ f.hi <= k
                   /\ \/ h.last < f.lo
                      \/ \E s \in h.fences : s < f.lo /\ f.hi <= End(h, s)
  /\ \A f, e \in fo : f # e => f.hi <= e.lo \/ e.hi <= f.lo

(* sbrk stands k words behind root, which is above the heap.               *)
SoundBase(h, root, base, k) ==
  /\ root \in Nat /\ root >= HeapBegin /\ base = root + 8 * k
  /\ k \in Index /\ h.last < k

Sound(h, root, base, lv, fo) ==
  LET k == IndexOf(base, root)
  IN  /\ SoundSlabs(h) /\ SoundLive(h, lv) /\ NoLeak(h, lv)
      /\ SoundForeign(h, k, fo) /\ SoundBase(h, root, base, k)

IInv ==
  /\ TypeOK
  /\ FreeAccepted
  /\ status = "boot" => alloc_base = 0 /\ free_root = NULL /\ live = {} /\ foreign = {}
  /\ status = "running" =>
       /\ alloc_base # 0 => HeapBegin <= alloc_base
       /\ IF free_root = NULL THEN live = {} /\ foreign = {}
          ELSE Sound(heap, free_root, alloc_base, live, foreign)

(* The number of words between two word-aligned addresses.                 *)
LEMMA IndexOfFacts ==
  \A root, k \in Nat : IndexOf(root + 8 * k, root) = k
BY DEF IndexOf, Word

(* An occupied slab that is kept still holds an allocation.                *)
LEMMA LiveKept ==
  ASSUME NEW h \in Heaps, NEW g \in Heaps, WellFormed(h), WellFormed(g),
         NEW lv, SoundLive(h, lv), g.fences \subseteq h.fences \cup {h.last},
         \A a \in lv : Keeps(h, g, a.ptr - 1)
  PROVE  SoundLive(g, lv)
<1> SUFFICES ASSUME NEW a \in lv
             PROVE  /\ a.ptr - 1 \in g.slabs \ g.fences
                    /\ ~IsFree(g, a.ptr - 1)
                    /\ a.ptr + a.len <= End(g, a.ptr - 1)
  BY Zenon DEF SoundLive
<1> DEFINE s == a.ptr - 1
<1>1. /\ a \in [ptr: Index, len: Nat, al: Nat] /\ s \in h.slabs \ h.fences
      /\ a.ptr + a.len <= End(h, s)
  BY Zenon DEF SoundLive
<1>2. a.ptr \in Nat /\ a.len \in Nat
  BY <1>1, TagFacts, Zenon
<1>3. s \in g.slabs /\ ~IsFree(g, s) /\ End(h, s) <= End(g, s)
  BY Zenon DEF Keeps
<1>4. End(h, s) \in Nat /\ End(g, s) \in Nat
  BY <1>1, <1>3, HeapParts, Zenon
<1>5. s # h.last
  BY <1>1, HeapParts DEF WellFormed
<1> HIDE DEF s
<1>6. s \in g.slabs \ g.fences /\ a.ptr + a.len <= End(g, s)
  BY <1>1, <1>2, <1>3, <1>4, <1>5
<1> QED BY <1>3, <1>6, Zenon DEF s

(* A fence that is kept still covers foreign memory.                       *)
LEMMA ForeignKept ==
  ASSUME NEW h \in Heaps, NEW g \in Heaps, NEW k \in Nat, NEW fo,
         SoundForeign(h, k, fo), g.last = h.last, h.fences \subseteq g.fences,
         h.fences \subseteq h.slabs, \A s \in h.fences : Keeps(h, g, s)
  PROVE  SoundForeign(g, k, fo)
<1> SUFFICES ASSUME NEW f \in fo
             PROVE  \/ g.last < f.lo
                    \/ \E s \in g.fences : s < f.lo /\ f.hi <= End(g, s)
  BY Zenon DEF SoundForeign
<1>1. /\ f \in [lo: Index, hi: Index]
      /\ h.last < f.lo \/ \E s \in h.fences : s < f.lo /\ f.hi <= End(h, s)
  BY Zenon DEF SoundForeign
<1>2. f.hi \in Nat
  BY <1>1, TagFacts, Zenon
<1>3. ASSUME NEW s \in h.fences, s < f.lo, f.hi <= End(h, s)
      PROVE  s \in g.fences /\ s < f.lo /\ f.hi <= End(g, s)
  <2>1. End(h, s) <= End(g, s) /\ s \in g.slabs /\ s \in h.slabs
    BY Zenon DEF Keeps
  <2>2. End(h, s) \in Nat /\ End(g, s) \in Nat
    BY <2>1, HeapParts, Zenon
  <2> QED BY <1>2, <1>3, <2>1, <2>2
<1> QED BY <1>1, <1>3, Zenon

(* The alignment gap is written within the heap's types whatever slab was  *)
(* chosen.                                                                 *)
LEMMA SkippedTyped ==
  ASSUME NEW h \in Heaps, NEW start \in h.slabs, NEW skip \in Nat, start + skip <= Flag
  PROVE  Skipped(h, start, skip) \in Heaps
<1>0. /\ start \in Nat /\ start \in Index /\ h.mem \in [Index -> 0 .. MAX_VAL]
      /\ h.slabs \in SUBSET Index /\ Flag \in Nat /\ MAX_VAL = 2 * Flag - 1
  BY HeapParts, TagFacts, Zenon DEF Heaps, MAX_VAL
<1>1. CASE skip = 0
  BY <1>1, Zenon DEF Skipped
<1>2. CASE skip # 0 /\ skip < 3 /\ start # 0
  <2> DEFINE p == Untag(h.mem[start - 1])
             m == MarkOccupied(h.mem, p, start + skip - 1)
             S == h.slabs \ {start}
  <2>1. Skipped(h, start, skip) = [h EXCEPT !.mem = m, !.slabs = S]
    BY <1>2, Zenon DEF Skipped
  <2>2. start - 1 \in Index
    BY <1>0, <1>2, IndexInterval
  <2>3. h.mem[start - 1] \in 0 .. MAX_VAL
    BY <1>0, <2>2, Zenon
  <2>4. p \in Nat /\ p + Flag \in 0 .. MAX_VAL
    BY <1>0, <2>3 DEF Untag, is_occupied
  <2>5. start + skip - 1 + Flag \in 0 .. MAX_VAL
    BY <1>0, <1>2
  <2> HIDE DEF p
  <2>6. m \in [Index -> 0 .. MAX_VAL] /\ S \in SUBSET Index
    BY <1>0, <2>4, <2>5, Zenon DEF MarkOccupied
  <2> HIDE DEF m, S
  <2> QED BY <2>1, <2>6, Zenon DEF Heaps
<1>3. CASE skip # 0 /\ ~(skip < 3 /\ start # 0)
  <2> DEFINE m == MarkFree(h.mem, start, start + skip - 1)
  <2>1. Skipped(h, start, skip) = [h EXCEPT !.mem = m]
    BY <1>3, Zenon DEF Skipped
  <2>2. start + skip - 1 \in 0 .. MAX_VAL /\ start \in 0 .. MAX_VAL
    BY <1>0, <1>3
  <2>3. m \in [Index -> 0 .. MAX_VAL]
    BY <1>0, <2>2, Zenon DEF MarkFree
  <2> HIDE DEF m
  <2> QED BY <2>1, <2>3, Zenon DEF Heaps
<1> QED BY <1>1, <1>2, <1>3, Zenon

(* The tail of dandelion_alloc on a sound heap.                            *)
LEMMA PlaceSound ==
  ASSUME NEW h, NEW root, NEW base, Sound(h, root, base, live, foreign),
         NEW start \in h.slabs, IsFree(h, start),
         NEW sz \in Nat, sz > 0, NEW al \in Nat, al > 0, start + al <= Flag,
         Place(h, start, sz, al)
  PROVE  \/ status' = "fatal" /\ heap' \in Heaps /\ live' = live
         \/ status' = "running" /\ Sound(heap', root, base, live', foreign)
<1> DEFINE skip == Rounding(start, al)
           c    == start + skip
           g    == Carved(Skipped(h, start, skip), c, h.mem[start], sz)
           k    == IndexOf(base, root)
<1>1. /\ h \in Heaps /\ WellFormed(h) /\ Coalesced(h)
      /\ h.fences \subseteq h.slabs /\ \A s \in h.fences : ~IsFree(h, s)
      /\ SoundLive(h, live) /\ NoLeak(h, live)
      /\ SoundForeign(h, k, foreign) /\ SoundBase(h, root, base, k)
  BY Zenon DEF Sound, SoundSlabs
<1>2. start \in Nat /\ skip \in Nat /\ start + skip <= Flag /\ (start + skip + 1) % al = 0
  <2>1. start \in Nat /\ Flag \in Nat
    BY <1>1, SlabFacts, TagFacts, Zenon
  <2>2. skip \in Nat /\ skip < al /\ (start + skip + 1) % al = 0
    BY <2>1, RoundingFacts, Zenon
  <2> HIDE DEF skip
  <2> QED BY <2>1, <2>2
<1>3. CASE TooSmall(h, start, sz, al)
  <2>1. status' = "fatal" /\ heap' = Skipped(h, start, skip) /\ live' = live
    BY <1>3, Zenon DEF Place
  <2> QED BY <2>1, <1>1, <1>2, SkippedTyped, Zenon
<1>4. CASE ~TooSmall(h, start, sz, al)
  <2>1. /\ status' = "running" /\ heap' = g
        /\ live' = live \cup {[ptr |-> c + 1, len |-> sz, al |-> al]}
    BY <1>4, Zenon DEF Place
  <2>2. c \in Nat /\ h.mem[start] \in Nat /\ start + skip + sz + 1 <= h.mem[start]
    <3>1. h.mem[start] \in Nat
      BY <1>1, HeapParts, Zenon
    <3> QED BY <3>1, <1>2, <1>4, SMTT(30) DEF TooSmall
  <2>3. /\ g \in Heaps /\ WellFormed(g) /\ Coalesced(g)
        /\ g.last = h.last /\ g.fences = h.fences
        /\ c \in g.slabs /\ ~IsFree(g, c) /\ c + sz + 1 <= End(g, c)
        /\ ~(c \in h.slabs /\ ~IsFree(h, c))
        /\ \A s \in h.slabs : ~IsFree(h, s) => Keeps(h, g, s)
        /\ \A s \in g.slabs : ~IsFree(g, s) => s = c \/ (s \in h.slabs /\ ~IsFree(h, s))
    <3>1. h \in Heaps /\ WellFormed(h) /\ Coalesced(h)
      BY <1>1, Zenon
    <3>2. skip \in Nat
      BY <1>2, Zenon
    <3> HIDE DEF skip
    <3> QED BY <3>1, <3>2, <2>2, PlacedHeap, Zenon
  <2> DEFINE a == [ptr |-> c + 1, len |-> sz, al |-> al]
  <2>0. (c + 1) % al = 0
    BY <1>2, Zenon
  <2> HIDE DEF g, c, k
  <2>4. SoundSlabs(g)
    BY <1>1, <2>3, Zenon DEF SoundSlabs, Keeps
  <2>5. SoundLive(g, live)
    <3>1. \A x \in live : Keeps(h, g, x.ptr - 1)
      BY <1>1, <2>3, Zenon DEF SoundLive
    <3> QED BY <3>1, <1>1, <2>3, LiveKept, Zenon
  <2>6. SoundLive(g, live \cup {a})
    <3>1. c + 1 \in Index /\ c \notin g.fences
      <4>1. End(g, c) \in Nat /\ End(g, c) \in Index
        BY <2>3, SlabFacts, Zenon
      <4> QED BY <4>1, <2>2, <2>3, <1>1, IndexInterval, SMTT(30)
    <3>2. a \in [ptr: Index, len: Nat, al: Nat]
      BY <3>1, Zenon
    <3>3. /\ a.ptr = c + 1 /\ a.len = sz /\ a.al = al
      BY Zenon
    <3>4. a.ptr - 1 = c
      BY <2>2, <3>3
    <3>5. a.ptr + a.len <= End(g, c)
      <4>1. End(g, c) \in Nat
        BY <2>3, SlabFacts, Zenon
      <4> QED BY <4>1, <2>2, <2>3, <3>3, SMTT(30)
    <3>6. \A b \in live : b.ptr # a.ptr
      <4> SUFFICES ASSUME NEW b \in live, b.ptr = c + 1 PROVE FALSE
        BY <3>3, Zenon
      <4>1. b.ptr - 1 = c
        BY <2>2, SMTT(30)
      <4> QED BY <4>1, <1>1, <2>3, Zenon DEF SoundLive
    <3> HIDE DEF a
    <3>7. /\ a.len > 0 /\ a.al > 0 /\ a.ptr % a.al = 0
          /\ a.ptr - 1 \in g.slabs \ g.fences
          /\ ~IsFree(g, a.ptr - 1)
          /\ a.ptr + a.len <= End(g, a.ptr - 1)
      BY <2>0, <2>3, <3>1, <3>3, <3>4, <3>5, Zenon
    <3> QED BY <2>5, <3>2, <3>6, <3>7, Zenon DEF SoundLive
  <2>7. NoLeak(g, live \cup {a})
    <3>1. a.ptr = c + 1
      BY Zenon
    <3> HIDE DEF a
    <3> SUFFICES ASSUME NEW s \in g.slabs, ~IsFree(g, s)
                 PROVE  s \in g.fences \/ \E b \in live \cup {a} : b.ptr = s + 1
      BY Zenon DEF NoLeak
    <3>2. s = c \/ s \in h.fences \/ \E b \in live : b.ptr = s + 1
      BY <1>1, <2>3, Zenon DEF NoLeak
    <3> QED BY <2>3, <3>1, <3>2, Zenon
  <2>8. SoundForeign(g, k, foreign) /\ SoundBase(g, root, base, k)
    <3>1. k \in Nat
      BY <1>1, TagFacts, Zenon DEF SoundBase
    <3> QED BY <3>1, <1>1, <2>3, ForeignKept, Zenon DEF SoundBase
  <2>9. heap' = g /\ live' = live \cup {a}
    BY <2>1, Zenon DEF g, c
  <2> HIDE DEF a
  <2>10. Sound(g, root, base, live \cup {a}, foreign)
    BY <2>4, <2>6, <2>7, <2>8, Zenon DEF Sound, k
  <2> QED BY <2>1, <2>9, <2>10, Zenon
<1> QED BY <1>3, <1>4, Zenon

(* Growing a sound heap.                                                   *)
LEMMA GrowSound ==
  ASSUME NEW h, NEW root, NEW base, Sound(h, root, base, live, foreign),
         NEW sz \in Nat, sz > 0, NEW al \in Nat, al > 0,
         ~SbrkFails(base, get_sbrk_size(sz, al))
  PROVE  LET need  == get_sbrk_size(sz, al)
             first == IndexOf(base, root)
             g     == Grown(h, first, need \div Word)
             start == GrowStart(h, first)
         IN  /\ Sound(g, root, base + need, live, foreign)
             /\ start \in g.slabs /\ IsFree(g, start)
             /\ start + sz + 2 <= g.mem[start]
             /\ \A s \in h.slabs : ~IsFree(h, s) => Keeps(h, g, s)
             /\ \A s \in g.slabs : IsFree(g, s) /\ s # start => StillFree(h, g, s)
<1> DEFINE need  == get_sbrk_size(sz, al)
           first == IndexOf(base, root)
           n     == need \div 8
           g     == Grown(h, first, n)
           start == GrowStart(h, first)
<1>1. /\ h \in Heaps /\ WellFormed(h) /\ Coalesced(h)
      /\ h.fences \subseteq h.slabs /\ \A s \in h.fences : ~IsFree(h, s)
      /\ SoundLive(h, live) /\ NoLeak(h, live)
      /\ SoundForeign(h, first, foreign) /\ SoundBase(h, root, base, first)
  BY Zenon DEF Sound, SoundSlabs
<1>2. need \in Nat /\ n \in Nat /\ need = 8 * n /\ n >= sz + 5
  BY SbrkSizeFacts, Zenon
<1> HIDE DEF need, first, n, g, start
<1>3. /\ root \in Nat /\ root >= HeapBegin /\ base = root + 8 * first
      /\ first \in Index /\ first \in Nat /\ h.last < first /\ h.last \in Nat
  BY <1>1, TagFacts, HeapParts, Zenon DEF SoundBase
<1>4. base + need <= HeapEnd /\ base + need = root + 8 * (first + n)
  <2>1. base \in Nat /\ HeapEnd \in Nat
    BY <1>3, HeapAssumption
  <2> QED BY <2>1, <1>2, <1>3 DEF SbrkFails, need
<1>5. first + n \in Index
  BY <1>2, <1>3, <1>4, HeapAssumption DEF Index, Word
<1>6. first + n - 1 \in Index /\ first >= h.last + 1 /\ n >= 4
  BY <1>2, <1>3, <1>5, IndexInterval
<1>7. IndexOf(base + need, root) = first + n
  BY <1>2, <1>3, <1>4, IndexOfFacts, SMTT(30)
<1>8. /\ g \in Heaps /\ WellFormed(g) /\ Coalesced(g)
      /\ g.last = first + n - 1
      /\ start \in g.slabs /\ IsFree(g, start) /\ g.mem[start] = first + n - 2
      /\ start <= first + 1
      /\ \A s \in h.slabs : ~IsFree(h, s) => Keeps(h, g, s)
      /\ \A s \in g.slabs : ~IsFree(g, s) =>
           \/ s = h.last /\ s \in g.fences
           \/ s \in h.slabs /\ ~IsFree(h, s)
      /\ IF first = h.last + 1 THEN g.fences = h.fences
         ELSE /\ g.fences = h.fences \cup {h.last}
              /\ h.last \in g.slabs /\ ~IsFree(g, h.last) /\ End(g, h.last) = first
      /\ \A s \in g.slabs : IsFree(g, s) /\ s # start => StillFree(h, g, s)
  <2>1. /\ g \in Heaps /\ WellFormed(g) /\ Coalesced(g)
        /\ g.last = first + n - 1
        /\ start \in g.slabs /\ IsFree(g, start) /\ g.mem[start] = first + n - 2
        /\ start <= first + 1
        /\ \A s \in h.slabs : ~IsFree(h, s) => Keeps(h, g, s)
        /\ \A s \in g.slabs : ~IsFree(g, s) =>
             \/ s = h.last /\ s \in g.fences
             \/ s \in h.slabs /\ ~IsFree(h, s)
        /\ \A s \in h.slabs : IsFree(h, s) /\ s # start =>
             s \in g.slabs /\ IsFree(g, s) /\ End(g, s) = End(h, s)
        /\ \A s \in g.slabs : IsFree(g, s) /\ s # start => s \in h.slabs /\ IsFree(h, s)
        /\ IF first = h.last + 1 THEN g.fences = h.fences
           ELSE /\ g.fences = h.fences \cup {h.last}
                /\ h.last \in g.slabs /\ ~IsFree(g, h.last) /\ End(g, h.last) = first
    BY <1>1, <1>2, <1>3, <1>6, GrownHeap, Zenon DEF g, start
  <2> QED BY <2>1, Zenon DEF StillFree
<1>9. SoundSlabs(g)
  BY <1>1, <1>8, Zenon DEF SoundSlabs, Keeps
<1>10. SoundLive(g, live)
  <2>1. \A a \in live : Keeps(h, g, a.ptr - 1)
    BY <1>1, <1>8, Zenon DEF SoundLive
  <2> QED BY <2>1, <1>1, <1>8, LiveKept, Zenon
<1>11. NoLeak(g, live)
  <2> SUFFICES ASSUME NEW s \in g.slabs, ~IsFree(g, s)
               PROVE  s \in g.fences \/ \E a \in live : a.ptr = s + 1
    BY Zenon DEF NoLeak
  <2> QED BY <1>1, <1>8, Zenon DEF NoLeak
<1>12. SoundForeign(g, first + n, foreign)
  <2> SUFFICES ASSUME NEW f \in foreign
               PROVE  /\ f.hi <= first + n
                      /\ \E s \in g.fences : s < f.lo /\ f.hi <= End(g, s)
    BY <1>1, Zenon DEF SoundForeign
  <2>1. f \in [lo: Index, hi: Index] /\ f.lo < f.hi /\ f.hi <= first
    BY <1>1, Zenon DEF SoundForeign
  <2>2. f.lo \in Nat /\ f.hi \in Nat
    BY <2>1, TagFacts, Zenon
  <2>3. CASE h.last < f.lo
    BY <2>1, <2>2, <2>3, <1>2, <1>3, <1>8
  <2>4. ASSUME NEW s \in h.fences, s < f.lo, f.hi <= End(h, s)
        PROVE  s \in g.fences /\ s < f.lo /\ f.hi <= End(g, s)
    <3>1. s \in h.slabs /\ Keeps(h, g, s) /\ s \in g.fences
      BY <1>1, <1>8, Zenon
    <3>2. End(h, s) <= End(g, s) /\ End(h, s) \in Nat /\ End(g, s) \in Nat
      BY <3>1, <1>1, <1>8, HeapParts, Zenon DEF Keeps
    <3> QED BY <3>1, <3>2, <2>2, <2>4, SMTT(30)
  <2>5. h.last < f.lo \/ \E s \in h.fences : s < f.lo /\ f.hi <= End(h, s)
    BY <1>1, Zenon DEF SoundForeign
  <2> QED BY <2>1, <2>2, <2>3, <2>4, <2>5, <1>2, <1>3, SMTT(30)
<1>13. SoundBase(g, root, base + need, first + n)
  BY <1>2, <1>3, <1>4, <1>5, <1>8 DEF SoundBase
<1>14. Sound(g, root, base + need, live, foreign)
  BY <1>7, <1>9, <1>10, <1>11, <1>12, <1>13, Zenon DEF Sound
<1>15. start + sz + 2 <= g.mem[start]
  <2>1. start \in Nat
    BY <1>8, SlabFacts, Zenon
  <2> QED BY <2>1, <1>2, <1>3, <1>8, SMTT(30)
<1> QED BY <1>8, <1>14, <1>15, Zenon DEF need, first, g, start, n, Word

(* The first sbrk of dandelion_alloc.                                      *)
LEMMA FirstSound ==
  ASSUME heap \in Heaps, NEW base \in Nat, base >= HeapBegin,
         NEW sz \in Nat, sz > 0, NEW al \in Nat, al > 0,
         ~SbrkFails(base, get_sbrk_size(sz, al))
  PROVE  LET need == get_sbrk_size(sz, al)
             h    == FirstHeap(heap, need \div Word)
         IN  Sound(h, base, base + need, {}, {})
<1> DEFINE need == get_sbrk_size(sz, al)
           n    == need \div 8
           h    == FirstHeap(heap, n)
<1>1. need \in Nat /\ n \in Nat /\ need = 8 * n /\ n >= sz + 5
  BY SbrkSizeFacts, Zenon
<1> HIDE DEF need, n, h
<1>2. base + need <= HeapEnd
  BY <1>1, HeapAssumption DEF SbrkFails, need
<1>3. n \in Index /\ n - 1 \in Index /\ n >= 3
  <2>1. n \in Index
    BY <1>1, <1>2, HeapAssumption DEF Index, Word
  <2> QED BY <2>1, <1>1, IndexInterval
<1>4. /\ h \in Heaps /\ WellFormed(h) /\ Coalesced(h)
      /\ h.slabs = {0} /\ h.fences = {} /\ h.last = n - 1 /\ IsFree(h, 0)
  BY <1>1, <1>3, FirstHeapFacts, Zenon DEF h
<1>5. SoundSlabs(h) /\ SoundLive(h, {}) /\ NoLeak(h, {}) /\ SoundForeign(h, n, {})
  BY <1>4, Zenon DEF SoundSlabs, SoundLive, NoLeak, SoundForeign
<1>6. IndexOf(base + need, base) = n /\ SoundBase(h, base, base + need, n)
  BY <1>1, <1>3, <1>4, IndexOfFacts DEF SoundBase
<1>7. Sound(h, base, base + need, {}, {})
  BY <1>5, <1>6, Zenon DEF Sound
<1> QED BY <1>7, Zenon DEF h, n, need, Word

(* The search of dandelion_alloc and what follows it.                      *)
LEMMA AllocInSound ==
  ASSUME NEW h, NEW root, NEW base, Sound(h, root, base, live, foreign),
         NEW sz \in Nat, sz > 0, NEW al \in Nat, al > 0,
         \A i \in Index : i + al <= Flag,
         status \in {"boot", "running"}, AllocIn(h, root, base, sz, al)
  PROVE  /\ free_root' = root /\ alloc_base' \in Nat /\ HeapBegin <= alloc_base'
         /\ \/ status' \in {"oom", "fatal"} /\ heap' \in Heaps /\ live' = live
            \/ status' = "running" /\ Sound(heap', root, alloc_base', live', foreign)
<1> DEFINE need  == get_sbrk_size(sz, al)
           first == IndexOf(base, root)
<1>1. h \in Heaps /\ base \in Nat /\ base >= HeapBegin /\ h.slabs \subseteq Index
  <2>1. h \in Heaps /\ SoundBase(h, root, base, first)
    BY Zenon DEF Sound, SoundSlabs
  <2>2. base \in Nat /\ base >= HeapBegin
    BY <2>1, TagFacts, HeapAssumption DEF SoundBase
  <2> QED BY <2>1, <2>2, HeapParts, Zenon
<1>2. need \in Nat
  BY SbrkSizeFacts, Zenon
<1>3. free_root' = root
  BY Zenon DEF AllocIn
<1>4. CASE /\ alloc_base' = base
           /\ \E s \in h.slabs : IsSmallest(h, s, sz, al) /\ Place(h, s, sz, al)
  <2>1. PICK s \in h.slabs : IsSmallest(h, s, sz, al) /\ Place(h, s, sz, al)
    BY <1>4, Zenon
  <2>2. IsFree(h, s) /\ s + al <= Flag
    BY <2>1, <1>1, Zenon DEF IsSmallest, Fitting
  <2> QED BY <2>1, <2>2, <1>1, <1>3, <1>4, PlaceSound, Zenon
<1>5. CASE /\ alloc_base' = base /\ heap' = h /\ live' = live
           /\ status' = IF status = "boot" THEN "oom" ELSE status
  BY <1>1, <1>3, <1>5, Zenon
<1>6. CASE /\ ~SbrkFails(base, need) /\ alloc_base' = base + need
           /\ Place(Grown(h, first, need \div Word), GrowStart(h, first), sz, al)
  <2> DEFINE g     == Grown(h, first, need \div Word)
             start == GrowStart(h, first)
  <2>1. /\ Sound(g, root, base + need, live, foreign)
        /\ start \in g.slabs /\ IsFree(g, start)
    BY <1>6, GrowSound, Zenon
  <2>2. start \in Index
    BY <2>1, HeapParts, Zenon DEF Sound, SoundSlabs
  <2>3. start + al <= Flag
    BY <2>2, Zenon
  <2>4. Place(g, start, sz, al)
    BY <1>6, Zenon
  <2>5. base + need \in Nat /\ HeapBegin <= base + need
    BY <1>1, <1>2, HeapAssumption, SMTT(30)
  <2> HIDE DEF g, start, need, first
  <2>6. \/ status' = "fatal" /\ heap' \in Heaps /\ live' = live
        \/ status' = "running" /\ Sound(heap', root, base + need, live', foreign)
    BY <2>1, <2>3, <2>4, PlaceSound, Zenon
  <2> QED BY <2>5, <2>6, <1>3, <1>6, Zenon
<1> QED BY <1>4, <1>5, <1>6, Zenon DEF AllocIn

-----------------------------------------------------------------------------
(* The other steps on a sound heap.                                        *)

(* Some of the allocations of a sound heap.                                *)
LEMMA FewerLive ==
  ASSUME NEW h, NEW lv, SoundLive(h, lv), NEW a
  PROVE  SoundLive(h, lv \ {a})
<1>1. lv \ {a} \subseteq [ptr: Index, len: Nat, al: Nat]
  BY Zenon DEF SoundLive
<1>2. \A b \in lv \ {a} : /\ b.len > 0 /\ b.al > 0 /\ b.ptr % b.al = 0
                          /\ b.ptr - 1 \in h.slabs \ h.fences
                          /\ ~IsFree(h, b.ptr - 1)
                          /\ b.ptr + b.len <= End(h, b.ptr - 1)
  BY Zenon DEF SoundLive
<1>3. \A b, c \in lv \ {a} : b # c => b.ptr # c.ptr
  BY Zenon DEF SoundLive
<1> QED BY <1>1, <1>2, <1>3, Zenon DEF SoundLive

(* dandelion_free passes its checks and leaves a sound heap.               *)
LEMMA FreeSound ==
  ASSUME Sound(heap, free_root, alloc_base, live, foreign),
         NEW a \in live, dandelion_free(a)
  PROVE  /\ status' = "running" /\ UNCHANGED <<alloc_base, free_root, foreign>>
         /\ Sound(heap', free_root, alloc_base, live', foreign)
<1> DEFINE i == a.ptr - 1
           e == End(heap, i)
           g == Merged(heap, i, e)
           k == IndexOf(alloc_base, free_root)
           h == heap
<1>1. /\ h \in Heaps /\ WellFormed(h) /\ Coalesced(h)
      /\ h.fences \subseteq h.slabs /\ \A s \in h.fences : ~IsFree(h, s)
      /\ SoundLive(h, live) /\ NoLeak(h, live)
      /\ SoundForeign(h, k, foreign) /\ SoundBase(h, free_root, alloc_base, k)
  BY Zenon DEF Sound, SoundSlabs
<1>2. i \in h.slabs \ h.fences /\ ~IsFree(h, i) /\ a.ptr \in Nat
  BY <1>1, TagFacts, Zenon DEF SoundLive
<1>3. Untag(h.mem[e]) = i /\ ~IsFree(h, e)
  BY <1>1, <1>2, SlabFacts, Zenon
<1>4. /\ heap' = g /\ live' = live \ {a} /\ status' = "running"
      /\ UNCHANGED <<alloc_base, free_root, foreign>>
  BY <1>2, <1>3, Zenon DEF dandelion_free
<1>5. /\ g \in Heaps /\ WellFormed(g) /\ Coalesced(g)
      /\ g.last = h.last /\ g.fences = h.fences
      /\ \A s \in h.slabs : ~IsFree(h, s) /\ s # i => Keeps(h, g, s)
      /\ \A s \in g.slabs : ~IsFree(g, s) => s # i /\ s \in h.slabs /\ ~IsFree(h, s)
  BY <1>1, <1>2, MergedHeap, Zenon
<1> HIDE DEF g, e, h, k
<1>6. SoundSlabs(g)
  BY <1>1, <1>2, <1>5, Zenon DEF SoundSlabs, Keeps
<1>7. \A b \in live \ {a} : b.ptr - 1 # i /\ b.ptr \in Nat
  BY <1>1, <1>2, TagFacts, SMTT(30) DEF SoundLive
<1>8. SoundLive(g, live \ {a})
  <2>1. SoundLive(h, live \ {a})
    BY <1>1, FewerLive, Zenon
  <2>2. \A b \in live \ {a} : b.ptr - 1 \in h.slabs /\ ~IsFree(h, b.ptr - 1)
    BY <1>1, Zenon DEF SoundLive
  <2>3. \A b \in live \ {a} : Keeps(h, g, b.ptr - 1)
    BY <2>2, <1>5, <1>7, Zenon
  <2> QED BY <2>1, <2>3, <1>1, <1>5, LiveKept, Zenon
<1>9. NoLeak(g, live \ {a})
  <2> SUFFICES ASSUME NEW s \in g.slabs, ~IsFree(g, s)
               PROVE  s \in g.fences \/ \E b \in live \ {a} : b.ptr = s + 1
    BY Zenon DEF NoLeak
  <2>1. s # i /\ s \in h.slabs /\ ~IsFree(h, s) /\ s \in Nat
    BY <1>5, SlabFacts, Zenon
  <2>2. s \in h.fences \/ \E b \in live : b.ptr = s + 1
    BY <2>1, <1>1, Zenon DEF NoLeak
  <2> QED BY <2>1, <2>2, <1>2, <1>5
<1>10. SoundForeign(g, k, foreign) /\ SoundBase(g, free_root, alloc_base, k)
  <2>1. k \in Nat
    BY <1>1, TagFacts, Zenon DEF SoundBase
  <2>2. \A s \in h.fences : Keeps(h, g, s)
    BY <1>1, <1>2, <1>5, Zenon
  <2> QED BY <2>1, <2>2, <1>1, <1>5, ForeignKept, Zenon DEF SoundBase
<1>11. Sound(g, free_root, alloc_base, live \ {a}, foreign)
  BY <1>6, <1>8, <1>9, <1>10, Zenon DEF Sound, k
<1> QED BY <1>4, <1>11, Zenon

-----------------------------------------------------------------------------
(* A store to words behind the heap or inside a slab.                      *)
LEMMA StoreSound ==
  ASSUME Sound(heap, free_root, alloc_base, live, foreign),
         NEW W, NEW v \in Values, Store(W, v),
         \A w \in W : w \in Nat /\ \/ heap.last < w
                                   \/ \E s \in heap.slabs : s < w /\ w < End(heap, s)
  PROVE  Sound(heap', free_root, alloc_base, live, foreign)
<1> DEFINE h == heap
           g == Stored(h, W, v)
           k == IndexOf(alloc_base, free_root)
<1>1. /\ h \in Heaps /\ WellFormed(h) /\ Coalesced(h)
      /\ h.fences \subseteq h.slabs /\ \A s \in h.fences : ~IsFree(h, s)
      /\ SoundLive(h, live) /\ NoLeak(h, live)
      /\ SoundForeign(h, k, foreign) /\ SoundBase(h, free_root, alloc_base, k)
  BY Zenon DEF Sound, SoundSlabs
<1>2. heap' = g /\ v \in 0 .. MAX_VAL
  BY RequestAssumption, Zenon DEF Store
<1>3. /\ g \in Heaps /\ WellFormed(g) /\ Coalesced(g)
      /\ g.last = h.last /\ g.slabs = h.slabs /\ g.fences = h.fences
      /\ \A s \in h.slabs : /\ End(g, s) = End(h, s)
                            /\ IsFree(g, s) <=> IsFree(h, s)
  <2>1. \A w \in W : w \in Nat /\ (h.last < w \/ \E s \in h.slabs : s < w /\ w < End(h, s))
    BY Zenon
  <2>2. IsStored(g, h, W, v)
    BY <1>1, <1>2, <2>1, StoredHeap, Zenon
  <2> HIDE DEF g, h
  <2> QED BY <2>2, Zenon DEF IsStored
<1> HIDE DEF g, h, k
<1>4. SoundSlabs(g) /\ SoundLive(g, live) /\ NoLeak(g, live)
  BY <1>1, <1>3, Zenon DEF SoundSlabs, SoundLive, NoLeak
<1>5. SoundForeign(g, k, foreign) /\ SoundBase(g, free_root, alloc_base, k)
  BY <1>1, <1>3, Zenon DEF SoundForeign, SoundBase
<1>6. Sound(g, free_root, alloc_base, live, foreign)
  BY <1>4, <1>5, Zenon DEF Sound, k
<1> QED BY <1>2, <1>6, Zenon

(* What a client owns lies inside a slab or behind the heap.               *)
LEMMA OwnedWords ==
  ASSUME Sound(heap, free_root, alloc_base, live, foreign)
  PROVE  /\ \A a \in live : \A w \in Payload(a) :
              /\ w \in Nat
              /\ \E s \in heap.slabs : s < w /\ w < End(heap, s)
         /\ \A f \in foreign : \A w \in Region(f) :
              /\ w \in Nat
              /\ heap.last < w \/ \E s \in heap.slabs : s < w /\ w < End(heap, s)
<1>1. /\ heap \in Heaps /\ WellFormed(heap) /\ heap.last \in Nat
      /\ heap.fences \subseteq heap.slabs
      /\ SoundLive(heap, live) /\ SoundForeign(heap, IndexOf(alloc_base, free_root), foreign)
  BY HeapParts, Zenon DEF Sound, SoundSlabs
<1>2. ASSUME NEW a \in live, NEW w \in Payload(a)
      PROVE  w \in Nat /\ \E s \in heap.slabs : s < w /\ w < End(heap, s)
  <2>1. /\ a \in [ptr: Index, len: Nat, al: Nat] /\ a.ptr - 1 \in heap.slabs
        /\ a.ptr + a.len <= End(heap, a.ptr - 1)
    BY <1>1, Zenon DEF SoundLive
  <2>2. a.ptr \in Nat /\ a.len \in Nat /\ End(heap, a.ptr - 1) \in Nat
    BY <2>1, <1>1, TagFacts, HeapParts, Zenon
  <2>3. w \in Nat /\ a.ptr - 1 < w /\ w < End(heap, a.ptr - 1)
    BY <2>1, <2>2 DEF Payload
  <2> QED BY <2>1, <2>3, Zenon
<1>3. ASSUME NEW f \in foreign, NEW w \in Region(f)
      PROVE  /\ w \in Nat
             /\ heap.last < w \/ \E s \in heap.slabs : s < w /\ w < End(heap, s)
  <2>1. /\ f \in [lo: Index, hi: Index]
        /\ \/ heap.last < f.lo
           \/ \E s \in heap.fences : s < f.lo /\ f.hi <= End(heap, s)
    BY <1>1, Zenon DEF SoundForeign
  <2>2. f.lo \in Nat /\ f.hi \in Nat
    BY <2>1, TagFacts, Zenon
  <2>3. w \in Nat /\ f.lo <= w /\ w < f.hi
    BY <2>2 DEF Region
  <2>4. ASSUME NEW s \in heap.fences, s < f.lo, f.hi <= End(heap, s)
        PROVE  s \in heap.slabs /\ s < w /\ w < End(heap, s)
    <3>1. s \in heap.slabs /\ s \in Nat /\ End(heap, s) \in Nat
      BY <1>1, HeapParts, Zenon
    <3> QED BY <3>1, <2>2, <2>3, <2>4
  <2> QED BY <2>1, <2>2, <2>3, <2>4, <1>1
<1> QED BY <1>2, <1>3, Zenon

(* dandelion_sbrk for another caller: the new region is behind the heap.   *)
LEMMA SbrkSound ==
  ASSUME Sound(heap, free_root, alloc_base, live, foreign),
         NEW size \in Nat, size > 0, ~SbrkFails(alloc_base, size),
         NEW f, f = [lo |-> IndexOf(alloc_base, free_root),
                     hi |-> IndexOf(alloc_base + RoundUp(size), free_root)]
  PROVE  Sound(heap, free_root, alloc_base + RoundUp(size), live, foreign \cup {f})
<1> DEFINE k == IndexOf(alloc_base, free_root)
           j == RoundUp(size) \div 8
           b == alloc_base + RoundUp(size)
<1>1. /\ SoundSlabs(heap) /\ SoundLive(heap, live) /\ NoLeak(heap, live)
      /\ SoundForeign(heap, k, foreign) /\ SoundBase(heap, free_root, alloc_base, k)
  BY Zenon DEF Sound
<1>2. /\ free_root \in Nat /\ free_root >= HeapBegin /\ alloc_base = free_root + 8 * k
      /\ k \in Index /\ k \in Nat /\ heap.last < k /\ heap.last \in Nat
  BY <1>1, TagFacts, HeapParts, Zenon DEF SoundBase, SoundSlabs
<1>3. RoundUp(size) = 8 * j /\ j \in Nat /\ j > 0 /\ 8 * j <= size + 7
  <2>1. RoundUp(size) \in Nat /\ RoundUp(size) % 8 = 0
        /\ size <= RoundUp(size) /\ RoundUp(size) <= size + 7
    BY RoundUpFacts, Zenon
  <2> QED BY <2>1
<1> HIDE DEF k, j
<1>4. b = free_root + 8 * (k + j)
  BY <1>2, <1>3
<1>5. IndexOf(b, free_root) = k + j
  BY <1>2, <1>3, <1>4, IndexOfFacts
<1>6. k + j \in Index
  <2>1. free_root + 8 * k + size <= HeapEnd
    BY <1>2, HeapAssumption DEF SbrkFails
  <2>2. 8 * (k + j) <= HeapEnd - HeapBegin + 7
    BY <2>1, <1>2, <1>3, HeapAssumption
  <2> QED BY <2>2, <1>2, <1>3, HeapAssumption DEF Index, Word
<1>7. f = [lo |-> k, hi |-> k + j]
  BY <1>5, Zenon DEF k
<1> HIDE DEF b
<1>8. SoundForeign(heap, k + j, foreign \cup {f})
  <2>1. f \in [lo: Index, hi: Index] /\ f.lo = k /\ f.hi = k + j
    BY <1>2, <1>6, <1>7
  <2>2. ASSUME NEW e \in foreign PROVE e.hi \in Nat /\ e.hi <= k /\ e.hi <= k + j
    <3>1. e \in [lo: Index, hi: Index] /\ e.hi <= k
      BY <1>1, Zenon DEF SoundForeign
    <3>2. e.hi \in Nat
      BY <3>1, TagFacts, Zenon
    <3> QED BY <3>1, <3>2, <1>2, <1>3
  <2>3. f.lo < f.hi /\ f.hi <= k + j /\ heap.last < f.lo
    BY <2>1, <1>2, <1>3
  <2>4. \A e \in foreign : e.hi <= f.lo
    BY <2>1, <2>2, Zenon
  <2> QED BY <2>1, <2>2, <2>3, <2>4, <1>1, Zenon DEF SoundForeign
<1>9. SoundBase(heap, free_root, b, k + j)
  BY <1>2, <1>3, <1>4, <1>6 DEF SoundBase
<1>10. Sound(heap, free_root, b, live, foreign \cup {f})
  BY <1>1, <1>5, <1>8, <1>9, Zenon DEF Sound
<1> QED BY <1>10, Zenon DEF b

(* sbrk with a negative increment: what is given back is not fenced in, so *)
(* sbrk stays above the heap and above the other regions.                  *)
LEMMA ReleaseSound ==
  ASSUME Sound(heap, free_root, alloc_base, live, foreign),
         NEW f \in foreign, alloc_base = free_root + Word * f.hi
  PROVE  Sound(heap, free_root, free_root + Word * f.lo, live, foreign \ {f})
<1> DEFINE k == IndexOf(alloc_base, free_root)
<1>1. /\ heap \in Heaps /\ WellFormed(heap) /\ heap.fences \subseteq heap.slabs
      /\ SoundSlabs(heap) /\ SoundLive(heap, live) /\ NoLeak(heap, live)
      /\ SoundForeign(heap, k, foreign) /\ SoundBase(heap, free_root, alloc_base, k)
  BY Zenon DEF Sound, SoundSlabs
<1> HIDE DEF k
<1>2. /\ free_root \in Nat /\ free_root >= HeapBegin /\ alloc_base = free_root + 8 * k
      /\ k \in Index /\ k \in Nat /\ heap.last < k /\ heap.last \in Nat
  BY <1>1, TagFacts, HeapParts, Zenon DEF SoundBase
<1>3. /\ f \in [lo: Index, hi: Index] /\ f.lo < f.hi
      /\ \/ heap.last < f.lo
         \/ \E s \in heap.fences : s < f.lo /\ f.hi <= End(heap, s)
  BY <1>1, Zenon DEF SoundForeign
<1>4. f.lo \in Nat /\ f.hi \in Nat /\ f.lo \in Index
  BY <1>3, TagFacts, Zenon
<1>5. f.hi = k
  BY <1>2, <1>4 DEF Word
<1>6. heap.last < f.lo
  <2>1. ASSUME NEW s \in heap.fences, f.hi <= End(heap, s) PROVE FALSE
    <3>1. End(heap, s) \in Nat /\ End(heap, s) < heap.last
      BY <1>1, SlabFacts, Zenon
    <3> QED BY <3>1, <2>1, <1>2, <1>5
  <2> QED BY <2>1, <1>3, Zenon
<1>7. SoundForeign(heap, f.lo, foreign \ {f})
  <2>1. ASSUME NEW e \in foreign \ {f} PROVE e.hi <= f.lo
    <3>1. e \in [lo: Index, hi: Index] /\ e.lo < e.hi /\ e.hi <= k
          /\ (e.hi <= f.lo \/ f.hi <= e.lo)
      BY <1>1, Zenon DEF SoundForeign
    <3>2. e.lo \in Nat /\ e.hi \in Nat
      BY <3>1, TagFacts, Zenon
    <3> QED BY <3>1, <3>2, <1>2, <1>5
  <2> QED BY <2>1, <1>1, Zenon DEF SoundForeign
<1>8. IndexOf(free_root + Word * f.lo, free_root) = f.lo
  BY <1>2, <1>4, IndexOfFacts, Zenon DEF Word
<1>9. SoundBase(heap, free_root, free_root + Word * f.lo, f.lo)
  BY <1>2, <1>4, <1>6, Zenon DEF SoundBase, Word
<1> QED BY <1>1, <1>7, <1>8, <1>9, Zenon DEF Sound

-----------------------------------------------------------------------------
(* The invariant is inductive.                                             *)

(* The invariant holds before dandelion_init.                              *)
LEMMA InitIInv == Init => IInv
<1> SUFFICES ASSUME Init PROVE IInv
  BY Zenon
<1>1. PICK v \in Values :
        heap = [mem |-> [i \in Index |-> v], last |-> 0, slabs |-> {}, fences |-> {}]
  BY Zenon DEF Init
<1>2. 0 \in Index /\ v \in 0 .. MAX_VAL
  BY HeapAssumption, RequestAssumption DEF Index, Word
<1>3. [i \in Index |-> v] \in [Index -> 0 .. MAX_VAL]
  BY <1>2, Zenon
<1>4. heap \in Heaps
  BY <1>1, <1>2, <1>3, Zenon DEF Heaps
<1>5. TypeOK
  BY <1>4, Zenon DEF Init, TypeOK, NULL
<1> QED BY <1>5, Zenon DEF Init, IInv, FreeAccepted

(* The types follow from soundness.                                        *)
LEMMA SoundTypes ==
  ASSUME NEW h, NEW root, NEW base, NEW lv, NEW fo, Sound(h, root, base, lv, fo)
  PROVE  /\ h \in Heaps /\ root \in Nat /\ base \in Nat
         /\ root >= HeapBegin /\ base >= HeapBegin /\ root # 0
         /\ lv \subseteq [ptr: Index, len: Nat, al: Nat]
         /\ fo \subseteq [lo: Index, hi: Index]
<1>1. SoundBase(h, root, base, IndexOf(base, root))
  BY Zenon DEF Sound
<1>2. root \in Nat /\ base \in Nat /\ root >= HeapBegin /\ base >= HeapBegin /\ root # 0
  BY <1>1, TagFacts, HeapAssumption DEF SoundBase
<1> QED BY <1>2, Zenon DEF Sound, SoundSlabs, SoundLive, SoundForeign

(* A step that leaves the program running on a sound heap, or stopped.     *)
LEMMA SoundStep ==
  ASSUME status' = "running", NEW root, free_root' = root,
         Sound(heap', root, alloc_base', live', foreign')
  PROVE  IInv'
<1>1. /\ heap' \in Heaps /\ free_root' \in Nat /\ alloc_base' \in Nat
      /\ alloc_base' >= HeapBegin /\ free_root' # 0
      /\ live' \subseteq [ptr: Index, len: Nat, al: Nat]
      /\ foreign' \subseteq [lo: Index, hi: Index]
  BY SoundTypes, Zenon
<1>2. TypeOK'
  BY <1>1, Zenon DEF TypeOK
<1> QED BY <1>1, <1>2, Zenon DEF IInv, FreeAccepted, NULL

(* dandelion_alloc with any size and alignment, also inside of             *)
(* AllocInputSets, preserves the invariant.                                *)
LEMMA AllocWordsIInv ==
  ASSUME IInv, status \in {"boot", "running"},
         NEW sz \in Nat, sz > 0, NEW al \in Nat, al > 0,
         \A i \in Index : i + al <= Flag, AllocWords(sz, al)
  PROVE  IInv'
<1> DEFINE need == get_sbrk_size(sz, al)
<1>1. TypeOK /\ foreign' = foreign
  BY Zenon DEF IInv, AllocWords
<1>2. Base \in Nat /\ Base >= HeapBegin /\ Base # 0
  <2>1. HeapBegin \in Nat /\ HeapBegin > 0
    BY HeapAssumption, Zenon
  <2>2. RoundUp(HeapBegin) \in Nat /\ RoundUp(HeapBegin) >= HeapBegin
    BY <2>1, RoundUpFacts, Zenon
  <2>3. alloc_base # 0 => alloc_base >= HeapBegin
    BY Zenon DEF IInv
  <2>4. alloc_base \in Nat
    BY <1>1, Zenon DEF TypeOK
  <2> QED BY <2>1, <2>2, <2>3, <2>4 DEF Base
<1>3. ASSUME NEW h, NEW root, NEW base, Sound(h, root, base, live, foreign),
             AllocIn(h, root, base, sz, al)
      PROVE  IInv'
  <2>1. /\ free_root' = root /\ alloc_base' \in Nat /\ HeapBegin <= alloc_base'
        /\ \/ status' \in {"oom", "fatal"} /\ heap' \in Heaps /\ live' = live
           \/ status' = "running" /\ Sound(heap', root, alloc_base', live', foreign)
    BY <1>3, AllocInSound, Zenon
  <2>2. CASE status' \in {"oom", "fatal"} /\ heap' \in Heaps /\ live' = live
    <3>1. root \in Nat
      BY <1>3, SoundTypes, Zenon
    <3>2. TypeOK'
      BY <3>1, <2>1, <2>2, <1>1, Zenon DEF TypeOK, Stopped
    <3> QED BY <3>2, <2>2, Zenon DEF IInv, FreeAccepted
  <2>3. CASE status' = "running" /\ Sound(heap', root, alloc_base', live', foreign)
    BY <2>1, <2>3, <1>1, SoundStep, Zenon
  <2> QED BY <2>1, <2>2, <2>3, Zenon
<1>4. CASE /\ free_root = NULL /\ alloc_base' = Base
           /\ status' = IF status = "boot" THEN "oom" ELSE status
           /\ UNCHANGED <<free_root, heap, live>>
  <2>1. TypeOK'
    BY <1>1, <1>2, <1>4, Zenon DEF TypeOK, Stopped
  <2>2. live = {} /\ foreign = {}
    BY <1>4, Zenon DEF IInv
  <2> QED BY <2>1, <2>2, <1>1, <1>2, <1>4, Zenon DEF IInv, FreeAccepted
<1>5. CASE /\ free_root = NULL /\ ~SbrkFails(Base, need)
           /\ AllocIn(FirstHeap(heap, need \div Word), Base, Base + need, sz, al)
  <2>1. heap \in Heaps /\ live = {} /\ foreign = {}
    BY <1>1, <1>5, Zenon DEF IInv, TypeOK
  <2>2. Sound(FirstHeap(heap, need \div Word), Base, Base + need, live, foreign)
    BY <2>1, <1>2, <1>5, FirstSound, Zenon
  <2> QED BY <2>2, <1>3, <1>5, Zenon
<1>6. CASE free_root # NULL /\ AllocIn(heap, free_root, alloc_base, sz, al)
  <2>1. Sound(heap, free_root, alloc_base, live, foreign)
    BY <1>6, Zenon DEF IInv
  <2> QED BY <2>1, <1>3, <1>6, Zenon
<1> QED BY <1>4, <1>5, <1>6, Zenon DEF AllocWords

(* So does every other call of the runtime and every store of a client.    *)
LEMMA NextIInv == IInv /\ [Next]_vars => IInv'
<1> SUFFICES ASSUME IInv, [Next]_vars PROVE IInv'
  BY Zenon
<1>0. TypeOK
  BY Zenon DEF IInv
<1>1. CASE AllocInputSets
  <2>1. CASE BootSize = 0
    BY <1>0, <1>1, <2>1, Zenon DEF AllocInputSets, IInv, TypeOK, FreeAccepted, NULL
  <2>2. CASE BootSize # 0
    <3>1. LocalSize(BootSize) \in Nat /\ LocalSize(BootSize) > 0
      BY <2>2, RequestAssumption, RequestFacts
    <3>2. \A i \in Index : i + 1 <= Flag
      BY TagFacts
    <3> QED BY <1>1, <2>2, <3>1, <3>2, AllocWordsIInv DEF AllocInputSets
  <2> QED BY <2>1, <2>2, Zenon
<1>2. ASSUME NEW size \in Sizes, NEW alignment \in Alignments,
             dandelion_alloc(size, alignment)
      PROVE  IInv'
  <2>1. size \in Nat /\ size > 0 /\ alignment \in Nat /\ alignment < Flag
    BY RequestAssumption, HeapAssumption
  <2> QED BY <1>2, <2>1, RequestFacts, AllocWordsIInv, Zenon DEF dandelion_alloc
<1>3. ASSUME NEW a \in live, dandelion_free(a) PROVE IInv'
  <2>1. Sound(heap, free_root, alloc_base, live, foreign)
    BY <1>3, Zenon DEF IInv, dandelion_free
  <2> QED BY <2>1, <1>3, FreeSound, SoundStep, Zenon
<1>4. ASSUME NEW size \in SbrkSizes, dandelion_sbrk(size) PROVE IInv'
  <2>0. size \in Nat /\ size > 0 /\ status = "running"
        /\ UNCHANGED <<free_root, heap, live, status>>
    BY <1>4, RequestAssumption, HeapAssumption DEF dandelion_sbrk
  <2>1. Base \in Nat /\ Base >= HeapBegin /\ Base # 0 /\ RoundUp(size) \in Nat
    <3>1. HeapBegin \in Nat /\ HeapBegin > 0
      BY HeapAssumption, Zenon
    <3>2. RoundUp(HeapBegin) \in Nat /\ RoundUp(HeapBegin) >= HeapBegin /\ RoundUp(size) \in Nat
      BY <2>0, <3>1, RoundUpFacts, Zenon
    <3>3. alloc_base # 0 => alloc_base >= HeapBegin
      BY <2>0, Zenon DEF IInv
    <3> QED BY <1>0, <3>1, <3>2, <3>3 DEF Base, TypeOK
  <2>2. CASE free_root = NULL
    <3>1. /\ alloc_base' \in Nat /\ alloc_base' >= HeapBegin /\ foreign' = foreign
          /\ live = {} /\ foreign = {}
      BY <1>4, <2>0, <2>1, <2>2, HeapAssumption DEF dandelion_sbrk, IInv
    <3> QED BY <3>1, <1>0, <2>0, <2>2, Zenon DEF IInv, TypeOK, FreeAccepted
  <2>3. CASE free_root # NULL
    <3>1. Sound(heap, free_root, alloc_base, live, foreign)
      BY <2>0, <2>3, Zenon DEF IInv
    <3>2. Base = alloc_base
      BY <3>1, SoundTypes, HeapAssumption DEF Base
    <3>3. CASE alloc_base' = Base /\ foreign' = foreign
      BY <3>1, <3>2, <3>3, <2>0, SoundStep, Zenon
    <3>4. CASE /\ ~SbrkFails(Base, size) /\ alloc_base' = Base + RoundUp(size)
               /\ foreign' = foreign \cup {[lo |-> IndexOf(Base, free_root),
                                            hi |-> IndexOf(Base + RoundUp(size), free_root)]}
      <4>1. Sound(heap, free_root, alloc_base', live, foreign')
        BY <3>1, <3>2, <3>4, <2>0, SbrkSound, Zenon
      <4> QED BY <4>1, <2>0, SoundStep, Zenon
    <3> QED BY <1>4, <2>3, <3>3, <3>4, Zenon DEF dandelion_sbrk
  <2> QED BY <2>2, <2>3, Zenon
<1>5. ASSUME NEW f \in foreign, SbrkRelease(f) PROVE IInv'
  <2>1. Sound(heap, free_root, alloc_base, live, foreign)
    BY <1>5, Zenon DEF IInv, SbrkRelease
  <2>2. Sound(heap, free_root, alloc_base', live, foreign')
    BY <2>1, <1>5, ReleaseSound, Zenon DEF SbrkRelease
  <2> QED BY <2>2, <1>5, SoundStep, Zenon DEF SbrkRelease
<1>6. ASSUME NEW W, NEW v \in Values, Store(W, v),
             \/ \E a \in live : W = Payload(a)
             \/ \E f \in foreign : W = Region(f)
      PROVE  IInv'
  <2>1. status = "running" /\ UNCHANGED <<alloc_base, free_root, live, foreign, status>>
    BY <1>6, Zenon DEF Store
  <2>2. Sound(heap, free_root, alloc_base, live, foreign)
    BY <1>6, <2>1, Zenon DEF IInv
  <2>3. \A w \in W : w \in Nat /\ \/ heap.last < w
                                  \/ \E s \in heap.slabs : s < w /\ w < End(heap, s)
    BY <1>6, <2>2, OwnedWords, Zenon
  <2>4. Sound(heap', free_root, alloc_base, live, foreign)
    BY <2>2, <2>3, <1>6, StoreSound, Zenon
  <2> QED BY <2>1, <2>4, SoundStep, Zenon
<1>7. CASE UNCHANGED vars
  BY <1>7, Zenon DEF IInv, TypeOK, FreeAccepted, Sound, vars
<1> QED BY <1>1, <1>2, <1>3, <1>4, <1>5, <1>6, <1>7, Zenon DEF Next

(* Between the calls the allocator is always in a sound state: see IInv.   *)
THEOREM Invariance == Spec => []IInv
BY InitIInv, NextIInv, PTL DEF Spec

(* Every word dandelion_alloc writes is a word of the heap and holds a     *)
(* value of a size_t, and every pointer and region handed out is within    *)
(* the heap, up to and including the step that stops the program.          *)
THEOREM TypeCorrect == Spec => []TypeOK
<1>1. IInv => TypeOK
  BY Zenon DEF IInv
<1> QED BY <1>1, Invariance, PTL

(* When the program is outside the allocator the heap is sound.            *)
LEMMA RunningSound ==
  ASSUME IInv, Running
  PROVE  Sound(heap, free_root, alloc_base, live, foreign)
BY Zenon DEF IInv, Running

(* The descriptors cut the heap into slabs after any sequence of calls.    *)
THEOREM SlabsAlwaysTile == Spec => []SlabsTileHeap
<1>1. IInv => SlabsTileHeap
  BY RunningSound, Zenon DEF SlabsTileHeap, Sound, SoundSlabs
<1> QED BY <1>1, Invariance, PTL

(* dandelion_free merges so that free slabs never touch.                   *)
THEOREM FreeSlabsMerged == Spec => []NoAdjacentFree
<1>1. IInv => NoAdjacentFree
  BY RunningSound, Zenon DEF NoAdjacentFree, Sound, SoundSlabs
<1> QED BY <1>1, Invariance, PTL

(* What dandelion_alloc hands out stays in a slab of its own until it is   *)
(* freed.                                                                  *)
THEOREM LiveStaysOwned == Spec => []LiveInOwnSlab
<1>1. IInv => LiveInOwnSlab
  BY RunningSound, Zenon DEF LiveInOwnSlab, Sound, SoundLive
<1> QED BY <1>1, Invariance, PTL

(* Memory that other callers got from sbrk stays outside the slabs that    *)
(* dandelion_alloc hands out.                                              *)
THEOREM ForeignStaysFenced == Spec => []ForeignFenced
<1>1. IInv => ForeignFenced
  BY RunningSound, Zenon DEF ForeignFenced, Sound, SoundForeign
<1> QED BY <1>1, Invariance, PTL

(* Freed memory, split-off rests and alignment gaps are all accounted for. *)
THEOREM NoMemoryLeaks == Spec => []NothingLeaks
<1>1. IInv => NothingLeaks
  BY RunningSound, Zenon DEF NothingLeaks, Sound, NoLeak
<1> QED BY <1>1, Invariance, PTL

(* The checks that a DEBUG build of dandelion_free makes never stop a      *)
(* client that frees only what it holds.                                   *)
THEOREM FreeNeverRefused == Spec => []FreeAccepted
<1>1. IInv => FreeAccepted
  BY Zenon DEF IInv
<1> QED BY <1>1, Invariance, PTL

(* Payloads are aligned relative to free_root for every alignment.         *)
THEOREM PayloadsAligned == Spec => []AlignedInHeap
<1>1. IInv => AlignedInHeap
  BY RunningSound, Zenon DEF AlignedInHeap, Sound, SoundLive
<1> QED BY <1>1, Invariance, PTL

-----------------------------------------------------------------------------
(* When the "should never happend" branch is really never taken.           *)

(* Slab 0 is in use and every free slab has room for a word.               *)
Roomy(h) ==
  /\ 0 \in h.slabs /\ ~IsFree(h, 0)
  /\ \A s \in h.slabs : IsFree(h, s) => s + 2 <= End(h, s)

FitInv ==
  /\ ChosenSlabFits
  /\ status = "running" => free_root # NULL /\ Roomy(heap)

(* A slab that the search settles on is large enough.                      *)
LEMMA RoomyFits ==
  ASSUME NEW h \in Heaps, WellFormed(h), NEW s \in h.slabs, s + 2 <= End(h, s),
         NEW sz \in Nat, NEW al \in 1 .. 2, IsSmallest(h, s, sz, al)
  PROVE  ~TooSmall(h, s, sz, al)
<1> DEFINE r == Rounding(s, al)
<1>1. s \in Nat /\ End(h, s) \in Nat /\ r \in Nat /\ r < al
  <2>1. s \in Nat /\ End(h, s) \in Nat
    BY SlabFacts, Zenon
  <2>2. al \in Nat /\ al > 0
    OBVIOUS
  <2>3. r \in Nat /\ r < al
    BY <2>1, <2>2, RoundingFacts, Zenon
  <2> QED BY <2>1, <2>3, Zenon
<1>2. IsFree(h, s) /\ sz <= Potential(h, s, al)
  BY Zenon DEF IsSmallest, Fitting
<1>3. h.mem[s] = End(h, s)
  BY <1>2, Zenon DEF End, Untag, IsFree
<1> HIDE DEF r
<1>4. Potential(h, s, al) = End(h, s) - (s + r) - 1
  BY <1>1 DEF Potential, Minus, r
<1> QED BY <1>1, <1>2, <1>3, <1>4 DEF TooSmall, r

(* Placing a request in a large enough slab keeps the heap roomy.          *)
LEMMA PlaceRoomy ==
  ASSUME NEW h \in Heaps, WellFormed(h), Coalesced(h),
         NEW start \in h.slabs, IsFree(h, start),
         \A s \in h.slabs : IsFree(h, s) => s + 2 <= End(h, s),
         NEW sz \in Nat, sz > 0, NEW al \in 1 .. 2,
         (start = 0 /\ al = 1) \/ Roomy(h),
         ~TooSmall(h, start, sz, al), Place(h, start, sz, al)
  PROVE  status' = "running" /\ Roomy(heap')
<1> DEFINE skip == Rounding(start, al)
           c    == start + skip
           g    == Carved(Skipped(h, start, skip), c, h.mem[start], sz)
<1>1. start \in Nat /\ skip \in Nat /\ skip < al /\ h.mem[start] \in Nat
  <2>1. start \in Nat /\ start \in Index
    BY SlabFacts, Zenon
  <2>2. h.mem[start] \in Nat
    BY <2>1, HeapParts, Zenon
  <2>3. al \in Nat /\ al > 0
    OBVIOUS
  <2>4. skip \in Nat /\ skip < al
    BY <2>1, <2>3, RoundingFacts, Zenon
  <2> QED BY <2>1, <2>2, <2>4, Zenon
<1>2. status' = "running" /\ heap' = g
  BY Zenon DEF Place
<1>3. start + skip + sz + 1 <= h.mem[start]
  BY <1>1 DEF TooSmall
<1>4. skip = 0 \/ (skip < 3 /\ start # 0)
  <2>1. start # 0 \/ al = 1
    BY Zenon DEF Roomy
  <2> HIDE DEF skip
  <2> QED BY <2>1, <1>1
<1>5. /\ c \in g.slabs /\ ~IsFree(g, c)
      /\ \A s \in h.slabs : ~IsFree(h, s) => Keeps(h, g, s)
      /\ \A s \in g.slabs : IsFree(g, s) => s + 2 <= End(g, s) \/ StillFree(h, g, s)
  BY <1>1, <1>3, <1>4, PlacedHeap, Zenon
<1>6. 0 \in g.slabs /\ ~IsFree(g, 0)
  <2>1. CASE Roomy(h)
    BY <2>1, <1>5, Zenon DEF Roomy, Keeps
  <2>2. CASE start = 0 /\ al = 1
    <3>1. c = 0
      BY <2>2, <1>1
    <3> QED BY <3>1, <1>5, Zenon
  <2> QED BY <2>1, <2>2, Zenon
<1> HIDE DEF g
<1>7. Roomy(g)
  BY <1>5, <1>6, Zenon DEF Roomy, StillFree
<1> QED BY <1>2, <1>7, Zenon

(* dandelion_alloc with alignments of up to two words.                     *)
LEMMA AllocInRoomy ==
  ASSUME NEW h, NEW root, NEW base, Sound(h, root, base, live, foreign),
         NEW sz \in Nat, sz > 0, NEW al \in 1 .. 2,
         Roomy(h) \/ (al = 1 /\ h.slabs = {0} /\ IsFree(h, 0) /\ sz + 2 <= h.mem[0]),
         status \in {"boot", "running"}, AllocIn(h, root, base, sz, al)
  PROVE  \/ status' = "oom"
         \/ status' = "running" /\ heap' = h /\ status = "running"
         \/ status' = "running" /\ Roomy(heap')
<1>1. h \in Heaps /\ WellFormed(h) /\ Coalesced(h) /\ al \in Nat /\ al > 0
  BY DEF Sound, SoundSlabs
<1>2. \A s \in h.slabs : IsFree(h, s) => s + 2 <= End(h, s)
  <2>1. CASE Roomy(h)
    BY <2>1, Zenon DEF Roomy
  <2>2. CASE h.slabs = {0} /\ IsFree(h, 0) /\ sz + 2 <= h.mem[0]
    <3>1. End(h, 0) = h.mem[0] /\ h.mem[0] \in Nat
      BY <2>2, <1>1, HeapParts, Zenon DEF End, Untag, IsFree
    <3> QED BY <2>2, <3>1
  <2> QED BY <2>1, <2>2, Zenon
<1>3. \A s \in h.slabs : IsFree(h, s) => (s = 0 /\ al = 1) \/ Roomy(h)
  BY Zenon
<1>4. CASE \E s \in h.slabs : IsSmallest(h, s, sz, al) /\ Place(h, s, sz, al)
  <2>1. PICK s \in h.slabs : IsSmallest(h, s, sz, al) /\ Place(h, s, sz, al)
    BY <1>4, Zenon
  <2>2. IsFree(h, s)
    BY <2>1, Zenon DEF IsSmallest, Fitting
  <2>3. ~TooSmall(h, s, sz, al)
    BY <2>1, <2>2, <1>1, <1>2, RoomyFits, Zenon
  <2> QED BY <2>1, <2>2, <2>3, <1>1, <1>2, <1>3, PlaceRoomy, Zenon
<1>5. CASE heap' = h /\ status' = IF status = "boot" THEN "oom" ELSE status
  BY <1>5, Zenon
<1>6. ASSUME Fitting(h, sz, al) = {} PROVE Roomy(h)
  <2> SUFFICES ASSUME al = 1, h.slabs = {0}, IsFree(h, 0), sz + 2 <= h.mem[0]
               PROVE  FALSE
    BY Zenon
  <2>1. /\ End(h, 0) = h.mem[0] /\ h.mem[0] \in Nat /\ h.mem[0] <= MAX_VAL
        /\ MAX_VAL \in Nat
    BY <1>1, HeapParts, TagFacts DEF End, Untag, IsFree
  <2>2. Rounding(0, 1) = 0
    BY DEF Rounding
  <2>3. Potential(h, 0, 1) = h.mem[0] - 1
    BY <2>1, <2>2 DEF Potential, Minus
  <2>4. 0 \in Fitting(h, sz, al)
    BY <2>1, <2>3 DEF Fitting
  <2> QED BY <2>4, <1>6, Zenon
<1>7. CASE /\ Fitting(h, sz, al) = {} /\ ~SbrkFails(base, get_sbrk_size(sz, al))
           /\ LET first == IndexOf(base, root)
              IN  Place(Grown(h, first, get_sbrk_size(sz, al) \div Word),
                        GrowStart(h, first), sz, al)
  <2> DEFINE need  == get_sbrk_size(sz, al)
             first == IndexOf(base, root)
             g     == Grown(h, first, need \div Word)
             start == GrowStart(h, first)
  <2>1. /\ Sound(g, root, base + need, live, foreign)
        /\ start \in g.slabs /\ IsFree(g, start) /\ start + sz + 2 <= g.mem[start]
        /\ \A s \in h.slabs : ~IsFree(h, s) => Keeps(h, g, s)
        /\ \A s \in g.slabs : IsFree(g, s) /\ s # start => StillFree(h, g, s)
    BY <1>1, <1>7, GrowSound, Zenon
  <2>2. Place(g, start, sz, al) /\ Roomy(h)
    BY <1>6, <1>7, Zenon
  <2> HIDE DEF g, start
  <2>3. g \in Heaps /\ WellFormed(g) /\ Coalesced(g)
    BY <2>1, Zenon DEF Sound, SoundSlabs
  <2>4. /\ start \in Nat /\ g.mem[start] \in Nat /\ End(g, start) = g.mem[start]
        /\ Rounding(start, al) \in Nat /\ Rounding(start, al) < al
    <3>1. start \in g.slabs /\ IsFree(g, start)
      BY <2>1, Zenon
    <3>2. start \in Nat /\ start \in Index
      BY <2>3, <3>1, SlabFacts, Zenon
    <3>3. g.mem[start] \in Nat
      BY <2>3, <3>2, HeapParts, Zenon
    <3>4. End(g, start) = g.mem[start]
      BY <3>1, Zenon DEF End, Untag, IsFree
    <3>5. Rounding(start, al) \in Nat /\ Rounding(start, al) < al
      <4>1. al \in Nat /\ al > 0
        BY <1>1, Zenon
      <4> QED BY <3>2, <4>1, RoundingFacts, Zenon
    <3> QED BY <3>2, <3>3, <3>4, <3>5, Zenon
  <2>5. ~TooSmall(g, start, sz, al)
    BY <2>1, <2>4 DEF TooSmall
  <2>6. \A s \in g.slabs : IsFree(g, s) => s + 2 <= End(g, s)
    BY <2>1, <2>4, <1>2 DEF StillFree
  <2>7. Roomy(g)
    BY <2>1, <2>2, <2>6, Zenon DEF Roomy, Keeps
  <2> QED BY <2>1, <2>2, <2>3, <2>5, <2>6, <2>7, PlaceRoomy, Zenon
<1> QED BY <1>4, <1>5, <1>7, Zenon DEF AllocIn

(* The slab of a fresh heap has room for the request it was made for.      *)
LEMMA FirstRoom ==
  ASSUME heap \in Heaps, NEW base \in Nat, base >= HeapBegin,
         NEW sz \in Nat, sz > 0, NEW al \in Nat, al > 0,
         ~SbrkFails(base, get_sbrk_size(sz, al))
  PROVE  LET h == FirstHeap(heap, get_sbrk_size(sz, al) \div Word)
         IN  h.slabs = {0} /\ IsFree(h, 0) /\ sz + 2 <= h.mem[0]
<1> DEFINE need == get_sbrk_size(sz, al)
           n    == need \div 8
           h    == FirstHeap(heap, n)
<1>1. need \in Nat /\ n \in Nat /\ need = 8 * n /\ n >= sz + 5
  BY SbrkSizeFacts, Zenon
<1> HIDE DEF need, n, h
<1>2. base + need <= HeapEnd
  BY <1>1, HeapAssumption DEF SbrkFails, need
<1>3. n - 1 \in Index /\ n >= 3
  <2>1. n \in Index
    BY <1>1, <1>2, HeapAssumption DEF Index, Word
  <2> QED BY <2>1, <1>1, IndexInterval
<1>4. h.slabs = {0} /\ IsFree(h, 0) /\ h.mem[0] = n - 2
  BY <1>1, <1>3, FirstHeapFacts, Zenon DEF h
<1>5. sz + 2 <= h.mem[0]
  BY <1>1, <1>4
<1> QED BY <1>4, <1>5, Zenon DEF h, n, need, Word

(* dandelion_alloc and AllocInputSets keep the heap roomy.                 *)
LEMMA AllocWordsFit ==
  ASSUME IInv, FitInv, status \in {"boot", "running"},
         NEW sz \in Nat, sz > 0, NEW al \in 1 .. 2, status = "boot" => al = 1,
         AllocWords(sz, al)
  PROVE  FitInv'
<1> DEFINE need == get_sbrk_size(sz, al)
<1>1. al \in Nat /\ al > 0 /\ TypeOK
  BY DEF IInv
<1>2. Base \in Nat /\ Base >= HeapBegin /\ Base # 0
  <2>1. HeapBegin \in Nat /\ HeapBegin > 0
    BY HeapAssumption, Zenon
  <2>2. RoundUp(HeapBegin) \in Nat /\ RoundUp(HeapBegin) >= HeapBegin
    BY <2>1, RoundUpFacts, Zenon
  <2>3. (alloc_base # 0 => alloc_base >= HeapBegin) /\ alloc_base \in Nat
    BY <1>1, Zenon DEF IInv, TypeOK
  <2> QED BY <2>1, <2>2, <2>3 DEF Base
<1>3. ASSUME NEW h, NEW root, NEW base, Sound(h, root, base, live, foreign), root # NULL,
             Roomy(h) \/ (al = 1 /\ h.slabs = {0} /\ IsFree(h, 0) /\ sz + 2 <= h.mem[0]),
             status = "running" => h = heap,
             AllocIn(h, root, base, sz, al)
      PROVE  FitInv'
  <2>1. \/ status' = "oom"
        \/ status' = "running" /\ heap' = h /\ status = "running"
        \/ status' = "running" /\ Roomy(heap')
    BY <1>3, AllocInRoomy, Zenon
  <2>2. free_root' = root
    BY <1>3, Zenon DEF AllocIn
  <2>3. status = "running" => Roomy(heap)
    BY Zenon DEF FitInv
  <2>4. status' = "oom" \/ (status' = "running" /\ Roomy(heap'))
    <3>1. CASE status' = "running" /\ heap' = h /\ status = "running"
      BY <3>1, <2>3, <1>3, Zenon
    <3> QED BY <2>1, <3>1, Zenon
  <2>5. Roomy(heap') <=> Roomy(heap)'
    BY Zenon DEF Roomy, IsFree, End, is_occupied, Untag
  <2> QED BY <2>2, <2>4, <2>5, <1>3, Zenon DEF FitInv, ChosenSlabFits, NULL
<1>4. CASE free_root = NULL /\ status = "boot" /\ status' = "oom"
  BY <1>4, Zenon DEF FitInv, ChosenSlabFits
<1>5. CASE status = "running"
  <2>1. Roomy(heap) /\ free_root # NULL
    BY <1>5, Zenon DEF FitInv
  <2>2. Sound(heap, free_root, alloc_base, live, foreign)
    BY <1>5, <2>1, Zenon DEF IInv
  <2>3. AllocIn(heap, free_root, alloc_base, sz, al)
    BY <2>1, Zenon DEF AllocWords
  <2> QED BY <1>3, <2>1, <2>2, <2>3, Zenon
<1>6. CASE status = "boot" /\ ~SbrkFails(Base, need)
           /\ AllocIn(FirstHeap(heap, need \div Word), Base, Base + need, sz, al)
  <2> DEFINE h == FirstHeap(heap, need \div Word)
  <2>1. heap \in Heaps /\ live = {} /\ foreign = {} /\ al = 1
    BY <1>1, <1>6, Zenon DEF IInv, TypeOK
  <2>2. Sound(h, Base, Base + need, live, foreign)
    BY <2>1, <1>1, <1>2, <1>6, FirstSound, Zenon
  <2>3. h.slabs = {0} /\ IsFree(h, 0) /\ sz + 2 <= h.mem[0]
    BY <2>1, <1>1, <1>2, <1>6, FirstRoom, Zenon
  <2> QED BY <2>1, <2>2, <2>3, <1>2, <1>3, <1>6, Zenon DEF NULL
<1>7. status = "boot" => free_root = NULL
  BY Zenon DEF IInv
<1> QED BY <1>4, <1>5, <1>6, <1>7, Zenon DEF AllocWords

(* dandelion_free leaves slab 0, which holds the input sets, alone.        *)
LEMMA FreeFit ==
  ASSUME BootSize > 0, IInv, FitInv, NEW a \in live, dandelion_free(a)
  PROVE  FitInv'
<1> DEFINE i == a.ptr - 1
           g == Merged(heap, i, End(heap, i))
<1>1. status = "running" /\ free_root # NULL /\ Roomy(heap)
      /\ Sound(heap, free_root, alloc_base, live, foreign)
  BY Zenon DEF dandelion_free, FitInv, IInv
<1>2. status' = "running" /\ free_root' = free_root
  BY <1>1, FreeSound, Zenon
<1>3. heap' = g
  BY <1>2, Zenon DEF dandelion_free
<1>4. /\ heap \in Heaps /\ WellFormed(heap) /\ Coalesced(heap)
      /\ i \in heap.slabs /\ ~IsFree(heap, i)
      /\ a.ptr \in Nat /\ a.len \in Nat /\ a.len > 0 /\ a.ptr + a.len <= End(heap, i)
  <2>1. SoundSlabs(heap) /\ SoundLive(heap, live)
    BY <1>1, Zenon DEF Sound
  <2>2. Index \subseteq Nat
    BY DEF Index
  <2> QED BY <2>1, <2>2, Zenon DEF SoundSlabs, SoundLive
<1>5. i # 0 /\ i \in Nat
  <2>1. a.ptr # 1
    BY DEF dandelion_free, Kept
  <2>2. i \in Nat
    BY <1>4, SlabFacts, Zenon
  <2> QED BY <2>1, <2>2, <1>4
<1>6. /\ \A s \in heap.slabs : ~IsFree(heap, s) /\ s # i => Keeps(heap, g, s)
      /\ \A s \in g.slabs : IsFree(g, s) =>
           \/ s <= i /\ End(heap, i) <= End(g, s)
           \/ StillFree(heap, g, s)
      /\ g \in Heaps /\ WellFormed(g)
  BY <1>4, MergedHeap, Zenon
<1> HIDE DEF g
<1>7. 0 \in g.slabs /\ ~IsFree(g, 0)
  BY <1>1, <1>5, <1>6, Zenon DEF Roomy, Keeps
<1>8. ASSUME NEW s \in g.slabs, IsFree(g, s) PROVE s + 2 <= End(g, s)
  <2>1. s \in Nat /\ End(g, s) \in Nat /\ End(heap, i) \in Nat
    BY <1>4, <1>6, SlabFacts
  <2>2. CASE s <= i /\ End(heap, i) <= End(g, s)
    <3> DEFINE x == End(heap, i)
               y == End(g, s)
    <3>1. x \in Nat /\ y \in Nat /\ x <= y /\ a.ptr + a.len <= x /\ s <= a.ptr - 1
      BY <2>1, <2>2, <1>4, Zenon
    <3> HIDE DEF x, y
    <3>2. s + 2 <= y
      BY <3>1, <2>1, <1>4
    <3> QED BY <3>2, Zenon DEF y
  <2>3. CASE StillFree(heap, g, s)
    BY <2>3, <1>1, Zenon DEF Roomy, StillFree
  <2> QED BY <2>2, <2>3, <1>6, <1>8, Zenon
<1>9. Roomy(heap')
  BY <1>3, <1>7, <1>8, Zenon DEF Roomy
<1>10. Roomy(heap)'
  BY <1>9, Zenon DEF Roomy, IsFree, End, is_occupied, Untag
<1> QED BY <1>1, <1>2, <1>10, Zenon DEF FitInv, ChosenSlabFits

(* A store by an owner changes no descriptor.                              *)
LEMMA StoreFit ==
  ASSUME IInv, FitInv, NEW W, NEW v \in Values, Store(W, v),
         \/ \E a \in live : W = Payload(a)
         \/ \E f \in foreign : W = Region(f)
  PROVE  FitInv'
<1>1. /\ status = "running" /\ free_root # NULL /\ Roomy(heap)
      /\ UNCHANGED <<free_root, status>> /\ heap' = Stored(heap, W, v)
      /\ Sound(heap, free_root, alloc_base, live, foreign)
  BY Zenon DEF Store, FitInv, IInv
<1>2. heap \in Heaps /\ WellFormed(heap) /\ Coalesced(heap) /\ v \in 0 .. MAX_VAL
  BY <1>1, RequestAssumption, Zenon DEF Sound, SoundSlabs
<1>3. \A w \in W : /\ w \in Nat
                   /\ heap.last < w \/ \E s \in heap.slabs : s < w /\ w < End(heap, s)
  BY <1>1, OwnedWords, Zenon
<1> DEFINE g == Stored(heap, W, v)
<1>4. /\ g.slabs = heap.slabs
      /\ \A s \in heap.slabs : /\ End(g, s) = End(heap, s)
                               /\ IsFree(g, s) <=> IsFree(heap, s)
  <2>1. IsStored(g, heap, W, v)
    BY <1>2, <1>3, StoredHeap, Zenon
  <2> HIDE DEF g
  <2> QED BY <2>1, Zenon DEF IsStored
<1> HIDE DEF g
<1>5. Roomy(g)
  BY <1>1, <1>4, Zenon DEF Roomy
<1>6. Roomy(heap)'
  BY <1>5, <1>1, Zenon DEF g, Roomy, IsFree, End, is_occupied, Untag
<1> QED BY <1>1, <1>6, Zenon DEF FitInv, ChosenSlabFits

(* When the function has at least one input set and no alignment is above  *)
(* 16 bytes (that of max_align_t, the largest one the SDK itself uses),    *)
(* the branch that "should never happend" is never taken, whatever the     *)
(* sizes, the page size and the order of the calls.                        *)
THEOREM ChosenAlwaysFits ==
  ASSUME BootSize > 0, \A alignment \in Alignments : alignment <= 16
  PROVE  Spec => []ChosenSlabFits
<1>1. Init => FitInv
  BY Zenon DEF Init, FitInv, ChosenSlabFits
<1>2. IInv /\ FitInv /\ [Next]_vars => FitInv'
  <2> SUFFICES ASSUME IInv, FitInv, [Next]_vars PROVE FitInv'
    BY Zenon
  <2>1. CASE AllocInputSets
    <3>1. LocalSize(BootSize) \in Nat /\ LocalSize(BootSize) > 0
      BY RequestAssumption, RequestFacts, Zenon
    <3> QED BY <2>1, <3>1, AllocWordsFit, RequestAssumption DEF AllocInputSets
  <2>2. ASSUME NEW size \in Sizes, NEW alignment \in Alignments,
               dandelion_alloc(size, alignment)
        PROVE  FitInv'
    <3>1. size \in Nat /\ size > 0 /\ alignment \in Nat
      BY RequestAssumption, HeapAssumption
    <3>2. LocalAlignment(alignment) \in 1 .. 2 /\ LocalSize(size) \in Nat /\ LocalSize(size) > 0
      BY <3>1, RequestFacts
    <3> QED BY <2>2, <3>2, AllocWordsFit, Zenon DEF dandelion_alloc
  <2>3. ASSUME UNCHANGED <<free_root, heap, status>> PROVE FitInv'
    BY <2>3, Zenon DEF FitInv, ChosenSlabFits, Roomy, IsFree, End, is_occupied, Untag
  <2>4. CASE \E a \in live : dandelion_free(a)
    BY <2>4, FreeFit, Zenon
  <2>5. CASE \E size \in SbrkSizes : dandelion_sbrk(size)
    BY <2>3, <2>5, Zenon DEF dandelion_sbrk
  <2>6. CASE \E f \in foreign : SbrkRelease(f)
    BY <2>3, <2>6, Zenon DEF SbrkRelease
  <2>7. CASE \/ \E a \in live, v \in Values : Store(Payload(a), v)
             \/ \E f \in foreign, v \in Values : Store(Region(f), v)
    BY <2>7, StoreFit, Zenon
  <2>8. CASE UNCHANGED vars
    BY <2>3, <2>8, Zenon DEF vars
  <2> QED BY <2>1, <2>2, <2>4, <2>5, <2>6, <2>7, <2>8, Zenon DEF Next
<1>3. FitInv => ChosenSlabFits
  BY Zenon DEF FitInv
<1> QED BY <1>1, <1>2, <1>3, Invariance, PTL DEF Spec

-----------------------------------------------------------------------------
-----------------------------------------------------------------------------
(* The search loop of dandelion_alloc.                                     *)

(* A set of numbers that is not empty has a least one.                     *)
LEMMA LeastExists ==
  ASSUME NEW S \in SUBSET Nat, S # {}
  PROVE  \E x \in S : \A y \in S : ~(y < x)
<1>1. PICK x \in S : \A y \in S : <<y, x>> \notin OpToRel(<, Nat)
  BY NatLessThanWellFounded, WFMin, Zenon
<1> QED BY <1>1, Zenon DEF OpToRel

(* A set that has 0 and, with a number, its successor, has all numbers:    *)
(* there is no least one that it lacks.                                    *)
LEMMA FromZero ==
  ASSUME NEW S, NEW N \in Nat, 0 \in S, \A n \in 0 .. N - 1 : n \in S => n + 1 \in S
  PROVE  0 .. N \subseteq S
<1> SUFFICES ASSUME (0 .. N) \ S # {} PROVE FALSE
  BY Zenon
<1> DEFINE T == (0 .. N) \ S
<1>1. T \in SUBSET Nat
  OBVIOUS
<1>2. PICK x \in T : \A y \in T : ~(y < x)
  BY <1>1, LeastExists, Zenon
<1>3. x # 0 /\ x - 1 \in 0 .. N - 1 /\ x - 1 \in S
  BY <1>2
<1> QED BY <1>3

(* Where the loop is after a step from descriptor s, and after k steps.    *)
Onward(h, s) == IF h.mem[s] = MAX_VAL THEN s ELSE End(h, s) + 1

Walks(w, h, n) == w = [k \in 0 .. n |-> IF k = 0 THEN 0 ELSE Onward(h, w[k - 1])]

(* The recursive definition of the walk defines one.                       *)
LEMMA WalkExists ==
  ASSUME NEW h, NEW N \in Nat
  PROVE  \E w : Walks(w, h, N)
<1> DEFINE S == {n \in Nat : \E w : Walks(w, h, n)}
<1>1. 0 \in S
  <2>1. Walks([k \in 0 .. 0 |-> 0], h, 0)
    BY DEF Walks
  <2> QED BY <2>1, Zenon
<1>2. ASSUME NEW n \in 0 .. N - 1, n \in S PROVE n + 1 \in S
  <2>1. PICK w : Walks(w, h, n)
    BY <1>2, Zenon
  <2> DEFINE v == [k \in 0 .. n + 1 |-> IF k = n + 1 THEN Onward(h, w[n]) ELSE w[k]]
  <2>2. \A k \in 0 .. n + 1 : v[k] = IF k = 0 THEN 0 ELSE Onward(h, v[k - 1])
    <3>1. \A k \in 0 .. n : w[k] = IF k = 0 THEN 0 ELSE Onward(h, w[k - 1])
      BY <2>1, Zenon DEF Walks
    <3> QED BY <3>1
  <2>3. Walks(v, h, n + 1)
    BY <2>2, Zenon DEF Walks
  <2> QED BY <2>3
<1>3. 0 .. N \subseteq S
  <2> HIDE DEF S
  <2> QED BY <1>1, <1>2, FromZero, Zenon
<1> QED BY <1>3

(* From a slab the loop goes on to the next one; at the sentinel it ends.  *)
LEMMA OnwardNext ==
  ASSUME NEW h \in Heaps, WellFormed(h)
  PROVE  /\ Onward(h, h.last) = h.last
         /\ \A s \in h.slabs : /\ Onward(h, s) = End(h, s) + 1
                               /\ s < Onward(h, s)
                               /\ Onward(h, s) \in h.slabs \cup {h.last}
<1>1. Onward(h, h.last) = h.last
  BY Zenon DEF WellFormed, Onward
<1>2. ASSUME NEW s \in h.slabs
      PROVE  /\ Onward(h, s) = End(h, s) + 1 /\ s < Onward(h, s)
             /\ Onward(h, s) \in h.slabs \cup {h.last}
  <2>1. /\ s \in Nat /\ End(h, s) \in Nat /\ s <= End(h, s) /\ End(h, s) < h.last
        /\ End(h, s) + 1 \in h.slabs \cup {h.last} /\ h.last \in Index /\ h.last \in Nat
    BY SlabFacts, HeapParts, Zenon
  <2>2. h.last <= HeapEnd /\ HeapEnd \in Nat /\ Flag \in Nat /\ HeapEnd < Flag
    BY <2>1, HeapAssumption DEF Index, Word
  <2>3. End(h, s) # Flag - 1
    BY <2>1, <2>2
  <2>4. h.mem[s] # MAX_VAL
    BY <2>2, <2>3 DEF End, Untag, is_occupied, MAX_VAL
  <2>5. Onward(h, s) = End(h, s) + 1
    BY <2>4, Zenon DEF Onward
  <2> QED BY <2>1, <2>5
<1> QED BY <1>1, <1>2, Zenon

(* The walk visits the slabs in order and no other word but the sentinel.  *)
LEMMA WalkVisits ==
  ASSUME NEW h \in Heaps, WellFormed(h), NEW w, Walks(w, h, h.last)
  PROVE  {w[k] : k \in 0 .. h.last} = h.slabs \cup {h.last}
<1>0. /\ h.last \in Nat /\ 0 < h.last /\ h.slabs \subseteq Nat /\ 0 \in h.slabs
      /\ \A s \in h.slabs : s < h.last
  BY HeapParts, Zenon DEF WellFormed, Tiles
<1>1. /\ w[0] = 0
      /\ \A k \in 0 .. h.last - 1 : w[k + 1] = Onward(h, w[k])
  <2>1. \A k \in 0 .. h.last : w[k] = IF k = 0 THEN 0 ELSE Onward(h, w[k - 1])
    BY Zenon DEF Walks
  <2> QED BY <1>0, <2>1
<1>2. /\ Onward(h, h.last) = h.last
      /\ \A s \in h.slabs : /\ Onward(h, s) = End(h, s) + 1
                            /\ s < Onward(h, s)
                            /\ Onward(h, s) \in h.slabs \cup {h.last}
  BY OnwardNext, Zenon
<1>3. \A k \in 0 .. h.last : w[k] \in h.slabs \cup {h.last} /\ (k <= w[k] \/ w[k] = h.last)
  <2> DEFINE S == {k \in Nat : w[k] \in h.slabs \cup {h.last} /\ (k <= w[k] \/ w[k] = h.last)}
  <2>1. 0 \in S
    BY <1>0, <1>1
  <2>2. ASSUME NEW k \in 0 .. h.last - 1, k \in S PROVE k + 1 \in S
    <3>1. w[k + 1] = Onward(h, w[k])
      BY <1>1, Zenon
    <3>2. CASE w[k] = h.last
      BY <3>1, <3>2, <1>0, <1>2
    <3>3. CASE w[k] \in h.slabs
      <4>1. w[k] \in Nat /\ k <= w[k] /\ w[k + 1] \in Nat
        BY <3>1, <3>3, <2>2, <1>0, <1>2
      <4> QED BY <4>1, <3>1, <3>3, <1>0, <1>2
    <3> QED BY <2>2, <3>2, <3>3, Zenon
  <2>3. 0 .. h.last \subseteq S
    <3> HIDE DEF S
    <3> QED BY <1>0, <2>1, <2>2, FromZero, Zenon
  <2> QED BY <2>3, Zenon
<1>4. w[h.last] = h.last
  BY <1>0, <1>3
<1>5. ASSUME NEW T, T = h.slabs \ {w[k] : k \in 0 .. h.last}, T # {} PROVE FALSE
  <2>1. T \in SUBSET Nat
    BY <1>0, <1>5, Zenon
  <2>2. PICK t \in T : \A y \in T : ~(y < t)
    BY <2>1, <1>5, LeastExists, Zenon
  <2>3. t \in h.slabs /\ t # 0 /\ t \in Nat
    BY <1>0, <1>1, <1>5
  <2>4. PICK p \in h.slabs : p < t /\ End(h, p) = t - 1
    BY <2>3, <1>0, HeapParts DEF WellFormed, Tiles
  <2>5. p \notin T
    BY <2>2, <2>4, Zenon
  <2>6. PICK k \in 0 .. h.last : p = w[k]
    BY <2>4, <2>5, <1>5, Zenon
  <2>7. k # h.last
    BY <2>4, <2>6, <1>0, <1>4
  <2>8. k + 1 \in 0 .. h.last /\ w[k + 1] = t
    BY <2>3, <2>4, <2>6, <2>7, <1>0, <1>1, <1>2
  <2> QED BY <2>8, <1>5, Zenon
<1>6. {w[k] : k \in 0 .. h.last} \subseteq h.slabs \cup {h.last}
  BY <1>3, Zenon
<1>7. h.last \in {w[k] : k \in 0 .. h.last}
  BY <1>0, <1>4
<1> QED BY <1>5, <1>6, <1>7, Zenon

(* The loop of dandelion_alloc ends, and has looked at every slab.         *)
THEOREM SearchVisitsSlabs == Spec => []WalkVisitsSlabs
<1>1. ASSUME IInv PROVE WalkVisitsSlabs
  <2> SUFFICES ASSUME Running PROVE WalkVisitsSlabs
    BY Zenon DEF WalkVisitsSlabs
  <2> DEFINE W == CHOOSE w : Walks(w, heap, heap.last)
  <2>1. heap \in Heaps /\ WellFormed(heap) /\ heap.last \in Nat
    BY <1>1, RunningSound, HeapParts, Zenon DEF Sound, SoundSlabs
  <2>2. Walks(W, heap, heap.last)
    BY <2>1, WalkExists, Zenon
  <2> HIDE DEF W
  <2>3. {W[k] : k \in 0 .. heap.last} = heap.slabs \cup {heap.last}
    BY <2>1, <2>2, WalkVisits, Zenon
  <2> QED BY <2>3, Zenon DEF WalkVisitsSlabs, W, Walks, Onward
<1> QED BY <1>1, Invariance, PTL

-----------------------------------------------------------------------------
(* The refinement of MemoryService.                                        *)

BlocksOf(lv, fo) == {Payload(a) : a \in lv} \cup {Region(f) : f \in fo}

(* The words of a block lie between the descriptors of its slab, those of  *)
(* foreign memory between the descriptors of a fence or behind the heap.   *)
LEMMA WhereWordsAre ==
  ASSUME NEW h, NEW root, NEW base, NEW lv, NEW fo, Sound(h, root, base, lv, fo)
  PROVE  /\ \A a \in lv : \A w \in Payload(a) :
              w \in Index /\ w \in a.ptr - 1 + 1 .. End(h, a.ptr - 1) - 1
         /\ \A f \in fo : \A w \in Region(f) :
              /\ w \in Index
              /\ \/ h.last < w /\ w < IndexOf(base, root)
                 \/ \E s \in h.fences : w \in s + 1 .. End(h, s) - 1
<1> DEFINE k == IndexOf(base, root)
<1>1. /\ h \in Heaps /\ WellFormed(h) /\ h.last \in Nat /\ h.fences \subseteq h.slabs
      /\ SoundLive(h, lv) /\ SoundForeign(h, k, fo) /\ k \in Index
  BY HeapParts, Zenon DEF Sound, SoundSlabs, SoundBase
<1> HIDE DEF k
<1>2. ASSUME NEW a \in lv, NEW w \in Payload(a)
      PROVE  w \in Index /\ w \in a.ptr - 1 + 1 .. End(h, a.ptr - 1) - 1
  <2>1. /\ a \in [ptr: Index, len: Nat, al: Nat] /\ a.ptr - 1 \in h.slabs
        /\ a.ptr + a.len <= End(h, a.ptr - 1)
    BY <1>1, Zenon DEF SoundLive
  <2>2. /\ a.ptr \in Nat /\ a.len \in Nat /\ End(h, a.ptr - 1) \in Nat
        /\ End(h, a.ptr - 1) \in Index
    BY <2>1, <1>1, TagFacts, SlabFacts, Zenon
  <2>3. w \in Nat /\ a.ptr <= w /\ w < End(h, a.ptr - 1)
    BY <2>1, <2>2 DEF Payload
  <2>4. w \in Index
    BY <2>2, <2>3, IndexInterval
  <2> QED BY <2>2, <2>3, <2>4
<1>3. ASSUME NEW f \in fo, NEW w \in Region(f)
      PROVE  /\ w \in Index
             /\ (h.last < w /\ w < k) \/ \E s \in h.fences : w \in s + 1 .. End(h, s) - 1
  <2>1. /\ f \in [lo: Index, hi: Index] /\ f.hi <= k
        /\ \/ h.last < f.lo
           \/ \E s \in h.fences : s < f.lo /\ f.hi <= End(h, s)
    BY <1>1, Zenon DEF SoundForeign
  <2>2. f.lo \in Nat /\ f.hi \in Nat /\ k \in Nat /\ f.hi \in Index
    BY <2>1, <1>1, TagFacts, Zenon
  <2>3. w \in Nat /\ f.lo <= w /\ w < f.hi
    BY <2>2 DEF Region
  <2>4. w \in Index
    BY <2>2, <2>3, IndexInterval
  <2>5. ASSUME NEW s \in h.fences, s < f.lo, f.hi <= End(h, s)
        PROVE  w \in s + 1 .. End(h, s) - 1
    <3>1. s \in Nat /\ End(h, s) \in Nat
      BY <1>1, SlabFacts, Zenon
    <3> QED BY <3>1, <2>2, <2>3, <2>5
  <2> QED BY <2>1, <2>2, <2>3, <2>4, <2>5, <1>1
<1> QED BY <1>2, <1>3, Zenon DEF k

(* The words between the descriptors of two slabs.                         *)
LEMMA SlabsApart ==
  ASSUME NEW h \in Heaps, WellFormed(h), NEW s \in h.slabs, NEW t \in h.slabs, s # t
  PROVE  (s + 1 .. End(h, s) - 1) \cap (t + 1 .. End(h, t) - 1) = {}
<1>1. s \in Nat /\ t \in Nat /\ End(h, s) \in Nat /\ End(h, t) \in Nat
  BY SlabFacts, Zenon
<1>2. s < t => End(h, s) < t
  BY SlabFacts, Zenon
<1>3. t < s => End(h, t) < s
  BY SlabFacts, Zenon
<1> QED BY <1>1, <1>2, <1>3

(* No two blocks share a word.                                             *)
LEMMA BlocksApart ==
  ASSUME NEW h, NEW root, NEW base, NEW lv, NEW fo, Sound(h, root, base, lv, fo)
  PROVE  /\ \A a \in lv : Payload(a) # {} /\ Payload(a) \subseteq Index
         /\ \A f \in fo : Region(f) # {} /\ Region(f) \subseteq Index
         /\ \A a, b \in lv : a # b => Payload(a) \cap Payload(b) = {}
         /\ \A f, e \in fo : f # e => Region(f) \cap Region(e) = {}
         /\ \A a \in lv, f \in fo : Payload(a) \cap Region(f) = {}
<1>1. /\ h \in Heaps /\ WellFormed(h) /\ h.last \in Nat /\ h.fences \subseteq h.slabs
      /\ SoundLive(h, lv) /\ SoundForeign(h, IndexOf(base, root), fo)
  BY HeapParts, Zenon DEF Sound, SoundSlabs
<1>2. \A a \in lv : \A w \in Payload(a) :
        w \in Index /\ w \in a.ptr - 1 + 1 .. End(h, a.ptr - 1) - 1
  BY WhereWordsAre, Zenon
<1>3. \A f \in fo : \A w \in Region(f) :
        /\ w \in Index
        /\ h.last < w \/ \E s \in h.fences : w \in s + 1 .. End(h, s) - 1
  BY WhereWordsAre, Zenon
<1>4. \A a \in lv : a.ptr \in Nat /\ a.len \in Nat /\ a.len > 0 /\ a.ptr - 1 \in h.slabs \ h.fences
  BY <1>1, TagFacts, Zenon DEF SoundLive
<1>5. \A f \in fo : f.lo \in Nat /\ f.hi \in Nat /\ f.lo < f.hi
  BY <1>1, TagFacts, Zenon DEF SoundForeign
<1>6. \A a \in lv : Payload(a) # {}
  <2> SUFFICES ASSUME NEW a \in lv PROVE a.ptr \in Payload(a)
    BY Zenon
  <2> QED BY <1>4 DEF Payload
<1>7. \A f \in fo : Region(f) # {}
  <2> SUFFICES ASSUME NEW f \in fo PROVE f.lo \in Region(f)
    BY Zenon
  <2> QED BY <1>5 DEF Region
<1>8. ASSUME NEW a \in lv, NEW b \in lv, a # b PROVE Payload(a) \cap Payload(b) = {}
  <2>1. a.ptr - 1 # b.ptr - 1
    BY <1>1, <1>4, <1>8 DEF SoundLive
  <2>2. (a.ptr - 1 + 1 .. End(h, a.ptr - 1) - 1) \cap (b.ptr - 1 + 1 .. End(h, b.ptr - 1) - 1) = {}
    BY <2>1, <1>1, <1>4, SlabsApart, Zenon
  <2> QED BY <2>2, <1>2, Zenon
<1>9. ASSUME NEW f \in fo, NEW e \in fo, f # e PROVE Region(f) \cap Region(e) = {}
  <2>1. f.hi <= e.lo \/ e.hi <= f.lo
    BY <1>1, <1>9, Zenon DEF SoundForeign
  <2> QED BY <2>1, <1>5 DEF Region
<1>10. ASSUME NEW a \in lv, NEW f \in fo, NEW w, w \in Payload(a), w \in Region(f) PROVE FALSE
  <2>1. w \in a.ptr - 1 + 1 .. End(h, a.ptr - 1) - 1
    BY <1>2, <1>10, Zenon
  <2>2. w < h.last
    <3>1. End(h, a.ptr - 1) \in Nat /\ End(h, a.ptr - 1) < h.last
      BY <1>1, <1>4, SlabFacts, Zenon
    <3> QED BY <3>1, <2>1, <1>1, <1>4
  <2>3. w \in Nat
    BY <2>1, <1>4
  <2>4. PICK s \in h.fences : w \in s + 1 .. End(h, s) - 1
    BY <2>2, <2>3, <1>1, <1>3, <1>10
  <2>5. s # a.ptr - 1
    BY <1>4, Zenon
  <2> QED BY <2>1, <2>4, <2>5, <1>1, <1>4, SlabsApart, Zenon
<1> QED BY <1>2, <1>3, <1>6, <1>7, <1>8, <1>9, <1>10, Zenon

(* A change of the heap that keeps the slabs of allocations and fences and *)
(* the words behind the heap keeps the words of all blocks.                *)
LEMMA WordsKept ==
  ASSUME NEW h, NEW root, NEW base, NEW lv, NEW fo, Sound(h, root, base, lv, fo), NEW g,
         \A a \in lv : Keeps(h, g, a.ptr - 1), \A s \in h.fences : Keeps(h, g, s),
         \A w \in Index : h.last < w /\ w < IndexOf(base, root) => g.mem[w] = h.mem[w]
  PROVE  \A w \in UNION BlocksOf(lv, fo) : g.mem[w] = h.mem[w]
<1>1. ASSUME NEW a \in lv, NEW w \in Payload(a) PROVE g.mem[w] = h.mem[w]
  BY <1>1, WhereWordsAre, Zenon DEF Keeps
<1>2. ASSUME NEW f \in fo, NEW w \in Region(f) PROVE g.mem[w] = h.mem[w]
  <2>1. /\ w \in Index
        /\ \/ h.last < w /\ w < IndexOf(base, root)
           \/ \E s \in h.fences : w \in s + 1 .. End(h, s) - 1
    BY <1>2, WhereWordsAre, Zenon
  <2> QED BY <2>1, Zenon DEF Keeps
<1> QED BY <1>1, <1>2, Zenon DEF BlocksOf

(* Growing the heap writes no word between its old end and the new words.  *)
LEMMA GrownBehind ==
  ASSUME NEW h \in Heaps, NEW first \in Nat, first >= h.last + 1, NEW n \in Nat, n >= 4,
         NEW w \in Index, h.last < w, w < first
  PROVE  Grown(h, first, n).mem[w] = h.mem[w]
<1>1. h.last \in Nat /\ w \in Nat /\ h.mem \in [Index -> Nat]
  BY HeapParts, TagFacts, Zenon
<1>2. first # h.last + 1 /\ GrowStart(h, first) = first + 1
  BY <1>1 DEF GrowStart
<1> DEFINE m1 == MarkOccupied(h.mem, h.last, first)
           m2 == MarkFree(m1, first + 1, first + n - 2)
           m3 == [m2 EXCEPT ![first + n - 1] = MAX_VAL]
<1>3. first + n - 1 - 1 = first + n - 2
  OBVIOUS
<1>4. Grown(h, first, n).mem = m3
  BY <1>2, <1>3 DEF Grown
<1>5. m1[w] = h.mem[w] /\ w \in DOMAIN m1
  BY <1>1 DEF MarkOccupied
<1> HIDE DEF m1
<1>6. m2[w] = m1[w] /\ w \in DOMAIN m2
  BY <1>1, <1>5 DEF MarkFree
<1> HIDE DEF m2
<1>7. m3[w] = m2[w]
  BY <1>1, <1>6
<1> QED BY <1>4, <1>5, <1>6, <1>7, Zenon

SameWord(g, h, w) == g.mem[w] = h.mem[w]

(* Placing an allocation in a free slab writes no word behind the slab.    *)
LEMMA PlacedBehind ==
  ASSUME NEW h \in Heaps, WellFormed(h), NEW start \in h.slabs, IsFree(h, start),
         NEW skip \in Nat, NEW sz \in Nat, sz > 0,
         start + skip + sz + 1 <= h.mem[start], NEW w \in Index, h.mem[start] < w
  PROVE  SameWord(Carved(Skipped(h, start, skip), start + skip, h.mem[start], sz), h, w)
<1> DEFINE h1    == Skipped(h, start, skip)
           c     == start + skip
           end   == h.mem[start]
           fit   == c + sz + 1
           split == end > fit + 2
           stop  == IF split THEN fit ELSE end
           m2    == IF split THEN MarkFree(h1.mem, fit + 1, end) ELSE h1.mem
           m3    == MarkOccupied(m2, c, stop)
<1>1. /\ start \in Nat /\ start \in Index /\ end \in Nat /\ w \in Nat
      /\ h.mem \in [Index -> 0 .. MAX_VAL]
  BY SlabFacts, HeapParts, TagFacts DEF Heaps
<1>2. start # 0 => Untag(h.mem[start - 1]) \in Nat /\ Untag(h.mem[start - 1]) < start
  BY SlabFacts, HeapParts, Zenon DEF WellFormed, Tiles
<1>3. h1.mem[w] = h.mem[w] /\ w \in DOMAIN h1.mem
  <2>1. CASE skip = 0
    BY <2>1, <1>1, Zenon DEF Skipped
  <2>2. CASE skip # 0 /\ skip < 3 /\ start # 0
    <3>1. h1.mem = MarkOccupied(h.mem, Untag(h.mem[start - 1]), start + skip - 1)
      BY <2>2, Zenon DEF Skipped, Heaps
    <3> QED BY <3>1, <2>2, <1>1, <1>2 DEF MarkOccupied
  <2>3. CASE skip # 0 /\ ~(skip < 3 /\ start # 0)
    <3>1. h1.mem = MarkFree(h.mem, start, start + skip - 1)
      BY <2>3, Zenon DEF Skipped, Heaps
    <3> QED BY <3>1, <2>3, <1>1 DEF MarkFree
  <2> QED BY <2>1, <2>2, <2>3, Zenon
<1>4. Carved(h1, c, end, sz).mem = m3
  <2>1. end < Flag /\ Flag \in Nat
    BY <1>1, TagFacts DEF IsFree, is_occupied
  <2>2. h1 \in Heaps
    BY <2>1, <1>1, SkippedTyped
  <2> DEFINE S == h1.slabs \cup {c} \cup (IF split THEN {fit + 1} ELSE {})
  <2>3. Carved(h1, c, end, sz) = [h1 EXCEPT !.mem = m3, !.slabs = S]
    BY Zenon DEF Carved
  <2> HIDE DEF m3, S, h1
  <2> QED BY <2>2, <2>3, Zenon DEF Heaps
<1> HIDE DEF h1
<1>5. m2[w] = h1.mem[w] /\ w \in DOMAIN m2
  BY <1>1, <1>3 DEF MarkFree
<1> HIDE DEF m2
<1>6. stop \in Nat /\ stop <= end /\ c < end
  BY <1>1
<1> HIDE DEF stop
<1>7. m3[w] = m2[w]
  BY <1>1, <1>5, <1>6 DEF MarkOccupied
<1> QED BY <1>3, <1>4, <1>5, <1>7, Zenon DEF h1, SameWord

(* Freeing writes no word behind the heap.                                 *)
LEMMA MergedBehind ==
  ASSUME NEW h \in Heaps, WellFormed(h), NEW i \in h.slabs, NEW w \in Index, h.last < w
  PROVE  Merged(h, i, End(h, i)).mem[w] = h.mem[w]
<1> DEFINE e     == End(h, i)
           start == IF i # 0 /\ ~is_occupied(h.mem[i - 1]) THEN h.mem[i - 1] ELSE i
           end   == IF ~is_occupied(h.mem[e + 1]) THEN h.mem[e + 1] ELSE e
<1>1. /\ i \in Nat /\ e \in Nat /\ i <= e /\ e < h.last /\ h.last \in Nat /\ w \in Nat
      /\ h.mem \in [Index -> Nat] /\ e + 1 \in h.slabs \cup {h.last}
  BY SlabFacts, HeapParts, TagFacts, Zenon
<1>2. start \in Nat /\ start <= i
  <2>1. CASE i # 0 /\ ~is_occupied(h.mem[i - 1])
    <3>1. h.mem[i - 1] = Untag(h.mem[i - 1])
      BY <2>1, Zenon DEF Untag
    <3>2. Untag(h.mem[i - 1]) \in Nat /\ Untag(h.mem[i - 1]) < i
      BY <2>1, <1>1, HeapParts DEF WellFormed, Tiles
    <3> QED BY <2>1, <3>1, <3>2, <1>1
  <2> QED BY <2>1, <1>1
<1>3. end \in Nat /\ end < h.last
  <2>1. CASE ~is_occupied(h.mem[e + 1])
    <3>1. e + 1 # h.last
      BY <2>1, TagFacts, Zenon DEF WellFormed
    <3>2. e + 1 \in h.slabs
      BY <1>1, <3>1, Zenon
    <3>3. End(h, e + 1) \in Nat /\ End(h, e + 1) < h.last
      BY <3>2, SlabFacts, Zenon
    <3> QED BY <2>1, <3>3, Zenon DEF End, Untag
  <2> QED BY <2>1, <1>1, Zenon
<1>4. Merged(h, i, e).mem = MarkFree(h.mem, start, end)
  BY Zenon DEF Merged, Heaps
<1> HIDE DEF e, start, end
<1>5. MarkFree(h.mem, start, end)[w] = h.mem[w]
  BY <1>1, <1>2, <1>3 DEF MarkFree
<1> QED BY <1>4, <1>5, Zenon DEF e

(* The tail of dandelion_alloc hands out one block and leaves the words of *)
(* the others alone.                                                       *)
LEMMA PlaceKeeps ==
  ASSUME NEW h, NEW root, NEW base, Sound(h, root, base, live, foreign),
         NEW start \in h.slabs, IsFree(h, start),
         NEW sz \in Nat, sz > 0, NEW al \in Nat, al > 0, Place(h, start, sz, al)
  PROVE  \/ status' = "fatal"
         \/ /\ status' = "running" /\ \E a : live' = live \cup {a}
            /\ \A w \in UNION BlocksOf(live, foreign) : heap'.mem[w] = h.mem[w]
<1> DEFINE skip == Rounding(start, al)
           g    == Carved(Skipped(h, start, skip), start + skip, h.mem[start], sz)
<1>1. h \in Heaps /\ WellFormed(h) /\ Coalesced(h) /\ SoundLive(h, live)
      /\ h.fences \subseteq h.slabs /\ (\A s \in h.fences : ~IsFree(h, s))
  BY Zenon DEF Sound, SoundSlabs
<1>2. start \in Nat /\ skip \in Nat /\ h.mem[start] \in Nat /\ h.mem[start] < h.last
  <2>1. start \in Nat /\ End(h, start) \in Nat /\ End(h, start) < h.last
    BY <1>1, SlabFacts, Zenon
  <2>2. h.mem[start] = End(h, start)
    BY Zenon DEF End, Untag, IsFree
  <2> QED BY <2>1, <2>2, RoundingFacts, Zenon
<1> HIDE DEF skip
<1>3. CASE ~TooSmall(h, start, sz, al)
  <2>1. status' = "running" /\ heap' = g /\ \E a : live' = live \cup {a}
    BY <1>3, Zenon DEF Place, skip
  <2>2. start + skip + sz + 1 <= h.mem[start]
    BY <1>2, <1>3 DEF TooSmall, skip
  <2>3. \A s \in h.slabs : ~IsFree(h, s) => Keeps(h, g, s)
    BY <1>1, <1>2, <2>2, PlacedHeap, Zenon
  <2>4. h.last \in Nat /\ \A w \in Index : w \in Nat
    BY <1>1, HeapParts, TagFacts, Zenon
  <2>5. \A w \in Index : h.last < w => g.mem[w] = h.mem[w]
    <3> SUFFICES ASSUME NEW w \in Index, h.last < w PROVE g.mem[w] = h.mem[w]
      BY Zenon
    <3>1. h.mem[start] < w
      BY <1>2, <2>4
    <3>2. SameWord(g, h, w)
      BY <3>1, <1>1, <1>2, <2>2, PlacedBehind, Zenon
    <3> QED BY <3>2, Zenon DEF SameWord
  <2> HIDE DEF g
  <2>6. (\A a \in live : Keeps(h, g, a.ptr - 1)) /\ (\A s \in h.fences : Keeps(h, g, s))
    BY <1>1, <2>3, Zenon DEF SoundLive
  <2>7. \A w \in UNION BlocksOf(live, foreign) : g.mem[w] = h.mem[w]
    BY <2>5, <2>6, WordsKept, SMTT(30)
  <2> QED BY <2>1, <2>7, Zenon
<1> QED BY <1>3, Zenon DEF Place

(* So does all of dandelion_alloc, whether or not it asks sbrk for more.   *)
LEMMA AllocKeeps ==
  ASSUME NEW h, NEW root, NEW base, Sound(h, root, base, live, foreign),
         NEW sz \in Nat, sz > 0, NEW al \in Nat, al > 0,
         status \in {"boot", "running"}, AllocIn(h, root, base, sz, al)
  PROVE  \/ status' \in Stopped
         \/ /\ status' = "running" /\ (live' = live \/ \E a : live' = live \cup {a})
            /\ \A w \in UNION BlocksOf(live, foreign) : heap'.mem[w] = h.mem[w]
<1> DEFINE need  == get_sbrk_size(sz, al)
           first == IndexOf(base, root)
<1>1. CASE \E s \in h.slabs : IsSmallest(h, s, sz, al) /\ Place(h, s, sz, al)
  <2>1. PICK s \in h.slabs : IsSmallest(h, s, sz, al) /\ Place(h, s, sz, al)
    BY <1>1, Zenon
  <2>2. IsFree(h, s)
    BY <2>1, Zenon DEF IsSmallest, Fitting
  <2> QED BY <2>1, <2>2, PlaceKeeps, Zenon DEF Stopped
<1>2. CASE heap' = h /\ live' = live /\ status' = IF status = "boot" THEN "oom" ELSE status
  BY <1>2, Zenon DEF Stopped
<1>3. CASE /\ ~SbrkFails(base, need)
           /\ Place(Grown(h, first, need \div Word), GrowStart(h, first), sz, al)
  <2> DEFINE n     == need \div Word
             g     == Grown(h, first, n)
             start == GrowStart(h, first)
  <2>1. /\ Sound(g, root, base + need, live, foreign)
        /\ start \in g.slabs /\ IsFree(g, start)
        /\ \A s \in h.slabs : ~IsFree(h, s) => Keeps(h, g, s)
    BY <1>3, GrowSound, Zenon
  <2>2. Place(g, start, sz, al)
    BY <1>3, Zenon
  <2>3. /\ h \in Heaps /\ SoundLive(h, live)
        /\ h.fences \subseteq h.slabs /\ (\A s \in h.fences : ~IsFree(h, s))
        /\ first \in Index /\ h.last < first
    BY Zenon DEF Sound, SoundSlabs, SoundBase
  <2>4. first \in Nat /\ first >= h.last + 1
    BY <2>3, HeapParts, TagFacts
  <2>5. n \in Nat /\ n >= 4
    BY SbrkSizeFacts DEF Word
  <2> HIDE DEF n, first, start
  <2>6. \A w \in Index : h.last < w /\ w < first => g.mem[w] = h.mem[w]
    BY <2>3, <2>4, <2>5, GrownBehind, Zenon
  <2> HIDE DEF g
  <2>7. (\A a \in live : Keeps(h, g, a.ptr - 1)) /\ (\A s \in h.fences : Keeps(h, g, s))
    BY <2>1, <2>3, Zenon DEF SoundLive
  <2>8. \A w \in UNION BlocksOf(live, foreign) : g.mem[w] = h.mem[w]
    BY <2>6, <2>7, WordsKept, SMTT(30) DEF first
  <2>9. \/ status' = "fatal"
        \/ /\ status' = "running" /\ \E a : live' = live \cup {a}
           /\ \A w \in UNION BlocksOf(live, foreign) : heap'.mem[w] = g.mem[w]
    BY <2>1, <2>2, PlaceKeeps, Zenon
  <2> QED BY <2>8, <2>9, Zenon DEF Stopped
<1> QED BY <1>1, <1>2, <1>3, Zenon DEF AllocIn

(* Two different blocks are disjoint, whoever owns them.                   *)
LEMMA BlocksDisjoint ==
  ASSUME NEW h, NEW root, NEW base, NEW lv, NEW fo, Sound(h, root, base, lv, fo)
  PROVE  /\ \A x \in BlocksOf(lv, fo) : x # {} /\ x \subseteq Index
         /\ \A x, y \in BlocksOf(lv, fo) : x # y => x \cap y = {}
<1>1. /\ \A a \in lv : Payload(a) # {} /\ Payload(a) \subseteq Index
      /\ \A f \in fo : Region(f) # {} /\ Region(f) \subseteq Index
      /\ \A a, b \in lv : a # b => Payload(a) \cap Payload(b) = {}
      /\ \A f, e \in fo : f # e => Region(f) \cap Region(e) = {}
      /\ \A a \in lv, f \in fo : Payload(a) \cap Region(f) = {}
  BY BlocksApart, Zenon
<1>2. \A x \in BlocksOf(lv, fo) : (\E a \in lv : x = Payload(a)) \/ (\E f \in fo : x = Region(f))
  BY Zenon DEF BlocksOf
<1>3. \A a \in lv, f \in fo : Region(f) \cap Payload(a) = {}
  BY <1>1, Zenon
<1>4. ASSUME NEW x \in BlocksOf(lv, fo), NEW y \in BlocksOf(lv, fo), x # y
      PROVE  x # {} /\ x \subseteq Index /\ x \cap y = {}
  <2>1. CASE \E a \in lv : x = Payload(a)
    BY <1>1, <1>2, <1>4, <2>1, Zenon
  <2>2. CASE \E f \in fo : x = Region(f)
    BY <1>1, <1>2, <1>3, <1>4, <2>2, Zenon
  <2> QED BY <1>2, <2>1, <2>2, Zenon
<1> QED BY <1>1, <1>2, <1>4

(* The four kinds of steps of the service.                                 *)
LEMMA StopServes ==
  ASSUME status' \in Stopped
  PROVE  Memory!Next
<1>1. Blocks' = {}
  BY Zenon DEF Blocks
<1> QED BY <1>1, Zenon DEF Memory!Next, Memory!Stop

(* A step that changes no block and no word in one changes nothing for     *)
(* clients.                                                                *)
LEMMA SameServes ==
  ASSUME Blocks' = Blocks, \A w \in UNION Blocks : heap'.mem[w] = heap.mem[w]
  PROVE  UNCHANGED Memory!svars
BY Zenon DEF Memory!svars

(* A new block that shares no word with another one is an allocation of    *)
(* MemoryService.                                                          *)
LEMMA AcquireServes ==
  ASSUME NEW b, Blocks' = Blocks \cup {b}, b # {}, b \subseteq Index, b \cap UNION Blocks = {},
         heap' \in Heaps, UNION Blocks \subseteq Index,
         \A w \in UNION Blocks : heap'.mem[w] = heap.mem[w]
  PROVE  Memory!Next
<1> DEFINE U == UNION Blocks
           new == [i \in U \cup b |-> heap'.mem[i]]
<1>1. (UNION Blocks)' = U \cup b
  BY Zenon
<1>2. [i \in UNION Blocks |-> heap.mem[i]]' = new
  BY <1>1, Zenon
<1>3. heap'.mem \in [Index -> 0 .. MAX_VAL]
  BY Zenon DEF Heaps
<1>4. new \in [U \cup b -> 0 .. MAX_VAL]
  BY <1>3, Zenon
<1>5. \A w \in U : new[w] = [i \in U |-> heap.mem[i]][w]
  BY Zenon
<1>6. Memory!Acquire(b)
  BY <1>2, <1>4, <1>5, Zenon DEF Memory!Acquire, Memory!InUse
<1>7. b \in Blocks'
  BY Zenon
<1> QED BY <1>6, <1>7, Zenon DEF Memory!Next

(* A block that goes, while the words of the others stay, is a             *)
(* deallocation of MemoryService.                                          *)
LEMMA ReleaseServes ==
  ASSUME NEW b \in Blocks, Blocks' = Blocks \ {b},
         \A x, y \in Blocks : x # y => x \cap y = {},
         \A w \in UNION (Blocks \ {b}) : heap'.mem[w] = heap.mem[w]
  PROVE  Memory!Next
<1>1. UNION (Blocks \ {b}) = (UNION Blocks) \ b
  BY Zenon
<1>2. [i \in UNION Blocks |-> heap.mem[i]]' = [i \in UNION (Blocks \ {b}) |-> heap'.mem[i]]
  BY Zenon
<1>3. @ = [i \in (UNION Blocks) \ b |-> [j \in UNION Blocks |-> heap.mem[j]][i]]
  BY <1>1, Zenon
<1>4. Memory!Release(b)
  BY <1>2, <1>3, Zenon DEF Memory!Release, Memory!InUse
<1> QED BY <1>4, Zenon DEF Memory!Next

(* A store of a client into its block is a store of MemoryService.         *)
LEMMA WriteServes ==
  ASSUME NEW b \in Blocks, NEW v \in Values, UNION Blocks \subseteq Index, heap \in Heaps,
         Store(b, v)
  PROVE  Memory!Next
<1>1. Blocks' = Blocks /\ heap' = Stored(heap, b, v)
  BY Zenon DEF Store, Blocks
<1>2. \A w \in UNION Blocks : heap'.mem[w] = IF w \in b THEN v ELSE heap.mem[w]
  BY <1>1, Zenon DEF Stored, Heaps
<1>3. [i \in UNION Blocks |-> heap.mem[i]]'
        = [w \in UNION Blocks |-> IF w \in b THEN v ELSE [i \in UNION Blocks |-> heap.mem[i]][w]]
  BY <1>1, <1>2, Zenon
<1>4. Memory!Write(b, v)
  BY <1>1, <1>3, Zenon DEF Memory!Write, Memory!InUse
<1>5. v \in 0 .. MAX_VAL
  BY RequestAssumption, Zenon
<1> QED BY <1>4, <1>5, Zenon DEF Memory!Next

(* A step that at most adds a block.                                       *)
LEMMA GrowthServes ==
  ASSUME status \notin Stopped, status' \notin Stopped,
         NEW root, NEW base, Sound(heap', root, base, live', foreign'),
         NEW b, BlocksOf(live, foreign)' = BlocksOf(live, foreign) \cup {b},
         \A w \in UNION BlocksOf(live, foreign) : heap'.mem[w] = heap.mem[w]
  PROVE  [Memory!Next]_(Memory!svars)
<1>1. Blocks = BlocksOf(live, foreign) /\ Blocks' = Blocks \cup {b}
  BY Zenon DEF Blocks, BlocksOf
<1>2. CASE b \in Blocks
  <2>1. Blocks' = Blocks
    BY <1>1, <1>2, Zenon
  <2> QED BY <1>1, <2>1, SameServes, Zenon
<1>3. CASE b \notin Blocks
  <2>1. BlocksOf(live', foreign') = Blocks \cup {b}
    BY <1>1, Zenon DEF BlocksOf
  <2>2. /\ \A x \in Blocks \cup {b} : x # {} /\ x \subseteq Index
        /\ \A x, y \in Blocks \cup {b} : x # y => x \cap y = {}
    BY <2>1, BlocksDisjoint
  <2>3. b \cap UNION Blocks = {}
    BY <2>2, <1>3
  <2>4. b # {} /\ b \subseteq Index /\ UNION Blocks \subseteq Index
    BY <2>2, Zenon
  <2>5. heap' \in Heaps
    BY Zenon DEF Sound, SoundSlabs
  <2> QED BY <1>1, <2>3, <2>4, <2>5, AcquireServes, Zenon
<1> QED BY <1>2, <1>3, Zenon

-----------------------------------------------------------------------------
(* The steps of the model.                                                 *)

(* Before the heap exists nothing is in use.                               *)
LEMMA NothingYet ==
  ASSUME IInv, status \in {"boot", "running"}, free_root = NULL
  PROVE  live = {} /\ foreign = {} /\ UNION BlocksOf(live, foreign) = {}
BY Zenon DEF IInv, BlocksOf

(* An allocation.                                                          *)
LEMMA AllocServes ==
  ASSUME IInv, status \in {"boot", "running"},
         NEW sz \in Nat, sz > 0, NEW al \in Nat, al > 0,
         \A i \in Index : i + al <= Flag, AllocWords(sz, al)
  PROVE  [Memory!Next]_(Memory!svars)
<1> DEFINE need == get_sbrk_size(sz, al)
<1>0. TypeOK /\ foreign' = foreign /\ status \notin Stopped
  BY Zenon DEF IInv, AllocWords, Stopped
<1>1. CASE status' \in Stopped
  BY <1>1, StopServes, Zenon
<1>2. ASSUME NEW h, NEW root, NEW base, Sound(h, root, base, live, foreign),
             AllocIn(h, root, base, sz, al), status' \notin Stopped,
             \A w \in UNION BlocksOf(live, foreign) : h.mem[w] = heap.mem[w]
      PROVE  [Memory!Next]_(Memory!svars)
  <2>1. /\ status' = "running" /\ (live' = live \/ \E a : live' = live \cup {a})
        /\ \A w \in UNION BlocksOf(live, foreign) : heap'.mem[w] = h.mem[w]
    BY <1>2, AllocKeeps, Zenon
  <2>2. \A w \in UNION BlocksOf(live, foreign) : heap'.mem[w] = heap.mem[w]
    BY <2>1, <1>2, Zenon
  <2>3. Sound(heap', root, alloc_base', live', foreign')
    <3>1. \/ status' \in {"oom", "fatal"}
          \/ Sound(heap', root, alloc_base', live', foreign)
      BY <1>2, AllocInSound, Zenon
    <3> QED BY <3>1, <2>1, <1>0, Zenon
  <2>4. CASE live' = live
    <3>1. Blocks' = Blocks /\ Blocks = BlocksOf(live, foreign)
      BY <2>1, <2>4, <1>0, Zenon DEF Blocks, BlocksOf, Stopped
    <3> QED BY <3>1, <2>2, SameServes, Zenon
  <2>5. ASSUME NEW a, live' = live \cup {a} PROVE [Memory!Next]_(Memory!svars)
    <3>1. BlocksOf(live, foreign)' = BlocksOf(live, foreign) \cup {Payload(a)}
      BY <2>5, <1>0, Zenon DEF BlocksOf, Payload
    <3> QED BY <3>1, <2>2, <2>3, <1>0, <1>2, GrowthServes, Zenon
  <2> QED BY <2>1, <2>4, <2>5, Zenon
<1>3. CASE status' \notin Stopped /\ free_root = NULL /\ alloc_base' = Base /\ UNCHANGED <<free_root, heap, live>>
  <2>1. Blocks' = Blocks
    BY <1>0, <1>3, Zenon DEF Blocks
  <2> QED BY <2>1, <1>3, SameServes, Zenon
<1>4. CASE /\ status' \notin Stopped /\ free_root = NULL /\ ~SbrkFails(Base, need)
           /\ AllocIn(FirstHeap(heap, need \div Word), Base, Base + need, sz, al)
  <2>1. heap \in Heaps /\ live = {} /\ foreign = {} /\ UNION BlocksOf(live, foreign) = {}
    BY <1>0, <1>4, NothingYet, Zenon DEF TypeOK
  <2>2. Base \in Nat /\ Base >= HeapBegin
    <3>1. HeapBegin \in Nat /\ HeapBegin > 0
      BY HeapAssumption, Zenon
    <3>2. RoundUp(HeapBegin) \in Nat /\ RoundUp(HeapBegin) >= HeapBegin
      BY <3>1, RoundUpFacts, Zenon
    <3>3. alloc_base # 0 => alloc_base >= HeapBegin
      BY Zenon DEF IInv
    <3> QED BY <3>1, <3>2, <3>3, <1>0, Zenon DEF Base, TypeOK
  <2>3. Sound(FirstHeap(heap, need \div Word), Base, Base + need, live, foreign)
    BY <2>1, <2>2, <1>4, FirstSound, Zenon
  <2> QED BY <2>1, <2>3, <1>2, <1>4, Zenon
<1>5. CASE /\ status' \notin Stopped /\ free_root # NULL
           /\ AllocIn(heap, free_root, alloc_base, sz, al)
  <2>1. Sound(heap, free_root, alloc_base, live, foreign)
    BY <1>5, Zenon DEF IInv
  <2> QED BY <2>1, <1>2, <1>5, Zenon
<1> QED BY <1>1, <1>3, <1>4, <1>5, Zenon DEF AllocWords

(* Freeing a block.                                                        *)
LEMMA FreeServes ==
  ASSUME IInv, NEW a \in live, dandelion_free(a)
  PROVE  Memory!Next
<1> DEFINE i == a.ptr - 1
           g == Merged(heap, i, End(heap, i))
           p == Payload(a)
<1>1. Sound(heap, free_root, alloc_base, live, foreign) /\ status = "running"
  BY Zenon DEF IInv, dandelion_free
<1>2. /\ heap \in Heaps /\ WellFormed(heap) /\ Coalesced(heap) /\ SoundLive(heap, live)
      /\ heap.fences \subseteq heap.slabs /\ (\A s \in heap.fences : ~IsFree(heap, s))
  BY <1>1, Zenon DEF Sound, SoundSlabs
<1>3. i \in heap.slabs \ heap.fences /\ ~IsFree(heap, i) /\ \A b \in live : b.ptr \in Nat
  BY <1>2, TagFacts, Zenon DEF SoundLive
<1>4. status' = "running" /\ live' = live \ {a} /\ foreign' = foreign
  BY <1>1, FreeSound, Zenon DEF dandelion_free
<1>5. heap' = g
  <2>1. Untag(heap.mem[End(heap, i)]) = i /\ ~IsFree(heap, End(heap, i))
    BY <1>2, <1>3, SlabFacts, Zenon
  <2> QED BY <2>1, <1>3, Zenon DEF dandelion_free
<1>6. /\ \A s \in heap.slabs : ~IsFree(heap, s) /\ s # i => Keeps(heap, g, s)
      /\ \A w \in Index : heap.last < w => g.mem[w] = heap.mem[w]
  <2>1. \A s \in heap.slabs : ~IsFree(heap, s) /\ s # i => Keeps(heap, g, s)
    BY <1>2, <1>3, MergedHeap, Zenon
  <2>2. \A w \in Index : heap.last < w => g.mem[w] = heap.mem[w]
    BY <1>2, <1>3, MergedBehind, Zenon
  <2> QED BY <2>1, <2>2, Zenon
<1>7. \A b \in live \ {a} : Keeps(heap, g, b.ptr - 1)
  <2> HIDE DEF g
  <2> QED BY <1>2, <1>3, <1>6 DEF SoundLive
<1>8. \A s \in heap.fences : Keeps(heap, g, s)
  <2> HIDE DEF g
  <2> QED BY <1>2, <1>3, <1>6, Zenon
<1> HIDE DEF g, i
<1>9. \A w \in UNION BlocksOf(live \ {a}, foreign) : g.mem[w] = heap.mem[w]
  <2>1. ASSUME NEW b \in live \ {a}, NEW w \in Payload(b) PROVE g.mem[w] = heap.mem[w]
    BY <2>1, <1>1, <1>7, WhereWordsAre, Zenon DEF Keeps
  <2>2. ASSUME NEW f \in foreign, NEW w \in Region(f) PROVE g.mem[w] = heap.mem[w]
    <3>1. w \in Index /\ (heap.last < w \/ \E s \in heap.fences : w \in s + 1 .. End(heap, s) - 1)
      BY <2>2, <1>1, WhereWordsAre, Zenon
    <3> QED BY <3>1, <1>6, <1>8, Zenon DEF Keeps
  <2> QED BY <2>1, <2>2, Zenon DEF BlocksOf
<1>10. /\ \A b \in live : Payload(b) # {}
       /\ \A b \in live : b # a => Payload(b) \cap p = {}
       /\ \A f \in foreign : p \cap Region(f) = {}
  BY <1>1, BlocksApart, Zenon
<1>11. BlocksOf(live \ {a}, foreign) = BlocksOf(live, foreign) \ {p} /\ p \in BlocksOf(live, foreign)
  <2> HIDE DEF p
  <2>1. p = Payload(a)
    BY Zenon DEF p
  <2>2. (\A b \in live \ {a} : Payload(b) # p) /\ (\A f \in foreign : Region(f) # p)
    BY <2>1, <1>10, Zenon
  <2> QED BY <2>1, <2>2, Zenon DEF BlocksOf
<1>12. Blocks = BlocksOf(live, foreign) /\ Blocks' = BlocksOf(live \ {a}, foreign)
  BY <1>1, <1>4, Zenon DEF Blocks, BlocksOf, Stopped
<1>13. \A x, y \in Blocks : x # y => x \cap y = {}
  <2>1. \A x, y \in BlocksOf(live, foreign) : x # y => x \cap y = {}
    BY <1>1, BlocksDisjoint, Zenon
  <2> QED BY <2>1, <1>12, Zenon
<1> HIDE DEF p
<1> QED BY <1>5, <1>9, <1>11, <1>12, <1>13, ReleaseServes, Zenon

(* sbrk for another caller, and what it gives back.                        *)
LEMMA SbrkServes ==
  ASSUME IInv, IInv', NEW size \in SbrkSizes, dandelion_sbrk(size)
  PROVE  [Memory!Next]_(Memory!svars)
<1>1. status = "running" /\ UNCHANGED <<free_root, heap, live, status>> /\ status \notin Stopped
  BY Zenon DEF dandelion_sbrk, Stopped
<1>2. CASE foreign' = foreign
  <2>1. Blocks' = Blocks
    BY <1>1, <1>2, Zenon DEF Blocks
  <2> QED BY <1>1, <2>1, SameServes, Zenon
<1>3. ASSUME NEW f, foreign' = foreign \cup {f}, free_root # NULL
      PROVE  [Memory!Next]_(Memory!svars)
  <2>1. Sound(heap', free_root', alloc_base', live', foreign')
    BY <1>1, <1>3, Zenon DEF IInv, Sound
  <2>2. BlocksOf(live, foreign)' = BlocksOf(live, foreign) \cup {Region(f)}
    BY <1>1, <1>3, Zenon DEF BlocksOf, Region
  <2> QED BY <1>1, <2>1, <2>2, GrowthServes, Zenon
<1> QED BY <1>2, <1>3, Zenon DEF dandelion_sbrk

(* A release of memory by another caller of sbrk serves MemoryService.     *)
LEMMA SbrkReleaseServes ==
  ASSUME IInv, NEW f \in foreign, SbrkRelease(f)
  PROVE  Memory!Next
<1> DEFINE r == Region(f)
<1>1. /\ Sound(heap, free_root, alloc_base, live, foreign)
      /\ UNCHANGED <<heap, live, status>> /\ status \notin Stopped /\ foreign' = foreign \ {f}
  BY Zenon DEF IInv, SbrkRelease, Stopped
<1>2. /\ \A e \in foreign : Region(e) # {}
      /\ \A e \in foreign : e # f => Region(e) \cap r = {}
      /\ \A a \in live : Payload(a) \cap r = {}
  BY <1>1, BlocksApart, Zenon
<1>3. BlocksOf(live, foreign \ {f}) = BlocksOf(live, foreign) \ {r} /\ r \in BlocksOf(live, foreign)
  <2> HIDE DEF r
  <2>1. r = Region(f)
    BY Zenon DEF r
  <2>2. (\A e \in foreign \ {f} : Region(e) # r) /\ (\A a \in live : Payload(a) # r)
    BY <2>1, <1>2, Zenon
  <2> QED BY <2>1, <2>2, Zenon DEF BlocksOf
<1>4. Blocks = BlocksOf(live, foreign) /\ Blocks' = BlocksOf(live, foreign \ {f})
  BY <1>1, Zenon DEF Blocks, BlocksOf
<1>5. \A x, y \in BlocksOf(live, foreign) : x # y => x \cap y = {}
  BY <1>1, BlocksDisjoint, Zenon
<1> HIDE DEF r
<1> QED BY <1>1, <1>3, <1>4, <1>5, ReleaseServes, Zenon

(* A store of an owner.                                                    *)
LEMMA StoreServes ==
  ASSUME IInv, NEW b \in BlocksOf(live, foreign), NEW v \in Values, Store(b, v)
  PROVE  Memory!Next
<1>1. status = "running"
  BY Zenon DEF Store
<1>2. free_root # NULL
  BY <1>1, NothingYet, Zenon DEF BlocksOf
<1>3. Sound(heap, free_root, alloc_base, live, foreign)
  BY <1>1, <1>2, Zenon DEF IInv
<1>4. heap \in Heaps /\ Blocks = BlocksOf(live, foreign)
  BY <1>1, <1>3, Zenon DEF Sound, SoundSlabs, Blocks, BlocksOf, Stopped
<1>5. \A x \in BlocksOf(live, foreign) : x \subseteq Index
  BY <1>3, BlocksDisjoint, Zenon
<1>6. UNION Blocks \subseteq Index
  BY <1>4, <1>5, Zenon
<1> QED BY <1>4, <1>6, WriteServes, Zenon

(* The initial states map to initial states of MemoryService.              *)
LEMMA InitServes == Init => Memory!Init
<1> SUFFICES ASSUME Init PROVE Memory!Init
  BY Zenon
<1>1. Blocks = {}
  BY Zenon DEF Init, Blocks
<1> QED BY <1>1, Zenon DEF Memory!Init

(* Every step maps to a step of MemoryService or changes nothing for       *)
(* clients.                                                                *)
LEMMA StepServes == IInv /\ IInv' /\ [Next]_vars => [Memory!Next]_(Memory!svars)
<1> SUFFICES ASSUME IInv, IInv', [Next]_vars PROVE [Memory!Next]_(Memory!svars)
  BY Zenon
<1>1. CASE AllocInputSets
  <2>1. CASE BootSize = 0
    <3>1. Blocks' = Blocks /\ heap' = heap
      BY <1>1, <2>1, Zenon DEF AllocInputSets, Blocks, Stopped
    <3> QED BY <3>1, SameServes, Zenon
  <2>2. CASE BootSize # 0
    <3>1. LocalSize(BootSize) \in Nat /\ LocalSize(BootSize) > 0
      BY <2>2, RequestAssumption, RequestFacts
    <3>2. \A i \in Index : i + 1 <= Flag
      BY TagFacts
    <3> QED BY <1>1, <2>2, <3>1, <3>2, AllocServes DEF AllocInputSets
  <2> QED BY <2>1, <2>2, Zenon
<1>2. ASSUME NEW size \in Sizes, NEW alignment \in Alignments, dandelion_alloc(size, alignment)
      PROVE  [Memory!Next]_(Memory!svars)
  <2>1. size \in Nat /\ size > 0 /\ alignment \in Nat /\ alignment < Flag
    BY RequestAssumption, HeapAssumption
  <2> QED BY <1>2, <2>1, RequestFacts, AllocServes, Zenon DEF dandelion_alloc
<1>3. ASSUME NEW a \in live, dandelion_free(a) PROVE Memory!Next
  BY <1>3, FreeServes, Zenon
<1>4. ASSUME NEW size \in SbrkSizes, dandelion_sbrk(size) PROVE [Memory!Next]_(Memory!svars)
  BY <1>4, SbrkServes, Zenon
<1>5. ASSUME NEW f \in foreign, SbrkRelease(f) PROVE Memory!Next
  BY <1>5, SbrkReleaseServes, Zenon
<1>6. ASSUME NEW a \in live, NEW v \in Values, Store(Payload(a), v) PROVE Memory!Next
  <2>1. Payload(a) \in BlocksOf(live, foreign)
    BY Zenon DEF BlocksOf
  <2> QED BY <1>6, <2>1, StoreServes, Zenon
<1>7. ASSUME NEW f \in foreign, NEW v \in Values, Store(Region(f), v) PROVE Memory!Next
  <2>1. Region(f) \in BlocksOf(live, foreign)
    BY Zenon DEF BlocksOf
  <2> QED BY <1>7, <2>1, StoreServes, Zenon
<1>8. CASE UNCHANGED vars
  <2>1. Blocks' = Blocks /\ heap' = heap
    BY <1>8, Zenon DEF Blocks, vars
  <2> QED BY <2>1, SameServes, Zenon
<1> QED BY <1>1, <1>2, <1>3, <1>4, <1>5, <1>6, <1>7, <1>8, Zenon DEF Next

(* The allocator and sbrk implement MemoryService: the blocks they hand    *)
(* out are disjoint, and no word of a block in use changes unless its      *)
(* owner stores there, whatever is allocated, freed, fenced in or merged   *)
(* around it.                                                              *)
THEOREM MemoryServed == Spec => ServesMemory
BY InitServes, Invariance, StepServes, PTL DEF Spec, ServesMemory, Memory!Spec
=============================================================================
