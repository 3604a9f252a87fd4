-------------------------------- MODULE Heap --------------------------------
(***************************************************************************)
(* The memory allocator of the runtime: dandelion_sbrk, dandelion_alloc    *)
(* and dandelion_free of src/runtime/runtime.c.                            *)
(*                                                                         *)
(* dandelion_alloc manages the words that follow free_root.  They are cut  *)
(* into slabs; the first and the last word of a slab are its descriptors   *)
(* (boundary tags): each holds the index of the other one and an occupied  *)
(* flag.  The word at last_descriptor holds MAX_VAL and ends the walk over *)
(* the slabs.  newlib's malloc calls dandelion_sbrk directly, so memory    *)
(* of another owner (foreign) can lie between two parts of the heap; the   *)
(* allocator then covers it by an occupied slab, here called a fence.      *)
(*                                                                         *)
(* Indices count words from free_root, as in the code; addresses are in    *)
(* bytes.  The words keep whatever was last written to them: stale tags    *)
(* stay in memory, and a client may store any value in the words it owns.  *)
(***************************************************************************)
EXTENDS Integers, FiniteSets

CONSTANTS
  PageSize,    \* system_page_size, the unit dandelion_alloc asks sbrk for
  HeapBegin,   \* sysdata.heap_begin
  HeapEnd,     \* sysdata.heap_end
  Flag,        \* OCCUPIED_FLAG, the highest bit of a size_t
  BootSize,    \* bytes of rtdata.input_sets, which dandelion_init allocates
  Sizes,       \* sizes a client passes to dandelion_alloc
  Alignments,  \* alignments a client passes to dandelion_alloc
  SbrkSizes,   \* increments another client passes to sbrk
  Values       \* what a client may store in a word it owns

Word == 8      \* sizeof(size_t) = sizeof(void *)

NULL == 0

MAX_VAL == 2 * Flag - 1

(* Words the heap can have; one more, as sbrk rounds its end up.           *)
Index == 0 .. ((HeapEnd - HeapBegin) \div Word + 1)

ASSUME PageAssumption == PageSize \in Nat /\ PageSize > 0 /\ PageSize % Word = 0

ASSUME HeapAssumption ==
  /\ HeapBegin \in Nat /\ HeapBegin > 0
  /\ HeapEnd \in Nat /\ HeapBegin <= HeapEnd
  /\ Flag \in Nat /\ Flag > HeapEnd

ASSUME RequestAssumption ==
  /\ BootSize \in Nat /\ BootSize < Flag
  /\ Sizes \subseteq 1 .. Flag - 1
  /\ Alignments \subseteq 0 .. Flag - 1
  /\ SbrkSizes \subseteq 1 .. Flag - 1
  /\ Values \subseteq 0 .. MAX_VAL /\ Values # {}

VARIABLES
  alloc_base,  \* current lower end of sbrk, 0 before the first call
  free_root,   \* address of the first managed word, NULL before the first
  heap,        \* the managed words and what is known about them, see Heaps
  live,        \* allocations handed out and not yet freed
  foreign,     \* words [lo, hi) of other sbrk callers, above free_root
  status       \* "boot", "running" or why the program has stopped

vars == <<alloc_base, free_root, heap, live, foreign, status>>

(* mem is the array free_root[], last the code's last_descriptor.  slabs   *)
(* and fences are auxiliary: the index of the first descriptor of every    *)
(* slab, and of every slab that covers memory of another sbrk caller.      *)
Heaps == [mem: [Index -> 0 .. MAX_VAL], last: Index,
          slabs: SUBSET Index, fences: SUBSET Index]

Stopped == {"oom", "fatal", "free_unoccupied", "overlap"}

TypeOK ==
  /\ alloc_base \in Nat
  /\ free_root \in Nat
  /\ heap \in Heaps
  /\ live \subseteq [ptr: Index, len: Nat, al: Nat]
  /\ foreign \subseteq [lo: Index, hi: Index]
  /\ status \in {"boot", "running"} \cup Stopped

-----------------------------------------------------------------------------
(* Descriptors.                                                            *)

is_occupied(tag) == tag >= Flag

(* tag & ~OCCUPIED_FLAG                                                    *)
Untag(tag) == IF is_occupied(tag) THEN tag - Flag ELSE tag

(* Faulty: the last descriptor of a free slab is not updated.              *)
MarkFree_Half(mem, s, e) == [mem EXCEPT ![s] = e]

(* Faulty: the last descriptor of an occupied slab lacks the flag.         *)
MarkOccupied_Half(mem, s, e) == [mem EXCEPT ![s] = e + Flag, ![e] = s]

(* The tags of a free and of an occupied slab s..e.                        *)
MarkFree(mem, s, e) == [mem EXCEPT ![s] = e, ![e] = s]
MarkOccupied(mem, s, e) == [mem EXCEPT ![s] = e + Flag, ![e] = s + Flag]

End(h, s) == Untag(h.mem[s])
IsFree(h, s) == ~is_occupied(h.mem[s])

(* Unsigned subtraction of two size_t.                                     *)
Minus(x, y) == IF x >= y THEN x - y ELSE x - y + MAX_VAL + 1

-----------------------------------------------------------------------------
(* dandelion_sbrk.                                                         *)

RoundUp(n) == IF n % Word = 0 THEN n ELSE n + (Word - (n % Word))

(* alloc_base once it is initialised.                                      *)
Base == IF alloc_base = 0 THEN RoundUp(HeapBegin) ELSE alloc_base

SbrkFails(base, size) == base + size > HeapEnd

(* The index of an address.                                                *)
IndexOf(addr, root) == (addr - root) \div Word

-----------------------------------------------------------------------------
(* dandelion_alloc.  sz and al are local_size and local_alignment.         *)

LocalSize(size) == (size + Word - 1) \div Word
LocalAlignment(alignment) ==
  IF alignment = 0 THEN 1 ELSE (alignment + Word - 1) \div Word

get_sbrk_size(sz, al) ==
  ((sz * Word + 4 * Word + al + PageSize - 1) \div PageSize) * PageSize

(* Faulty: the descriptor instead of the word behind it is aligned.        *)
Rounding_Descriptor(i, al) ==
  IF i % al = 0 THEN 0 ELSE al - (i % al)

(* Words left out so that the word after descriptor i is aligned.          *)
Rounding(i, al) ==
  IF (i + 1) % al = 0 THEN 0 ELSE al - ((i + 1) % al)

(* The heap after the first sbrk of n words: one free slab.                *)
FirstHeap(h, n) ==
  [mem    |-> [MarkFree(h.mem, 0, n - 2) EXCEPT ![n - 1] = MAX_VAL],
   last   |-> n - 1,
   slabs  |-> {0},
   fences |-> {}]

(* Faulty: the word of the first descriptor is counted in.                 *)
Potential_WithTag(h, s, al) == Minus(End(h, s), s + Rounding(s, al))

(* potential_size of free slab s, with the wrap-around of size_t.          *)
Potential(h, s, al) == Minus(Minus(End(h, s), s + Rounding(s, al)), 1)

(* The slabs the search loop can settle on.                                *)
Fitting(h, sz, al) ==
  {s \in h.slabs : /\ IsFree(h, s)
                   /\ sz <= Potential(h, s, al)
                   /\ Potential(h, s, al) < MAX_VAL}

(* The loop takes the first of those with the smallest potential_size.     *)
IsSmallest(h, s, sz, al) ==
  /\ s \in Fitting(h, sz, al)
  /\ \A t \in Fitting(h, sz, al) :
       \/ Potential(h, s, al) < Potential(h, t, al)
       \/ Potential(h, s, al) = Potential(h, t, al) /\ s <= t

(* n new words at index first, directly after the sentinel or beyond       *)
(* memory of somebody else.                                                *)
GrowStart(h, first) ==
  CASE first = h.last + 1 /\ ~is_occupied(h.mem[h.last - 1]) -> h.mem[h.last - 1]
    [] first = h.last + 1 /\ is_occupied(h.mem[h.last - 1])  -> h.last
    [] OTHER -> first + 1

(* Faulty: memory between the old and the new words gets no descriptors.   *)
Grown_NoFence(h, first, n) ==
  LET start == GrowStart(h, first)
      last  == first + n - 1
  IN  [mem    |-> [MarkFree(h.mem, start, last - 1) EXCEPT ![last] = MAX_VAL],
       last   |-> last,
       slabs  |-> h.slabs \cup {start},
       fences |-> h.fences]

Grown(h, first, n) ==
  LET start == GrowStart(h, first)
      last  == first + n - 1
      fence == first # h.last + 1
  IN  [mem    |-> [MarkFree(IF fence THEN MarkOccupied(h.mem, h.last, first) ELSE h.mem,
                            start, last - 1) EXCEPT ![last] = MAX_VAL],
       last   |-> last,
       slabs  |-> h.slabs \cup (IF fence THEN {h.last, start} ELSE {start}),
       fences |-> h.fences \cup (IF fence THEN {h.last} ELSE {})]

(* Faulty: a small gap becomes an occupied slab that nobody frees.         *)
Skipped_OwnSlab(h, start, skip) ==
  IF skip = 0 THEN h
  ELSE IF skip < 3
  THEN [h EXCEPT !.mem = MarkOccupied(h.mem, start, start + skip - 1)]
  ELSE [h EXCEPT !.mem = MarkFree(h.mem, start, start + skip - 1)]

(* Faulty: a large gap is not closed by a descriptor.                      *)
Skipped_OpenGap(h, start, skip) ==
  IF skip = 0 THEN h
  ELSE IF skip < 3 /\ start # 0
  THEN [h EXCEPT !.mem = MarkOccupied(h.mem, Untag(h.mem[start - 1]), start + skip - 1),
                 !.slabs = @ \ {start}]
  ELSE [h EXCEPT !.mem = [@ EXCEPT ![start] = start + skip - 1]]

(* The skip words before an aligned slab: given to the occupied slab in    *)
(* front, left as a free slab of one or two words at index 0, or made a    *)
(* free slab.                                                              *)
Skipped(h, start, skip) ==
  IF skip = 0 THEN h
  ELSE IF skip < 3 /\ start # 0
  THEN [h EXCEPT !.mem = MarkOccupied(h.mem, Untag(h.mem[start - 1]), start + skip - 1),
                 !.slabs = @ \ {start}]
  ELSE [h EXCEPT !.mem = MarkFree(h.mem, start, start + skip - 1)]

(* Faulty: no descriptors for the rest of a slab that is split.            *)
Carved_NoRest(h, start, end, sz) ==
  LET fit   == start + sz + 1
      split == end > fit + 2
      stop  == IF split THEN fit ELSE end
  IN  [h EXCEPT
        !.mem = MarkOccupied(h.mem, start, stop),
        !.slabs = @ \cup {start} \cup (IF split THEN {fit + 1} ELSE {})]

(* Faulty: the last descriptor takes a word of the payload.                *)
Carved_Short(h, start, end, sz) ==
  LET fit   == start + sz
      split == end > fit + 2
      stop  == IF split THEN fit ELSE end
  IN  [h EXCEPT
        !.mem = MarkOccupied(IF split THEN MarkFree(h.mem, fit + 1, end) ELSE h.mem,
                             start, stop),
        !.slabs = @ \cup {start} \cup (IF split THEN {fit + 1} ELSE {})]

(* An occupied slab for sz words at start, with the rest of start..end a   *)
(* free slab when it has at least three words.                             *)
Carved(h, start, end, sz) ==
  LET fit   == start + sz + 1
      split == end > fit + 2
      stop  == IF split THEN fit ELSE end
  IN  [h EXCEPT
        !.mem = MarkOccupied(IF split THEN MarkFree(h.mem, fit + 1, end) ELSE h.mem,
                             start, stop),
        !.slabs = @ \cup {start} \cup (IF split THEN {fit + 1} ELSE {})]

TooSmall(h, start, sz, al) ==
  h.mem[start] < start + Rounding(start, al) + sz + 1

(* The tail of dandelion_alloc, once slab start of h has been chosen.      *)
Place(h, start, sz, al) ==
  LET skip == Rounding(start, al)
      h1   == Skipped(h, start, skip)
  IN  \/ /\ TooSmall(h, start, sz, al)
         /\ heap' = h1
         /\ status' = "fatal"
         /\ UNCHANGED live
      \/ /\ ~TooSmall(h, start, sz, al)
         /\ heap' = Carved(h1, start + skip, h.mem[start], sz)
         /\ live' = live \cup {[ptr |-> start + skip + 1, len |-> sz, al |-> al]}
         /\ status' = "running"

(* The search and what follows it, on heap h at root with sbrk at base.    *)
AllocIn(h, root, base, sz, al) ==
  LET need == get_sbrk_size(sz, al)
  IN  /\ free_root' = root
      /\ \/ /\ alloc_base' = base
            /\ \E s \in h.slabs : IsSmallest(h, s, sz, al) /\ Place(h, s, sz, al)
         \/ /\ Fitting(h, sz, al) = {}
            /\ SbrkFails(base, need)
            /\ alloc_base' = base
            /\ heap' = h
            /\ live' = live
            /\ status' = IF status = "boot" THEN "oom" ELSE status
         \/ /\ Fitting(h, sz, al) = {}
            /\ ~SbrkFails(base, need)
            /\ alloc_base' = base + need
            /\ LET first == IndexOf(base, root)
               IN  Place(Grown(h, first, need \div Word), GrowStart(h, first), sz, al)

(* A call with a size that is not 0 and has no flag bit; the other calls   *)
(* return NULL and change nothing.                                         *)
AllocWords(sz, al) ==
  LET need == get_sbrk_size(sz, al)
  IN  /\ \/ /\ free_root = NULL
            /\ SbrkFails(Base, need)
            /\ alloc_base' = Base
            /\ status' = IF status = "boot" THEN "oom" ELSE status
            /\ UNCHANGED <<free_root, heap, live>>
         \/ /\ free_root = NULL
            /\ ~SbrkFails(Base, need)
            /\ AllocIn(FirstHeap(heap, need \div Word), Base, Base + need, sz, al)
         \/ /\ free_root # NULL
            /\ AllocIn(heap, free_root, alloc_base, sz, al)
      /\ UNCHANGED foreign

dandelion_alloc(size, alignment) ==
  /\ status = "running"
  /\ AllocWords(LocalSize(size), LocalAlignment(alignment))

(* The first allocation of dandelion_init, the array of input sets, which  *)
(* is never freed.  The further ones (the buffers of each set, the output  *)
(* sets) are calls of dandelion_alloc like any other for the allocator;    *)
(* module IoSets has the whole of dandelion_init.                          *)
AllocInputSets ==
  /\ status = "boot"
  /\ IF BootSize = 0
     THEN status' = "running" /\ UNCHANGED <<alloc_base, free_root, heap, live, foreign>>
     ELSE AllocWords(LocalSize(BootSize), 1)

Kept == IF BootSize = 0 THEN {} ELSE {1}

-----------------------------------------------------------------------------
(* dandelion_free, as built with DEBUG.                                    *)

(* Faulty: a free slab behind is not merged.                               *)
Merged_FrontOnly(h, i, e) ==
  LET start == IF i # 0 /\ ~is_occupied(h.mem[i - 1]) THEN h.mem[i - 1] ELSE i
  IN  [h EXCEPT !.mem = MarkFree(h.mem, start, e),
                !.slabs = {t \in @ : t <= start \/ t > e}]

(* Faulty: the slab behind is merged even when it is occupied.             *)
Merged_Always(h, i, e) ==
  LET start == IF i # 0 /\ ~is_occupied(h.mem[i - 1]) THEN h.mem[i - 1] ELSE i
      end   == IF e + 1 # h.last THEN Untag(h.mem[e + 1]) ELSE e
  IN  [h EXCEPT !.mem = MarkFree(h.mem, start, end),
                !.slabs = {t \in @ : t <= start \/ t > end}]

(* The slab i..e with what is free around it, after the three checks.      *)
Merged(h, i, e) ==
  LET start == IF i # 0 /\ ~is_occupied(h.mem[i - 1]) THEN h.mem[i - 1] ELSE i
      end   == IF ~is_occupied(h.mem[e + 1]) THEN h.mem[e + 1] ELSE e
  IN  [h EXCEPT !.mem = MarkFree(h.mem, start, end),
                !.slabs = {t \in @ : t <= start \/ t > end}]

dandelion_free(a) ==
  LET i == a.ptr - 1
      e == End(heap, i)
  IN  /\ status = "running"
      /\ a \in live /\ a.ptr \notin Kept
      /\ live' = live \ {a}
      /\ \/ /\ IsFree(heap, i) \/ IsFree(heap, e)
            /\ status' = "free_unoccupied"
            /\ UNCHANGED heap
         \/ /\ ~IsFree(heap, i) /\ ~IsFree(heap, e)
            /\ Untag(heap.mem[e]) # i
            /\ status' = "overlap"
            /\ UNCHANGED heap
         \/ /\ ~IsFree(heap, i) /\ ~IsFree(heap, e)
            /\ Untag(heap.mem[e]) = i
            /\ heap' = Merged(heap, i, e)
            /\ UNCHANGED status
      /\ UNCHANGED <<alloc_base, free_root, foreign>>

-----------------------------------------------------------------------------
(* The clients: newlib calls sbrk with positive and negative increments,   *)
(* and an owner stores values in its words.                                *)

(* Faulty: heap_end is not looked at.                                      *)
dandelion_sbrk_NoLimit(size) ==
  /\ status = "running"
  /\ alloc_base' = Base + RoundUp(size)
  /\ foreign' = IF free_root = NULL THEN foreign
                ELSE foreign \cup {[lo |-> IndexOf(Base, free_root),
                                    hi |-> IndexOf(Base + RoundUp(size), free_root)]}
  /\ UNCHANGED <<free_root, heap, live, status>>

(* Words taken before free_root exists lie below it and need no record.    *)
dandelion_sbrk(size) ==
  /\ status = "running"
  /\ \/ /\ SbrkFails(Base, size)
        /\ alloc_base' = Base
        /\ UNCHANGED foreign
     \/ /\ ~SbrkFails(Base, size)
        /\ alloc_base' = Base + RoundUp(size)
        /\ foreign' = IF free_root = NULL THEN foreign
                      ELSE foreign \cup {[lo |-> IndexOf(Base, free_root),
                                          hi |-> IndexOf(Base + RoundUp(size), free_root)]}
  /\ UNCHANGED <<free_root, heap, live, status>>

(* sbrk(-n) with the n bytes of the topmost region: alloc_base + size      *)
(* wraps around.  newlib gives back only what it owns.                     *)
SbrkRelease(f) ==
  /\ status = "running"
  /\ f \in foreign
  /\ free_root # NULL /\ alloc_base = free_root + Word * f.hi
  /\ alloc_base' = free_root + Word * f.lo
  /\ foreign' = foreign \ {f}
  /\ UNCHANGED <<free_root, heap, live, status>>

Stored(h, words, v) ==
  [h EXCEPT !.mem = [i \in Index |-> IF i \in words THEN v ELSE h.mem[i]]]

Store(words, v) ==
  /\ status = "running"
  /\ heap' = Stored(heap, words, v)
  /\ UNCHANGED <<alloc_base, free_root, live, foreign, status>>

Payload(a) == a.ptr .. a.ptr + a.len - 1
Region(f) == f.lo .. f.hi - 1

-----------------------------------------------------------------------------
Init ==
  /\ alloc_base = 0
  /\ free_root = NULL
  /\ \E v \in Values :
       heap = [mem |-> [i \in Index |-> v], last |-> 0, slabs |-> {}, fences |-> {}]
  /\ live = {}
  /\ foreign = {}
  /\ status = "boot"

Next ==
  \/ AllocInputSets
  \/ \E size \in Sizes, alignment \in Alignments : dandelion_alloc(size, alignment)
  \/ \E a \in live : dandelion_free(a)
  \/ \E size \in SbrkSizes : dandelion_sbrk(size)
  \/ \E f \in foreign : SbrkRelease(f)
  \/ \E a \in live, v \in Values : Store(Payload(a), v)
  \/ \E f \in foreign, v \in Values : Store(Region(f), v)

Spec == Init /\ [][Next]_vars

-----------------------------------------------------------------------------
(* Properties.                                                             *)

(* The slabs with a descriptor in a..b-1 cut exactly these words: every    *)
(* slab ends before b, its two descriptors point at each other with the    *)
(* same flag, the next slab begins right behind it, none begins inside it, *)
(* and from the word in front of a slab (or of b) the previous slab can be *)
(* found, as dandelion_free and the alignment code do.                     *)
Tiles(h, a, b) ==
  /\ a < b => a \in h.slabs
  /\ \A s \in h.slabs : a <= s /\ s < b =>
       /\ s <= End(h, s) /\ End(h, s) < b
       /\ Untag(h.mem[End(h, s)]) = s
       /\ IsFree(h, End(h, s)) <=> IsFree(h, s)
       /\ End(h, s) + 1 \in h.slabs \cup {b}
       /\ \A t \in h.slabs : s < t => End(h, s) < t
  /\ \A t \in h.slabs \cup {b} : a < t /\ t <= b =>
       /\ Untag(h.mem[t - 1]) \in h.slabs
       /\ a <= Untag(h.mem[t - 1]) /\ Untag(h.mem[t - 1]) < t
       /\ End(h, Untag(h.mem[t - 1])) = t - 1

WellFormed(h) ==
  /\ Tiles(h, 0, h.last)
  /\ 0 < h.last
  /\ \A s \in h.slabs : s < h.last
  /\ h.mem[h.last] = MAX_VAL

Coalesced(h) ==
  \A s \in h.slabs : IsFree(h, s) /\ End(h, s) + 1 \in h.slabs
                       => ~IsFree(h, End(h, s) + 1)

Running == status = "running" /\ free_root # NULL

(* The doc comment of dandelion_alloc: the managed memory is a row of      *)
(* slabs with matching descriptors that ends at the MAX_VAL sentinel,      *)
(* whatever alignment gaps, splits, merges and growth happened before.     *)
SlabsTileHeap == Running => WellFormed(heap)

(* The loop of dandelion_alloc (current = end_index + 1 until MAX_VAL)     *)
(* visits exactly the slabs, so it terminates and misses none.             *)
WalkVisitsSlabs ==
  Running =>
    LET At[k \in 0 .. heap.last] ==
          IF k = 0 THEN 0
          ELSE LET s == At[k - 1]
               IN  IF heap.mem[s] = MAX_VAL THEN s ELSE End(heap, s) + 1
    IN  {At[k] : k \in 0 .. heap.last} = heap.slabs \cup {heap.last}

(* "can never merge with next one, since next is occupied": two free slabs *)
(* never touch, on which the alignment code also relies when it extends    *)
(* the slab in front.                                                      *)
NoAdjacentFree == Running => Coalesced(heap)

(* Every live allocation has an occupied slab of its own that holds all    *)
(* its words between the two descriptors, so that no later call writes     *)
(* to them and dandelion_free finds the slab again.                        *)
LiveInOwnSlab ==
  Running =>
    /\ \A a \in live : /\ a.ptr - 1 \in heap.slabs \ heap.fences
                       /\ ~IsFree(heap, a.ptr - 1)
                       /\ a.ptr + a.len <= End(heap, a.ptr - 1)
    /\ \A a, b \in live : a # b => a.ptr # b.ptr

(* Memory that another caller got from sbrk is behind the heap or between  *)
(* the descriptors of a fence, never part of memory dandelion_alloc hands  *)
(* out or writes descriptors to.                                           *)
ForeignFenced ==
  Running => \A f \in foreign :
    \/ heap.last < f.lo
    \/ \E s \in heap.fences : s < f.lo /\ f.hi <= End(heap, s)

(* No memory is lost: a slab that is marked occupied belongs to a live     *)
(* allocation or fences off foreign memory, so that dandelion_free has     *)
(* returned everything else, the alignment gaps too.                       *)
NothingLeaks ==
  Running => \A s \in heap.slabs :
    ~IsFree(heap, s) => s \in heap.fences \/ \E a \in live : a.ptr = s + 1

(* The DEBUG checks of dandelion_free never stop a program that frees      *)
(* only what it holds.                                                     *)
FreeAccepted == status \notin {"free_unoccupied", "overlap"}

(* The branch of dandelion_alloc that "should never happend, as the        *)
(* allocation should be big enough at this point" is not taken.            *)
ChosenSlabFits == status # "fatal"

(* The payload is aligned as requested, counted in words from free_root.   *)
AlignedInHeap == Running => \A a \in live : a.ptr % a.al = 0

(* The payload's address is a multiple of the "byte allignment             *)
(* requirement for the allocation".                                        *)
AlignedAddress ==
  \A a \in live : (free_root + Word * a.ptr) % (Word * a.al) = 0

-----------------------------------------------------------------------------
(* The allocator seen by its clients.                                      *)

Blocks ==
  IF status \in Stopped THEN {}
  ELSE {Payload(a) : a \in live} \cup {Region(f) : f \in foreign}

Memory == INSTANCE MemoryService
            WITH Words <- Index, Contents <- 0 .. MAX_VAL,
                 blocks <- Blocks, contents <- [i \in UNION Blocks |-> heap.mem[i]]

(* Whatever the allocator and sbrk do for one client, the blocks they hand *)
(* out are disjoint, and no word of a block in use is written by anybody   *)
(* but its owner.                                                          *)
ServesMemory == Memory!Spec
=============================================================================
