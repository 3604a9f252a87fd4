# A verification project for the Dandelion SDK

The Dandelion SDK is the code a function is linked with to run on the Dandelion
platform: a runtime with a heap and data sets, an in-memory file system on top
of it, and the system calls newlib needs. A function has one thread, so there
are no races between threads. What is hard to test is elsewhere: hand-made data
structures that long sequences of calls take through many shapes, several
owners of the same memory (two users of `sbrk`, descriptors and names of one
file), counts and sizes without sign, memory that is not cleared, and errors in
the middle of a call.

This directory has TLA+ modules translated from the source, TLC configurations
that check them on small instances, and TLAPS proofs for instances of any size.
`PROJECT.json` says which lines each definition stands for.

## Inventory

| Part | State | Operations | What makes it correct |
|---|---|---|---|
| Heap (`runtime/runtime.c`) | `alloc_base`, `free_root`, `last_descriptor`, the words of the heap | `dandelion_sbrk`, `dandelion_alloc`, `dandelion_free` | slabs tile the heap, allocations are disjoint and aligned, nothing is lost, foreign memory is left alone |
| Data sets (`runtime/runtime.c`, `system/`) | `sysdata`, `rtdata` | `dandelion_init`, `dandelion_add_output`, `dandelion_exit`, getters | inputs and outputs arrive complete, in order and in their sets, or not at all |
| Files (`file_system/`) | `D_File`, `FileChunk` lists, `open_files` | open, close, unlink, read, write, lseek, truncate | bytes come back as written, chunks and files are freed exactly once and not while in use |
| Names (`file_system/`) | tree of `D_File` with sorted lists | link, unlink, mkdir, rmdir, opendir, readdir, ... | lists stay sorted, lookups find what is there, counts keep what is open alive |
| File system start and end | the above | `fs_initialize`, `fs_terminate` | each input item is a file, each file in an output folder is an output |
| argv and environ | none (pure) | `setup_charpparray` | splitting follows the quoting rules of the repository's README |
| Paths | none (pure) | `get_file`, `get_directories`, `get_component_advance`, `namecmp` | components are those of the string |
| pthread (`newlib_shim/pthread.c`) | mutex words, once controls, list of keys | mutex calls, key calls, once | a lock is refused while held, routines run once, keys are unique and keep their values |
| Platforms (`system/platform`) | `sysdata` | init, exit, thread pointer | debug: folders become sets, outputs become files |
| System calls (`newlib_shim`, `libc_extension`) | `errno` | start and end of the program, wrappers and stubs that fail | a program that ends with 0 had all its inputs and its output sets were gone through |
| Freestanding (`system/freestanding.c`) | none | memcpy, memset, memmove, memcmp | overlapping bytes are moved before they are overwritten |

How they interact: the platform fills `sysdata`; `dandelion_init` turns it into
trees, with memory from the allocator; `fs_initialize` makes a file of each
input item without copying its data; the program calls the file system through
newlib, whose `malloc` takes memory from `dandelion_sbrk` beside the allocator;
`fs_terminate` adds each file in a folder named like an output set with
`dandelion_add_output`; `dandelion_exit` flattens the outputs for the platform.

## Modules

    Heap       implements MemoryService     checked through MCHeap,     proofs in HeapProofs
    IoSets     implements OutputService     checked through MCIoSets,   proofs in IoProofs
    Files      implements ByteStreams,      checked through MCFiles,    proofs in
      ^          stated in FileStreams        four modules, each extends the one before:
      ^-- FilesTypes <- FilesProofs <- FilesPolite <- FilesMemory
    Namespace                               checked through MCNamespace
      ^-- Session  (extends it)             checked through MCSession,  proofs in TreeProofs
    Pthread    implements KeyTable          checked through MCPthread,  proofs in PthreadProofs
    Strings    (functions only)             checked through MCStrings
    Lists      a few operators on sequences, for IoSets, Files, Namespace and Pthread

An action is one call of the source, with everything it does; in `Session`, where
calls loop over sets, items and files, it is one round of the loop. Definitions that
end in `_Something` above a definition are faulty variants of it, which show
that the properties notice such a fault; nothing uses them.

**Heap.** `heap.mem` holds the words behind `free_root`, as the code writes
them: the first and last word of a slab hold each other's index and the
occupied flag in the highest bit (`Flag`), the last word holds `MAX_VAL`. Old
descriptors stay in memory. `slabs` (where slabs begin) and `fences` (occupied
slabs over foreign memory) are history: the code does not have them, and the
model never reads them to decide anything except as set of candidates of the
search, which `WalkVisitsSlabs` shows to be what the code's loop visits.
`live` and `foreign` are the memory of the clients. The actions are
`dandelion_alloc`, `dandelion_free` (with the checks of the `DEBUG` build),
`dandelion_sbrk` by another client, `SbrkRelease` (that client gives its topmost
words back with a negative increment, which wraps around) and stores of a value
of `Values` by the owners. `AllocInputSets` is the first
allocation `dandelion_init` makes, which is never freed. Sizes are bytes and
are rounded to words as in the code; `potential_size` is subtracted modulo
2^w. `MemoryService` is what clients expect: disjoint blocks that only their
owner changes.

**IoSets.** `sysdata` and `rtdata` with the flat arrays and the offsets, the
arrays of output sets with length, capacity and unwritten slots (`Garbage`).
Whether an allocation succeeds is a free choice. The debug platform is the
environment: it lays out the input folders and dumps the outputs into files.
`OutputService` is the promise: lists that are published all at once or not at
all.

**Files.** Chunks with capacity and used bytes, linked lists of them, and the
descriptor table, in one flat directory. Bytes are numbered in the order they
are written, so that the model tells every two apart; `Junk` is a byte nobody
wrote. File and chunk numbers are not used again after a free, so that a use
of freed memory is seen; it ends the behaviour with `status` "freed", one
through NULL with "null", a wrong `dandelion_free` with "badfree".
`ByteStreams` is the promise: a file is a sequence of bytes, a descriptor that
reads has a position in it and one that writes adds at the end.

**Namespace.** The tree of `D_File` structures with `child`, `next`, `parent`
and the two counts, whose width is the constant `USHRT`. What a new structure
holds before it is written is a choice: `Tails` (what follows the name),
`Leftovers` (the counts of a new directory). The static folders are one folder.
A pointer to a structure that was deallocated is followed only to `status` "freed".
The named assumption says that the counts are wide enough for all descriptors and
handles there are.

**Session.** A whole program: `fs_initialize` makes folders and files of the input
sets in the tree of `Namespace`, opens the standard streams and sets up argv and
environ; `main` makes calls through the wrappers of `shim.c`, or calls that only
fail and set `errno`, and returns or calls `_exit`; `fs_terminate` walks through
the folders of the output sets, with the recursion of `add_output_from_file` as a
stack (`prog.walk`), and `dandelion_exit` ends it. `prog.pc` is where the program
is. Every allocation may fail; where the code goes on without noticing, `prog.lost`
records it. What files hold is left out.

**Strings.** The functions that take paths, names and argument strings apart, and
`memcpy` and `memmove`, as operators on sequences. A state is a text or a piece of
memory, and a step makes it longer, so that the invariants, which compare the
operators with reference definitions, are checked for all of them up to a length.

**Pthread.** The flags of mutexes, the once controls and the list of keys. A
routine of `pthread_once` may call `pthread_once` itself; `running` has those that
have not returned. `held` and `runs` are history. The calls that only return an
error are one action for each group. `KeyTable` is the promise: a function from
keys to values.

Files and Namespace have a constant `Polite`. If it is FALSE clients call
anything at any time. If it is TRUE they keep to the guards called `Polite...`
in the modules: they read files and write files from the start like streams,
leave input files alone, do not truncate what is open, do not remove full
directories, do not call `link`. The source does not handle the other uses
(see *Divergences*); what it promises to polite clients is checked with TRUE,
what it promises to everybody with FALSE.

## Runs

| Run | Shows |
|---|---|
| `heap_booted` | all properties of the allocator, a heap of 24 words, input sets, alignments 8 and 16 as the SDK uses them |
| `heap_bare` | the same structure without input sets and with alignments up to 40, where gaps of three and more words occur |
| `files_all` | no chunk overflows, reads and preads return the right bytes; all calls, one file, one descriptor |
| `files_streams` | polite clients, two descriptors and an input file: a file lives exactly while it has a name or is open, no fault, no leaked chunk, `ByteStreams` implemented |
| `files_read_length` | violation, see *Divergences* |
| `namespace_open` | nothing that is open is deallocated, for clients that do anything, with counts that wrap at 3 |
| `namespace_tree` | polite clients: lookups find what is there, a structure is freed when and only when nothing uses it, no part is cut off, no fault |
| `namespace_dirty` | violation |
| `io_sets` | inputs as given, memory for growth bounded, outputs complete or absent (`OutputService`), files of the dump |
| `pthread_keys` | mutexes, once controls and keys, `KeyTable` implemented |
| `session` | inputs are in place before `main` (`Started`), each output set gets exactly the files of its folder (`OutputsExact`), exit code 0 means that nothing was left out (`ZeroMeansDone`), start and end of the program terminate (`Ends`) |
| `strings` | paths, names and arguments are taken apart as the reference definitions say, strings fit the memory asked for, overlapping bytes are moved right |

Deadlock is not checked where the program may end (a fault, an exit, exhausted
bounds); `Pthread` has no such state and is checked for it.

*Bounds.* The heap runs have three pages of eight words, which is enough for a
first page, a growth next to it and one behind foreign memory, and for gaps of
all sizes that the alignments ask for; `HeapBegin` is not word aligned. Chunks have a granule
of two bytes, so that reads, writes and seeks of one or two bytes end inside,
at and behind a boundary; `files_all` has one descriptor, two bytes to write and
three chunks, with which lists of three chunks and reads across them occur;
`files_streams` has two descriptors, one more byte and one more chunk, and an
input file. `MaxOffset` stops seeks that would only repeat. Trees have four or
five nodes, two of them the root and a static folder; the others make lists of
several entries or one nested directory; `USHRT` is 3 where wrapping matters and
65536 where not. A session has up to ten nodes, of which six are made by
`fs_initialize` before it looks at any set, and two calls of `main`; the sets it is given
(`AllGiven`) have names and items without identifier, with `..`, nested, twice the
same, and those that are special. Four outputs make an array grow through 1, 2
and 4, the fifth to 8. Three keys make gaps at the front, in the middle and at the
end; routines nest three deep, one deeper than there are controls. Texts
have up to eight characters (paths, names) or seven (arguments); memory has up to
14 bytes with words of four, so that a move has bytes before, in and behind whole
words in both directions. A `VIEW` hides
only what the last call returned and, for the heap, words that are not
descriptors, which the allocator does not read by `SlabsTileHeap`. Properties
that speak of what is hidden are about steps, and are evaluated on every step
from a state that is explored.

*Fairness.* Only `Session` assumes any: weak fairness of `fs_initialize` and of
`fs_terminate`. There is one thread and no call waits for anything, so a step of
these loops that can be taken is taken. Nothing is assumed of `main`, which may
run for ever. That the loop over the slabs ends is part of `WalkVisitsSlabs`, and
a loop over a cyclic list would be status "hang" of `Namespace`.

## Proofs

`HeapProofs` proves, for every page size, heap, set of request sizes and
alignments, client stores and interleaving of the two users of `sbrk`:
`TypeOK`, `SlabsTileHeap`, `NoAdjacentFree`, `LiveInOwnSlab`, `ForeignFenced`,
`NothingLeaks`, `FreeAccepted` and `AlignedInHeap` are invariants. The named
assumptions say only that a page is a positive number of words, that the heap
begins above address 0 and ends below the flag bit, and that sizes are positive
and alignments not negative, below the flag bit too. Clients store in memory
they own and free what they were given once.

None of these is inductive alone. `dandelion_free` finds the slab in front
through the word before its own, so the slabs must tile in both directions;
merging is right only if no two free slabs touched before; the alignment code
extends the slab in front, which must be occupied and not be confused with a
live allocation's limits; a growth behind foreign memory must start behind all
of it. `IInv` therefore has, besides `TypeOK`, `FreeAccepted` and
what holds before the first allocation, the conjunction `Sound`: `SoundSlabs`
(well-formed, coalesced, fences occupied), `SoundLive`, `NoLeak`,
`SoundForeign` and `SoundBase` (the heap ends below `alloc_base`).

The argument is layered: what marking, splitting and merging do to tilings
(`Tiles(h, a, b)` can be cut and joined at slab borders), then skipping words for
the alignment, taking the allocation, the first page, growth, fences and rounding,
and that each operation takes a sound heap to a sound one; then stores,
`dandelion_free`, every action keeps `IInv`, and the theorems.

`HeapProofs` goes on with three more results:

- `ChosenSlabFits`, that the branch which "should never happend" is dead, if
  `BootSize > 0` and no alignment exceeds 16. Both conditions are needed:
  `HeapTooSmall.cfg` gives a counterexample without the first. The invariant
  `FitInv` adds that slab 0 stays occupied and that every free slab has a word
  between its descriptors.
- `WalkVisitsSlabs`: the search ends, and has looked at every slab. The walk is a
  recursive function of the step; that it exists and climbs from slab to slab is
  shown by the least step for which it does not.
- `ServesMemory`, the refinement: a block of `MemoryService` is the payload of a
  live allocation or a foreign region. Blocks are disjoint since slabs are, and
  every write of the allocator is shown to hit descriptors, free slabs or the
  block that is handed out (`AcquireServes`, `ReleaseServes`, `SameServes`).

`PthreadProofs` proves, for any mutexes, once controls, values and number of
keys: `LockedWhileHeld`, `RunsOnce`, that the list of keys is strictly sorted
(`KeysSorted`), and that `Pthread` implements `KeyTable`. `IInv` has `TypeInv`,
`LockedWhileHeld`, `RunsCounted` (a routine that has not returned was called as
often as it is running) and `Sorted`, which compares
all pairs of entries and not only neighbours: an insertion at a gap must be known
to be a new key against the whole list. That the first gap `pthread_key_create`
finds is a place where the list can be extended, and what insertion, removal and
replacement do to the table, are lemmas of their own (`GapFound`, `Inserted`,
`Removed`, `Changed`).

`IoProofs` proves that `IoSets` implements `OutputService`, for any number of
sets and outputs and any inputs. `IInv` says that an array is as long as its
capacity and the length does not exceed it, so a store is always inside, and that
the platform finds no output while the process runs. The argument about
`dandelion_exit`: the offsets are running sums, so they do not decrease
(`OffsetsGrow`, by the least number for which a claim fails), so exactly one set
claims each place of the flat array (`FlatPlace`), so the platform cuts out of it
what was output to each set (`ExitPublishes`).

It also proves the three invariants of `IoSets`, from the assumption that the
folders are sequences of sequences:

- `InputsServed`. `FlattenSeq` puts item `j` of set `i` behind the offset of the
  set (`FlattenedAt`), so the tree that `dandelion_init` cuts out of the flat array
  is what the platform was given (`TreeInverts`), and no later call touches it.
- `GrowthBounded`. The invariant `GrowInv` is an exact account: the records of the
  inputs and the sets, and `2 * cap - 1` for a set with an array of `cap`, which is
  the array and all the smaller ones before it. More than half of an array is in
  use (`Roomy`), which turns the account into the bound.
- `DumpedLast`. After each buffer of the dump there is a file for every name so
  far with the data of the last buffer of this name (`DumpAll`); every place of the
  dump belongs to one set (`Covered`) and holds its buffer (`TodoIs`).

`FilesProofs` proves two invariants of `Files` for any chunk size, number of
descriptors and names, all clients and every failure. `WithinCapacity`: no chunk
uses more than its buffer has. `TypeInv` in `FilesTypes` carries it: every pointer is
a chunk or null, a list of chunks only leads to chunks that do not come back
(`Chained`), so a walk over it ends and what the recursive definitions compute is
the chain of next pointers (`ListIsChain`, there too). `LivesWhileReachable`:
the invariant `CountInv` adds that `links` and `opens` are the numbers of names and
descriptors that lead to a file (`Counted`); one entry redirected changes them by one
(`CountMoves`).

`FilesMemory` proves `NoFault` and `NothingLeaked` for clients that keep to the polite
guards (`Polite`), if the memory suffices for the writes (`EnoughMemory`: the
input items and the bytes written are not more than the chunks; a write without
memory does crash). The inductive invariant `PoliteInv` adds to `CountInv` that the
lists of the live files partition the chunks that are not freed (`Partitioned`), that
every open descriptor points into the list of its own file and not behind its bytes
(`Placed`), and that there are no more chunks than input items and bytes written.
Freeing a file frees its own list and nothing else because of the partition; a
read, write or seek starts at a chunk of its file because of the place. What each
call does to the partition and the places is shown in `FilesPolite` and `FilesMemory`.

`TreeProofs` proves `FilesStayOpen` of `Namespace`, for all clients, any names, paths,
numbers of structures, descriptors and handles, and whatever new structures hold before
they are written. Nothing is known here about the shape of the tree, which clients can
spoil (see *Divergences*), so the argument does not use it: `OpenInv` says that all
pointers are structures or null, that handles are of directories, and that a file which
is not a directory counts exactly the descriptors open on it. Every operation is then
shown to add to the tree (`Grows`: structures stay where they are, and keep what they
are and whether they are open), to change the count of one file together with one
descriptor, or to free a structure that was dead, which has no descriptor. The searches
are recursive functions; that they end or report "hang" is shown by the least number of
steps for which they do not (`WalkFinds`, `FirstInRows`).

It also proves `ZeroMeansDone` of `Session`, for any sets that are given and any `main`.
`ProgInv` says that, while `fs_initialize` is at item `i` of set `s`, the files placed are
as many as the named items that come before (`Before`), that behind the inputs they are
as many as all named items, and that a program with exit code 0 has come to `ending`
and behind its last output set: every error on the way sets a code that is not 0.

Checked by TLC only:

- the refinement `ServesStreams` of `ByteStreams` and the properties of what `read` and
  `pread` return, which need the content of all lists and not only their shape;
- the properties of `Namespace` for polite clients (`FindsByName`, `FreedWhenUnused`,
  `NothingCutOff`, `NoFault`), and `Started` and `OutputsExact` of `Session`, which need
  that directories are sorted lists of their entries after every insertion, removal and
  recursive creation along a path;
- `Strings`, whose subject are recursive operators over texts;
- the liveness property `Ends`, and all that needs ENABLED, which the provers do
  not handle.

## Divergences

Where a comment, a test or a document of the repository says one thing and the
code does another, a property says it in the words of the text and TLC finds a
behaviour against it. Two of them are listed as runs:

- `files_read_length` / `ReadAtMostLen`: a read that goes on in the next chunk
  does not reduce `need_to_read` and returns, and stores, more than asked for.
- `namespace_dirty` / `CreatedIsFound`: `create_file` does not end the name, so
  in memory that was used before the file has another name.

The others are stated in the modules, each with a `.cfg` of its own under which
TLC shows the behaviour; most are the reason for a polite guard:

| Property | Code |
|---|---|
| `ChosenSlabFits` (Heap) | without input sets, a first allocation aligned to two words leaves a free slab of one word at index 0, whose `potential_size` underflows; the next allocation stops the function (`HeapTooSmall.cfg`) |
| `AlignedAddress` | alignment counts from `free_root`, which is only word aligned (`runtime.c:248`) |
| `ListsIntact` (Files) | truncate frees the chunks behind the cut and keeps the pointer to them (`fs_implementation.c:574`) |
| `WritesAtPosition` | write ignores the position lseek has set (`fs_implementation.c:513`) |
| `AppendsAtEnd` | the first write to an empty O_APPEND file goes through NULL (`fs_implementation.c:496`) |
| `TruncRefusedWhileOpen` | open with O_TRUNC does not look whether the file is open (`fs_implementation.c:155`) |
| `GapsFilled` | lseek and truncate extend a file without clearing the memory (`fs_implementation.c:323`, `591`) |
| `ReadOnlyRefused` | O_RDONLY is 0, so the test in write never refuses (`fs_implementation.c:427`) |
| `CreatorMayWrite` | the sense of `skip_checks` is inverted (`file_system.c:316`) |
| `FreesOnlyAllocated` | the data of input items is given to `dandelion_free` (`fs_implementation.c:34`) |
| `LinkAddsPath` (Namespace) | link does not store the new name and gives one node two places (`fs_implementation.c:79`) |
| `RemovedWithLastPath` | link counts links that were not made (`fs_implementation.c:80`) |
| `OpenStays` with arbitrary `Leftovers` | a new directory's counts are not set (`file_system.c:216`) |
| `RefusedWhenNotHeld` (Pthread) | recursive mutexes have no count (`pthread.c:113`) |

Smaller things met while modelling. The models follow the code; no property is
stated about them:

- For an item without data `setup_charpparray` stores NULL in the caller's pointer
  and not in the array it has just allocated (`file_system.c:366`), and a quote that is not closed makes it write over the end
  of the string (`file_system.c:430`).
- `fs_terminate` looks the name of a nested output set up as one component, so its
  folder is not found; and when there is no memory for a name, the file, or the
  folder it is in, is dropped without an error (`file_system.c:620`, `710`).
- `_exit` ignores its argument and exits with `errno` (`shim.c:63`).
- `pthread_once` marks the control after the routine has returned, so a routine
  that calls it for its own control runs again (`pthread.c:193`); `RunsOnce` says
  that this is the only way.
- `memcmp` compares the two pointers for the sign of its result
  (`freestanding.c:63`).

## Not modelled

- The random device: properties would not tell its outputs apart.
- Platforms other than debug: a few instructions that leave the function.
- `isatty` and `fstat`, which change nothing, the stubs of `unistd.c` and
  the other files of `libc_extension`, which return an error as those modelled do,
  `remove_file`, which is never called.
- `pthread_exit`, which is `_exit`, and the cleanup calls, which only set `errno`.
- `memset`, `memcmp` and `path_from_string` (a `strlen`): loops over single bytes.
- Names longer than `FS_NAME_LENGTH`.
- Contents of files in `Session`, and allocations of the heap in `Files`,
  `Namespace` and `IoSets`: there an allocation succeeds or fails freely, which
  covers what `Heap` does.
