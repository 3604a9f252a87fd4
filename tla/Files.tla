------------------------------- MODULE Files -------------------------------
(***************************************************************************)
(* Regular files and the descriptor table: open, close, unlink, read,      *)
(* write, lseek and truncate of src/file_system/fs_implementation.c with   *)
(* the helpers of src/file_system/file_system.c.                           *)
(*                                                                         *)
(* A file is a list of chunks.  Each chunk has a capacity and a number of  *)
(* used bytes, and a descriptor points into the list with a chunk and an   *)
(* offset in it.  Directories are left to another module: here a name is   *)
(* an entry of one flat directory.                                         *)
(*                                                                         *)
(* Files and chunks are numbered in the order of their allocation, and a   *)
(* number is not used again, so that an access to freed memory is seen.    *)
(* Such an access, or one through a NULL pointer, ends the behaviour with  *)
(* the status that names it.  Written bytes are numbered too, which tells  *)
(* every two bytes apart; Junk is a byte of memory nobody has written.     *)
(***************************************************************************)
EXTENDS Integers, Sequences, FiniteSets, FiniteSetsExt, Lists

CONSTANTS
  Names,       \* names in the directory
  Descriptors, \* indices of open_files
  ChunkSize,   \* FS_CHUNK_SIZE
  MaxChunks,   \* chunks that can be allocated before memory is exhausted
  MaxFiles,    \* the same for files
  MaxBytes,    \* bytes that clients write, bounds the model
  MaxOffset,   \* offset in a chunk behind which clients go no further, bounds the model
  Inputs,      \* [a subset of Names -> lengths], the input items
  OpenFlags,   \* flags passed to open
  OpenModes,   \* modes passed to open, sets of "r" and "w"
  Lengths,     \* lengths passed to read and write
  Offsets,     \* offsets and lengths passed to lseek, pread, pwrite, truncate
  Polite       \* whether clients keep to what the polite guards below say

Flags == [acc: {"R", "W", "RW"}, append: BOOLEAN, trunc: BOOLEAN,
          creat: BOOLEAN, excl: BOOLEAN]

ASSUME FilesAssumption ==
  /\ ChunkSize \in Nat \ {0}
  /\ MaxChunks \in Nat /\ MaxFiles \in Nat /\ MaxBytes \in Nat
  /\ MaxOffset \in Nat
  /\ Descriptors \subseteq Nat /\ IsFiniteSet(Descriptors) /\ IsFiniteSet(Names)
  /\ DOMAIN Inputs \subseteq Names /\ \A n \in DOMAIN Inputs : Inputs[n] \in Nat
  /\ OpenFlags \subseteq Flags /\ OpenModes \subseteq SUBSET {"r", "w"}
  /\ Lengths \subseteq Nat /\ Offsets \subseteq Int
  /\ Polite \in BOOLEAN

VARIABLES
  node,        \* the D_File structures of regular files
  chunk,       \* the FileChunk structures
  directory,   \* the file each name leads to, or NULL
  open_files,  \* the descriptor table
  written,     \* number of bytes written so far
  ret,         \* what the last call returned: its code, and the bytes read
  status       \* "ok", or what has gone wrong

vars == <<node, chunk, directory, open_files, written, ret, status>>

NULL == 0
Junk == -1

EACCES == -13
EBADF == -9
EEXIST == -17
EINVAL == -22
EMFILE == -24
ENOENT == -2
ENOMEM == -12
ENOTDIR == -20

Faults == {"null", "freed", "badfree"}

Closed == [file |-> NULL, chunk |-> NULL, offset |-> 0, acc |-> "R", append |-> FALSE]

-----------------------------------------------------------------------------
(* Chunks.                                                                 *)

used(c) == Len(chunk[c].data)

JunkBytes(n) == [i \in 1 .. n |-> Junk]

(* allocate_file_chunk.  dandelion_alloc refuses a size of 0.              *)
CanAllocate(ch, size) == size > 0 /\ Len(ch) < MaxChunks

(* Faulty: the capacity is rounded down.                                   *)
NewChunk_RoundDown(size, data) ==
  [cap   |-> (size \div ChunkSize) * ChunkSize,
   data  |-> data, next |-> NULL, input |-> FALSE, freed |-> FALSE]

NewChunk(size, data) ==
  [cap   |-> ((size + ChunkSize - 1) \div ChunkSize) * ChunkSize,
   data  |-> data, next |-> NULL, input |-> FALSE, freed |-> FALSE]

(* The list that begins at c.  It ends at a chunk that was freed, as what  *)
(* that one holds is not known.                                            *)
Chunks(c) ==
  LET From[i \in 0 .. Len(chunk)] ==
        IF i = NULL THEN <<>>
        ELSE IF chunk[i].freed THEN <<i>>
        ELSE <<i>> \o From[chunk[i].next]
  IN  From[c]

Intact(S) == \A j \in DOMAIN S : ~chunk[S[j]].freed

DataOf(S) == FlattenSeq([j \in DOMAIN S |-> chunk[S[j]].data])

(* The number of bytes and of reserved bytes before the j-th chunk of S.   *)
UsedBefore(S, j) == Len(DataOf(SubSeq(S, 1, j - 1)))
CapBefore(S, j) ==
  LET Sum[i \in 0 .. Len(S)] == IF i = 0 THEN 0 ELSE Sum[i - 1] + chunk[S[i]].cap
  IN  Sum[j - 1]

(* The first of a set of positions, 0 when there is none.                  *)
First(K) == IF K = {} THEN 0 ELSE Min(K)

(* free_file_chunks: the data of every chunk goes to dandelion_free.       *)
FreeFault(S) ==
  IF ~Intact(S) THEN "freed"
  ELSE IF \E j \in DOMAIN S : chunk[S[j]].input THEN "badfree"
  ELSE "ok"

FreedChunk == [cap |-> 0, data |-> <<>>, next |-> NULL, input |-> FALSE, freed |-> TRUE]

(* Faulty: only the first chunk is freed.                                  *)
Freed_FirstOnly(ch, S) ==
  [c \in DOMAIN ch |-> IF S # <<>> /\ c = Head(S) THEN FreedChunk ELSE ch[c]]

Freed(ch, S) == [c \in DOMAIN ch |-> IF c \in Range(S) THEN FreedChunk ELSE ch[c]]

-----------------------------------------------------------------------------
(* How a call ends.                                                        *)

Returns(code, bytes) == ret' = [code |-> code, bytes |-> bytes] /\ status' = status

Fails(code) ==
  /\ Returns(code, <<>>)
  /\ UNCHANGED <<node, chunk, directory, open_files, written>>

(* What a call did before a fault does not matter any more.                *)
Faulty(fault) == status' = fault /\ UNCHANGED <<node, chunk, ret>>

Crashes(fault) == Faulty(fault) /\ UNCHANGED <<directory, open_files, written>>

(* Faulty: open descriptors are not looked at.                             *)
Dead_Unlinked(links, opens) == links = 0

(* Faulty: names are not looked at.                                        *)
Dead_Closed(links, opens) == opens = 0

(* free_data of file f, which has the given counts: without a name and a   *)
(* descriptor it is freed with its chunks.                                 *)
Dead(links, opens) == links = 0 /\ opens = 0

free_data(f, links, opens) ==
  LET S    == Chunks(node[f].content)
      dead == Dead(links, opens)
  IN  \/ dead /\ FreeFault(S) # "ok" /\ Faulty(FreeFault(S))
      \/ /\ dead => FreeFault(S) = "ok"
         /\ node' = [node EXCEPT ![f].links = links, ![f].opens = opens, ![f].freed = dead]
         /\ chunk' = IF dead THEN Freed(chunk, S) ELSE chunk
         /\ Returns(0, <<>>)

-----------------------------------------------------------------------------
(* Descriptors and names.                                                  *)

IsInput(f) == node[f].content # NULL /\ chunk[node[f].content].input

(* A polite client writes to files it has created, or emptied while nobody *)
(* else had them open, and leaves the input files as they are.             *)
PoliteOpen(name, flags) ==
  LET f == directory[name]
  IN  /\ flags.acc # "RW" /\ ~flags.append
      /\ flags.trunc => flags.acc = "W"
      /\ flags.acc = "W" /\ f # NULL => flags.trunc /\ node[f].opens = 0 /\ ~IsInput(f)

(* open_existing_file, called with skip_checks set, for file f of fs.      *)
open_existing_file(fs, f, d, flags) ==
  LET S == Chunks(fs[f].content)
  IN  \/ /\ "w" \notin fs[f].mode /\ flags.acc = "W"
         /\ node' = fs
         /\ Returns(EACCES, <<>>)
         /\ UNCHANGED <<chunk, open_files>>
      \/ /\ "w" \in fs[f].mode \/ flags.acc # "W"
         /\ flags.trunc /\ FreeFault(S) # "ok"
         /\ Faulty(FreeFault(S))
         /\ UNCHANGED open_files
      \/ /\ "w" \in fs[f].mode \/ flags.acc # "W"
         /\ flags.trunc => FreeFault(S) = "ok"
         /\ LET content == IF flags.trunc THEN NULL ELSE fs[f].content
            IN  /\ node' = [fs EXCEPT ![f].content = content, ![f].opens = @ + 1]
                /\ open_files' = [open_files EXCEPT ![d] =
                     [file |-> f, chunk |-> content, offset |-> 0,
                      acc |-> flags.acc, append |-> flags.append]]
         /\ chunk' = IF flags.trunc THEN Freed(chunk, S) ELSE chunk
         /\ Returns(d, <<>>)

(* A new file is in the directory before the descriptor is looked for, and *)
(* stays there when there is none.                                         *)
dandelion_open(name, flags, mode) ==
  LET found == directory[name]
      fs    == IF found # NULL THEN node
               ELSE Append(node, [content |-> NULL, links |-> 1, opens |-> 0,
                                  mode |-> mode, freed |-> FALSE])
      f     == IF found # NULL THEN found ELSE Len(fs)
      free  == {d \in Descriptors : open_files[d].file = NULL}
  IN  /\ status = "ok" /\ (Polite => PoliteOpen(name, flags))
      /\ \/ flags.excl /\ flags.creat /\ found # NULL /\ Fails(EEXIST)
         \/ found = NULL /\ ~flags.creat /\ Fails(ENOENT)
         \/ found = NULL /\ flags.creat /\ Len(node) = MaxFiles /\ Fails(ENOMEM)
         \/ /\ found = NULL => flags.creat /\ Len(node) < MaxFiles
            /\ found # NULL => ~(flags.excl /\ flags.creat)
            /\ directory' = [directory EXCEPT ![name] = f]
            /\ \/ /\ free = {}
                  /\ node' = fs
                  /\ Returns(EMFILE, <<>>)
                  /\ UNCHANGED <<chunk, open_files>>
               \/ free # {} /\ open_existing_file(fs, f, Min(free), flags)
            /\ UNCHANGED written

dandelion_close(d) ==
  LET f == open_files[d].file
  IN  /\ status = "ok"
      /\ \/ f = NULL /\ Fails(EBADF)
         \/ /\ f # NULL
            /\ free_data(f, node[f].links, node[f].opens - 1)
            /\ open_files' = [open_files EXCEPT ![d] = Closed]
            /\ UNCHANGED <<directory, written>>

dandelion_unlink(name) ==
  LET f == directory[name]
  IN  /\ status = "ok"
      /\ \/ f = NULL /\ Fails(ENOTDIR)
         \/ /\ f # NULL
            /\ Polite => ~IsInput(f)
            /\ free_data(f, node[f].links - 1, node[f].opens)
            /\ directory' = [directory EXCEPT ![name] = NULL]
            /\ UNCHANGED <<open_files, written>>

-----------------------------------------------------------------------------
(* read and pread.                                                         *)

(* n bytes of chunk c from offset off on; behind used is whatever the      *)
(* memory holds.                                                           *)
Slice(c, off, n) ==
  [i \in 1 .. n |-> IF off + i <= used(c) THEN chunk[c].data[off + i] ELSE Junk]

(* Faulty: the offset is used in every chunk.                              *)
Copied_KeepsOffset(c, off, len) ==
  LET S       == Chunks(c)
      at(j)   == IF used(S[j]) < off THEN 0 ELSE off
      left(j) == used(S[j]) - at(j)
      k       == Min({j \in DOMAIN S : j = Len(S) \/ left(j) > len \/ left(j) < 0})
      n       == IF left(k) \in 0 .. len THEN left(k) ELSE len
  IN  [ok     |-> ~chunk[S[k]].freed,
       bytes  |-> FlattenSeq([j \in 1 .. k |-> Slice(S[j], at(j), IF j < k THEN left(j) ELSE n)]),
       chunk  |-> S[k],
       offset |-> at(k) + n]

(* The copying loop, from offset off of chunk c.  A chunk that has more    *)
(* than len bytes left ends it, as does the last one; len is not reduced   *)
(* on the way.  An offset behind used wraps around and looks like plenty.  *)
Copied(c, off, len) ==
  LET S       == Chunks(c)
      at(j)   == IF j = 1 THEN off ELSE 0
      left(j) == used(S[j]) - at(j)
      k       == Min({j \in DOMAIN S : j = Len(S) \/ left(j) > len \/ left(j) < 0})
      n       == IF left(k) \in 0 .. len THEN left(k) ELSE len
  IN  [ok     |-> ~chunk[S[k]].freed,
       bytes  |-> FlattenSeq([j \in 1 .. k |-> Slice(S[j], at(j), IF j < k THEN left(j) ELSE n)]),
       chunk  |-> S[k],
       offset |-> at(k) + n]

CanRead(d) == open_files[d].file # NULL /\ open_files[d].acc # "W"

(* With MOVE_OFFSET: from the descriptor's chunk and offset.               *)
dandelion_read(d, len) ==
  LET o     == open_files[d]
      start == IF o.chunk = NULL THEN node[o.file].content ELSE o.chunk
      from  == IF o.chunk = NULL THEN 0 ELSE o.offset
      r     == Copied(start, from, len)
  IN  /\ status = "ok" /\ o.offset <= MaxOffset
      /\ \/ ~CanRead(d) /\ Fails(EBADF)
         \/ CanRead(d) /\ len = 0 /\ Fails(0)
         \/ /\ CanRead(d) /\ len > 0 /\ start = NULL
            /\ open_files' = [open_files EXCEPT ![d].offset = 0]
            /\ Returns(0, <<>>)
            /\ UNCHANGED <<node, chunk, directory, written>>
         \/ CanRead(d) /\ len > 0 /\ start # NULL /\ ~r.ok /\ Crashes("freed")
         \/ /\ CanRead(d) /\ len > 0 /\ start # NULL /\ r.ok
            /\ open_files' = [open_files EXCEPT ![d].chunk = r.chunk, ![d].offset = r.offset]
            /\ Returns(Len(r.bytes), r.bytes)
            /\ UNCHANGED <<node, chunk, directory, written>>

(* With USE_OFFSET: the chunk with byte off is looked for from the start.  *)
pread(d, len, off) ==
  LET S == Chunks(node[open_files[d].file].content)
      k == First({j \in DOMAIN S : off = 0 \/ used(S[j]) >= off - UsedBefore(S, j)})
      r == Copied(S[k], off - UsedBefore(S, k), len)
  IN  /\ status = "ok" /\ CanRead(d) /\ len > 0
      /\ Polite => off > 0 \/ S # <<>>
      /\ \/ off < 0 /\ Fails(EINVAL)
         \/ off = 0 /\ S = <<>> /\ Crashes("null")
         \/ off > 0 /\ k = 0 /\ Intact(S) /\ Fails(0)
         \/ off > 0 /\ k = 0 /\ ~Intact(S) /\ Crashes("freed")
         \/ off >= 0 /\ k # 0 /\ ~r.ok /\ Crashes("freed")
         \/ /\ off >= 0 /\ k # 0 /\ r.ok
            /\ Returns(Len(r.bytes), r.bytes)
            /\ UNCHANGED <<node, chunk, directory, open_files, written>>

-----------------------------------------------------------------------------
(* write and pwrite.  Both prepare a chunk and then fill it from used on.  *)

Fresh(len) == [i \in 1 .. len |-> written + i]

(* What is prepared: the chunks and the file's content, the chunk to fill, *)
(* and how it went.                                                        *)
Prepared(ch, content, current, how) ==
  [ch |-> ch, content |-> content, current |-> current, how |-> how]

(* A file without content gets its first chunk; NULL when that fails.      *)
FirstChunk(size) ==
  IF CanAllocate(chunk, size)
  THEN Prepared(Append(chunk, NewChunk(size, <<>>)), Len(chunk) + 1, Len(chunk) + 1, "ok")
  ELSE Prepared(chunk, NULL, NULL, "ok")

(* write fills the chunk of the descriptor.  For an O_APPEND descriptor    *)
(* the list is followed from that chunk, with no effect on which one is    *)
(* filled.                                                                 *)
PrepareWrite(o, len) ==
  LET content == node[o.file].content
      p       == IF content = NULL THEN FirstChunk(len)
                 ELSE Prepared(chunk, content, IF o.chunk = NULL THEN content ELSE o.chunk, "ok")
  IN  IF o.append /\ o.chunk = NULL THEN [p EXCEPT !.how = "null"]
      ELSE IF o.append /\ ~Intact(Chunks(o.chunk)) THEN [p EXCEPT !.how = "freed"]
      ELSE p

(* pwrite looks for the chunk that has room for byte off, which makes all  *)
(* bytes before it used, and adds one when the list is too short.          *)
PreparePwrite(o, len, off) ==
  LET content == node[o.file].content
      S       == Chunks(content)
      rest(j) == off - CapBefore(S, j)
      k       == First({j \in DOMAIN S : rest(j) = 0 \/ rest(j) < chunk[S[j]].cap})
      over    == rest(Len(S) + 1)
      gap     == JunkBytes(rest(k) - used(S[k]))
  IN  IF content = NULL THEN FirstChunk(off + len)
      ELSE IF (k = 0 /\ ~Intact(S)) \/ (k # 0 /\ rest(k) > 0 /\ chunk[S[k]].freed)
      THEN Prepared(chunk, content, NULL, "freed")
      ELSE IF k # 0
      THEN Prepared([chunk EXCEPT ![S[k]].data = @ \o gap], content, S[k], "ok")
      ELSE IF ~CanAllocate(chunk, over + len)
      THEN Prepared(chunk, content, NULL, "enomem")
      ELSE Prepared(Append([chunk EXCEPT ![Last(S)].next = Len(chunk) + 1],
                           NewChunk(over + len, JunkBytes(over))),
                    content, Len(chunk) + 1, "ok")

(* The copying loop: the free part of the chunk, then a new chunk that     *)
(* takes the place of whatever followed.                                   *)
Fill(p, d, len, moves) ==
  LET o     == open_files[d]
      c     == p.current
      bytes == Fresh(len)
      part  == Min({len, p.ch[c].cap - Len(p.ch[c].data)})
      new   == Len(p.ch) + 1
      head  == [p.ch EXCEPT ![c].data = @ \o SubSeq(bytes, 1, part)]
      more  == part < len
  IN  \/ len > 0 /\ c = NULL /\ Crashes("null")
      \/ len > 0 /\ c # NULL /\ p.ch[c].freed /\ Crashes("freed")
      \/ /\ len > 0 /\ c # NULL /\ ~p.ch[c].freed
         /\ more /\ ~CanAllocate(p.ch, len - part)
         /\ Crashes("null")
      \/ /\ len > 0 => /\ c # NULL /\ ~p.ch[c].freed
                       /\ more => CanAllocate(p.ch, len - part)
         /\ chunk' = IF len = 0 THEN p.ch
                     ELSE IF ~more THEN head
                     ELSE Append([head EXCEPT ![c].next = new],
                                 NewChunk(len - part, SubSeq(bytes, part + 1, len)))
         /\ node' = [node EXCEPT ![o.file].content = p.content]
         /\ open_files' = IF moves
                          THEN [open_files EXCEPT ![d].offset = 0,
                                  ![d].chunk = IF len > 0 /\ more THEN new ELSE c]
                          ELSE open_files
         /\ written' = written + len
         /\ Returns(len, <<>>)
         /\ UNCHANGED directory

CanWrite(d) == open_files[d].file # NULL

(* With MOVE_OFFSET.                                                       *)
dandelion_write(d, len) ==
  LET p == PrepareWrite(open_files[d], len)
  IN  /\ status = "ok" /\ written + len <= MaxBytes
      /\ \/ ~CanWrite(d) /\ Fails(EBADF)
         \/ /\ CanWrite(d) /\ (Polite => open_files[d].acc = "W")
            /\ \/ p.how # "ok" /\ Crashes(p.how)
               \/ p.how = "ok" /\ Fill(p, d, len, TRUE)

(* With USE_OFFSET.  A negative offset is as good as 0 for a file that has *)
(* content.                                                                *)
pwrite(d, len, off) ==
  LET p == PreparePwrite(open_files[d], len, off)
  IN  /\ status = "ok" /\ written + len <= MaxBytes
      /\ CanWrite(d) /\ ~Polite
      /\ \/ p.how = "freed" /\ Crashes(p.how)
         \/ p.how = "enomem" /\ Fails(ENOMEM)
         \/ p.how = "ok" /\ Fill(p, d, len, FALSE)

-----------------------------------------------------------------------------
(* lseek.                                                                  *)

Start(chnk, offset, total, how) ==
  [chunk |-> chnk, offset |-> offset, total |-> total, how |-> how]

(* The first switch: the chunk, the offset in it and in the file that the  *)
(* seek starts from.  A chunk that is not in the file's list counts as     *)
(* being behind it.                                                        *)
SeekStart(o, whence) ==
  LET content == node[o.file].content
      S       == Chunks(content)
      current == IF o.chunk = NULL THEN content ELSE o.chunk
      k       == First({j \in DOMAIN S : S[j] = current})
  IN  CASE whence = "SET" -> Start(content, 0, 0, "ok")
        [] whence = "CUR" /\ k # 0 ->
             Start(current, o.offset, UsedBefore(S, k) + o.offset, "ok")
        [] whence = "CUR" /\ k = 0 ->
             Start(current, 0, Len(DataOf(S)), IF Intact(S) THEN "ok" ELSE "freed")
        [] whence = "END" /\ S = <<>> -> Start(NULL, 0, 0, "null")
        [] OTHER -> Start(Last(S), used(Last(S)), Len(DataOf(S)),
                          IF Intact(S) THEN "ok" ELSE "freed")

MoveTo(d, c, off, total) ==
  /\ open_files' = [open_files EXCEPT ![d].chunk = c, ![d].offset = off]
  /\ Returns(total, <<>>)
  /\ UNCHANGED <<directory, written>>

(* A negative offset: the target is searched from the start of the file.   *)
SeekBack(d, st, off) ==
  LET S      == Chunks(node[open_files[d].file].content)
      target == st.total + off
      k      == First({j \in DOMAIN S : used(S[j]) >= target - UsedBefore(S, j)})
  IN  \/ (st.chunk = NULL \/ target < 0) /\ Fails(EINVAL)
      \/ st.chunk # NULL /\ target >= 0 /\ k = 0 /\ Intact(S) /\ Crashes("null")
      \/ /\ st.chunk # NULL /\ target >= 0
         /\ IF k = 0 THEN ~Intact(S) ELSE chunk[S[k]].freed
         /\ Crashes("freed")
      \/ /\ st.chunk # NULL /\ target >= 0 /\ k # 0
         /\ ~chunk[S[k]].freed
         /\ MoveTo(d, S[k], target - UsedBefore(S, k), target)
         /\ UNCHANGED <<node, chunk>>

(* Another offset: forward through the chunks, and a new chunk for what    *)
(* lies behind the last one.                                               *)
SeekForward(d, st, off) ==
  LET f      == open_files[d].file
      S      == Chunks(st.chunk)
      at(j)  == IF j = 1 THEN st.offset ELSE 0
      has(j) == used(S[j]) - at(j)
      rest(j) == IF j = 1 THEN off ELSE off - (UsedBefore(S, j) - st.offset)
      k      == Min({j \in DOMAIN S : j = Len(S) \/ has(j) < 0 \/ has(j) >= rest(j)})
      inside == S # <<>> /\ (has(k) < 0 \/ has(k) >= rest(k))
      gap    == IF S = <<>> THEN off ELSE rest(k) - has(k)
      new    == Len(chunk) + 1
      total  == st.total + off
  IN  \/ S # <<>> /\ chunk[S[k]].freed /\ Crashes("freed")
      \/ /\ S # <<>> => ~chunk[S[k]].freed
         /\ inside \/ gap = 0
         /\ IF S = <<>> THEN MoveTo(d, NULL, st.offset, total)
            ELSE MoveTo(d, S[k], at(k) + rest(k), total)
         /\ UNCHANGED <<node, chunk>>
      \/ /\ S # <<>> => ~chunk[S[k]].freed
         /\ ~inside /\ gap > 0
         /\ ~CanAllocate(chunk, gap)
         /\ Fails(ENOMEM)
      \/ /\ S # <<>> => ~chunk[S[k]].freed
         /\ ~inside /\ gap > 0
         /\ CanAllocate(chunk, gap)
         /\ chunk' = Append(IF S = <<>> THEN chunk ELSE [chunk EXCEPT ![S[k]].next = new],
                            NewChunk(gap, JunkBytes(gap)))
         /\ node' = IF S = <<>> THEN [node EXCEPT ![f].content = new] ELSE node
         /\ MoveTo(d, new, gap, total)

(* A polite client stays inside the file and has nothing to write there.   *)
PoliteSeek(d, st, off) ==
  LET size == Len(DataOf(Chunks(node[open_files[d].file].content)))
  IN  open_files[d].acc = "R" /\ st.how = "ok" /\ st.total + off <= size

dandelion_lseek(d, off, whence) ==
  LET st == SeekStart(open_files[d], whence)
  IN  /\ status = "ok" /\ open_files[d].offset <= MaxOffset
      /\ \/ open_files[d].file = NULL /\ Fails(EBADF)
         \/ /\ open_files[d].file # NULL
            /\ Polite => PoliteSeek(d, st, off)
            /\ \/ st.how # "ok" /\ Crashes(st.how)
               \/ st.how = "ok" /\ off < 0 /\ SeekBack(d, st, off)
               \/ st.how = "ok" /\ off >= 0 /\ SeekForward(d, st, off)

-----------------------------------------------------------------------------
(* truncate and ftruncate.  The chunks behind the new end are freed; the   *)
(* last one that is kept still points at them.                             *)

Truncate(f, len) ==
  LET S       == Chunks(node[f].content)
      rest(j) == len - UsedBefore(S, j)
      k       == First({j \in DOMAIN S : used(S[j]) >= rest(j)})
      behind  == SubSeq(S, k + 1, Len(S))
      over    == len - Len(DataOf(S))
      cut     == [chunk EXCEPT ![S[k]].data = SubSeq(@, 1, rest(k))]
  IN  \/ len < 0 /\ Fails(EINVAL)
      \/ len >= 0 /\ S = <<>> /\ Crashes("null")
      \/ /\ len >= 0 /\ S # <<>>
         /\ IF k = 0 THEN ~Intact(S) ELSE ~Intact(SubSeq(S, k, Len(S)))
         /\ Crashes("freed")
      \/ /\ len >= 0 /\ k # 0 /\ Intact(SubSeq(S, k, Len(S)))
         /\ chunk' = Freed(cut, behind)
         /\ Returns(0, <<>>)
         /\ UNCHANGED <<node, directory, open_files, written>>
      \/ /\ len >= 0 /\ S # <<>> /\ k = 0 /\ Intact(S)
         /\ ~CanAllocate(chunk, over)
         /\ Crashes("null")
      \/ /\ len >= 0 /\ S # <<>> /\ k = 0 /\ Intact(S)
         /\ CanAllocate(chunk, over)
         /\ chunk' = Append([chunk EXCEPT ![Last(S)].next = Len(chunk) + 1],
                            NewChunk(over, JunkBytes(over)))
         /\ Returns(0, <<>>)
         /\ UNCHANGED <<node, directory, open_files, written>>

dandelion_truncate(name, len) ==
  /\ status = "ok" /\ ~Polite
  /\ \/ directory[name] = NULL /\ Fails(ENOENT)
     \/ directory[name] # NULL /\ Truncate(directory[name], len)

dandelion_ftruncate(d, len) ==
  /\ status = "ok" /\ ~Polite
  /\ \/ (open_files[d].file = NULL \/ open_files[d].acc # "W") /\ Fails(EBADF)
     \/ /\ open_files[d].file # NULL /\ open_files[d].acc = "W"
        /\ Truncate(open_files[d].file, len)

-----------------------------------------------------------------------------
(* The files that fs_initialize makes of the input items: one chunk whose  *)
(* data is the item itself.                                                *)
Init ==
  \E order \in SetToSeqs(DOMAIN Inputs) :
    /\ node = [f \in DOMAIN order |-> [content |-> f, links |-> 1, opens |-> 0,
                                       mode |-> {"r", "w"}, freed |-> FALSE]]
    /\ chunk = [f \in DOMAIN order |->
                  [cap |-> Inputs[order[f]], data |-> [i \in 1 .. Inputs[order[f]] |-> MaxBytes + i],
                   next |-> NULL, input |-> TRUE, freed |-> FALSE]]
    /\ directory = [n \in Names |-> First({f \in DOMAIN order : order[f] = n})]
    /\ open_files = [d \in Descriptors |-> Closed]
    /\ written = 0
    /\ ret = [code |-> 0, bytes |-> <<>>]
    /\ status = "ok"

Next ==
  \/ \E name \in Names, flags \in OpenFlags, mode \in OpenModes :
       dandelion_open(name, flags, mode)
  \/ \E name \in Names : dandelion_unlink(name)
  \/ \E d \in Descriptors : dandelion_close(d)
  \/ \E d \in Descriptors, len \in Lengths : dandelion_read(d, len)
  \/ \E d \in Descriptors, len \in Lengths : dandelion_write(d, len)
  \/ \E d \in Descriptors, len \in Lengths, off \in Offsets : pread(d, len, off)
  \/ \E d \in Descriptors, len \in Lengths, off \in Offsets : pwrite(d, len, off)
  \/ \E d \in Descriptors, off \in Offsets, whence \in {"SET", "CUR", "END"} :
       dandelion_lseek(d, off, whence)
  \/ \E name \in Names, len \in Offsets : dandelion_truncate(name, len)
  \/ \E d \in Descriptors, len \in Offsets : dandelion_ftruncate(d, len)

Spec == Init /\ [][Next]_vars

-----------------------------------------------------------------------------
(* Properties.                                                             *)

Bytes(f) == DataOf(Chunks(node[f].content))

LiveFiles == {f \in DOMAIN node : ~node[f].freed}

Owned == UNION {Range(Chunks(node[f].content)) : f \in LiveFiles}

(* Nothing is ever written behind the end of a chunk's buffer, whichever   *)
(* way used was moved before (write, pwrite, lseek, truncate).             *)
WithinCapacity == \A c \in DOMAIN chunk : used(c) <= chunk[c].cap

(* A file is deallocated exactly when "last path leading to file" is gone  *)
(* "and if it is not open", and no descriptor or name leads to a file that *)
(* was deallocated.                                                        *)
LivesWhileReachable ==
  status = "ok" => \A f \in DOMAIN node :
    /\ node[f].opens = Cardinality({d \in Descriptors : open_files[d].file = f})
    /\ node[f].links = Cardinality({n \in Names : directory[n] = f})
    /\ node[f].freed <=> node[f].opens = 0 /\ node[f].links = 0

(* The bytes of s behind position pos begin with block.                    *)
IsAt(block, s, pos) == \A i \in DOMAIN block : pos + i \in DOMAIN s /\ block[i] = s[pos + i]

(* The position of a descriptor in its file.                               *)
InFile(d) ==
  LET o == open_files[d]
      S == Chunks(node[o.file].content)
  IN  /\ o.file # NULL
      /\ Intact(S)
      /\ o.chunk = NULL => o.offset = 0
      /\ o.chunk # NULL => o.chunk \in Range(S) /\ o.offset <= used(o.chunk)

Position(d) ==
  LET o == open_files[d]
      S == Chunks(node[o.file].content)
  IN  IF o.file = NULL \/ o.chunk = NULL THEN 0
      ELSE UsedBefore(S, First({j \in DOMAIN S : S[j] = o.chunk})) + o.offset

(* Reading from a descriptor that points into its file returns the bytes   *)
(* that follow its position, skips and repeats none however many chunks    *)
(* they are in, and moves the position behind them.                        *)
ReadsInOrder ==
  [][\A d \in Descriptors, len \in Lengths :
       UNCHANGED <<node, chunk, directory, written>>
         /\ CanRead(d) /\ dandelion_read(d, len) /\ InFile(d) =>
         LET bytes == Bytes(open_files[d].file)
             n     == Len(ret'.bytes)
         IN  /\ status' = "ok"
             /\ IsAt(ret'.bytes, bytes, Position(d))
             /\ n >= Min({len, Len(bytes) - Position(d)})
             /\ InFile(d)' /\ Position(d)' = Position(d) + n]_vars

(* pread returns the bytes that follow the offset it is given, however the *)
(* chunks are cut, and nothing behind the end of the file.                 *)
PreadsAtOffset ==
  [][\A d \in Descriptors, len \in Lengths, off \in Offsets :
       UNCHANGED <<node, chunk, directory, open_files, written>>
         /\ off >= 0 /\ pread(d, len, off) /\ Bytes(open_files[d].file) # <<>>
         /\ Intact(Chunks(node[open_files[d].file].content)) =>
           LET bytes == Bytes(open_files[d].file)
               n     == Len(ret'.bytes)
           IN  /\ IsAt(ret'.bytes, bytes, off)
               /\ off < Len(bytes) => n >= Min({len, Len(bytes) - off})]_vars

-----------------------------------------------------------------------------
(* Properties of what polite clients do, as long as memory lasts.          *)

(* No call goes through a pointer that is NULL or whose target was freed,  *)
(* or gives memory to dandelion_free that is not its own, however opens,   *)
(* reads, writes, closes and unlinks of several descriptors interleave.    *)
NoFault == status = "ok"

(* Every chunk is freed, by free_data or O_TRUNC, before the last pointer  *)
(* to it is gone.                                                          *)
NothingLeaked == \A c \in DOMAIN chunk : chunk[c].freed \/ c \in Owned

-----------------------------------------------------------------------------
(* What comments, tests and documentation say and the code does not keep.  *)

(* "Reading returning not the expected amount of bytes"                    *)
(* (test_interfaces/src/fs_interface.rs): a read returns at most as many   *)
(* bytes as it was asked for, and its buffer has room for.                 *)
ReadAtMostLen ==
  [][\A d \in Descriptors, len \in Lengths :
       dandelion_read(d, len) => Len(ret'.bytes) <= len]_vars

(* "go to length, and cut off left over after that" (truncate): the chunks *)
(* that truncate frees are not part of the file any more.                  *)
ListsIntact ==
  status = "ok" => \A f \in LiveFiles : Intact(Chunks(node[f].content))

(* "reposition file reading/writing offset" (lseek): a write begins where  *)
(* lseek has put the descriptor.  After a write the offset is 0, so that   *)
(* only lseek gives a descriptor that is not read from another one.        *)
WritesAtPosition ==
  [][\A d \in Descriptors, len \in Lengths :
       dandelion_write(d, len) /\ InFile(d) /\ open_files[d].offset > 0 =>
         IsAt(Fresh(len), Bytes(open_files[d].file)', Position(d))]_vars

(* "if writing a O_APPEND file, need to jump to end of file before writing"*)
(* (write).                                                                *)
AppendsAtEnd ==
  [][\A d \in Descriptors, len \in Lengths :
       dandelion_write(d, len) /\ CanWrite(d) /\ open_files[d].append =>
         Bytes(open_files[d].file)' = Bytes(open_files[d].file) \o Fresh(len)]_vars

(* "check if file is already open, if so fail O_TRUNC with EACCESS" (open) *)
TruncRefusedWhileOpen ==
  [][\A name \in Names, flags \in OpenFlags, mode \in OpenModes :
       dandelion_open(name, flags, mode) /\ directory[name] # NULL /\ flags.trunc =>
         node[directory[name]].opens = 0 \/ ret'.code \in {EACCES, EMFILE}]_vars

(* "if offset goes beyond fill gap with 0s" (lseek): no file holds bytes   *)
(* of memory that nobody has written.                                      *)
GapsFilled == \A f \in LiveFiles : Junk \notin Range(Bytes(f))

(* "check there is a valid file descriptor there and that it is writable"  *)
(* (write).                                                                *)
ReadOnlyRefused ==
  [][\A d \in Descriptors, len \in Lengths :
       dandelion_write(d, len) /\ CanWrite(d) /\ open_files[d].acc = "R"
         => ret'.code = EBADF]_vars

(* "a create file open can return a read/write file descriptor, even when  *)
(* creating read only file" (open_existing_file).                          *)
CreatorMayWrite ==
  [][\A name \in Names, flags \in OpenFlags, mode \in OpenModes :
       dandelion_open(name, flags, mode) /\ directory[name] = NULL
         => ret'.code # EACCES]_vars

(* "before the allocation there should be a descriptor inidacting it is    *)
(* occupied" (dandelion_free): memory that is freed was allocated.         *)
FreesOnlyAllocated == status # "badfree"
=============================================================================
