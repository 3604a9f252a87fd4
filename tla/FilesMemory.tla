---------------------------- MODULE FilesMemory -----------------------------
(***************************************************************************)
(* Theorems about the memory of the files of Files.tla: no fault and no    *)
(* leak, for clients that are polite and any number of files, descriptors, *)
(* chunks and bytes.  What is left is that write and lseek keep the        *)
(* invariant.                                                              *)
(***************************************************************************)
EXTENDS FilesPolite

-----------------------------------------------------------------------------
(* The rest of write.                                                      *)

(* The last chunk of a list that has become longer.                        *)
LEMMA LastOfLonger ==
  ASSUME NEW m \in Nat, NEW S \in Seq(1 .. m), NEW x
  PROVE  LastOf(Append(S, x)) = x
<1>1. Append(S, x) # <<>> /\ Append(S, x)[Len(Append(S, x))] = x
  OBVIOUS
<1> QED BY <1>1, Zenon DEF LastOf

(* Where the descriptors are when d has written to its file: T is the list *)
(* of the file after that.                                                 *)
LEMMA WrittenPlaced ==
  ASSUME PoliteInv, NEW d \in Descriptors, open_files[d].file # 0, open_files[d].acc = "W",
         NEW S, S = ListOf(chunk, node[open_files[d].file].content),
         NEW T, T = ListOf(chunk', node'[open_files[d].file].content),
         NEW x, T = S \/ T = Append(S, x), NEW c, c = LastOf(T),
         OnlyMoves(open_files, open_files', d, c),
         \A i \in Live(node) : i # open_files[d].file =>
           ListOf(chunk', node'[i].content) = ListOf(chunk, node[i].content)
  PROVE  Placed(Descriptors, node', chunk', open_files')
<1> DEFINE f == open_files[d].file
<1>0. /\ Chained(chunk) /\ Len(chunk) \in Nat /\ Placed(Descriptors, node, chunk, open_files)
  BY PoliteTypes, Zenon
<1>1. /\ f \in Live(node) /\ ~open_files[d].append /\ node[f].content \in 0 .. Len(chunk)
      /\ open_files[d].chunk = LastOf(S)
      /\ open_files[d].chunk # 0 => open_files[d].chunk \in Range(S)
  BY DescriptorFacts, Zenon DEF ChunksOf
<1>2. S \in Seq(1 .. Len(chunk))
  BY <1>0, <1>1, ListMembers, Zenon
<1>3. /\ open_files'[d].file = f /\ open_files'[d].acc = "W" /\ ~open_files'[d].append
      /\ open_files'[d].chunk = c
      /\ \A e \in Descriptors : e # d => open_files'[e] = open_files[e]
  BY <1>1, Zenon DEF OnlyMoves
<1>4. \A e \in Descriptors : e # d /\ open_files[e].file = f => open_files[e].acc # "W"
  BY <1>0, Zenon DEF Placed
<1>5. T = Append(S, x) => c = x /\ \A y : y \in Range(T) <=> y \in Range(S) \/ y = x
  <2>1. LastOf(Append(S, x)) = x
    BY <1>0, <1>2, LastOfLonger, Zenon
  <2>2. \A y : y \in Range(Append(S, x)) <=> y \in Range(S) \/ y = x
    <3>1. HasMore(Append(S, x), S, x)
      BY <1>0, <1>2, AppendHasMore, Zenon
    <3> QED BY <3>1, Zenon DEF HasMore
  <2> QED BY <2>1, <2>2, Zenon
<1>6. c # 0 => c \in Range(T)
  BY <1>1, <1>5, Zenon
<1>7. Range(S) \subseteq Range(T)
  BY <1>5, Zenon
<1>8. ChunksOf(node', chunk', f) = Range(T) /\ ChunksOf(node, chunk, f) = Range(S)
  BY Zenon DEF ChunksOf
<1> HIDE DEF f
<1>9. PlacedAt(Descriptors, node', chunk', open_files', d)
  BY <1>3, <1>4, <1>6, <1>8, Zenon DEF PlacedAt, f
<1>10. ASSUME NEW e \in Descriptors, e # d, open_files[e].file # 0
       PROVE  \/ ListOf(chunk', node'[open_files[e].file].content) =
                 ListOf(chunk, node[open_files[e].file].content)
              \/ /\ open_files[e].acc # "W"
                 /\ ChunksOf(node, chunk, open_files[e].file) \subseteq
                    ChunksOf(node', chunk', open_files[e].file)
  <2>1. open_files[e].file \in Live(node)
    BY <1>10, ReachedIsLive, Zenon
  <2>2. CASE open_files[e].file = f
    BY <1>4, <1>7, <1>8, <1>10, <2>2, Zenon
  <2>3. CASE open_files[e].file # f
    BY <2>1, <2>3, Zenon DEF f
  <2> QED BY <2>2, <2>3
<1>11. OthersKept(Descriptors, node, node', chunk, chunk', open_files, open_files', d)
  BY <1>3, <1>10, Zenon DEF OthersKept
<1> QED BY <1>0, <1>9, <1>11, PlacedChanged

(* write: bytes go to the end of the file.                                 *)
LEMMA WritePolite ==
  ASSUME Polite, EnoughMemory, PoliteInv, NEW d \in Descriptors, NEW len \in Lengths,
         dandelion_write(d, len)
  PROVE  PolitePart'
<1> DEFINE f == open_files[d].file
           p == PrepareWrite(open_files[d], len)
           n == node[f].content
           S == ListOf(chunk, n)
<1>0. /\ len \in Nat /\ status = "ok" /\ TypeInv /\ written \in Nat /\ written + len <= MaxBytes
      /\ Sane(chunk) /\ Len(chunk) \in Nat /\ Nodes(node, Len(chunk)) /\ Len(node) \in Nat
      /\ Table(open_files, Len(node), Len(chunk)) /\ Partitioned(node, chunk)
  BY FilesAssumption, PoliteTypes, Zenon DEF dandelion_write
<1>1. CASE Fails(EBADF)
  BY <1>1, FailPolite, Zenon
<1>2. CASE /\ f # 0 /\ open_files[d].acc = "W"
           /\ \/ p.how # "ok" /\ Crashes(p.how)
              \/ p.how = "ok" /\ Fill(p, d, len, TRUE)
  <2>1. /\ f \in Live(node) /\ f \in 1 .. Len(node) /\ n \in 0 .. Len(chunk)
        /\ open_files[d].chunk \in 0 .. Len(chunk) /\ open_files[d].chunk = LastOf(S)
    BY <1>2, DescriptorFacts, Zenon
  <2>2. Fillable(p, f, len)
    BY <1>0, <1>2, PreparedPolite, Zenon
  <2>3. Ready(p)
    BY <1>0, <1>2, PrepareWriteReady, Zenon DEF NULL
  <2> HIDE DEF p, f, n, S
  <2> DEFINE g == FillGives(p, len)
             c == FillPlace(p, len)
  <2>4. /\ p.how = "ok" /\ CanFill(p, len) /\ Extends(chunk, g, LastOf(S))
        /\ p.content = (IF n = 0 /\ Len(g) # Len(chunk) THEN Len(g) ELSE n)
        /\ c = (IF Len(g) = Len(chunk) THEN LastOf(S) ELSE Len(g))
        /\ Len(g) <= Len(chunk) + len
    BY <2>2, Zenon DEF Fillable, S, n
  <2>5. Fill(p, d, len, TRUE) /\ Sane(p.ch) /\ p.current \in 0 .. Len(p.ch)
        /\ Len(chunk) <= Len(p.ch) /\ p.content \in 0 .. Len(p.ch)
    BY <1>2, <2>3, <2>4, Zenon DEF Ready
  <2>6. /\ status' = "ok" /\ chunk' = g /\ node' = Holding(node, f, p.content)
        /\ open_files' = ToChunk(open_files, d, c, 0) /\ written' = written + len
    <3>1. TRUE \in BOOLEAN
      OBVIOUS
    <3>2. LET part == Part(p.ch, p.current, Fresh(len))
          IN  \/ /\ status' # "ok" /\ len > 0
                 /\ \/ p.current = 0 \/ p.ch[p.current].freed
                    \/ part < len /\ ~CanAllocate(p.ch, len - part)
              \/ /\ status' = "ok"
                 /\ chunk' = IF len = 0 THEN p.ch ELSE Filled(p.ch, p.current, Fresh(len))
                 /\ node' = Holding(node, f, p.content)
                 /\ open_files' = ToChunk(open_files, d, IF len > 0 /\ part < len
                                                         THEN Len(p.ch) + 1 ELSE p.current, 0)
                 /\ written' = written + len
      BY <1>0, <2>5, <3>1, FillEnds, Zenon DEF f
    <3> QED BY <2>4, <3>2, Zenon DEF CanFill, FillGives, FillPlace
  <2>7. /\ Len(node') = Len(node) /\ node'[f].links = node[f].links
        /\ node'[f].freed = node[f].freed /\ node'[f].content = p.content
        /\ \A i \in 1 .. Len(node) : i # f => node'[i] = node[i]
    <3>1. Len(p.ch) \in Nat
      BY <2>5, SaneTypes, Zenon
    <3>2. Nodes(node, Len(p.ch))
      <4>1. Len(node) <= Len(node)
        BY <1>0
      <4> QED BY <1>0, <2>5, <3>1, <4>1, TypesGrow, Zenon
    <3>3. LET h == Holding(node, f, p.content)
          IN  /\ Len(h) = Len(node) /\ h[f].links = node[f].links
              /\ h[f].freed = node[f].freed /\ h[f].content = p.content
              /\ \A i \in 1 .. Len(node) : i # f => h[i] = node[i]
      BY <2>1, <2>5, <3>1, <3>2, ContentChanged
    <3> QED BY <2>6, <3>3, Zenon
  <2> HIDE DEF g, c
  <2>8. /\ Partitioned(node', chunk')
        /\ ListOf(chunk', node'[f].content) = (IF Len(g) = Len(chunk) THEN S ELSE Append(S, Len(g)))
        /\ \A i \in Live(node) : i # f =>
             ListOf(chunk', node'[i].content) = ListOf(chunk, node[i].content)
    <3>1. /\ Extends(chunk, chunk', LastOf(S))
          /\ node'[f].content =
               IF node[f].content = 0 /\ Len(chunk') # Len(chunk) THEN Len(chunk') ELSE node[f].content
      BY <2>4, <2>6, <2>7, Zenon DEF n
    <3>2. Writes(node, node', chunk, chunk', f)
      BY <2>7, <3>1, Zenon DEF Writes, S, n
    <3>3. Written(node, node', chunk, chunk', f)
      BY <1>0, <2>1, <3>2, WritesPartitioned, Zenon
    <3> QED BY <2>6, <3>3, Zenon DEF Written, S, n
  <2>9. OnlyMoves(open_files, open_files', d, c)
    <3>1. Len(g) \in Nat /\ Len(chunk) <= Len(g) /\ Len(node) <= Len(node)
      BY <1>0, <2>4 DEF Extends
    <3>2. c \in 0 .. Len(g) /\ 0 \in Int
      BY <1>0, <2>1, <2>4, <3>1
    <3>3. Table(open_files, Len(node), Len(g))
      BY <1>0, <3>1, TypesGrow, Zenon
    <3>4. open_files' = Moved(open_files, d, c, 0)
      BY <1>0, <2>6, <3>1, <3>3, MovedForms, Zenon
    <3> QED BY <1>0, <3>1, <3>2, <3>3, <3>4, MovedOnly, Zenon
  <2>10. Placed(Descriptors, node', chunk', open_files')
    <3> DEFINE T == ListOf(chunk', node'[f].content)
    <3>1. T = S \/ T = Append(S, Len(g))
      BY <2>8, Zenon
    <3>2. c = LastOf(T)
      <4>1. CASE Len(g) = Len(chunk)
        BY <2>4, <2>8, <4>1, Zenon
      <4>2. CASE Len(g) # Len(chunk)
        <5>1. S \in Seq(1 .. Len(chunk)) /\ Chained(chunk)
          BY <1>0, <2>1, ListMembers, Zenon DEF S, Sane
        <5>2. LastOf(Append(S, Len(g))) = Len(g)
          BY <1>0, <5>1, LastOfLonger, Zenon
        <5> QED BY <2>4, <2>8, <4>2, <5>2, Zenon
      <4> QED BY <4>1, <4>2
    <3> HIDE DEF T
    <3>3. /\ S = ListOf(chunk, node[open_files[d].file].content)
          /\ T = ListOf(chunk', node'[open_files[d].file].content)
          /\ open_files[d].file # 0 /\ open_files[d].acc = "W"
          /\ \A i \in Live(node) : i # open_files[d].file =>
               ListOf(chunk', node'[i].content) = ListOf(chunk, node[i].content)
      BY <1>2, <2>8, Zenon DEF S, T, n, f
    <3> QED BY <2>9, <3>1, <3>2, <3>3, WrittenPlaced
  <2>11. written' <= MaxBytes /\ Len(chunk') <= Cardinality(DOMAIN Inputs) + written'
    <3>1. Len(chunk) <= Cardinality(DOMAIN Inputs) + written
      BY Zenon DEF PoliteInv, PolitePart, Orderly
    <3>2. Cardinality(DOMAIN Inputs) \in Nat
      BY FilesAssumption, FS_Subset, FS_CardinalityType, Zenon
    <3>3. Len(g) \in Nat
      BY <1>0, <2>4 DEF Extends
    <3> QED BY <1>0, <2>4, <2>6, <3>1, <3>2, <3>3
  <2> QED BY <2>6, <2>8, <2>10, <2>11, Zenon DEF PolitePart, Orderly
<1> QED BY <1>1, <1>2, Zenon DEF dandelion_write, CanWrite, NULL

-----------------------------------------------------------------------------
(* lseek.                                                                  *)

(* The chunks of an open file and the bytes before each of them.           *)
LEMMA OpenFileChunks ==
  ASSUME PoliteInv, NEW d \in Descriptors, open_files[d].file # 0
  PROVE  LET f == open_files[d].file
             F == Chunks(node[f].content)
         IN  /\ F = ListOf(chunk, node[f].content) /\ Len(F) \in Nat /\ DOMAIN F = 1 .. Len(F)
             /\ F \in Seq(1 .. Len(chunk)) /\ (F = <<>> <=> node[f].content = 0)
             /\ F # <<>> => Len(F) \in 1 .. Len(F) /\ 1 \in 1 .. Len(F) /\ F[1] = node[f].content
             /\ \A j \in 1 .. Len(F) : F[j] \in ChunksOf(node, chunk, f) /\ used(F[j]) \in Nat
             /\ \A j \in 1 .. Len(F) : ~chunk[F[j]].freed /\ F[j] \in 0 .. Len(chunk) /\ F[j] # 0
             /\ \A x \in ChunksOf(node, chunk, f) : \E j \in 1 .. Len(F) : F[j] = x
<1> DEFINE f == open_files[d].file
           n == node[f].content
           F == Chunks(n)
<1>0. Sane(chunk) /\ Chained(chunk) /\ Len(chunk) \in Nat
  BY PoliteTypes, Zenon
<1>1. f \in Live(node) /\ n \in 0 .. Len(chunk)
  BY DescriptorFacts, Zenon
<1>2. /\ F = ListOf(chunk, n) /\ Range(F) = ChunksOf(node, chunk, f)
      /\ \A c \in Range(F) : c \in 1 .. Len(chunk) /\ ~chunk[c].freed
  BY <1>1, LiveIntact, Zenon
<1> HIDE DEF n
<1>3. /\ F \in Seq(1 .. Len(chunk)) /\ Len(F) \in Nat /\ DOMAIN F = 1 .. Len(F)
      /\ F = <<>> <=> n = 0
      /\ n # 0 => Len(F) \in 1 .. Len(F) /\ F[1] = n
  BY <1>0, <1>1, ListTypes, Zenon
<1>4. \A x : x \in Range(F) <=> \E j \in 1 .. Len(F) : F[j] = x
  <2>1. LET L == ListOf(chunk, n)
        IN  \A x : x \in Range(L) <=> \E j \in 1 .. Len(L) : L[j] = x
    BY <1>0, <1>1, ListMembers, Zenon
  <2>2. F = ListOf(chunk, n)
    BY <1>2, Zenon
  <2> HIDE DEF F
  <2> QED BY <2>1, <2>2, Zenon
<1> HIDE DEF F
<1>5. \A j \in 1 .. Len(F) : F[j] \in Range(F)
  BY <1>4, Zenon
<1>6. \A c \in 1 .. Len(chunk) : used(c) \in Nat /\ c \in 0 .. Len(chunk) /\ c # 0
  <2>1. \A c \in 1 .. Len(chunk) : used(c) \in Nat
    BY <1>0, SaneTypes, Zenon DEF used
  <2> QED BY <1>0, <2>1
<1>7. n # 0 => 1 \in 1 .. Len(F)
  BY <1>3
<1>8. /\ \A j \in 1 .. Len(F) : F[j] \in ChunksOf(node, chunk, f) /\ used(F[j]) \in Nat
      /\ \A j \in 1 .. Len(F) : ~chunk[F[j]].freed /\ F[j] \in 0 .. Len(chunk) /\ F[j] # 0
  BY <1>2, <1>5, <1>6, Zenon
<1>9. \A x \in ChunksOf(node, chunk, f) : \E j \in 1 .. Len(F) : F[j] = x
  BY <1>2, <1>4, Zenon
<1>10. F # <<>> => Len(F) \in 1 .. Len(F) /\ 1 \in 1 .. Len(F) /\ F[1] = n
  BY <1>3, <1>7, Zenon
<1> HIDE DEF f
<1> QED BY <1>2, <1>3, <1>8, <1>9, <1>10, Zenon DEF F, n, f

(* How many bytes there are before the j-th chunk.                         *)
LEMMA OpenFileBytes ==
  ASSUME PoliteInv, NEW d \in Descriptors, open_files[d].file # 0
  PROVE  LET F == Chunks(node[open_files[d].file].content)
         IN  /\ UsedBefore(F, 1) = 0 /\ UsedBefore(F, Len(F) + 1) = Len(DataOf(F))
             /\ \A j \in 1 .. Len(F) + 1 : UsedBefore(F, j) \in Nat
             /\ \A j \in 1 .. Len(F) : UsedBefore(F, j + 1) = UsedBefore(F, j) + used(F[j])
<1> DEFINE F    == Chunks(node[open_files[d].file].content)
           B(k) == BytesIn(chunk, F, k)
<1>1. chunk \in Seq(ChunkSet) /\ F \in Seq(1 .. Len(chunk)) /\ Len(F) \in Nat
  BY PoliteTypes, OpenFileChunks, Zenon DEF Chained
<1> HIDE DEF F
<1>2. /\ B(0) = 0 /\ Len(DataIn(chunk, F)) = B(Len(F))
      /\ \A k \in 0 .. Len(F) : B(k) \in Nat
      /\ \A k \in 0 .. Len(F) - 1 : B(k + 1) = B(k) + Len(chunk[F[k + 1]].data)
  BY <1>1, BytesGrow, Zenon
<1> HIDE DEF B
<1>3. DataOf(F) = DataIn(chunk, F) /\ \A j : UsedBefore(F, j) = B(j - 1)
  BY DataOfIs, Zenon DEF B
<1>4. B(1 - 1) = 0 /\ B((Len(F) + 1) - 1) = Len(DataIn(chunk, F))
  BY <1>1, <1>2
<1>5. ASSUME NEW j \in 1 .. Len(F) + 1 PROVE B(j - 1) \in Nat
  BY <1>1, <1>2
<1>6. ASSUME NEW j \in 1 .. Len(F) PROVE B((j + 1) - 1) = B(j - 1) + Len(chunk[F[j]].data)
  <2>1. j - 1 \in 0 .. Len(F) - 1 /\ (j - 1) + 1 = j /\ (j + 1) - 1 = j
    BY <1>1
  <2>2. B((j - 1) + 1) = B(j - 1) + Len(chunk[F[(j - 1) + 1]].data)
    BY <1>2, <2>1, Zenon
  <2> QED BY <2>1, <2>2, Zenon
<1> QED BY <1>3, <1>4, <1>5, <1>6, Zenon DEF F, used

(* A seek that starts in the m-th chunk of the file with the list F.       *)
StartsIn(st, F, m) == st.chunk = F[m] /\ st.total = UsedBefore(F, m) + st.offset

(* A seek starts in a chunk of the file, unless the file has none.         *)
LEMMA SeekStartPolite ==
  ASSUME PoliteInv, NEW d \in Descriptors, NEW whence \in {"SET", "CUR", "END"},
         open_files[d].file # 0, SeekStart(open_files[d], whence).how = "ok"
  PROVE  LET st == SeekStart(open_files[d], whence)
             F  == Chunks(node[open_files[d].file].content)
         IN  \/ F = <<>> /\ st.chunk = 0 /\ st.total = 0
             \/ \E m \in 1 .. Len(F) : StartsIn(st, F, m)
<1> DEFINE o       == open_files[d]
           content == node[o.file].content
           F       == Chunks(content)
           current == IF o.chunk = NULL THEN content ELSE o.chunk
           K       == {j \in DOMAIN F : F[j] = current}
           k       == First(K)
           st      == SeekStart(o, whence)
<1>1. /\ Len(F) \in Nat /\ DOMAIN F = 1 .. Len(F) /\ (F = <<>> <=> content = 0)
      /\ F # <<>> => Len(F) \in 1 .. Len(F) /\ 1 \in 1 .. Len(F) /\ F[1] = content
      /\ \A j \in 1 .. Len(F) : used(F[j]) \in Nat
      /\ \A x \in ChunksOf(node, chunk, o.file) : \E j \in 1 .. Len(F) : F[j] = x
  BY OpenFileChunks, Zenon
<1>2. /\ UsedBefore(F, 1) = 0 /\ UsedBefore(F, Len(F) + 1) = Len(DataOf(F))
      /\ \A j \in 1 .. Len(F) + 1 : UsedBefore(F, j) \in Nat
      /\ \A j \in 1 .. Len(F) : UsedBefore(F, j + 1) = UsedBefore(F, j) + used(F[j])
  BY OpenFileBytes, Zenon
<1>3. /\ o.chunk # 0 => o.chunk \in ChunksOf(node, chunk, o.file)
      /\ content # 0 => content \in ChunksOf(node, chunk, o.file)
      /\ o.offset \in Int
  BY DescriptorFacts, Zenon
<1>4. current # 0 => current \in ChunksOf(node, chunk, o.file)
  BY <1>3, Zenon DEF NULL
<1>5. o.chunk = 0 => current = content
  BY Zenon DEF NULL
<1>5a. o.chunk # 0 => current = o.chunk
  BY Zenon DEF NULL
<1> DEFINE how == IF Intact(F) THEN "ok" ELSE "freed"
<1> HIDE DEF F, k, current, content
<1>6. st = CASE whence = "SET" -> Start(content, 0, 0, "ok")
             [] whence = "CUR" /\ k # 0 ->
                  Start(current, o.offset, UsedBefore(F, k) + o.offset, "ok")
             [] whence = "CUR" /\ k = 0 -> Start(current, 0, Len(DataOf(F)), how)
             [] whence = "END" /\ F = <<>> -> Start(NULL, 0, 0, "null")
             [] OTHER -> Start(Last(F), used(Last(F)), Len(DataOf(F)), how)
  BY Zenon DEF SeekStart, F, k, current, content
<1>7. K \in SUBSET (Nat \ {0})
  BY <1>1
<1>8. (k = 0 <=> K = {}) /\ (k # 0 => k \in 1 .. Len(F) /\ F[k] = current)
  BY <1>1, <1>7, FirstFacts, Zenon DEF k
<1>9. \A a, b, t, h : LET s == Start(a, b, t, h)
                      IN  s.chunk = a /\ s.offset = b /\ s.total = t /\ s.how = h
  BY DEF Start
<1>0. F = <<>> => Len(DataOf(F)) = 0
  <2>1. F = <<>> => Len(F) + 1 = 1
    OBVIOUS
  <2> QED BY <1>2, <2>1, Zenon
<1>s. st.how = "ok"
  BY Zenon
<1> HIDE DEF st, how
<1>10. CASE whence = "SET"
  <2>1. st.chunk = content /\ st.offset = 0 /\ st.total = 0
    BY <1>6, <1>9, <1>10
  <2>2. F # <<>> => StartsIn(st, F, 1)
    BY <1>1, <1>2, <2>1 DEF StartsIn
  <2> QED BY <1>1, <2>1, <2>2, Zenon DEF st, F, content
<1>11. CASE whence = "CUR" /\ k # 0
  <2>1. StartsIn(st, F, k)
    BY <1>6, <1>8, <1>9, <1>11 DEF StartsIn
  <2> QED BY <1>8, <1>11, <2>1, Zenon DEF st, F, content
<1>12. CASE whence = "CUR" /\ k = 0
  <2>1. st.chunk = current /\ st.total = Len(DataOf(F))
    BY <1>6, <1>9, <1>12
  <2>2. current = 0
    BY <1>1, <1>4, <1>8, <1>12, Zenon
  <2>3. o.chunk = 0
    BY <1>5a, <2>2, Zenon
  <2>4. F = <<>>
    BY <1>1, <1>5, <2>2, <2>3, Zenon
  <2> QED BY <1>0, <2>1, <2>2, <2>4, Zenon DEF st, F, content
<1>13. CASE whence = "END"
  <2>1. F # <<>>
    <3>1. F = <<>> => st.how = "null"
      BY <1>6, <1>9, <1>13
    <3> QED BY <1>s, <3>1
  <2>2. st.chunk = Last(F) /\ st.offset = used(Last(F)) /\ st.total = Len(DataOf(F))
    BY <1>6, <1>9, <1>13, <2>1
  <2>3. Last(F) = F[Len(F)]
    BY Zenon DEF Last
  <2>4. Len(DataOf(F)) = UsedBefore(F, Len(F)) + used(F[Len(F)])
    BY <1>1, <1>2, <2>1, Zenon
  <2>5. StartsIn(st, F, Len(F)) /\ Len(F) \in 1 .. Len(F)
    BY <1>1, <2>1, <2>2, <2>3, <2>4, Zenon DEF StartsIn
  <2> QED BY <2>5, Zenon DEF st, F, content
<1> QED BY <1>10, <1>11, <1>12, <1>13, Zenon

(* A reader that is moved to a chunk of its file by lseek.                 *)
LEMMA MoveToPolite ==
  ASSUME PoliteInv, NEW d \in Descriptors, open_files[d].file # 0, open_files[d].acc = "R",
         NEW c \in 0 .. Len(chunk), NEW off \in Int, NEW total,
         c # 0 => c \in ChunksOf(node, chunk, open_files[d].file),
         MoveTo(d, c, off, total), UNCHANGED <<node, chunk>>
  PROVE  PolitePart'
<1>1. /\ Table(open_files, Len(node), Len(chunk)) /\ Len(node) \in Nat /\ Len(chunk) \in Nat
  BY PoliteTypes, Zenon
<1>2. open_files' = ToPlace(open_files, d, c, off)
  BY Zenon DEF MoveTo, ToPlace
<1>3. open_files' = Moved(open_files, d, c, off)
  BY <1>1, <1>2, MovedForms, Zenon
<1>4. status' = status /\ UNCHANGED <<node, chunk, written>>
  BY Zenon DEF MoveTo, Returns
<1>5. open_files[d].acc # "W"
  OBVIOUS
<1> QED BY <1>3, <1>4, <1>5, MovePolite

(* A seek backwards finds its target in the file.                          *)
LEMMA SeekBackPolite ==
  ASSUME PoliteInv, NEW d \in Descriptors, open_files[d].file # 0, open_files[d].acc = "R",
         NEW st, st.total \in Int, NEW off \in Int,
         st.chunk # 0 => Chunks(node[open_files[d].file].content) # <<>>,
         st.total + off <= Len(DataOf(Chunks(node[open_files[d].file].content))),
         SeekBack(d, st, off)
  PROVE  PolitePart'
<1> DEFINE S      == Chunks(node[open_files[d].file].content)
           target == st.total + off
           K      == {j \in DOMAIN S : used(S[j]) >= target - UsedBefore(S, j)}
           k      == First(K)
<1>1. /\ Len(S) \in Nat /\ DOMAIN S = 1 .. Len(S) /\ (S # <<>> => Len(S) \in 1 .. Len(S))
      /\ \A j \in 1 .. Len(S) : S[j] \in ChunksOf(node, chunk, open_files[d].file) /\ used(S[j]) \in Nat
      /\ \A j \in 1 .. Len(S) : ~chunk[S[j]].freed /\ S[j] \in 0 .. Len(chunk)
  BY OpenFileChunks, Zenon
<1>2. /\ UsedBefore(S, Len(S) + 1) = Len(DataOf(S))
      /\ \A j \in 1 .. Len(S) + 1 : UsedBefore(S, j) \in Nat
      /\ \A j \in 1 .. Len(S) : UsedBefore(S, j + 1) = UsedBefore(S, j) + used(S[j])
  BY OpenFileBytes, Zenon
<1>3. target <= Len(DataOf(S)) /\ target \in Int
  OBVIOUS
<1>4. \/ Fails(EINVAL)
      \/ st.chunk # 0 /\ k = 0
      \/ st.chunk # 0 /\ k # 0 /\ chunk[S[k]].freed
      \/ /\ st.chunk # 0 /\ k # 0 /\ MoveTo(d, S[k], target - UsedBefore(S, k), target)
         /\ UNCHANGED <<node, chunk>>
  BY Zenon DEF SeekBack, NULL
<1>5. st.chunk # 0 => S # <<>>
  OBVIOUS
<1> HIDE DEF S, target
<1>6. ASSUME st.chunk # 0 PROVE k \in 1 .. Len(S)
  <2> DEFINE l == Len(S)
  <2>1. l \in 1 .. Len(S)
    BY <1>1, <1>5, <1>6, Zenon
  <2>2. Len(DataOf(S)) = UsedBefore(S, l) + used(S[l])
    BY <1>2, <2>1, Zenon
  <2>3. l \in 1 .. Len(S) + 1
    BY <2>1, <1>1
  <2>4. UsedBefore(S, l) \in Nat /\ used(S[l]) \in Nat
    BY <1>1, <1>2, <2>1, <2>3, Zenon
  <2> HIDE DEF l
  <2>5. used(S[l]) >= target - UsedBefore(S, l)
    BY <1>3, <2>2, <2>4
  <2>6. l \in K
    BY <1>1, <2>1, <2>5, Zenon
  <2>7. K \in SUBSET (Nat \ {0}) /\ K \subseteq 1 .. Len(S) /\ K # {}
    BY <1>1, <2>6
  <2> HIDE DEF K
  <2> QED BY <2>7, FirstFacts, Zenon
<1>7. \A j \in 1 .. Len(S) : j # 0
  BY <1>1
<1> HIDE DEF k
<1>8. CASE /\ st.chunk # 0 /\ k # 0 /\ MoveTo(d, S[k], target - UsedBefore(S, k), target)
           /\ UNCHANGED <<node, chunk>>
  <2> DEFINE c  == S[k]
             to == target - UsedBefore(S, k)
  <2>1. k \in 1 .. Len(S) /\ k \in 1 .. Len(S) + 1
    BY <1>1, <1>6, <1>8
  <2>2. UsedBefore(S, k) \in Nat
    BY <1>2, <2>1, Zenon
  <2>3. to \in Int
    BY <1>3, <2>2
  <2>4. c \in ChunksOf(node, chunk, open_files[d].file) /\ c \in 0 .. Len(chunk)
    BY <1>1, <2>1, Zenon
  <2>5. MoveTo(d, c, to, target) /\ UNCHANGED <<node, chunk>>
    BY <1>8, Zenon
  <2> HIDE DEF c, to
  <2> QED BY <2>3, <2>4, <2>5, MoveToPolite
<1> QED BY <1>1, <1>4, <1>6, <1>7, <1>8, FailPolite, Zenon

(* The chunks of a file from its m-th on, and the bytes in them.           *)
LEMMA RestOfOpenFile ==
  ASSUME PoliteInv, NEW d \in Descriptors, open_files[d].file # 0,
         NEW m \in 1 .. Len(Chunks(node[open_files[d].file].content))
  PROVE  LET F == Chunks(node[open_files[d].file].content)
             R == Chunks(F[m])
         IN  /\ Len(R) = Len(F) - m + 1 /\ Len(R) \in 1 .. Len(R) /\ DOMAIN R = 1 .. Len(R)
             /\ \A j \in 1 .. Len(R) : m - 1 + j \in 1 .. Len(F) /\ R[j] = F[m - 1 + j]
             /\ \A j \in 1 .. Len(R) : UsedBefore(R, j) = UsedBefore(F, m - 1 + j) - UsedBefore(F, m)
<1> DEFINE n == node[open_files[d].file].content
           F == Chunks(n)
           R == Chunks(F[m])
<1>0. Sane(chunk) /\ Chained(chunk) /\ Len(chunk) \in Nat /\ n \in 0 .. Len(chunk)
  BY PoliteTypes, DescriptorFacts, Zenon
<1>1. /\ F = ListOf(chunk, n) /\ Len(F) \in Nat /\ m \in 1 .. Len(F)
      /\ F[m] \in 0 .. Len(chunk) /\ F[m] # 0
  BY OpenFileChunks, Zenon
<1> HIDE DEF n, F
<1>2. R = ListOf(chunk, F[m])
  BY <1>0, <1>1, ChunksIsListOf, Zenon
<1>3. DOMAIN R = 1 .. Len(R) /\ Len(R) \in 1 .. Len(R)
  BY <1>0, <1>1, ListTypes, Zenon
<1> HIDE DEF R
<1>4. LET L == ListOf(chunk, n)
          Q == ListOf(chunk, L[m])
      IN  /\ Len(Q) = Len(L) - m + 1 /\ \A j \in 1 .. Len(Q) : Q[j] = L[m - 1 + j]
  <2>1. m \in 1 .. Len(ListOf(chunk, n))
    BY <1>1, Zenon
  <2>2. IsRest(ListOf(chunk, ListOf(chunk, n)[m]), ListOf(chunk, n), m)
    BY <1>0, <2>1, RestOfList, Zenon
  <2> QED BY <2>2, Zenon DEF IsRest
<1>5. LET L == ListOf(chunk, n)
          Q == ListOf(chunk, L[m])
      IN  \A j \in 0 .. Len(Q) : BytesIn(chunk, Q, j) = BytesIn(chunk, L, m - 1 + j) - BytesIn(chunk, L, m - 1)
  <2>1. m \in 1 .. Len(ListOf(chunk, n))
    BY <1>1, Zenon
  <2> QED BY <1>0, <2>1, RestBytes
<1>6. Len(R) = Len(F) - m + 1 /\ \A j \in 1 .. Len(R) : R[j] = F[m - 1 + j]
  BY <1>1, <1>2, <1>4, Zenon
<1>7. \A j \in 0 .. Len(R) : BytesIn(chunk, R, j) = BytesIn(chunk, F, m - 1 + j) - BytesIn(chunk, F, m - 1)
  BY <1>1, <1>2, <1>5, Zenon
<1>8. \A j \in 1 .. Len(R) : m - 1 + j \in 1 .. Len(F)
  BY <1>1, <1>6
<1>9. ASSUME NEW j \in 1 .. Len(R)
      PROVE  UsedBefore(R, j) = UsedBefore(F, m - 1 + j) - UsedBefore(F, m)
  <2>1. j - 1 \in 0 .. Len(R) /\ m - 1 + (j - 1) = (m - 1 + j) - 1
    BY <1>1, <1>6
  <2>2. BytesIn(chunk, R, j - 1) = BytesIn(chunk, F, (m - 1 + j) - 1) - BytesIn(chunk, F, m - 1)
    BY <1>7, <2>1, Zenon
  <2> QED BY <2>2, DataOfIs, Zenon
<1> QED BY <1>3, <1>6, <1>8, <1>9, Zenon DEF R, F, n

(* A seek forwards that ends inside the file makes no chunk.               *)
LEMMA SeekForwardPolite ==
  ASSUME PoliteInv, NEW d \in Descriptors, open_files[d].file # 0, open_files[d].acc = "R",
         NEW st, st.chunk \in 0 .. Len(chunk), st.offset \in Int, st.total \in Int, NEW off \in Int,
         LET F == Chunks(node[open_files[d].file].content)
         IN  \/ F = <<>> /\ st.chunk = 0 /\ st.total = 0
             \/ \E m \in 1 .. Len(F) : StartsIn(st, F, m),
         st.total + off <= Len(DataOf(Chunks(node[open_files[d].file].content))),
         SeekForward(d, st, off)
  PROVE  PolitePart'
<1> DEFINE F       == Chunks(node[open_files[d].file].content)
           S       == Chunks(st.chunk)
           at(j)   == IF j = 1 THEN st.offset ELSE 0
           has(j)  == used(S[j]) - at(j)
           rest(j) == IF j = 1 THEN off ELSE off - (UsedBefore(S, j) - st.offset)
           K       == {j \in DOMAIN S : j = Len(S) \/ has(j) < 0 \/ has(j) >= rest(j)}
           k       == Min(K)
           inside  == S # <<>> /\ (has(k) < 0 \/ has(k) >= rest(k))
           gap     == IF S = <<>> THEN off ELSE rest(k) - has(k)
           total   == st.total + off
           place   == at(k) + rest(k)
<1>0. Sane(chunk) /\ Len(chunk) \in Nat
  BY PoliteTypes, Zenon
<1>1. /\ Len(S) \in Nat /\ DOMAIN S = 1 .. Len(S) /\ (S = <<>> <=> st.chunk = 0)
      /\ S # <<>> => Len(S) \in 1 .. Len(S)
      /\ \A j \in 1 .. Len(S) + 1 : UsedBefore(S, j) \in Nat
  BY <1>0, ListTypes, Zenon
<1>2. /\ Len(F) \in Nat /\ (F # <<>> => Len(F) \in 1 .. Len(F))
      /\ \A j \in 1 .. Len(F) : F[j] \in ChunksOf(node, chunk, open_files[d].file) /\ used(F[j]) \in Nat
      /\ \A j \in 1 .. Len(F) : ~chunk[F[j]].freed /\ F[j] \in 0 .. Len(chunk) /\ F[j] # 0
  BY OpenFileChunks, Zenon
<1>3. /\ UsedBefore(F, 1) = 0 /\ UsedBefore(F, Len(F) + 1) = Len(DataOf(F))
      /\ \A j \in 1 .. Len(F) + 1 : UsedBefore(F, j) \in Nat
      /\ \A j \in 1 .. Len(F) : UsedBefore(F, j + 1) = UsedBefore(F, j) + used(F[j])
  BY OpenFileBytes, Zenon
<1>4. \/ S # <<>> /\ chunk[S[k]].freed
      \/ S = <<>> /\ MoveTo(d, 0, st.offset, total) /\ UNCHANGED <<node, chunk>>
      \/ S # <<>> /\ MoveTo(d, S[k], place, total) /\ UNCHANGED <<node, chunk>>
      \/ ~inside /\ gap > 0
  BY Zenon DEF SeekForward, NULL
<1>5. \/ F = <<>> /\ st.chunk = 0 /\ st.total = 0
      \/ \E m \in 1 .. Len(F) : StartsIn(st, F, m)
  BY Zenon
<1>6. total <= Len(DataOf(F))
  OBVIOUS
<1>7. ASSUME NEW m \in 1 .. Len(F), st.chunk = F[m]
      PROVE  /\ Len(S) = Len(F) - m + 1
             /\ \A j \in 1 .. Len(S) : m - 1 + j \in 1 .. Len(F) /\ S[j] = F[m - 1 + j]
             /\ \A j \in 1 .. Len(S) : UsedBefore(S, j) = UsedBefore(F, m - 1 + j) - UsedBefore(F, m)
  <2> DEFINE R == Chunks(F[m])
  <2>1. /\ Len(R) = Len(F) - m + 1
        /\ \A j \in 1 .. Len(R) : m - 1 + j \in 1 .. Len(F) /\ R[j] = F[m - 1 + j]
        /\ \A j \in 1 .. Len(R) : UsedBefore(R, j) = UsedBefore(F, m - 1 + j) - UsedBefore(F, m)
    BY RestOfOpenFile, Zenon
  <2>2. S = R
    BY <1>7, Zenon
  <2> HIDE DEF R, S, F
  <2> QED BY <2>1, <2>2, Zenon
<1> HIDE DEF S, F
<1>8. S # <<>> => k \in 1 .. Len(S) /\ k \in K
  <2>1. S # <<>> => K \in SUBSET Nat /\ K # {} /\ K \subseteq 1 .. Len(S)
    BY <1>1
  <2> HIDE DEF K
  <2> QED BY <2>1, MinFacts, Zenon
<1> HIDE DEF k
<1>9. CASE F = <<>> /\ st.chunk = 0 /\ st.total = 0
  <2>1. S = <<>>
    BY <1>1, <1>9, Zenon
  <2>2. Len(DataOf(F)) = 0
    <3>1. Len(F) + 1 = 1
      BY <1>9
    <3> QED BY <1>3, <3>1, Zenon
  <2>3. ~(gap > 0)
    BY <1>6, <1>9, <2>1, <2>2
  <2>4. MoveTo(d, 0, st.offset, total) /\ UNCHANGED <<node, chunk>>
    BY <1>4, <2>1, <2>3, Zenon
  <2>5. 0 \in 0 .. Len(chunk)
    BY <1>0
  <2> HIDE DEF total
  <2> QED BY <2>4, <2>5, MoveToPolite
<1>10. ASSUME NEW m \in 1 .. Len(F), StartsIn(st, F, m) PROVE PolitePart'
  <2>1. st.chunk = F[m] /\ st.total = UsedBefore(F, m) + st.offset
    BY <1>10, Zenon DEF StartsIn
  <2>2. /\ Len(S) = Len(F) - m + 1 /\ S # <<>> /\ k \in 1 .. Len(S)
        /\ \A j \in 1 .. Len(S) : m - 1 + j \in 1 .. Len(F) /\ S[j] = F[m - 1 + j]
        /\ UsedBefore(S, k) = UsedBefore(F, m - 1 + k) - UsedBefore(F, m)
    BY <1>1, <1>2, <1>7, <1>8, <2>1, Zenon
  <2> DEFINE i == m - 1 + k
  <2>3. i \in 1 .. Len(F) /\ S[k] = F[i]
    BY <2>2, Zenon
  <2> DEFINE c == S[k]
             u == used(c)
             a == UsedBefore(F, i)
             b == UsedBefore(F, m)
             s == UsedBefore(S, k)
  <2>4. /\ c \in ChunksOf(node, chunk, open_files[d].file) /\ u \in Nat
        /\ ~chunk[c].freed /\ c \in 0 .. Len(chunk)
    BY <1>2, <2>3, Zenon
  <2>5. s \in Nat /\ a \in Nat /\ b \in Nat /\ s = a - b
    <3>1. k \in 1 .. Len(S) + 1 /\ i \in 1 .. Len(F) + 1 /\ m \in 1 .. Len(F) + 1
      BY <1>1, <1>2, <2>2, <2>3
    <3> QED BY <1>1, <1>3, <2>2, <3>1, Zenon
  <2>6. k \in Nat /\ m \in Nat /\ Len(F) \in Nat /\ (k = 1 => i = m)
    BY <1>1, <1>2, <2>2
  <2>6a. k = 1 => a = b
    BY <2>6, Zenon
  <2>7. k = Len(S) => total <= a + u
    <3>1. k = Len(S) => i = Len(F)
      BY <2>2, <2>6
    <3>2. UsedBefore(F, i + 1) = a + u
      BY <1>3, <2>3, Zenon
    <3> QED BY <1>3, <1>6, <3>1, <3>2, Zenon
  <2>8. gap = (IF k = 1 THEN off ELSE off - (s - st.offset)) - (u - IF k = 1 THEN st.offset ELSE 0)
    BY <2>2, Zenon
  <2>9. inside \/ k = Len(S)
    BY <1>8, <2>2, Zenon
  <2>10. st.total = b + st.offset /\ total = st.total + off
    BY <2>1, Zenon
  <2>11. place \in Int
    BY <2>5
  <2> HIDE DEF gap, inside, a, b, s, u, i, place
  <2>12. total \in Int
    BY <2>10
  <2> HIDE DEF total
  <2>13. k = Len(S) => ~(gap > 0)
    <3> DEFINE x == st.offset
    <3>1. x \in Int /\ total = b + x + off
      BY <2>5, <2>10
    <3>2. k = 1 => gap = off - (u - x)
      BY <2>8, Zenon
    <3>3. k # 1 => gap = (off - (s - x)) - (u - 0)
      BY <2>8, Zenon
    <3> HIDE DEF x, c
    <3>4. k = Len(S) /\ k = 1 => ~(gap > 0)
      BY <2>4, <2>5, <2>6a, <2>7, <3>1, <3>2
    <3>5. k = Len(S) /\ k # 1 => ~(gap > 0)
      BY <2>4, <2>5, <2>7, <3>1, <3>3
    <3> QED BY <3>4, <3>5, Zenon
  <2>14. MoveTo(d, c, place, total) /\ UNCHANGED <<node, chunk>>
    BY <1>4, <2>2, <2>4, <2>9, <2>13, Zenon
  <2> HIDE DEF c
  <2> QED BY <2>4, <2>11, <2>14, MoveToPolite
<1> QED BY <1>5, <1>9, <1>10, Zenon

(* lseek of a client that stays inside its file.                           *)
LEMMA LseekPolite ==
  ASSUME Polite, PoliteInv, NEW d \in Descriptors, NEW off \in Offsets,
         NEW whence \in {"SET", "CUR", "END"}, dandelion_lseek(d, off, whence)
  PROVE  PolitePart'
<1> DEFINE st == SeekStart(open_files[d], whence)
           F  == Chunks(node[open_files[d].file].content)
<1>1. CASE open_files[d].file = NULL /\ Fails(EBADF)
  BY <1>1, FailPolite, Zenon
<1>2. CASE /\ open_files[d].file # NULL /\ PoliteSeek(d, st, off) /\ st.how = "ok"
           /\ SeekBack(d, st, off) \/ SeekForward(d, st, off)
  <2>1. open_files[d].acc = "R" /\ st.total + off <= Len(DataOf(F))
    BY <1>2, Zenon DEF PoliteSeek
  <2>2. open_files[d].file # 0 /\ TypeInv /\ status = "ok" /\ off \in Int
    BY <1>2, FilesAssumption, PoliteTypes, Zenon DEF NULL
  <2>3. st.chunk \in 0 .. Len(chunk) /\ st.offset \in Int /\ st.total \in Int
    BY <1>2, <2>2, SeekStartTypes, Zenon
  <2>4. \/ F = <<>> /\ st.chunk = 0 /\ st.total = 0
        \/ \E m \in 1 .. Len(F) : StartsIn(st, F, m)
    BY <1>2, <2>2, SeekStartPolite, Zenon
  <2>5. st.chunk # 0 => F # <<>>
    <3> HIDE DEF F, st
    <3>1. ASSUME NEW m \in 1 .. Len(F) PROVE F # <<>>
      OBVIOUS
    <3> QED BY <2>4, <3>1, Zenon
  <2> HIDE DEF st
  <2>6. CASE SeekBack(d, st, off)
    BY <2>1, <2>2, <2>3, <2>5, <2>6, SeekBackPolite
  <2>7. CASE SeekForward(d, st, off)
    BY <2>1, <2>2, <2>3, <2>4, <2>7, SeekForwardPolite
  <2> QED BY <1>2, <2>6, <2>7, Zenon
<1> QED BY <1>1, <1>2, Zenon DEF dandelion_lseek, PoliteSeek

-----------------------------------------------------------------------------
(* The invariant of the polite clients and what follows from it.           *)

(* The input items are files of one chunk each.                            *)
LEMMA InitPolite == Init => PoliteInv
<1> SUFFICES ASSUME Init PROVE PoliteInv
  OBVIOUS
<1>1. PICK order \in SetToSeqs(DOMAIN Inputs) :
        /\ node = [f \in DOMAIN order |-> [content |-> f, links |-> 1, opens |-> 0,
                                           mode |-> {"r", "w"}, freed |-> FALSE]]
        /\ chunk = [f \in DOMAIN order |->
                      [cap |-> Inputs[order[f]],
                       data |-> [i \in 1 .. Inputs[order[f]] |-> MaxBytes + i],
                       next |-> NULL, input |-> TRUE, freed |-> FALSE]]
        /\ open_files = [d \in Descriptors |-> Closed]
        /\ written = 0
        /\ status = "ok"
  BY Zenon DEF Init
<1>2. PICK n \in Nat : DOMAIN order = 1 .. n /\ n = Cardinality(DOMAIN Inputs)
  BY OrderFacts, Zenon
<1>3. /\ Len(node) = n /\ \A f \in 1 .. n : node[f].content = f /\ node[f].links = 1 /\ ~node[f].freed
  BY <1>1, <1>2
<1>4. /\ Len(chunk) = n /\ \A c \in 1 .. n : chunk[c].next = 0 /\ ~chunk[c].freed
  <2> DEFINE first(f) == [cap |-> Inputs[order[f]],
                          data |-> [i \in 1 .. Inputs[order[f]] |-> MaxBytes + i],
                          next |-> NULL, input |-> TRUE, freed |-> FALSE]
  <2>1. chunk = [f \in 1 .. n |-> first(f)]
    BY <1>1, <1>2, Zenon
  <2>2. \A f : first(f).next = 0 /\ ~first(f).freed
    BY DEF NULL
  <2> HIDE DEF first
  <2> QED BY <1>2, <2>1, <2>2
<1>5. CountInv /\ TypeInv
  BY InitCounts, InitTyped, Zenon
<1>6. Chained(chunk)
  BY <1>1, <1>5, StateTypes, Zenon DEF Sane
<1>7. ASSUME NEW f \in 1 .. n PROVE ChunksOf(node, chunk, f) = {f}
  <2>1. ListOf(chunk, f) = <<f>>
    BY <1>4, <1>6, ListOfOne, Zenon
  <2>2. Range(<<f>>) = {f}
    BY DEF Range
  <2> QED BY <1>3, <2>1, <2>2, Zenon DEF ChunksOf
<1>8. \A f : f \in Live(node) <=> f \in 1 .. n
  BY <1>3, Zenon DEF Live
<1>9. Partitioned(node, chunk)
  <2>1. \A f : f \in Live(node) =>
          /\ f \in 1 .. n /\ node[f].content = f /\ node[f].links # 0
          /\ \A c : c \in ChunksOf(node, chunk, f) <=> c = f
    <3>1. 1 # 0
      OBVIOUS
    <3> QED BY <1>3, <1>7, <1>8, <3>1, Zenon
  <2>2. ASSUME NEW f \in Live(node), NEW c \in ChunksOf(node, chunk, f)
        PROVE  ~chunk[c].freed /\ (chunk[c].input => c = node[f].content)
    <3>1. c = f /\ f \in 1 .. n /\ node[f].content = f
      BY <2>1, Zenon
    <3> QED BY <1>4, <3>1, Zenon
  <2>3. \A f \in Live(node), g \in Live(node) :
          f # g => \A c \in ChunksOf(node, chunk, f) : c \notin ChunksOf(node, chunk, g)
    BY <2>1, Zenon
  <2>4. \A c \in 1 .. Len(chunk) : \E f \in Live(node) : c \in ChunksOf(node, chunk, f)
    BY <1>4, <1>8, <2>1, Zenon
  <2> QED BY <2>1, <2>2, <2>3, <2>4, Zenon DEF Partitioned
<1>10. Placed(Descriptors, node, chunk, open_files)
  BY <1>1, ClosedFacts, Zenon DEF Placed
<1>11. written <= MaxBytes /\ Len(chunk) <= Cardinality(DOMAIN Inputs) + written
  BY <1>1, <1>2, <1>4, FilesAssumption
<1> QED BY <1>1, <1>5, <1>9, <1>10, <1>11, Zenon DEF PoliteInv, PolitePart, Orderly

(* Every call of a polite client keeps the invariant.                      *)
LEMMA NextPolite ==
  ASSUME Polite, EnoughMemory
  PROVE  PoliteInv /\ [Next]_vars => PoliteInv'
<1> SUFFICES ASSUME PoliteInv, [Next]_vars PROVE PoliteInv'
  OBVIOUS
<1>0. CountInv'
  BY NextCounts, Zenon DEF PoliteInv
<1>1. ASSUME NEW name \in Names, NEW flags \in OpenFlags, NEW mode \in OpenModes,
             dandelion_open(name, flags, mode)
      PROVE  PolitePart'
  BY <1>1, OpenPolite, Zenon
<1>2. ASSUME NEW name \in Names, dandelion_unlink(name) PROVE PolitePart'
  BY <1>0, <1>2, UnlinkPolite, Zenon
<1>3. ASSUME NEW d \in Descriptors, dandelion_close(d) PROVE PolitePart'
  BY <1>0, <1>3, ClosePolite, Zenon
<1>4. ASSUME NEW d \in Descriptors, NEW len \in Lengths, dandelion_read(d, len) PROVE PolitePart'
  BY <1>4, ReadPolite, Zenon
<1>5. ASSUME NEW d \in Descriptors, NEW len \in Lengths, dandelion_write(d, len) PROVE PolitePart'
  BY <1>5, WritePolite, Zenon
<1>6. ASSUME NEW d \in Descriptors, NEW len \in Lengths, NEW off \in Offsets, pread(d, len, off)
      PROVE  PolitePart'
  BY <1>6, PreadPolite, Zenon
<1>7. ASSUME NEW d \in Descriptors, NEW off \in Offsets, NEW whence \in {"SET", "CUR", "END"},
             dandelion_lseek(d, off, whence)
      PROVE  PolitePart'
  BY <1>7, LseekPolite, Zenon
<1>8. /\ \A d, len, off : ~pwrite(d, len, off)
      /\ \A name, len : ~dandelion_truncate(name, len)
      /\ \A d, len : ~dandelion_ftruncate(d, len)
  BY Zenon DEF pwrite, dandelion_truncate, dandelion_ftruncate
<1>9. ASSUME UNCHANGED vars PROVE PolitePart'
  BY <1>9, Zenon DEF vars, PoliteInv, PolitePart
<1> QED BY <1>0, <1>1, <1>2, <1>3, <1>4, <1>5, <1>6, <1>7, <1>8, <1>9, Zenon DEF Next, PoliteInv

(* Clients that write a file from its start and through one descriptor at  *)
(* a time, read and seek inside what was written, and neither write to nor *)
(* unlink input items never make the file layer use a freed chunk, free    *)
(* one twice, or follow a null pointer: whatever the order of the calls    *)
(* and the sharing of files, as long as there is memory for the writes.    *)
THEOREM PoliteNeverFaults ==
  ASSUME Polite, EnoughMemory
  PROVE  Spec => []NoFault
<1>1. PoliteInv => NoFault
  BY Zenon DEF PoliteInv, PolitePart, NoFault
<1>2. PoliteInv /\ [Next]_vars => PoliteInv'
  BY NextPolite, Zenon
<1> QED BY <1>1, <1>2, InitPolite, PTL DEF Spec

(* For the same clients, every chunk that is not freed is in the list of a *)
(* file that still lives: close and unlink give back all of a file that    *)
(* goes.                                                                   *)
THEOREM PoliteNothingLeaked ==
  ASSUME Polite, EnoughMemory
  PROVE  Spec => []NothingLeaked
<1>1. PoliteInv => NothingLeaked
  <2> SUFFICES ASSUME PoliteInv, NEW c \in DOMAIN chunk, ~chunk[c].freed PROVE c \in Owned
    BY Zenon DEF NothingLeaked
  <2>1. Partitioned(node, chunk) /\ Sane(chunk) /\ Nodes(node, Len(chunk))
    BY PoliteTypes, Zenon
  <2>2. DOMAIN chunk = 1 .. Len(chunk) /\ DOMAIN node = 1 .. Len(node)
    BY <2>1, SaneTypes, NodeTypes, PoliteTypes, Zenon
  <2>3. PICK f \in Live(node) : c \in ChunksOf(node, chunk, f)
    BY <2>1, <2>2, Zenon DEF Partitioned
  <2>4. f \in LiveFiles /\ Range(Chunks(node[f].content)) = ChunksOf(node, chunk, f)
    BY <2>2, LiveIntact, Zenon DEF Live, LiveFiles
  <2> QED BY <2>3, <2>4, Zenon DEF Owned
<1>2. PoliteInv /\ [Next]_vars => PoliteInv'
  BY NextPolite, Zenon
<1> QED BY <1>1, <1>2, InitPolite, PTL DEF Spec
=============================================================================
