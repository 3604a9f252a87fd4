---------------------------- MODULE FilesPolite -----------------------------
(***************************************************************************)
(* What polite clients do to the files of Files.tla, as long as there is   *)
(* memory: the invariant, and that open, close, unlink and read keep it,   *)
(* for any number of files, descriptors, chunks and bytes.                 *)
(***************************************************************************)
EXTENDS FilesProofs

(* Every byte that is written may need a chunk of its own.                 *)
EnoughMemory == Cardinality(DOMAIN Inputs) + MaxBytes <= MaxChunks

(* The chunks belong to the files, the descriptors point into them, and    *)
(* there are no more chunks than input items and bytes written.            *)
Orderly(nd, ch, of, n) ==
  /\ Partitioned(nd, ch)
  /\ Placed(Descriptors, nd, ch, of)
  /\ n <= MaxBytes /\ Len(ch) <= Cardinality(DOMAIN Inputs) + n

PolitePart == status = "ok" /\ Orderly(node, chunk, open_files, written)

PoliteInv == CountInv /\ PolitePart

-----------------------------------------------------------------------------
(* What the invariant says of a file.                                      *)

(* The types of the state.                                                 *)
LEMMA PoliteTypes ==
  ASSUME PoliteInv
  PROVE  /\ TypeInv /\ status = "ok" /\ Sane(chunk) /\ Chained(chunk) /\ Len(chunk) \in Nat
         /\ Nodes(node, Len(chunk)) /\ Len(node) \in Nat
         /\ Table(open_files, Len(node), Len(chunk)) /\ written \in Nat
         /\ Partitioned(node, chunk) /\ Placed(Descriptors, node, chunk, open_files)
         /\ Counted(node, directory, open_files)
<1>1. /\ TypeInv /\ status = "ok" /\ Counted(node, directory, open_files)
      /\ Partitioned(node, chunk) /\ Placed(Descriptors, node, chunk, open_files)
  BY Zenon DEF PoliteInv, PolitePart, CountInv, Orderly
<1>2. /\ Sane(chunk) /\ Len(chunk) \in Nat /\ Nodes(node, Len(chunk)) /\ Len(node) \in Nat
      /\ Table(open_files, Len(node), Len(chunk)) /\ written \in Nat
  BY <1>1, StateTypes, Zenon
<1> QED BY <1>1, <1>2, Zenon DEF Sane

(* A file that is open for a descriptor counts it.                         *)
LEMMA OpenIsCounted ==
  ASSUME NEW nd, NEW dir, NEW of, Counted(nd, dir, of), NEW d \in Descriptors,
         of[d].file \in 1 .. Len(nd)
  PROVE  nd[of[d].file].opens # 0
<1>1. Owners(of)[d] = of[d].file /\ IsFiniteSet(Descriptors)
  BY FilesAssumption, Zenon DEF Owners
<1>2. nd[of[d].file].opens = Count(Descriptors, Owners(of), of[d].file)
  BY Zenon DEF Counted
<1>3. nd[of[d].file].opens \in Nat /\ nd[of[d].file].opens > 0
  BY <1>1, <1>2, CountTypes, Zenon
<1> QED BY <1>3

(* A file that a descriptor or a name leads to is not freed.               *)
LEMMA ReachedIsLive ==
  ASSUME PoliteInv
  PROVE  /\ \A d \in Descriptors : open_files[d].file # 0 => open_files[d].file \in Live(node)
         /\ \A n \in Names : directory[n] # 0 => directory[n] \in Live(node)
<1>0. TypeInv /\ status = "ok" /\ Counted(node, directory, open_files)
  BY PoliteTypes, Zenon
<1>1. /\ \A d \in Descriptors : open_files[d].file # 0 => open_files[d].file \in 1 .. Len(node)
      /\ \A n \in Names : directory[n] # 0 => directory[n] \in 1 .. Len(node)
  <2>1. /\ \A d \in Descriptors : open_files[d].file \in 0 .. Len(node)
        /\ \A n \in Names : directory[n] \in 0 .. Len(node)
        /\ Len(node) \in Nat
    BY <1>0, StateTypes, Zenon
  <2>2. \A i \in 0 .. Len(node) : i # 0 => i \in 1 .. Len(node)
    BY <2>1
  <2> QED BY <2>1, <2>2, Zenon
<1>2. \A f \in 1 .. Len(node) : node[f].opens # 0 \/ node[f].links # 0 => f \in Live(node)
  BY <1>0, Zenon DEF Counted, Live
<1>3. ASSUME NEW d \in Descriptors, open_files[d].file # 0 PROVE open_files[d].file \in Live(node)
  BY <1>0, <1>1, <1>2, <1>3, OpenIsCounted, Zenon
<1>4. ASSUME NEW n \in Names, directory[n] # 0 PROVE directory[n] \in Live(node)
  <2>1. directory[n] \in 1 .. Len(node) /\ IsFiniteSet(Names)
    BY <1>1, <1>4, FilesAssumption, Zenon
  <2>2. node[directory[n]].links = Count(Names, directory, directory[n])
    BY <1>0, <2>1, Zenon DEF Counted
  <2>3. node[directory[n]].links \in Nat /\ node[directory[n]].links > 0
    BY <2>1, <2>2, CountTypes, Zenon
  <2>4. node[directory[n]].links # 0
    BY <2>3
  <2> QED BY <1>2, <2>1, <2>4, Zenon
<1> QED BY <1>3, <1>4, Zenon

(* The chunks of a file are not freed, and may be unless it is an input.   *)
LEMMA LiveIntact ==
  ASSUME PoliteInv, NEW f \in Live(node)
  PROVE  LET S == Chunks(node[f].content)
         IN  /\ S = ListOf(chunk, node[f].content) /\ Range(S) = ChunksOf(node, chunk, f)
             /\ Intact(S) /\ \A c \in Range(S) : c \in 1 .. Len(chunk) /\ ~chunk[c].freed
             /\ ~IsInput(f) => FreeFault(S) = "ok"
             /\ IsInput(f) => node[f].links # 0
<1> DEFINE S == Chunks(node[f].content)
<1>1. Chained(chunk) /\ Nodes(node, Len(chunk)) /\ Partitioned(node, chunk) /\ Sane(chunk)
  BY PoliteTypes, Zenon
<1>2. node[f].content \in 0 .. Len(chunk) /\ ChunksOf(node, chunk, f) \subseteq 1 .. Len(chunk)
  BY <1>1, LiveTypes, Zenon
<1>3. S = ListOf(chunk, node[f].content) /\ Range(S) = ChunksOf(node, chunk, f)
  BY ChunksIsListOf, Zenon DEF ChunksOf
<1>4. \A c \in Range(S) : c \in 1 .. Len(chunk) /\ ~chunk[c].freed
                          /\ (chunk[c].input => c = node[f].content)
  BY <1>1, <1>2, <1>3, Zenon DEF Partitioned
<1> HIDE DEF S
<1>5. \A j \in DOMAIN S : S[j] \in Range(S)
  BY Zenon DEF Range
<1>6. Intact(S)
  BY <1>4, <1>5, Zenon DEF Intact
<1>7. node[f].content = 0 => Range(S) = {}
  BY <1>1, <1>2, <1>3, ListMembers, Zenon
<1>8. ASSUME ~IsInput(f) PROVE FreeFault(S) = "ok"
  <2>1. \A c \in Range(S) : ~chunk[c].input
    BY <1>4, <1>7, <1>8, Zenon DEF IsInput, NULL
  <2> QED BY <1>5, <1>6, <2>1, Zenon DEF FreeFault
<1>9. IsInput(f) => node[f].links # 0
  BY <1>1, Zenon DEF IsInput, NULL, Partitioned
<1> QED BY <1>3, <1>4, <1>6, <1>8, <1>9, Zenon DEF S

(* A call that fails leaves everything as it is.                           *)
LEMMA FailPolite ==
  ASSUME PoliteInv, NEW code, Fails(code)
  PROVE  PolitePart'
BY Zenon DEF PoliteInv, PolitePart, Fails, Returns

-----------------------------------------------------------------------------
(* close and unlink.                                                       *)

(* What free_data makes of the lists.                                      *)
LEMMA free_dataPolite ==
  ASSUME PoliteInv, NEW f \in Live(node), NEW links \in Int, NEW opens \in Int,
         IsInput(f) => links # 0, free_data(f, links, opens)
  PROVE  /\ status' = "ok" /\ Partitioned(node', chunk') /\ Len(chunk') = Len(chunk)
         /\ node'[f].opens = opens /\ Len(node') = Len(node)
         /\ \A i \in Live(node) : i # f \/ ~Dead(links, opens) =>
              ListOf(chunk', node'[i].content) = ListOf(chunk, node[i].content)
<1> DEFINE S == Chunks(node[f].content)
<1>0. /\ TypeInv /\ status = "ok" /\ Sane(chunk) /\ Chained(chunk) /\ Nodes(node, Len(chunk))
      /\ Partitioned(node, chunk) /\ Len(chunk) \in Nat
  BY PoliteTypes, Zenon
<1>1. f \in 1 .. Len(node)
  BY Zenon DEF Live
<1>2. /\ Range(S) = ChunksOf(node, chunk, f)
      /\ Dead(links, opens) => FreeFault(S) = "ok"
  BY LiveIntact, Zenon DEF Dead
<1>3. status' = "ok"
  BY <1>0, <1>2, Zenon DEF free_data, Returns
<1>4. /\ Sane(chunk') /\ Len(chunk') = Len(chunk)
      /\ Nodes(node', Len(chunk)) /\ Len(node') = Len(node)
      /\ node'[f].links = links /\ node'[f].opens = opens
      /\ node'[f].freed = Dead(links, opens) /\ node'[f].content = node[f].content
      /\ \A i \in 1 .. Len(node) : i # f => node'[i] = node[i]
      /\ chunk' = IF Dead(links, opens) THEN Freed(chunk, S) ELSE chunk
  BY <1>0, <1>1, <1>3, free_dataFacts, Zenon
<1> HIDE DEF S
<1>5. CASE Dead(links, opens)
  <2>1. \A c \in 1 .. Len(chunk) :
          IF c \in ChunksOf(node, chunk, f) THEN chunk'[c].freed ELSE chunk'[c] = chunk[c]
    <3>1. /\ \A c \in 1 .. Len(chunk) :
               Freed(chunk, S)[c] = IF c \in Range(S) THEN FreedChunk ELSE chunk[c]
          /\ FreedChunk.freed
      BY <1>0, FreedFacts, Zenon
    <3>2. chunk' = Freed(chunk, S)
      BY <1>4, <1>5, Zenon
    <3> QED BY <1>2, <3>1, <3>2, Zenon
  <2>2. Chained(chunk') /\ (node'[f].freed \/ node'[f].content = 0)
    BY <1>4, <1>5, Zenon DEF Sane
  <2>3. /\ Partitioned(node', chunk')
        /\ \A i \in Live(node) : i # f =>
             ListOf(chunk', node'[i].content) = ListOf(chunk, node[i].content)
    <3>1. Frees(node, node', chunk, chunk', f)
      BY <1>4, <2>1, <2>2, Zenon DEF Frees
    <3> QED BY <1>0, <2>2, <3>1, FreesPartitioned
  <2> QED BY <1>3, <1>4, <1>5, <2>3, Zenon
<1>6. CASE ~Dead(links, opens)
  <2>1. chunk' = chunk /\ ~node'[f].freed /\ ~node[f].freed
    BY <1>4, <1>6, Zenon DEF Live
  <2>2. \A i \in 1 .. Len(node) : node'[i].content = node[i].content /\ node'[i].freed = node[i].freed
    <3>1. node'[f].freed = node[f].freed
      BY <1>0, <1>1, <1>4, <2>1, NodeTypes, Zenon
    <3> QED BY <1>4, <3>1, Zenon
  <2>3. ASSUME NEW i \in Live(node), node[i].content # 0, chunk[node[i].content].input
        PROVE  node'[i].links # 0
    <3>1. CASE i = f
      BY <1>4, <2>3, <3>1, Zenon DEF IsInput, NULL
    <3>2. CASE i # f
      <4>1. node'[i] = node[i]
        BY <1>4, <3>2, Zenon DEF Live
      <4> QED BY <1>0, <2>3, <4>1, Zenon DEF Partitioned
    <3> QED BY <3>1, <3>2
  <2>4. /\ 1 .. Len(node) \subseteq 1 .. Len(node')
        /\ \A i \in 1 .. Len(node') : i \notin 1 .. Len(node) => node'[i].content = 0
    BY <1>4, Zenon
  <2>5. Partitioned(node', chunk)
    BY <1>0, <2>2, <2>3, <2>4, RecountsPartitioned
  <2>6. \A i \in Live(node) : node'[i].content = node[i].content
    BY <2>2, Zenon DEF Live
  <2> QED BY <1>3, <1>4, <2>1, <2>5, <2>6, Zenon
<1> QED BY <1>5, <1>6

(* close: a file that is freed has no other descriptor.                    *)
LEMMA ClosePolite ==
  ASSUME PoliteInv, CountInv', NEW d \in Descriptors, dandelion_close(d)
  PROVE  PolitePart'
<1> DEFINE f == open_files[d].file
<1>0. /\ TypeInv /\ status = "ok" /\ Nodes(node, Len(chunk)) /\ Len(chunk) \in Nat
      /\ Placed(Descriptors, node, chunk, open_files) /\ Len(node) \in Nat
      /\ Table(open_files, Len(node), Len(chunk))
  BY PoliteTypes, Zenon
<1>1. CASE f = NULL /\ Fails(EBADF)
  BY <1>1, FailPolite, Zenon
<1>2. CASE /\ f # NULL /\ free_data(f, node[f].links, node[f].opens - 1)
           /\ open_files' = [open_files EXCEPT ![d] = Closed]
           /\ UNCHANGED <<directory, written>>
  <2> DEFINE opens == node[f].opens - 1
  <2>1. f \in Live(node) /\ f \in 1 .. Len(node)
    BY <1>2, ReachedIsLive, Zenon DEF NULL, Live
  <2>2. node[f].links \in Int /\ node[f].opens \in Int
    BY <1>0, <2>1, StateTypes, Zenon
  <2>3. opens \in Int
    BY <2>2
  <2>4. IsInput(f) => node[f].links # 0
    BY <2>1, LiveIntact, Zenon
  <2>5. free_data(f, node[f].links, opens)
    BY <1>2
  <2> HIDE DEF opens, f
  <2>6. /\ status' = "ok" /\ Partitioned(node', chunk') /\ Len(chunk') = Len(chunk)
        /\ node'[f].opens = opens /\ Len(node') = Len(node)
        /\ \A i \in Live(node) : i # f \/ ~Dead(node[f].links, opens) =>
             ListOf(chunk', node'[i].content) = ListOf(chunk, node[i].content)
    BY <2>1, <2>2, <2>3, <2>4, <2>5, free_dataPolite
  <2>7. /\ open_files'[d].file = 0
        /\ \A e \in Descriptors : e # d => open_files'[e] = open_files[e]
    <3>1. open_files' = Put(open_files, d, Closed)
      BY <1>2, Zenon DEF Put
    <3>2. Closed \in DescSet /\ Closed.file <= Len(node) /\ Closed.chunk <= Len(chunk) /\ Closed.file = 0
      BY <1>0, ClosedFacts
    <3>3. /\ Put(open_files, d, Closed)[d] = Closed
          /\ \A e \in Descriptors : e # d => Put(open_files, d, Closed)[e] = open_files[e]
      <4>1. OnlyPut(open_files, Put(open_files, d, Closed), d, Closed)
        BY <1>0, <3>2, PutsOnly, Zenon
      <4> QED BY <4>1, Zenon DEF OnlyPut
    <3> QED BY <3>1, <3>2, <3>3, Zenon
  <2>8. ASSUME NEW e \in Descriptors, e # d, open_files[e].file # 0
        PROVE  ListOf(chunk', node'[open_files[e].file].content) =
               ListOf(chunk, node[open_files[e].file].content)
    <3>1. open_files[e].file \in Live(node)
      BY <2>8, ReachedIsLive, Zenon
    <3>2. ~(open_files[e].file = f /\ Dead(node[f].links, opens))
      <4> SUFFICES ASSUME open_files[e].file = f, opens = 0 PROVE FALSE
        BY Zenon DEF Dead
      <4>1. open_files'[e].file = f /\ f \in 1 .. Len(node') /\ node'[f].opens = 0
        BY <2>1, <2>6, <2>7, <2>8, Zenon
      <4>2. Counted(node', directory', open_files')
        BY <2>6, Zenon DEF CountInv
      <4> QED BY <4>1, <4>2, OpenIsCounted, Zenon
    <3> QED BY <2>6, <3>1, <3>2, Zenon
  <2>9. OthersKept(Descriptors, node, node', chunk, chunk', open_files, open_files', d)
    BY <2>7, <2>8, Zenon DEF OthersKept
  <2>10. Placed(Descriptors, node', chunk', open_files')
    BY <1>0, <2>7, <2>9, PlacedChanged
  <2> QED BY <1>2, <2>6, <2>10, Zenon DEF PolitePart, Orderly, PoliteInv
<1> QED BY <1>1, <1>2, Zenon DEF dandelion_close

(* unlink: a file that is freed has no descriptor.                         *)
LEMMA UnlinkPolite ==
  ASSUME Polite, PoliteInv, CountInv', NEW name \in Names, dandelion_unlink(name)
  PROVE  PolitePart'
<1> DEFINE f == directory[name]
<1>0. /\ TypeInv /\ status = "ok" /\ Nodes(node, Len(chunk)) /\ Len(chunk) \in Nat
      /\ Placed(Descriptors, node, chunk, open_files) /\ Len(node) \in Nat
  BY PoliteTypes, Zenon
<1>1. CASE f = NULL /\ Fails(ENOTDIR)
  BY <1>1, FailPolite, Zenon
<1>2. CASE /\ f # NULL /\ ~IsInput(f) /\ free_data(f, node[f].links - 1, node[f].opens)
           /\ UNCHANGED <<open_files, written>>
  <2> DEFINE links == node[f].links - 1
  <2>1. f \in Live(node) /\ f \in 1 .. Len(node)
    BY <1>2, ReachedIsLive, Zenon DEF NULL, Live
  <2>2. node[f].links \in Int /\ node[f].opens \in Int
    BY <1>0, <2>1, StateTypes, Zenon
  <2>3. links \in Int
    BY <2>2
  <2>4. free_data(f, links, node[f].opens) /\ ~IsInput(f)
    BY <1>2
  <2> HIDE DEF links, f
  <2>5. /\ status' = "ok" /\ Partitioned(node', chunk') /\ Len(chunk') = Len(chunk)
        /\ node'[f].opens = node[f].opens /\ Len(node') = Len(node)
        /\ \A i \in Live(node) : i # f \/ ~Dead(links, node[f].opens) =>
             ListOf(chunk', node'[i].content) = ListOf(chunk, node[i].content)
    BY <2>1, <2>2, <2>3, <2>4, free_dataPolite
  <2>6. ASSUME NEW e \in Descriptors, open_files[e].file # 0
        PROVE  ListOf(chunk', node'[open_files[e].file].content) =
               ListOf(chunk, node[open_files[e].file].content)
    <3>1. open_files[e].file \in Live(node) /\ Counted(node, directory, open_files)
      BY <2>6, ReachedIsLive, PoliteTypes, Zenon
    <3>2. node[open_files[e].file].opens # 0
      BY <3>1, OpenIsCounted, Zenon DEF Live
    <3> QED BY <2>5, <3>1, <3>2, Zenon DEF Dead
  <2>7. OthersKept(Descriptors, node, node', chunk, chunk', open_files, open_files, -1)
    BY <2>6, Zenon DEF OthersKept
  <2>8. -1 \notin Descriptors
    BY FilesAssumption
  <2>9. Placed(Descriptors, node', chunk', open_files)
    BY <1>0, <2>7, <2>8, PlacedChanged
  <2> QED BY <1>2, <2>5, <2>9, Zenon DEF PolitePart, Orderly, PoliteInv
<1> QED BY <1>1, <1>2, Zenon DEF dandelion_unlink
-----------------------------------------------------------------------------
(* open.                                                                   *)

(* The files with the one that open finds or creates.                      *)
LEMMA OpenNodesPolite ==
  ASSUME PoliteInv, NEW name \in Names, NEW mode \in SUBSET {"r", "w"}
  PROVE  LET fs == OpenNodes(name, mode)
             f  == OpenFile(name, mode)
         IN  /\ Partitioned(fs, chunk) /\ Placed(Descriptors, fs, chunk, open_files)
             /\ f \in Live(fs) /\ Live(node) \subseteq Live(fs)
             /\ directory[name] # 0 => f \in Live(node) /\ fs[f] = node[f]
             /\ directory[name] = 0 => /\ fs[f].content = 0
                                       /\ \A e \in Descriptors : open_files[e].file # f
<1> DEFINE fs == OpenNodes(name, mode)
           f  == OpenFile(name, mode)
<1>0. /\ TypeInv /\ status = "ok" /\ Chained(chunk) /\ Partitioned(node, chunk)
      /\ Placed(Descriptors, node, chunk, open_files) /\ Len(node) \in Nat
  BY PoliteTypes, Zenon
<1>1. /\ Nodes(fs, Len(chunk)) /\ Len(fs) \in Nat /\ Len(node) <= Len(fs)
      /\ f \in 1 .. Len(fs)
      /\ \A i \in 1 .. Len(node) : fs[i] = node[i]
      /\ directory[name] # 0 => fs = node /\ f = directory[name]
      /\ directory[name] = 0 =>
           /\ Len(fs) = Len(node) + 1 /\ f = Len(fs)
           /\ fs[f].content = 0 /\ fs[f].links = 1 /\ fs[f].opens = 0 /\ ~fs[f].freed
  BY <1>0, OpenNodesFacts, Zenon
<1>2. /\ \A d \in Descriptors : open_files[d].file # 0 => open_files[d].file \in Live(node)
      /\ directory[name] # 0 => directory[name] \in Live(node)
  BY ReachedIsLive, Zenon
<1> HIDE DEF fs, f
<1>3. 1 .. Len(node) \subseteq 1 .. Len(fs)
  BY <1>0, <1>1
<1>4. Live(node) \subseteq Live(fs)
  BY <1>1, <1>3, Zenon DEF Live
<1>5. f \in Live(fs)
  BY <1>1, <1>2, Zenon DEF Live
<1>6. \A i \in 1 .. Len(fs) : i \notin 1 .. Len(node) => fs[i].content = 0
  <2> SUFFICES ASSUME NEW i \in 1 .. Len(fs), i \notin 1 .. Len(node) PROVE fs[i].content = 0
    OBVIOUS
  <2>1. CASE directory[name] # 0
    BY <1>1, <2>1, Zenon
  <2>2. CASE directory[name] = 0
    <3>1. i = f
      BY <1>0, <1>1, <2>2
    <3> QED BY <1>1, <2>2, <3>1, Zenon
  <2> QED BY <2>1, <2>2
<1>7. Partitioned(fs, chunk)
  <2>1. \A i \in Live(node) : node[i].content # 0 /\ chunk[node[i].content].input => fs[i].links # 0
    BY <1>0, <1>1, Zenon DEF Partitioned, Live
  <2>2. \A i \in 1 .. Len(node) : fs[i].content = node[i].content /\ fs[i].freed = node[i].freed
    BY <1>1, Zenon
  <2> QED BY <1>0, <1>3, <1>6, <2>1, <2>2, RecountsPartitioned
<1>8. Placed(Descriptors, fs, chunk, open_files)
  <2>1. OthersKept(Descriptors, node, fs, chunk, chunk, open_files, open_files, -1)
    BY <1>1, <1>2, Zenon DEF OthersKept, Live
  <2>2. -1 \notin Descriptors
    BY FilesAssumption
  <2> QED BY <1>0, <2>1, <2>2, PlacedChanged
<1>9. directory[name] # 0 => f \in Live(node) /\ fs[f] = node[f]
  BY <1>1, <1>2, Zenon
<1>10. ASSUME directory[name] = 0, NEW e \in Descriptors PROVE open_files[e].file # f
  <2>1. f \notin 1 .. Len(node) /\ f # 0
    BY <1>0, <1>1, <1>10
  <2> QED BY <1>2, <2>1, Zenon DEF Live
<1> QED BY <1>1, <1>4, <1>5, <1>7, <1>8, <1>9, <1>10, Zenon DEF fs, f

(* A descriptor is put into the table: to read the file from its start, or *)
(* to write to a file that is empty and that nobody else has open.         *)
Opens(fs, mk, g, of, og, d, f) ==
  /\ mk[f].content \in 0 .. Len(g)
  /\ \A e \in Descriptors : of[e].file # 0 => of[e].file \in Live(fs)
  /\ \A i \in Live(fs) : i # f \/ mk[f].content # 0 =>
       ListOf(g, mk[i].content) = ListOf(chunk, fs[i].content)
  /\ mk[f].content = 0 => fs[f].content = 0 \/ \A e \in Descriptors : of[e].file # f
  /\ ListOf(g, 0) = ListOf(chunk, 0)
  /\ \A e \in Descriptors : e # d => og[e] = of[e]
  /\ og[d].file = f /\ og[d].chunk = mk[f].content /\ og[d].acc # "RW" /\ ~og[d].append
  /\ og[d].acc = "W" => mk[f].content = 0 /\ \A e \in Descriptors : of[e].file # f

(* The descriptors are placed then.                                        *)
LEMMA OpenedPolite ==
  ASSUME NEW fs, NEW mk, NEW g, NEW of, NEW og, NEW d \in Descriptors, NEW f \in Live(fs),
         Placed(Descriptors, fs, chunk, of), Chained(g), Opens(fs, mk, g, of, og, d, f)
  PROVE  Placed(Descriptors, mk, g, og)
<1>0. /\ mk[f].content \in 0 .. Len(g)
      /\ \A e \in Descriptors : of[e].file # 0 => of[e].file \in Live(fs)
      /\ \A i \in Live(fs) : i # f \/ mk[f].content # 0 =>
           ListOf(g, mk[i].content) = ListOf(chunk, fs[i].content)
      /\ mk[f].content = 0 => fs[f].content = 0 \/ \A e \in Descriptors : of[e].file # f
      /\ ListOf(g, 0) = ListOf(chunk, 0)
      /\ \A e \in Descriptors : e # d => og[e] = of[e]
      /\ og[d].file = f /\ og[d].chunk = mk[f].content /\ og[d].acc # "RW" /\ ~og[d].append
      /\ og[d].acc = "W" => mk[f].content = 0 /\ \A e \in Descriptors : of[e].file # f
  BY Zenon DEF Opens
<1> USE <1>0
<1>1. ASSUME NEW e \in Descriptors, of[e].file # 0, e # d
      PROVE  ListOf(g, mk[of[e].file].content) = ListOf(chunk, fs[of[e].file].content)
  <2>1. CASE of[e].file # f \/ mk[f].content # 0
    BY <1>1, <2>1, Zenon
  <2>2. CASE of[e].file = f /\ mk[f].content = 0
    BY <1>1, <2>2, Zenon
  <2> QED BY <2>1, <2>2, Zenon
<1>2. OthersKept(Descriptors, fs, mk, chunk, g, of, og, d)
  BY <1>1, Zenon DEF OthersKept
<1>3. og[d].chunk # 0 => og[d].chunk \in ChunksOf(mk, g, f)
  BY ListMembers, Zenon DEF ChunksOf
<1>4. ASSUME og[d].acc = "W"
      PROVE  /\ og[d].chunk = LastOf(ListOf(g, mk[f].content))
             /\ \A e \in Descriptors : e # d /\ og[e].file = f => og[e].acc # "W"
  <2>1. ListOf(g, mk[f].content) = <<>>
    BY <1>4, ListMembers, Zenon
  <2> QED BY <1>4, <2>1, Zenon DEF LastOf
<1>5. PlacedAt(Descriptors, mk, g, og, d)
  BY <1>3, <1>4, Zenon DEF PlacedAt
<1> QED BY <1>2, <1>5, PlacedChanged

(* open.                                                                   *)
LEMMA OpenPolite ==
  ASSUME Polite, PoliteInv, NEW name \in Names, NEW flags \in OpenFlags,
         NEW mode \in OpenModes, dandelion_open(name, flags, mode)
  PROVE  PolitePart'
<1> DEFINE fs   == OpenNodes(name, mode)
           f    == OpenFile(name, mode)
           free == {d \in Descriptors : open_files[d].file = NULL}
           S    == Chunks(fs[f].content)
           c    == IF flags.trunc THEN NULL ELSE fs[f].content
<1>0. /\ status = "ok" /\ mode \in SUBSET {"r", "w"} /\ flags \in Flags /\ TypeInv
      /\ PoliteOpen(name, flags)
  BY FilesAssumption, PoliteTypes, Zenon DEF dandelion_open
<1>1. CASE \E code : Fails(code)
  BY <1>1, FailPolite, Zenon
<1>2. CASE /\ \/ free = {} /\ node' = fs /\ Returns(EMFILE, <<>>) /\ UNCHANGED <<chunk, open_files>>
              \/ free # {} /\ open_existing_file(fs, f, Min(free), flags)
           /\ UNCHANGED written
  <2>1. /\ Nodes(fs, Len(chunk)) /\ Len(fs) \in Nat /\ Len(node) <= Len(fs) /\ f \in 1 .. Len(fs)
    BY <1>0, OpenNodesFacts, Zenon
  <2>2. /\ Sane(chunk) /\ Chained(chunk) /\ Len(chunk) \in Nat /\ Len(node) \in Nat
        /\ Table(open_files, Len(node), Len(chunk)) /\ Counted(node, directory, open_files)
    BY PoliteTypes, Zenon
  <2>3. /\ Partitioned(fs, chunk) /\ Placed(Descriptors, fs, chunk, open_files)
        /\ f \in Live(fs) /\ Live(node) \subseteq Live(fs)
        /\ directory[name] # 0 => f \in Live(node) /\ fs[f] = node[f]
        /\ directory[name] = 0 => /\ fs[f].content = 0
                                  /\ \A e \in Descriptors : open_files[e].file # f
    BY <1>0, OpenNodesPolite, Zenon
  <2>4. directory[name] # 0 => f = directory[name]
    BY Zenon DEF OpenFile, NULL
  <2>5. S = ListOf(chunk, fs[f].content) /\ Range(S) = ChunksOf(fs, chunk, f)
    BY ChunksIsListOf, Zenon DEF ChunksOf
  <2> HIDE DEF fs, f
  <2>6. CASE status' = "ok" /\ node' = fs /\ UNCHANGED <<chunk, open_files>>
    BY <1>2, <2>3, <2>6, Zenon DEF PoliteInv, PolitePart, Orderly
  <2>7. /\ flags.acc # "RW" /\ ~flags.append /\ (flags.trunc => flags.acc = "W")
        /\ flags.acc = "W" => \A e \in Descriptors : open_files[e].file # f
        /\ flags.acc = "W" /\ directory[name] # 0 => flags.trunc /\ ~IsInput(f)
    <3>1. flags.acc # "RW" /\ ~flags.append /\ (flags.trunc => flags.acc = "W")
      BY <1>0, Zenon DEF PoliteOpen
    <3>2. flags.acc = "W" /\ directory[name] # 0 => flags.trunc /\ node[f].opens = 0 /\ ~IsInput(f)
      BY <1>0, <2>4, Zenon DEF PoliteOpen, NULL
    <3>3. ASSUME flags.acc = "W", directory[name] # 0, NEW e \in Descriptors
          PROVE  open_files[e].file # f
      BY <2>2, <2>3, <3>2, <3>3, OpenIsCounted, Zenon DEF Live
    <3> QED BY <2>3, <3>1, <3>2, <3>3, Zenon
  <2>8. flags.trunc => FreeFault(S) = "ok"
    <3> SUFFICES ASSUME flags.trunc PROVE FreeFault(S) = "ok"
      OBVIOUS
    <3>1. CASE directory[name] # 0
      <4>1. S = Chunks(node[f].content)
        BY <2>3, <3>1, Zenon
      <4> QED BY <2>3, <2>7, <3>1, <4>1, LiveIntact, Zenon
    <3>2. CASE directory[name] = 0
      <4>1. 0 \in 0 .. Len(chunk)
        BY <2>2
      <4>2. S = <<>>
        BY <2>2, <2>3, <2>5, <3>2, <4>1, ListMembers, Zenon
      <4>3. DOMAIN S = {}
        BY <4>2
      <4> QED BY <4>3, Zenon DEF FreeFault, Intact
    <3> QED BY <3>1, <3>2
  <2>9. CASE /\ free # {} /\ status' = "ok" /\ node' = Opened(fs, f, c)
             /\ open_files' = Put(open_files, Min(free), OpenDesc(f, c, flags))
             /\ chunk' = IF flags.trunc THEN Freed(chunk, S) ELSE chunk
    <3> DEFINE d == Min(free)
               r == OpenDesc(f, c, flags)
    <3>1. c \in 0 .. Len(chunk) /\ (flags.trunc => c = 0) /\ (~flags.trunc => c = fs[f].content)
      BY <2>1, <2>2, NodeTypes DEF NULL
    <3>2. /\ Sane(chunk') /\ Len(chunk') = Len(chunk)
          /\ flags.trunc => \A i \in 1 .. Len(chunk) :
               IF i \in Range(S) THEN chunk'[i].freed ELSE chunk'[i] = chunk[i]
      <4>1. /\ Sane(Freed(chunk, S)) /\ Len(Freed(chunk, S)) = Len(chunk) /\ FreedChunk.freed
            /\ \A i \in 1 .. Len(chunk) :
                 Freed(chunk, S)[i] = IF i \in Range(S) THEN FreedChunk ELSE chunk[i]
        BY <2>2, FreedFacts, Zenon
      <4> QED BY <2>2, <2>9, <4>1, Zenon
    <3> HIDE DEF c, S
    <3>3. /\ Len(node') = Len(fs) /\ node'[f].content = c /\ node'[f].freed = fs[f].freed
          /\ node'[f].links = fs[f].links
          /\ \A i \in 1 .. Len(fs) : i # f => node'[i] = fs[i]
      <4> DEFINE g == Opened(fs, f, c)
      <4>1. Nodes(fs, Len(chunk)) /\ Len(chunk) \in Nat /\ f \in 1 .. Len(fs) /\ c \in 0 .. Len(chunk)
        BY <2>1, <2>2, <3>1, Zenon
      <4>2. /\ Len(g) = Len(fs) /\ g[f].content = c /\ g[f].freed = fs[f].freed
            /\ g[f].links = fs[f].links
            /\ \A i \in 1 .. Len(fs) : i # f => g[i] = fs[i]
        BY <4>1, OpenChanged
      <4> QED BY <2>9, <4>2, Zenon
    <3>4. d \in Descriptors
      <4>1. free \in SUBSET Nat /\ free # {}
        BY <2>9, FilesAssumption, Zenon
      <4> HIDE DEF free
      <4>2. Min(free) \in free
        BY <4>1, MinFacts, Zenon
      <4> QED BY <4>2, Zenon DEF free
    <3>5. /\ r \in DescSet /\ r.file <= Len(fs) /\ r.chunk <= Len(chunk)
          /\ r.file = f /\ r.chunk = c /\ r.acc = flags.acc /\ r.append = flags.append
      BY <1>0, <2>1, <2>2, <3>1 DEF OpenDesc, DescSet, Flags
    <3> HIDE DEF free, r, d
    <3>6. open_files'[d] = r /\ \A e \in Descriptors : e # d => open_files'[e] = open_files[e]
      <4>1. Table(open_files, Len(fs), Len(chunk))
        <5>1. Len(chunk) <= Len(chunk)
          BY <2>2
        <5> QED BY <2>1, <2>2, <5>1, TypesGrow, Zenon
      <4>2. open_files' = Put(open_files, d, r)
        BY <2>9, Zenon DEF d, r
      <4>3. Len(fs) \in Nat /\ Len(chunk) \in Nat /\ r \in DescSet /\ r.file <= Len(fs) /\ r.chunk <= Len(chunk)
        BY <2>1, <2>2, <3>5, Zenon
      <4>4. /\ Put(open_files, d, r)[d] = r
            /\ \A e \in Descriptors : e # d => Put(open_files, d, r)[e] = open_files[e]
        BY <3>4, <4>1, <4>3, PutFacts
      <4> QED BY <4>2, <4>4, Zenon
    <3>7. /\ Partitioned(node', chunk')
          /\ \A i \in Live(fs) : i # f \/ ~flags.trunc =>
               ListOf(chunk', node'[i].content) = ListOf(chunk, fs[i].content)
      <4>1. CASE flags.trunc
        <5>1. Frees(fs, node', chunk, chunk', f)
          BY <2>5, <3>1, <3>2, <3>3, <4>1, Zenon DEF Frees
        <5>2. Chained(chunk')
          BY <3>2, Zenon DEF Sane
        <5> QED BY <2>1, <2>2, <2>3, <4>1, <5>1, <5>2, FreesPartitioned
      <4>2. CASE ~flags.trunc
        <5>1. /\ chunk' = chunk
              /\ \A i \in 1 .. Len(fs) : /\ node'[i].content = fs[i].content
                                         /\ node'[i].freed = fs[i].freed
                                         /\ node'[i].links = fs[i].links
          BY <2>9, <3>1, <3>3, <4>2, Zenon
        <5>2. \A i \in Live(fs) : fs[i].content # 0 /\ chunk[fs[i].content].input => node'[i].links # 0
          BY <2>3, <5>1, Zenon DEF Partitioned, Live
        <5>3. /\ 1 .. Len(fs) \subseteq 1 .. Len(node')
              /\ \A i \in 1 .. Len(node') : i \notin 1 .. Len(fs) => node'[i].content = 0
          BY <3>3, Zenon
        <5>4. Partitioned(node', chunk)
          BY <2>2, <2>3, <5>1, <5>2, <5>3, RecountsPartitioned
        <5> QED BY <5>1, <5>4, Zenon DEF Live
      <4> QED BY <4>1, <4>2
    <3>8. Opens(fs, node', chunk', open_files, open_files', d, f)
      <4>1. c \in 0 .. Len(chunk')
        BY <3>1, <3>2, Zenon
      <4>2. \A e \in Descriptors : open_files[e].file # 0 => open_files[e].file \in Live(fs)
        BY <2>3, ReachedIsLive, Zenon
      <4>3. ListOf(chunk', 0) = ListOf(chunk, 0)
        <5>1. 0 \in 0 .. Len(chunk) /\ 0 \in 0 .. Len(chunk') /\ Chained(chunk')
          BY <2>2, <3>2 DEF Sane
        <5> QED BY <2>2, <5>1, ListMembers, Zenon
      <4>4. flags.acc = "W" => c = 0
        BY <2>3, <2>7, <3>1, Zenon
      <4> QED BY <2>7, <3>1, <3>3, <3>5, <3>6, <3>7, <4>1, <4>2, <4>3, <4>4, Zenon DEF Opens
    <3>9. Placed(Descriptors, node', chunk', open_files')
      <4>1. Chained(chunk')
        BY <3>2, Zenon DEF Sane
      <4> QED BY <2>3, <3>4, <3>8, <4>1, OpenedPolite
    <3> QED BY <1>2, <2>9, <3>2, <3>7, <3>9, Zenon DEF PoliteInv, PolitePart, Orderly
  <2>10. \/ status' = "ok" /\ node' = fs /\ UNCHANGED <<chunk, open_files>>
         \/ free # {} /\ open_existing_file(fs, f, Min(free), flags)
    BY <1>0, <1>2, Zenon DEF Returns
  <2>11. ASSUME open_existing_file(fs, f, Min(free), flags)
         PROVE  \/ status' # "ok" /\ flags.trunc /\ FreeFault(S) # "ok"
                \/ status' = "ok" /\ node' = fs /\ UNCHANGED <<chunk, open_files>>
                \/ /\ status' = "ok" /\ node' = Opened(fs, f, c)
                   /\ open_files' = Put(open_files, Min(free), OpenDesc(f, c, flags))
                   /\ chunk' = IF flags.trunc THEN Freed(chunk, S) ELSE chunk
    BY <1>0, <2>11, OpenEnds, Zenon
  <2> QED BY <2>6, <2>8, <2>9, <2>10, <2>11, Zenon
<1> QED BY <1>1, <1>2, Zenon DEF dandelion_open, OpenNodes, OpenFile

-----------------------------------------------------------------------------
(* read and pread.                                                         *)

(* What an open file and its descriptor are.                               *)
LEMMA DescriptorFacts ==
  ASSUME PoliteInv, NEW d \in Descriptors, open_files[d].file # 0
  PROVE  /\ open_files[d].file \in Live(node) /\ open_files[d].file \in 1 .. Len(node)
         /\ node[open_files[d].file].content \in 0 .. Len(chunk)
         /\ open_files[d].chunk \in 0 .. Len(chunk) /\ open_files[d].offset \in Int
         /\ open_files[d].acc \in {"R", "W"} /\ ~open_files[d].append
         /\ open_files[d].chunk # 0 => open_files[d].chunk \in ChunksOf(node, chunk, open_files[d].file)
         /\ node[open_files[d].file].content # 0 =>
              node[open_files[d].file].content \in ChunksOf(node, chunk, open_files[d].file)
         /\ open_files[d].acc = "W" =>
              open_files[d].chunk = LastOf(ListOf(chunk, node[open_files[d].file].content))
<1>0. /\ TypeInv /\ status = "ok" /\ Placed(Descriptors, node, chunk, open_files)
      /\ Table(open_files, Len(node), Len(chunk)) /\ Len(node) \in Nat /\ Len(chunk) \in Nat
      /\ Chained(chunk)
  BY PoliteTypes, Zenon
<1>1. open_files[d].file \in Live(node) /\ open_files[d].file \in 1 .. Len(node)
  BY ReachedIsLive, Zenon DEF Live
<1>2. /\ node[open_files[d].file].content \in 0 .. Len(chunk)
      /\ open_files[d].chunk \in 0 .. Len(chunk) /\ open_files[d].offset \in Int
  BY <1>0, <1>1, StateTypes, Zenon
<1>3. open_files[d].acc \in {"R", "W", "RW"}
  BY <1>0, TableTypes, Zenon
<1>4. /\ open_files[d].acc # "RW" /\ ~open_files[d].append
      /\ open_files[d].chunk # 0 => open_files[d].chunk \in ChunksOf(node, chunk, open_files[d].file)
      /\ open_files[d].acc = "W" =>
           open_files[d].chunk = LastOf(ListOf(chunk, node[open_files[d].file].content))
  BY <1>0, Zenon DEF Placed
<1>5. node[open_files[d].file].content # 0 =>
        node[open_files[d].file].content \in ChunksOf(node, chunk, open_files[d].file)
  BY <1>0, <1>2, ListMembers, Zenon DEF ChunksOf
<1> QED BY <1>1, <1>2, <1>3, <1>4, <1>5, Zenon

(* Only the place of descriptor d changes, to chunk c.                     *)
OnlyMoves(of, og, d, c) ==
  /\ og[d].file = of[d].file /\ og[d].acc = of[d].acc /\ og[d].append = of[d].append
  /\ og[d].chunk = c
  /\ \A e \in Descriptors : e # d => og[e] = of[e]

(* This is what moving a descriptor does.                                  *)
LEMMA MovedOnly ==
  ASSUME NEW of, NEW m \in Nat, NEW n \in Nat, Table(of, m, n), NEW d \in Descriptors,
         NEW c \in 0 .. n, NEW off \in Int
  PROVE  OnlyMoves(of, Moved(of, d, c, off), d, c)
<1>1. of \in [Descriptors -> DescSet] /\ of[d] \in DescSet
  BY TableTypes, Zenon
<1> DEFINE r == [of[d] EXCEPT !.chunk = c, !.offset = off]
<1>2. r.file = of[d].file /\ r.acc = of[d].acc /\ r.append = of[d].append /\ r.chunk = c
  BY <1>1, Zenon DEF DescSet
<1>3. Moved(of, d, c, off) = [of EXCEPT ![d] = r]
  BY Zenon DEF Moved
<1> HIDE DEF r
<1>4. /\ Moved(of, d, c, off)[d] = r
      /\ \A e \in Descriptors : e # d => Moved(of, d, c, off)[e] = of[e]
  BY <1>1, <1>3, Zenon
<1> QED BY <1>2, <1>4, Zenon DEF OnlyMoves

(* A descriptor that reads moves to a chunk of its file.                   *)
LEMMA MovePolite ==
  ASSUME PoliteInv, NEW d \in Descriptors, open_files[d].file # 0, open_files[d].acc # "W",
         NEW c \in 0 .. Len(chunk), NEW off \in Int,
         c # 0 => c \in ChunksOf(node, chunk, open_files[d].file),
         open_files' = Moved(open_files, d, c, off), status' = status,
         UNCHANGED <<node, chunk, written>>
  PROVE  PolitePart'
<1>1. /\ Table(open_files, Len(node), Len(chunk)) /\ Len(node) \in Nat /\ Len(chunk) \in Nat
      /\ Placed(Descriptors, node, chunk, open_files)
  BY PoliteTypes, Zenon
<1>2. OnlyMoves(open_files, open_files', d, c)
  BY <1>1, MovedOnly, Zenon
<1>3. /\ open_files'[d].file = open_files[d].file /\ open_files'[d].acc = open_files[d].acc
      /\ open_files'[d].append = open_files[d].append /\ open_files'[d].chunk = c
      /\ \A e \in Descriptors : e # d => open_files'[e] = open_files[e]
  BY <1>2, Zenon DEF OnlyMoves
<1>4. PlacedAt(Descriptors, node, chunk, open_files', d)
  BY <1>3, DescriptorFacts, Zenon DEF PlacedAt
<1>5. OthersKept(Descriptors, node, node, chunk, chunk, open_files, open_files', d)
  BY <1>3, Zenon DEF OthersKept
<1>6. Placed(Descriptors, node, chunk, open_files')
  BY <1>1, <1>4, <1>5, PlacedChanged
<1> QED BY <1>6, Zenon DEF PoliteInv, PolitePart, Orderly

(* The copying loop stays in the list of the file and meets no freed chunk.*)
LEMMA CopiedPolite ==
  ASSUME PoliteInv, NEW f \in Live(node), NEW c \in ChunksOf(node, chunk, f),
         NEW off \in Int, NEW len \in Nat
  PROVE  LET r == Copied(c, off, len)
         IN  /\ r.ok /\ r.chunk \in ChunksOf(node, chunk, f) /\ r.chunk \in 0 .. Len(chunk)
             /\ r.offset \in Int
<1> DEFINE F == ListOf(chunk, node[f].content)
           r == Copied(c, off, len)
<1>0. Sane(chunk) /\ Chained(chunk) /\ Nodes(node, Len(chunk)) /\ Len(chunk) \in Nat
  BY PoliteTypes, Zenon
<1>1. /\ node[f].content \in 0 .. Len(chunk) /\ ChunksOf(node, chunk, f) = Range(F)
      /\ ChunksOf(node, chunk, f) \subseteq 1 .. Len(chunk)
  BY <1>0, LiveTypes, Zenon DEF ChunksOf
<1>2. PICK m \in 1 .. Len(F) : F[m] = c
  <2>1. \A x : x \in Range(F) <=> \E m \in 1 .. Len(F) : F[m] = x
    BY <1>0, <1>1, ListMembers, Zenon
  <2> HIDE DEF F
  <2> QED BY <1>1, <2>1, Zenon
<1>3. Range(ListOf(chunk, c)) \subseteq ChunksOf(node, chunk, f)
  <2>1. Range(ListOf(chunk, F[m])) \subseteq Range(F)
    BY <1>0, <1>1, RestFacts
  <2> QED BY <1>1, <1>2, <2>1, Zenon
<1>4. c \in 1 .. Len(chunk) /\ Chunks(c) = ListOf(chunk, c)
  BY <1>1, ChunksIsListOf, Zenon
<1>5. /\ r.chunk \in 1 .. Len(chunk) /\ r.offset \in Int
      /\ r.chunk \in Range(Chunks(c)) /\ (r.ok <=> ~chunk[r.chunk].freed)
  BY <1>0, <1>4, CopiedTypes, Zenon
<1> HIDE DEF r, F
<1>6. \A x \in ChunksOf(node, chunk, f) : ~chunk[x].freed
  BY LiveIntact, Zenon
<1>7. \A x \in 1 .. Len(chunk) : x \in 0 .. Len(chunk)
  BY <1>0
<1> QED BY <1>3, <1>4, <1>5, <1>6, <1>7, Zenon DEF r

(* read.                                                                   *)
LEMMA ReadPolite ==
  ASSUME PoliteInv, NEW d \in Descriptors, NEW len \in Lengths, dandelion_read(d, len)
  PROVE  PolitePart'
<1> DEFINE o     == open_files[d]
           start == IF o.chunk = NULL THEN node[o.file].content ELSE o.chunk
           from  == IF o.chunk = NULL THEN 0 ELSE o.offset
           r     == Copied(start, from, len)
<1>0. /\ len \in Nat /\ Table(open_files, Len(node), Len(chunk)) /\ Len(node) \in Nat
      /\ Len(chunk) \in Nat
  BY FilesAssumption, PoliteTypes, Zenon
<1>1. CASE \E code : Fails(code)
  BY <1>1, FailPolite, Zenon
<1>2. ASSUME CanRead(d)
      PROVE  /\ o.file # 0 /\ o.acc # "W" /\ o.file \in Live(node) /\ o.chunk \in 0 .. Len(chunk)
             /\ o.chunk # 0 => o.chunk \in ChunksOf(node, chunk, o.file)
             /\ start # NULL => start \in ChunksOf(node, chunk, o.file)
             /\ from \in Int
  <2>1. o.file # 0 /\ o.acc # "W"
    BY <1>2, Zenon DEF CanRead, NULL
  <2>2. 0 \in Int
    OBVIOUS
  <2> QED BY <2>1, <2>2, DescriptorFacts, Zenon DEF NULL
<1>3. ASSUME CanRead(d), start # NULL
      PROVE  /\ r.ok /\ r.chunk \in ChunksOf(node, chunk, o.file) /\ r.chunk \in 0 .. Len(chunk)
             /\ r.offset \in Int
  <2> HIDE DEF start, from
  <2> QED BY <1>0, <1>2, <1>3, CopiedPolite, Zenon
<1>4. CASE /\ CanRead(d)
           /\ open_files' = [open_files EXCEPT ![d].offset = 0]
           /\ Returns(0, <<>>)
           /\ UNCHANGED <<node, chunk, directory, written>>
  <2>0. open_files' = ToOffset(open_files, d, 0)
    BY <1>4, Zenon DEF ToOffset
  <2>1. open_files' = Moved(open_files, d, o.chunk, 0)
    BY <1>0, <2>0, MovedForms, Zenon
  <2>2. status' = status /\ 0 \in Int
    BY <1>4 DEF Returns
  <2> QED BY <1>2, <1>4, <2>1, <2>2, MovePolite
<1>5. CASE /\ CanRead(d) /\ start # NULL
           /\ open_files' = [open_files EXCEPT ![d].chunk = r.chunk, ![d].offset = r.offset]
           /\ Returns(Len(r.bytes), r.bytes)
           /\ UNCHANGED <<node, chunk, directory, written>>
  <2>1. open_files' = ToPlace(open_files, d, r.chunk, r.offset)
    BY <1>5, Zenon DEF ToPlace
  <2>2. status' = status
    BY <1>5, Zenon DEF Returns
  <2> HIDE DEF r
  <2>3. open_files' = Moved(open_files, d, r.chunk, r.offset)
    BY <1>0, <2>1, MovedForms, Zenon
  <2> QED BY <1>2, <1>3, <1>5, <2>2, <2>3, MovePolite
<1> QED BY <1>1, <1>3, <1>4, <1>5, Zenon DEF dandelion_read

(* pread.                                                                  *)
LEMMA PreadPolite ==
  ASSUME Polite, PoliteInv, NEW d \in Descriptors, NEW len \in Lengths, NEW off \in Offsets,
         pread(d, len, off)
  PROVE  PolitePart'
<1> DEFINE f == open_files[d].file
           S == Chunks(node[f].content)
           K == {j \in DOMAIN S : off = 0 \/ used(S[j]) >= off - UsedBefore(S, j)}
           k == First(K)
           r == Copied(S[k], off - UsedBefore(S, k), len)
<1>0. /\ CanRead(d) /\ len \in Nat /\ off \in Int /\ (off > 0 \/ S # <<>>) /\ Sane(chunk)
  BY FilesAssumption, PoliteTypes, Zenon DEF pread
<1>1. CASE \E code : Fails(code)
  BY <1>1, FailPolite, Zenon
<1>2. /\ f \in Live(node) /\ Intact(S) /\ node[f].content \in 0 .. Len(chunk)
      /\ Range(S) = ChunksOf(node, chunk, f)
  BY <1>0, DescriptorFacts, LiveIntact, Zenon DEF CanRead, NULL
<1>3. /\ DOMAIN S = 1 .. Len(S) /\ Len(S) \in Nat
      /\ \A j \in 1 .. Len(S) + 1 : UsedBefore(S, j) \in Nat
  BY <1>0, <1>2, ListTypes, Zenon
<1>4. ASSUME k # 0 PROVE r.ok
  <2>1. K \in SUBSET (Nat \ {0}) /\ \A j \in K : j \in 1 .. Len(S) /\ j \in 1 .. Len(S) + 1
    BY <1>3
  <2> HIDE DEF S
  <2>2. k \in K
    <3> HIDE DEF K
    <3> QED BY <1>4, <2>1, FirstFacts, Zenon
  <2> HIDE DEF K, k
  <2>3. k \in 1 .. Len(S) /\ UsedBefore(S, k) \in Nat
    BY <1>3, <2>1, <2>2, Zenon
  <2>4. S[k] \in ChunksOf(node, chunk, f)
    BY <1>2, <1>3, <2>3, Zenon DEF Range
  <2>5. off - UsedBefore(S, k) \in Int
    BY <1>0, <2>3
  <2> QED BY <1>0, <1>2, <2>4, <2>5, CopiedPolite, Zenon
<1> HIDE DEF K, r, k, S, f
<1>5. \/ off < 0 /\ Fails(EINVAL)
      \/ off = 0 /\ S = <<>> /\ Crashes("null")
      \/ off > 0 /\ k = 0 /\ Intact(S) /\ Fails(0)
      \/ off > 0 /\ k = 0 /\ ~Intact(S) /\ Crashes("freed")
      \/ off >= 0 /\ k # 0 /\ ~r.ok /\ Crashes("freed")
      \/ /\ off >= 0 /\ k # 0 /\ r.ok
         /\ Returns(Len(r.bytes), r.bytes)
         /\ UNCHANGED <<node, chunk, directory, open_files, written>>
  BY Zenon DEF pread, K, r, k, S, f
<1>6. ~(off = 0 /\ off > 0)
  BY <1>0
<1>7. CASE status' = status /\ UNCHANGED <<node, chunk, open_files, written>>
  BY <1>7, Zenon DEF PoliteInv, PolitePart
<1> QED BY <1>0, <1>1, <1>2, <1>4, <1>5, <1>6, <1>7, Zenon DEF Returns

-----------------------------------------------------------------------------
(* The chunk that a write begins with.                                     *)

(* Nothing is added.                                                       *)
LEMMA ExtendsSame ==
  ASSUME NEW ch, Sane(ch), NEW c
  PROVE  Extends(ch, ch, c)
<1>1. Len(ch) \in Nat
  BY SaneTypes, Zenon
<1>2. Len(ch) # Len(ch) + 1
  BY <1>1
<1> QED BY <1>2, Zenon DEF Extends

(* A new chunk that is then filled within its capacity.                    *)
LEMMA ExtendsNew ==
  ASSUME NEW ch, NEW q, NEW g, Sane(ch), Extends(ch, q, 0), Len(q) = Len(ch) + 1,
         Extends(q, g, Len(q)), Len(g) = Len(q)
  PROVE  Extends(ch, g, 0)
<1>1. /\ Len(ch) \in Nat /\ Sane(g) /\ Plain(q[Len(q)])
      /\ Len(ch) # Len(ch) + 1 /\ Len(q) \in 1 .. Len(q)
      /\ \A i \in 1 .. Len(ch) : i \in 1 .. Len(q) /\ i # 0 /\ i # Len(q)
  BY SaneTypes DEF Extends
<1>2. /\ g[Len(q)].freed = q[Len(q)].freed /\ g[Len(q)].input = q[Len(q)].input
      /\ g[Len(q)].next = q[Len(q)].next
  BY <1>1, Zenon DEF Extends
<1>3. g[Len(q)] \in ChunkSet /\ Len(g[Len(q)].data) <= g[Len(q)].cap
  BY <1>1, SaneTypes, Zenon
<1>4. Plain(g[Len(q)])
  BY <1>1, <1>2, <1>3, Zenon DEF Plain
<1>5. \A i \in 1 .. Len(ch) : g[i] = ch[i]
  <2>1. \A i \in 1 .. Len(ch) : g[i] = q[i]
    BY <1>1, Zenon DEF Extends
  <2>2. \A i \in 1 .. Len(ch) : q[i] = ch[i]
    BY <1>1, Zenon DEF Extends
  <2> QED BY <2>1, <2>2, Zenon
<1> QED BY <1>1, <1>4, <1>5, Zenon DEF Extends

(* A file without content gets a chunk that has room for all bytes.        *)
LEMMA FirstWrite ==
  ASSUME Sane(chunk), written \in Nat, NEW len \in Nat, len > 0, CanAllocate(chunk, len)
  PROVE  LET p == FirstChunk(len)
             c == Len(chunk) + 1
             g == Filled(p.ch, c, Fresh(len))
         IN  /\ p.content = c /\ p.current = c /\ c # 0 /\ ~p.ch[c].freed
             /\ Part(p.ch, c, Fresh(len)) = len
             /\ Extends(chunk, g, 0) /\ Len(g) = c
<1> DEFINE r == NewChunk(len, <<>>)
           q == Append(chunk, r)
           c == Len(chunk) + 1
           p == FirstChunk(len)
           b == Fresh(len)
           g == Filled(q, c, b)
<1>0. Len(chunk) \in Nat /\ b \in Seq(Int) /\ Len(b) = len
  BY SaneTypes, FreshFacts, Zenon
<1>1. p.ch = q /\ p.content = c /\ p.current = c
  BY DEF FirstChunk, Prepared
<1>2. <<>> \in Seq(Int) /\ Len(<<>>) <= len /\ Len(b) <= len
  BY <1>0
<1> HIDE DEF b, p
<1>3. Plain(r) /\ r.data = <<>> /\ Plain(NewChunk(len, b)) /\ NewChunk(len, b).data = b
  BY <1>0, <1>2, NewIsPlain, Zenon
<1>4. r.cap = NewChunk(len, b).cap
  BY DEF NewChunk
<1>5. len <= r.cap /\ r.cap \in Nat
  BY <1>0, <1>3, <1>4, Zenon DEF Plain, ChunkSet
<1> HIDE DEF r
<1>6. Extends(chunk, q, 0) /\ Len(q) = c /\ q[c] = r
  BY <1>0, <1>3, ChunkAdded, Zenon
<1> HIDE DEF q
<1>7. c \in 1 .. Len(q) /\ c # 0
  BY <1>0, <1>6
<1>8. Sane(q)
  BY <1>6, Zenon DEF Extends
<1>9. Part(q, c, b) = len
  <2>1. Len(q[c].data) = 0 /\ q[c].cap \in Nat /\ q[c].cap - Len(q[c].data) \in Int
        /\ len <= q[c].cap - Len(q[c].data) /\ len \in Int
    BY <1>3, <1>5, <1>6
  <2> DEFINE room == q[c].cap - Len(q[c].data)
  <2>2. Part(q, c, b) = Min({len, room})
    BY <1>0, Zenon DEF Part
  <2>3. room \in Int /\ len <= room
    BY <2>1
  <2> HIDE DEF room, c
  <2> QED BY <2>1, <2>2, <2>3, MinOfTwo, Zenon
<1>10. Extends(q, g, c) /\ Len(g) = Len(q)
  BY <1>0, <1>7, <1>8, <1>9, FilledFacts, Zenon
<1> HIDE DEF g
<1>11. Extends(chunk, g, 0)
  BY <1>6, <1>10, ExtendsNew, Zenon
<1> QED BY <1>1, <1>3, <1>6, <1>7, <1>9, <1>10, <1>11, Zenon DEF g, p, q, b, Plain

(* There is memory for another chunk as long as there are bytes to write.  *)
LEMMA MemoryLeft ==
  ASSUME EnoughMemory, PoliteInv, NEW len \in Nat, len > 0, written + len <= MaxBytes
  PROVE  Len(chunk) < MaxChunks
<1>1. Len(chunk) \in Nat /\ written \in Nat
  BY PoliteTypes, Zenon
<1>2. Cardinality(DOMAIN Inputs) \in Nat
  BY FilesAssumption, FS_Subset, FS_CardinalityType, Zenon
<1>3. Len(chunk) <= Cardinality(DOMAIN Inputs) + written
  BY Zenon DEF PoliteInv, PolitePart, Orderly
<1>4. MaxBytes \in Nat /\ MaxChunks \in Nat /\ Cardinality(DOMAIN Inputs) + MaxBytes <= MaxChunks
  BY FilesAssumption, Zenon DEF EnoughMemory
<1> QED BY <1>1, <1>2, <1>3, <1>4

(* The chunks when p is filled, and the chunk the descriptor is left at.   *)
FillGives(p, len) == IF len = 0 THEN p.ch ELSE Filled(p.ch, p.current, Fresh(len))

FillPlace(p, len) ==
  IF len > 0 /\ Part(p.ch, p.current, Fresh(len)) < len THEN Len(p.ch) + 1 ELSE p.current

(* p can be filled.                                                        *)
CanFill(p, len) ==
  len > 0 => /\ p.current # 0 /\ ~p.ch[p.current].freed
             /\ LET part == Part(p.ch, p.current, Fresh(len))
                IN  part < len => CanAllocate(p.ch, len - part)

(* What is prepared for file f can be filled, and only its last chunk and  *)
(* at most one new chunk change.                                           *)
Fillable(p, f, len) ==
  LET last == LastOf(ListOf(chunk, node[f].content))
      g    == FillGives(p, len)
  IN  /\ p.how = "ok" /\ CanFill(p, len)
      /\ Extends(chunk, g, last)
      /\ p.content = IF node[f].content = 0 /\ Len(g) # Len(chunk) THEN Len(g) ELSE node[f].content
      /\ FillPlace(p, len) = IF Len(g) = Len(chunk) THEN last ELSE Len(g)
      /\ Len(g) <= Len(chunk) + len

(* A file without content.                                                 *)
LEMMA FirstFillable ==
  ASSUME EnoughMemory, PoliteInv, NEW f \in Live(node), NEW len \in Nat, written + len <= MaxBytes,
         node[f].content = 0, NEW p, p = FirstChunk(len)
  PROVE  Fillable(p, f, len)
<1>0. Sane(chunk) /\ Chained(chunk) /\ Len(chunk) \in Nat /\ written \in Nat /\ 0 \in 0 .. Len(chunk)
  BY PoliteTypes
<1>1. LastOf(ListOf(chunk, node[f].content)) = 0
  <2>1. ListOf(chunk, node[f].content) = <<>>
    BY <1>0, ListMembers, Zenon
  <2> QED BY <2>1, Zenon DEF LastOf
<1>2. p.how = "ok"
  BY <1>0, FirstChunkReady
<1>3. CASE len = 0
  <2>1. ~CanAllocate(chunk, len) /\ ~(len > 0)
    BY <1>3 DEF CanAllocate
  <2>2. p.ch = chunk /\ p.content = 0 /\ p.current = 0
    BY <2>1 DEF FirstChunk, Prepared, NULL
  <2>3. Extends(chunk, chunk, 0)
    BY <1>0, ExtendsSame, Zenon
  <2>4. Len(chunk) <= Len(chunk) + len
    BY <1>0
  <2>5. FillGives(p, len) = chunk /\ FillPlace(p, len) = 0 /\ CanFill(p, len)
    BY <1>3, <2>1, <2>2, Zenon DEF FillGives, FillPlace, CanFill
  <2> QED BY <1>1, <1>2, <2>2, <2>3, <2>4, <2>5, Zenon DEF Fillable
<1>4. CASE len > 0
  <2> DEFINE c == Len(chunk) + 1
             g == Filled(p.ch, c, Fresh(len))
  <2>1. CanAllocate(chunk, len)
    BY <1>4, MemoryLeft, Zenon DEF CanAllocate
  <2>2. /\ p.content = c /\ p.current = c /\ c # 0 /\ ~p.ch[c].freed
        /\ Part(p.ch, c, Fresh(len)) = len
        /\ Extends(chunk, g, 0) /\ Len(g) = c
    BY <1>0, <1>4, <2>1, FirstWrite, Zenon
  <2>3. len # 0 /\ ~(len < len) /\ c # Len(chunk) /\ c <= Len(chunk) + len
    BY <1>0, <1>4
  <2> HIDE DEF c
  <2>4. FillGives(p, len) = g /\ FillPlace(p, len) = c /\ CanFill(p, len)
    BY <1>4, <2>2, <2>3, Zenon DEF FillGives, FillPlace, CanFill
  <2> HIDE DEF g
  <2> QED BY <1>1, <1>2, <2>2, <2>3, <2>4, Zenon DEF Fillable
<1> QED BY <1>3, <1>4

(* A file with content.                                                    *)
LEMMA LastFillable ==
  ASSUME EnoughMemory, PoliteInv, NEW f \in Live(node), NEW len \in Nat, written + len <= MaxBytes,
         node[f].content # 0, NEW c, c = LastOf(ListOf(chunk, node[f].content)),
         NEW p, p = Prepared(chunk, node[f].content, c, "ok")
  PROVE  Fillable(p, f, len)
<1> DEFINE S == ListOf(chunk, node[f].content)
           b == Fresh(len)
<1>0. /\ Sane(chunk) /\ Chained(chunk) /\ Len(chunk) \in Nat /\ written \in Nat
      /\ Nodes(node, Len(chunk))
  BY PoliteTypes, Zenon
<1>1. node[f].content \in 0 .. Len(chunk)
  BY <1>0, LiveTypes, Zenon
<1>2. /\ S # <<>> /\ Len(S) \in 1 .. Len(S) /\ Range(S) \subseteq 1 .. Len(chunk)
      /\ \A x : x \in Range(S) <=> \E j \in 1 .. Len(S) : S[j] = x
  BY <1>0, <1>1, ListMembers, Zenon
<1>3. c \in Range(S) /\ c \in 1 .. Len(chunk)
  BY <1>2, Zenon DEF LastOf
<1>4. ~chunk[c].freed
  BY <1>3, LiveIntact, Zenon DEF ChunksOf
<1>5. p.ch = chunk /\ p.content = node[f].content /\ p.current = c /\ p.how = "ok"
  BY PreparedParts
<1>6. c # 0 /\ Len(chunk) <= Len(chunk) + len
  BY <1>0, <1>3
<1>7. b \in Seq(Int) /\ Len(b) = len
  BY <1>0, FreshFacts, Zenon
<1> HIDE DEF S, b
<1>8. CASE len = 0
  <2>1. Extends(chunk, chunk, c) /\ ~(len > 0)
    BY <1>0, <1>8, ExtendsSame
  <2>2. FillGives(p, len) = chunk /\ FillPlace(p, len) = c /\ CanFill(p, len)
    BY <1>5, <1>8, <2>1, Zenon DEF FillGives, FillPlace, CanFill
  <2> QED BY <1>5, <1>6, <2>1, <2>2, Zenon DEF Fillable
<1>9. CASE len > 0
  <2> DEFINE part == Part(chunk, c, b)
             g    == Filled(chunk, c, b)
  <2>1. /\ Extends(chunk, g, c) /\ part \in Nat /\ part <= len
        /\ Len(g) = Len(chunk) <=> part = len
        /\ part < len => Len(g) = Len(chunk) + 1
    BY <1>0, <1>3, <1>7, FilledFacts
  <2> HIDE DEF part, g
  <2>2. /\ part < len => CanAllocate(chunk, len - part) /\ Len(g) = Len(chunk) + 1
        /\ ~(part < len) => Len(g) = Len(chunk)
    BY <1>0, <1>9, <2>1, MemoryLeft DEF CanAllocate
  <2>3. len # 0 /\ Len(g) <= Len(chunk) + len /\ Len(chunk) # Len(chunk) + 1
    BY <1>0, <1>9, <2>1, <2>2
  <2>4. /\ FillGives(p, len) = g /\ CanFill(p, len)
        /\ FillPlace(p, len) = IF part < len THEN Len(chunk) + 1 ELSE c
    BY <1>4, <1>5, <1>6, <1>9, <2>2, <2>3, Zenon DEF FillGives, FillPlace, CanFill, part, g, b
  <2>5. FillPlace(p, len) = IF Len(g) = Len(chunk) THEN c ELSE Len(g)
    BY <2>2, <2>3, <2>4, Zenon
  <2> QED BY <1>5, <2>1, <2>3, <2>4, <2>5, Zenon DEF Fillable
<1> QED BY <1>8, <1>9

(* What write prepares for a polite client.                                *)
LEMMA PreparedPolite ==
  ASSUME EnoughMemory, PoliteInv, NEW d \in Descriptors, open_files[d].file # 0,
         open_files[d].acc = "W", NEW len \in Nat, written + len <= MaxBytes
  PROVE  Fillable(PrepareWrite(open_files[d], len), open_files[d].file, len)
<1> DEFINE f == open_files[d].file
           p == PrepareWrite(open_files[d], len)
<1>0. /\ f \in Live(node) /\ ~open_files[d].append /\ node[f].content \in 0 .. Len(chunk)
      /\ open_files[d].chunk = LastOf(ListOf(chunk, node[f].content))
  BY DescriptorFacts, Zenon
<1>1. CASE node[f].content = 0
  <2>1. p = FirstChunk(len)
    BY <1>0, <1>1, Zenon DEF PrepareWrite, NULL
  <2> HIDE DEF p, f
  <2> QED BY <1>0, <1>1, <2>1, FirstFillable, Zenon DEF p, f
<1>2. CASE node[f].content # 0
  <2>1. Chained(chunk) /\ Len(chunk) \in Nat
    BY PoliteTypes, Zenon
  <2> DEFINE S == ListOf(chunk, node[f].content)
  <2>2. S # <<>> /\ Len(S) \in 1 .. Len(S) /\ S \in Seq(1 .. Len(chunk))
    <3> DEFINE n == node[f].content
    <3>1. Chained(chunk) /\ n \in 0 .. Len(chunk) /\ n # 0
      BY <1>0, <1>2, <2>1, Zenon
    <3> HIDE DEF n
    <3>2. /\ n = 0 <=> ListOf(chunk, n) = <<>>
          /\ n # 0 => Len(ListOf(chunk, n)) \in 1 .. Len(ListOf(chunk, n))
          /\ ListOf(chunk, n) \in Seq(1 .. Len(chunk))
      BY <3>1, ListMembers, Zenon
    <3> QED BY <3>1, <3>2, Zenon DEF n
  <2>3. open_files[d].chunk # 0
    <3> HIDE DEF S, f
    <3>1. S[Len(S)] \in 1 .. Len(chunk)
      BY <2>2
    <3>2. S[Len(S)] # 0
      BY <2>1, <3>1
    <3> QED BY <1>0, <2>2, <3>2, Zenon DEF LastOf, S
  <2>4. p = Prepared(chunk, node[f].content, open_files[d].chunk, "ok")
    BY <1>0, <1>2, <2>3, Zenon DEF PrepareWrite, NULL
  <2> HIDE DEF p, f, S
  <2> QED BY <1>0, <1>2, <2>4, LastFillable, Zenon DEF p, f
<1> QED BY <1>1, <1>2

=============================================================================
