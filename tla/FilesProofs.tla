---------------------------- MODULE FilesProofs -----------------------------
(***************************************************************************)
(* Theorems about the files and descriptors of Files.tla, for any number   *)
(* of files, descriptors, chunks and bytes, and the inductive invariants   *)
(* they follow from.                                                       *)
(***************************************************************************)
EXTENDS FilesTypes

-----------------------------------------------------------------------------
(* write keeps the types.                                                  *)

(* The ends of the copying loop of write.                                  *)
LEMMA FillEnds ==
  ASSUME status = "ok", written \in Nat, NEW p, NEW d, NEW len \in Nat, NEW moves \in BOOLEAN,
         Sane(p.ch), p.current \in 0 .. Len(p.ch), Fill(p, d, len, moves)
  PROVE  LET c    == p.current
             part == Part(p.ch, c, Fresh(len))
         IN  \/ /\ status' # "ok" /\ chunk' = chunk /\ len > 0
                /\ c = 0 \/ p.ch[c].freed \/ (part < len /\ ~CanAllocate(p.ch, len - part))
             \/ /\ status' = "ok" /\ ret'.bytes = <<>>
                /\ len > 0 => c # 0 /\ ~p.ch[c].freed
                /\ chunk' = IF len = 0 THEN p.ch ELSE Filled(p.ch, c, Fresh(len))
                /\ node' = Holding(node, open_files[d].file, p.content)
                /\ open_files' = IF moves
                                 THEN ToChunk(open_files, d, IF len > 0 /\ part < len
                                                             THEN Len(p.ch) + 1 ELSE c, 0)
                                 ELSE open_files
                /\ written' = written + len /\ directory' = directory
<1> DEFINE c     == p.current
           bytes == Fresh(len)
           part  == Part(p.ch, c, bytes)
           room  == Min({len, p.ch[c].cap - Len(p.ch[c].data)})
           new   == Len(p.ch) + 1
           head  == [p.ch EXCEPT ![c].data = @ \o SubSeq(bytes, 1, room)]
<1>1. Len(bytes) = len /\ bytes \in Seq(Int)
  BY FreshFacts, Zenon
<1>2. part = room
  BY <1>1, Zenon DEF Part
<1>3. head = Head1(p.ch, c, bytes)
  BY <1>2, Zenon DEF Head1
<1> HIDE DEF bytes, room, head
<1>4. CASE /\ len > 0
           /\ \/ c = NULL /\ Crashes("null")
              \/ c # NULL /\ p.ch[c].freed /\ Crashes("freed")
              \/ room < len /\ ~CanAllocate(p.ch, len - room) /\ Crashes("null")
  <2>1. status' # "ok" /\ chunk' = chunk
    BY <1>4 DEF Crashes, Faulty
  <2>2. c = 0 \/ p.ch[c].freed \/ (part < len /\ ~CanAllocate(p.ch, len - part))
    BY <1>2, <1>4, Zenon DEF NULL
  <2> QED BY <1>4, <2>1, <2>2, Zenon DEF bytes
<1>5. CASE /\ len > 0 => /\ c # NULL /\ ~p.ch[c].freed
                         /\ room < len => CanAllocate(p.ch, len - room)
           /\ chunk' = IF len = 0 THEN p.ch
                       ELSE IF ~(room < len) THEN head
                       ELSE Append([head EXCEPT ![c].next = new],
                                   NewChunk(len - room, SubSeq(bytes, room + 1, len)))
           /\ node' = [node EXCEPT ![open_files[d].file].content = p.content]
           /\ open_files' = IF moves
                            THEN [open_files EXCEPT ![d].offset = 0,
                                    ![d].chunk = IF len > 0 /\ room < len THEN new ELSE c]
                            ELSE open_files
           /\ written' = written + len
           /\ Returns(len, <<>>)
           /\ UNCHANGED directory
  <2>1. status' = "ok" /\ ret'.bytes = <<>> /\ written' = written + len /\ directory' = directory
    BY <1>5 DEF Returns
  <2>2. len > 0 => c # 0 /\ ~p.ch[c].freed
    BY <1>5, Zenon DEF NULL
  <2>3. node' = Holding(node, open_files[d].file, p.content)
    BY <1>5, Zenon DEF Holding
  <2>4. open_files' = IF moves
                      THEN ToChunk(open_files, d, IF len > 0 /\ part < len THEN new ELSE c, 0)
                      ELSE open_files
    BY <1>2, <1>5, Zenon DEF ToChunk
  <2>5. chunk' = IF len = 0 THEN p.ch ELSE Filled(p.ch, c, bytes)
    <3>1. CASE len = 0
      BY <1>5, <3>1, Zenon
    <3>2. CASE len # 0
      <4>1. c \in 1 .. Len(p.ch) /\ Len(p.ch) \in Nat
        <5>1. len > 0 /\ Len(p.ch) \in Nat
          BY <3>2, SaneTypes
        <5> QED BY <2>2, <5>1
      <4>2. part \in Nat /\ part <= len
        BY <1>1, <4>1, FilledFacts, Zenon
      <4>3. room < len <=> part # len
        BY <1>2, <4>2
      <4>4. Filled(p.ch, c, bytes) =
              IF part = len THEN head
              ELSE Append([head EXCEPT ![c].next = new],
                          NewChunk(len - part, SubSeq(bytes, part + 1, len)))
        BY <1>1, <1>3, Zenon DEF Filled
      <4> QED BY <1>2, <1>5, <3>2, <4>3, <4>4, Zenon
    <3> QED BY <3>1, <3>2
  <2> QED BY <2>1, <2>2, <2>3, <2>4, <2>5, Zenon DEF bytes
<1> QED BY <1>4, <1>5, Zenon DEF Fill, bytes, room, head

(* What is prepared for the loop.                                          *)
Ready(p) ==
  /\ Sane(p.ch) /\ Len(chunk) <= Len(p.ch)
  /\ p.content \in 0 .. Len(p.ch) /\ p.current \in 0 .. Len(p.ch)

(* The loop of write and pwrite keeps the types.                           *)
LEMMA FillTyped ==
  ASSUME TypeInv, status = "ok", NEW p, NEW d \in Descriptors, NEW len \in Nat, NEW moves \in BOOLEAN,
         Ready(p), open_files[d].file # NULL, Fill(p, d, len, moves)
  PROVE  TypeInv'
<1> DEFINE c    == p.current
           part == Part(p.ch, c, Fresh(len))
           f    == open_files[d].file
           to   == IF len > 0 /\ part < len THEN Len(p.ch) + 1 ELSE c
<1>1. /\ Sane(p.ch) /\ Len(chunk) <= Len(p.ch) /\ p.content \in 0 .. Len(p.ch) /\ c \in 0 .. Len(p.ch)
      /\ Len(p.ch) \in Nat
  BY SaneTypes DEF Ready
<1>2. /\ Len(chunk) \in Nat /\ Len(node) \in Nat
      /\ Nodes(node, Len(chunk)) /\ Named(directory, Len(node))
      /\ Table(open_files, Len(node), Len(chunk)) /\ written \in Nat
      /\ f \in 1 .. Len(node)
  BY StateTypes DEF NULL
<1>3. CASE status' # "ok" /\ chunk' = chunk
  BY <1>3, FaultTyped
<1>4. CASE /\ status' = "ok"
           /\ len > 0 => c # 0
           /\ chunk' = IF len = 0 THEN p.ch ELSE Filled(p.ch, c, Fresh(len))
           /\ node' = Holding(node, f, p.content)
           /\ open_files' = IF moves THEN ToChunk(open_files, d, to, 0) ELSE open_files
           /\ written' = written + len /\ directory' = directory
  <2>1. Sane(chunk') /\ Len(chunk') \in Nat /\ Len(p.ch) <= Len(chunk') /\ to \in 0 .. Len(chunk')
    <3>1. CASE len = 0
      BY <1>1, <1>4, <3>1
    <3>2. CASE len # 0
      <4> DEFINE g == Filled(p.ch, c, Fresh(len))
      <4>1. c \in 1 .. Len(p.ch) /\ Fresh(len) \in Seq(Int) /\ Len(Fresh(len)) = len
        <5>1. c # 0
          <6>1. len > 0
            BY <3>2
          <6> QED BY <1>4, <6>1, Zenon
        <5>2. c \in 1 .. Len(p.ch)
          BY <1>1, <5>1
        <5> QED BY <1>2, <5>2, FreshFacts, Zenon
      <4>2. /\ Extends(p.ch, g, c)
            /\ part < len => Len(g) = Len(p.ch) + 1
        BY <1>1, <4>1, FilledFacts, Zenon
      <4>3. Sane(g) /\ Len(g) \in {Len(p.ch), Len(p.ch) + 1}
        BY <4>2, Zenon DEF Extends
      <4>4. chunk' = g
        BY <1>4, <3>2, Zenon
      <4> HIDE DEF g, part
      <4> QED BY <1>1, <4>2, <4>3, <4>4
    <3> QED BY <3>1, <3>2
  <2> HIDE DEF to
  <2>2. Nodes(node', Len(chunk')) /\ Len(node') = Len(node)
    <3>1. Nodes(node, Len(chunk')) /\ p.content \in 0 .. Len(chunk')
      <4>1. Len(chunk) <= Len(chunk') /\ Len(node) <= Len(node) /\ p.content \in 0 .. Len(chunk')
        BY <1>1, <1>2, <2>1
      <4> QED BY <1>2, <2>1, <4>1, TypesGrow, Zenon
    <3> QED BY <1>2, <1>4, <2>1, <3>1, ContentChanged
  <2>3. Table(open_files', Len(node), Len(chunk'))
    <3>1. Table(open_files, Len(node), Len(chunk'))
      <4>1. Len(chunk) <= Len(chunk') /\ Len(node) <= Len(node)
        BY <1>1, <1>2, <2>1
      <4> QED BY <1>2, <2>1, <4>1, TypesGrow, Zenon
    <3>2. ToChunk(open_files, d, to, 0) = Moved(open_files, d, to, 0)
      BY <1>2, <2>1, <3>1, MovedForms, Zenon
    <3>3. Table(Moved(open_files, d, to, 0), Len(node), Len(chunk'))
      <4>1. 0 \in Int
        OBVIOUS
      <4> QED BY <1>2, <2>1, <3>1, <4>1, MovedFacts, Zenon
    <3> QED BY <1>4, <3>1, <3>2, <3>3, Zenon
  <2>4. written' \in Nat
    BY <1>2, <1>4
  <2> QED BY <1>2, <1>4, <2>1, <2>2, <2>3, <2>4, Zenon DEF TypeInv, Typed
<1> QED BY <1>1, <1>2, <1>3, <1>4, FillEnds, Zenon

(* The first chunk of a file.                                              *)
LEMMA FirstChunkReady ==
  ASSUME Sane(chunk), NEW size \in Int
  PROVE  Ready(FirstChunk(size)) /\ FirstChunk(size).how = "ok"
<1>0. Len(chunk) \in Nat
  BY SaneTypes, Zenon
<1>1. CASE CanAllocate(chunk, size)
  <2> DEFINE r == NewChunk(size, <<>>)
             g == Append(chunk, r)
             n == Len(chunk) + 1
             p == FirstChunk(size)
  <2>1. p.ch = g /\ p.content = n /\ p.current = n /\ p.how = "ok"
    BY <1>1 DEF FirstChunk, Prepared
  <2>2. size \in Nat /\ <<>> \in Seq(Int) /\ Len(<<>>) <= size
    BY <1>1 DEF CanAllocate
  <2>3. Plain(r)
    BY <2>2, NewIsPlain, Zenon
  <2> HIDE DEF r, p
  <2>4. Extends(chunk, g, 0) /\ Len(g) = n
    BY <2>3, ChunkAdded, Zenon
  <2>5. Sane(g)
    BY <2>4, Zenon DEF Extends
  <2> HIDE DEF g
  <2>6. n \in 0 .. Len(g) /\ Len(chunk) <= Len(g)
    BY <1>0, <2>4
  <2>7. Ready(p)
    BY <2>1, <2>5, <2>6, Zenon DEF Ready
  <2> QED BY <2>1, <2>7 DEF p
<1>2. CASE ~CanAllocate(chunk, size)
  <2> DEFINE p == FirstChunk(size)
  <2>1. p.ch = chunk /\ p.content = 0 /\ p.current = 0 /\ p.how = "ok"
    BY <1>2 DEF FirstChunk, Prepared, NULL
  <2> HIDE DEF p
  <2>2. Ready(p)
    BY <1>0, <2>1 DEF Ready
  <2> QED BY <2>1, <2>2 DEF p
<1> QED BY <1>1, <1>2

(* The chunk that write fills.                                             *)
LEMMA PrepareWriteReady ==
  ASSUME TypeInv, status = "ok", NEW d \in Descriptors, NEW len \in Nat, open_files[d].file # NULL
  PROVE  Ready(PrepareWrite(open_files[d], len))
<1> DEFINE o == open_files[d]
           content == node[o.file].content
           q == Prepared(chunk, content, IF o.chunk = NULL THEN content ELSE o.chunk, "ok")
           p == IF content = NULL THEN FirstChunk(len) ELSE q
<1>1. /\ Sane(chunk) /\ Len(chunk) \in Nat /\ content \in 0 .. Len(chunk)
      /\ o.chunk \in 0 .. Len(chunk)
  BY StateTypes DEF NULL
<1>2. Ready(q)
  BY <1>1 DEF Ready, Prepared
<1>3. Ready(FirstChunk(len))
  BY <1>1, FirstChunkReady
<1>4. Ready(p) /\ \A x : Ready([p EXCEPT !.how = x])
  <2>1. \A r, x : Ready(r) /\ r \in {FirstChunk(len), q} => Ready([r EXCEPT !.how = x])
    BY DEF Ready, FirstChunk, Prepared
  <2> HIDE DEF q
  <2> QED BY <1>2, <1>3, <2>1, Zenon
<1> HIDE DEF p
<1> QED BY <1>4, Zenon DEF PrepareWrite, p

(* The chunk that pwrite fills: all bytes in front of the offset fit.      *)
LEMMA PreparePwriteReady ==
  ASSUME TypeInv, status = "ok", NEW d \in Descriptors, NEW len \in Nat, NEW off \in Int,
         open_files[d].file # NULL, PreparePwrite(open_files[d], len, off).how = "ok"
  PROVE  Ready(PreparePwrite(open_files[d], len, off))
<1> DEFINE o       == open_files[d]
           content == node[o.file].content
           S       == Chunks(content)
           rest(j) == off - CapBefore(S, j)
           K       == {j \in DOMAIN S : rest(j) = 0 \/ rest(j) < chunk[S[j]].cap}
           k       == First(K)
           over    == rest(Len(S) + 1)
           gap     == JunkBytes(rest(k) - used(S[k]))
           p       == PreparePwrite(open_files[d], len, off)
           r       == NewChunk(over + len, JunkBytes(over))
           p1      == Prepared([chunk EXCEPT ![S[k]].data = @ \o gap], content, S[k], "ok")
           p2      == Prepared(Append([chunk EXCEPT ![Last(S)].next = Len(chunk) + 1], r),
                               content, Len(chunk) + 1, "ok")
<1>1. Sane(chunk) /\ Len(chunk) \in Nat /\ content \in 0 .. Len(chunk)
  BY StateTypes DEF NULL
<1>2. \/ content = NULL /\ p = FirstChunk(off + len)
      \/ p = Prepared(chunk, content, NULL, "freed")
      \/ content # NULL /\ k # 0 /\ p = p1
      \/ p = Prepared(chunk, content, NULL, "enomem")
      \/ content # NULL /\ k = 0 /\ CanAllocate(chunk, over + len) /\ p = p2
  BY Zenon DEF PreparePwrite
<1>3. CASE p = FirstChunk(off + len)
  <2>1. off + len \in Int
    OBVIOUS
  <2>2. Ready(FirstChunk(off + len))
    BY <1>1, <2>1, FirstChunkReady, Zenon
  <2> QED BY <1>3, <2>2, Zenon
<1>4. CASE p = Prepared(chunk, content, NULL, "freed") \/ p = Prepared(chunk, content, NULL, "enomem")
  <2> HIDE DEF p, content
  <2>1. p.how \in {"freed", "enomem"}
    BY <1>4, PreparedParts
  <2>2. p.how = "ok"
    BY DEF p
  <2> QED BY <2>1, <2>2
<1>s. content # 0 => /\ S \in Seq(1 .. Len(chunk)) /\ Len(S) \in Nat /\ DOMAIN S = 1 .. Len(S)
                     /\ Len(S) \in 1 .. Len(S)
                     /\ \A j \in 1 .. Len(S) : S[j] \in 1 .. Len(chunk)
                     /\ \A j \in 1 .. Len(S) + 1 : CapBefore(S, j) \in Nat
  BY <1>1, ListTypes, Zenon
<1> HIDE DEF S
<1>5. CASE content # NULL /\ k # 0 /\ p = p1
  <2> DEFINE c == S[k]
             x == chunk[c].data \o gap
  <2>1. k \in 1 .. Len(S) /\ (rest(k) = 0 \/ rest(k) < chunk[S[k]].cap)
    <3>0. content # 0
      BY <1>5, Zenon DEF NULL
    <3>1. K \in SUBSET (Nat \ {0}) /\ content # 0
      <4> HIDE DEF content
      <4> QED BY <3>0, <1>s
    <3> HIDE DEF K
    <3>2. k \in K
      BY <1>5, <3>1, FirstFacts, Zenon
    <3> QED BY <3>1, <3>2, <1>s, Zenon DEF K
  <2> HIDE DEF k
  <2>2. c \in 1 .. Len(chunk) /\ CapBefore(S, k) \in Nat
    <3>1. k \in 1 .. Len(S) + 1
      BY <2>1, <1>5, <1>s DEF NULL
    <3> QED BY <3>1, <2>1, <1>5, <1>s, Zenon DEF NULL
  <2>3. /\ chunk[c].cap \in Nat /\ chunk[c].data \in Seq(Int) /\ Len(chunk[c].data) \in Nat
        /\ Len(chunk[c].data) <= chunk[c].cap
    BY <1>1, <2>2, SaneTypes, Zenon
  <2> HIDE DEF c
  <2>4. x \in Seq(Int) /\ Len(x) <= chunk[c].cap
    <3> DEFINE m == off - CapBefore(S, k) - Len(chunk[c].data)
               y == chunk[c].data
    <3>1. gap = JunkBytes(m)
      BY Zenon DEF used, c
    <3>2. m \in Int
      BY <2>2, <2>3
    <3>3. gap \in Seq(Int) /\ Len(gap) = IF m > 0 THEN m ELSE 0
      <4> HIDE DEF gap, m
      <4> QED BY <3>1, <3>2, JunkFacts
    <3>4. m > 0 => m + Len(y) <= chunk[c].cap
      BY <2>1, <2>2, <2>3 DEF c
    <3> HIDE DEF gap, m, y
    <3>5. y \in Seq(Int) /\ Len(y) \in Nat /\ Len(y) <= chunk[c].cap /\ chunk[c].cap \in Nat
      BY <2>3, Zenon DEF y
    <3>6. y \o gap \in Seq(Int) /\ Len(y \o gap) = Len(y) + Len(gap)
      BY <3>3, <3>5
    <3>7. Len(y) + Len(gap) <= chunk[c].cap
      BY <3>2, <3>3, <3>4, <3>5
    <3> QED BY <3>6, <3>7, Zenon DEF y
  <2>5. [chunk EXCEPT ![S[k]].data = @ \o gap] = WithData(chunk, c, x)
    BY Zenon DEF WithData, c
  <2> HIDE DEF x
  <2>6. Extends(chunk, WithData(chunk, c, x), c) /\ Len(WithData(chunk, c, x)) = Len(chunk)
    BY <1>1, <2>2, <2>4, DataChanged, Zenon
  <2>7. p.ch = WithData(chunk, c, x) /\ p.content = content /\ p.current = c
    <3> DEFINE g == [chunk EXCEPT ![S[k]].data = @ \o gap]
    <3>1. p = Prepared(g, content, c, "ok") /\ g = WithData(chunk, c, x)
      BY <1>5, <2>5, Zenon DEF c
    <3> HIDE DEF p, g, content
    <3> QED BY <3>1, PreparedParts
  <2>8. Sane(p.ch) /\ Len(p.ch) = Len(chunk)
    BY <2>6, <2>7, Zenon DEF Extends
  <2> HIDE DEF p, content
  <2> QED BY <1>1, <2>2, <2>7, <2>8 DEF Ready, p
<1>6. CASE content # NULL /\ k = 0 /\ CanAllocate(chunk, over + len) /\ p = p2
  <2> DEFINE n == Len(S)
             c == S[n]
  <2>0. /\ n \in Nat /\ n \in 1 .. n /\ DOMAIN S = 1 .. n /\ S \in Seq(1 .. Len(chunk))
        /\ c \in 1 .. Len(chunk) /\ \A j \in 1 .. n + 1 : CapBefore(S, j) \in Nat
    BY <1>6, <1>s, Zenon DEF NULL
  <2>1. n - 1 \in 0 .. n /\ n - 1 \in 0 .. n - 1 /\ n - 1 + 1 = n /\ n + 1 \in 1 .. n + 1
        /\ n + 1 - 1 = n
    BY <2>0
  <2>2. CapBefore(S, n + 1) = CapBefore(S, n) + chunk[c].cap
    <3>1. chunk \in Seq(ChunkSet)
      BY <1>1, SaneTypes, Zenon
    <3>2. CapIn(chunk, S, n - 1 + 1) = CapIn(chunk, S, n - 1) + chunk[S[n - 1 + 1]].cap
      BY <2>0, <2>1, <3>1, CapGrows, Zenon
    <3>3. CapBefore(S, n + 1) = CapIn(chunk, S, n + 1 - 1) /\ CapBefore(S, n) = CapIn(chunk, S, n - 1)
      BY CapBeforeIs
    <3> QED BY <2>1, <3>2, <3>3, Zenon
  <2>3. ~(rest(n) < chunk[c].cap)
    <3>1. K \in SUBSET (Nat \ {0})
      BY <2>0
    <3> HIDE DEF K
    <3>2. K = {}
      BY <1>6, <3>1, FirstFacts, Zenon
    <3> QED BY <2>0, <3>2, Zenon DEF K
  <2>4. chunk[c].cap \in Nat
    BY <1>1, <2>0, SaneTypes, Zenon
  <2>5. over \in Nat
    <3>1. CapBefore(S, n) \in Nat /\ CapBefore(S, n + 1) \in Nat
      BY <2>0
    <3> QED BY <2>2, <2>3, <2>4, <3>1
  <2> HIDE DEF over
  <2>6. Plain(r)
    <3>1. over + len \in Nat /\ over <= over + len
      BY <2>5
    <3>2. JunkBytes(over) \in Seq(Int) /\ Len(JunkBytes(over)) <= over + len
      BY <2>5, <3>1, JunkFacts
    <3> QED BY <3>1, <3>2, NewIsPlain, Zenon
  <2> HIDE DEF r
  <2>7. Append([chunk EXCEPT ![Last(S)].next = Len(chunk) + 1], r) = Linked(chunk, c, r)
    BY Zenon DEF Linked, Last
  <2>8. Extends(chunk, Linked(chunk, c, r), c) /\ Len(Linked(chunk, c, r)) = Len(chunk) + 1
    BY <1>1, <2>0, <2>6, ChunkLinked, Zenon
  <2>9. p.ch = Linked(chunk, c, r) /\ p.content = content /\ p.current = Len(chunk) + 1
    <3> DEFINE g == Append([chunk EXCEPT ![Last(S)].next = Len(chunk) + 1], r)
               m == Len(chunk) + 1
    <3>1. p = Prepared(g, content, m, "ok") /\ g = Linked(chunk, c, r)
      BY <1>6, <2>7, Zenon
    <3> HIDE DEF p, g, content, m
    <3>2. p.ch = g /\ p.content = content /\ p.current = m
      BY <3>1, PreparedParts
    <3> QED BY <3>1, <3>2, Zenon DEF m
  <2>10. Sane(p.ch) /\ Len(p.ch) = Len(chunk) + 1
    BY <2>8, <2>9, Zenon DEF Extends
  <2> HIDE DEF p, content
  <2> QED BY <1>1, <2>9, <2>10 DEF Ready, p
<1> QED BY <1>2, <1>3, <1>4, <1>5, <1>6, Zenon

(* write keeps the types.                                                  *)
LEMMA WriteTyped ==
  ASSUME TypeInv, NEW d \in Descriptors, NEW len \in Lengths, dandelion_write(d, len)
  PROVE  TypeInv'
<1> DEFINE p == PrepareWrite(open_files[d], len)
<1>0. status = "ok" /\ len \in Nat /\ TRUE \in BOOLEAN
  BY FilesAssumption, Zenon DEF dandelion_write
<1> HIDE DEF p
<1>1. CASE Fails(EBADF)
  BY <1>0, <1>1, FailTyped, Zenon
<1>2. CASE p.how # "ok" /\ Crashes(p.how)
  BY <1>2, CrashTyped, Zenon
<1>3. CASE CanWrite(d) /\ Fill(p, d, len, TRUE)
  <2>1. open_files[d].file # NULL
    BY <1>3, Zenon DEF CanWrite
  <2>2. Ready(p)
    BY <1>0, <2>1, PrepareWriteReady, Zenon DEF p
  <2> QED BY <1>0, <1>3, <2>1, <2>2, FillTyped, Zenon
<1> QED BY <1>1, <1>2, <1>3, Zenon DEF dandelion_write, p

(* pwrite keeps the types.                                                 *)
LEMMA PwriteTyped ==
  ASSUME TypeInv, NEW d \in Descriptors, NEW len \in Lengths, NEW off \in Offsets, pwrite(d, len, off)
  PROVE  TypeInv'
<1> DEFINE p == PreparePwrite(open_files[d], len, off)
<1>0. status = "ok" /\ len \in Nat /\ off \in Int /\ FALSE \in BOOLEAN
  BY FilesAssumption, Zenon DEF pwrite
<1> HIDE DEF p
<1>1. CASE Fails(ENOMEM)
  BY <1>0, <1>1, FailTyped, Zenon
<1>2. CASE p.how = "freed" /\ Crashes(p.how)
  <2>1. p.how # "ok"
    BY <1>2
  <2> QED BY <1>2, <2>1, CrashTyped, Zenon
<1>3. CASE CanWrite(d) /\ p.how = "ok" /\ Fill(p, d, len, FALSE)
  <2>1. open_files[d].file # NULL
    BY <1>3, Zenon DEF CanWrite
  <2>2. Ready(p)
    BY <1>0, <1>3, <2>1, PreparePwriteReady, Zenon DEF p
  <2> QED BY <1>0, <1>3, <2>1, <2>2, FillTyped, Zenon
<1> QED BY <1>1, <1>2, <1>3, Zenon DEF pwrite, p

-----------------------------------------------------------------------------
(* lseek, truncate and the steps of Next keep the types.                   *)

(* A descriptor that moves, in an array that may have grown.               *)
LEMMA MoveToTyped ==
  ASSUME TypeInv, status = "ok", NEW d \in Descriptors, NEW c \in 0 .. Len(chunk'), NEW off \in Int,
         NEW total, MoveTo(d, c, off, total), Sane(chunk'), Len(chunk) <= Len(chunk'),
         Nodes(node', Len(chunk')), Len(node') = Len(node)
  PROVE  TypeInv'
<1>1. /\ Len(chunk) \in Nat /\ Len(node) \in Nat /\ Named(directory, Len(node))
      /\ Table(open_files, Len(node), Len(chunk)) /\ written \in Nat
  BY StateTypes, Zenon
<1>2. Len(chunk') \in Nat
  BY SaneTypes, Zenon
<1>3. Len(node) <= Len(node)
  BY <1>1
<1>4. Table(open_files, Len(node), Len(chunk'))
  BY <1>1, <1>2, <1>3, TypesGrow, Zenon
<1>5. open_files' = ToPlace(open_files, d, c, off)
  BY Zenon DEF MoveTo, ToPlace
<1>6. open_files' = Moved(open_files, d, c, off)
  BY <1>1, <1>2, <1>4, <1>5, MovedForms, Zenon
<1>7. Table(open_files', Len(node), Len(chunk'))
  BY <1>1, <1>2, <1>4, <1>6, MovedFacts, Zenon
<1>8. directory' = directory /\ written' = written
  BY Zenon DEF MoveTo
<1> QED BY <1>1, <1>7, <1>8, Zenon DEF TypeInv, Typed

(* Where a seek starts.                                                    *)
LEMMA SeekStartTypes ==
  ASSUME TypeInv, status = "ok", NEW d \in Descriptors, NEW whence \in {"SET", "CUR", "END"},
         open_files[d].file # NULL
  PROVE  LET st == SeekStart(open_files[d], whence)
         IN  st.chunk \in 0 .. Len(chunk) /\ st.offset \in Int /\ st.total \in Int
<1> DEFINE o       == open_files[d]
           content == node[o.file].content
           S       == Chunks(content)
           current == IF o.chunk = NULL THEN content ELSE o.chunk
           K       == {j \in DOMAIN S : S[j] = current}
           k       == First(K)
           st      == SeekStart(o, whence)
<1>1. /\ Sane(chunk) /\ Len(chunk) \in Nat /\ content \in 0 .. Len(chunk)
      /\ o.chunk \in 0 .. Len(chunk) /\ o.offset \in Int
  BY StateTypes DEF NULL
<1>2. /\ S \in Seq(1 .. Len(chunk)) /\ Len(S) \in Nat /\ DOMAIN S = 1 .. Len(S)
      /\ (S = <<>> <=> content = 0)
      /\ content # 0 => Len(S) \in 1 .. Len(S)
      /\ \A j \in 1 .. Len(S) : S[j] \in 1 .. Len(chunk)
      /\ Len(DataOf(S)) \in Nat
      /\ \A j \in 1 .. Len(S) + 1 : UsedBefore(S, j) \in Nat
  BY <1>1, ListTypes, Zenon
<1>3. \/ st = Start(content, 0, 0, "ok")
      \/ k # 0 /\ st = Start(current, o.offset, UsedBefore(S, k) + o.offset, "ok")
      \/ \E how : st = Start(current, 0, Len(DataOf(S)), how)
      \/ st = Start(NULL, 0, 0, "null")
      \/ S # <<>> /\ \E how : st = Start(Last(S), used(Last(S)), Len(DataOf(S)), how)
  <2> DEFINE how == IF Intact(S) THEN "ok" ELSE "freed"
  <2> HIDE DEF S, k, current, content
  <2>1. st = CASE whence = "SET" -> Start(content, 0, 0, "ok")
               [] whence = "CUR" /\ k # 0 ->
                    Start(current, o.offset, UsedBefore(S, k) + o.offset, "ok")
               [] whence = "CUR" /\ k = 0 -> Start(current, 0, Len(DataOf(S)), how)
               [] whence = "END" /\ S = <<>> -> Start(NULL, 0, 0, "null")
               [] OTHER -> Start(Last(S), used(Last(S)), Len(DataOf(S)), how)
    BY Zenon DEF SeekStart, S, k, current, content
  <2> HIDE DEF st, how
  <2>2. CASE whence = "SET"
    BY <2>1, <2>2
  <2>3. CASE whence = "CUR"
    BY <2>1, <2>3
  <2>4. CASE whence = "END"
    BY <2>1, <2>4
  <2> QED BY <2>2, <2>3, <2>4, Zenon
<1>4. current \in 0 .. Len(chunk)
  BY <1>1
<1>5. k # 0 => UsedBefore(S, k) \in Nat
  <2> HIDE DEF S, current
  <2>1. K \in SUBSET (Nat \ {0}) /\ K \subseteq 1 .. Len(S) + 1
    BY <1>2
  <2> HIDE DEF K
  <2>2. k # 0 => k \in K
    BY <2>1, FirstFacts, Zenon
  <2> QED BY <1>2, <2>1, <2>2, Zenon
<1>6. S # <<>> => Last(S) \in 1 .. Len(chunk)
  <2> HIDE DEF S, content
  <2> QED BY <1>2, Zenon DEF Last
<1>7. S # <<>> => used(Last(S)) \in Nat
  BY <1>1, <1>6, SaneTypes, Zenon DEF used
<1>8. \A a, b, t, h : LET s == Start(a, b, t, h) IN s.chunk = a /\ s.offset = b /\ s.total = t
  BY DEF Start
<1> HIDE DEF st, S, k, current, content
<1>9. CASE st = Start(content, 0, 0, "ok") \/ st = Start(NULL, 0, 0, "null")
  <2>1. st.chunk \in {content, NULL} /\ st.offset = 0 /\ st.total = 0
    BY <1>9, <1>8
  <2>2. st.chunk \in 0 .. Len(chunk) /\ st.offset \in Int /\ st.total \in Int
    BY <1>1, <2>1 DEF NULL
  <2> QED BY <2>2, Zenon DEF st
<1>10. CASE k # 0 /\ st = Start(current, o.offset, UsedBefore(S, k) + o.offset, "ok")
  <2> DEFINE t == UsedBefore(S, k) + o.offset
  <2>1. t \in Int
    BY <1>1, <1>5, <1>10
  <2> HIDE DEF t
  <2>2. st.chunk = current /\ st.offset = o.offset /\ st.total = t
    BY <1>8, <1>10 DEF t
  <2>3. st.chunk \in 0 .. Len(chunk) /\ st.offset \in Int /\ st.total \in Int
    BY <1>1, <1>4, <2>1, <2>2, Zenon
  <2> QED BY <2>3, Zenon DEF st
<1>11. CASE \E how : st = Start(current, 0, Len(DataOf(S)), how)
  <2>1. st.chunk = current /\ st.offset = 0 /\ st.total = Len(DataOf(S))
    BY <1>8, <1>11
  <2>2. st.chunk \in 0 .. Len(chunk) /\ st.offset \in Int /\ st.total \in Int
    BY <1>2, <1>4, <2>1
  <2> QED BY <2>2, Zenon DEF st
<1>12. CASE S # <<>> /\ \E how : st = Start(Last(S), used(Last(S)), Len(DataOf(S)), how)
  <2>1. st.chunk = Last(S) /\ st.offset = used(Last(S)) /\ st.total = Len(DataOf(S))
    BY <1>8, <1>12
  <2>2. st.chunk \in 0 .. Len(chunk) /\ st.offset \in Int /\ st.total \in Int
    BY <1>1, <1>2, <1>6, <1>7, <1>12, <2>1
  <2> QED BY <2>2, Zenon DEF st
<1> QED BY <1>3, <1>9, <1>10, <1>11, <1>12, Zenon

(* Seeking to a place before the current chunk keeps the types.            *)
LEMMA SeekBackTyped ==
  ASSUME TypeInv, status = "ok", NEW d \in Descriptors, open_files[d].file # NULL,
         NEW st, st.total \in Int, NEW off \in Int, SeekBack(d, st, off)
  PROVE  TypeInv'
<1> DEFINE S      == Chunks(node[open_files[d].file].content)
           target == st.total + off
           K      == {j \in DOMAIN S : used(S[j]) >= target - UsedBefore(S, j)}
           k      == First(K)
<1>0. /\ Sane(chunk) /\ Len(chunk) \in Nat /\ node[open_files[d].file].content \in 0 .. Len(chunk)
      /\ Nodes(node, Len(chunk))
  BY StateTypes DEF NULL
<1>1. CASE Fails(EINVAL)
  BY <1>1, FailTyped, Zenon
<1>2. CASE Crashes("null") \/ Crashes("freed")
  BY <1>2, CrashTyped, Zenon
<1>3. CASE k # 0 /\ MoveTo(d, S[k], target - UsedBefore(S, k), target) /\ UNCHANGED <<node, chunk>>
  <2>1. /\ Len(S) \in Nat /\ DOMAIN S = 1 .. Len(S)
        /\ \A j \in 1 .. Len(S) : S[j] \in 1 .. Len(chunk)
        /\ \A j \in 1 .. Len(S) + 1 : UsedBefore(S, j) \in Nat
    BY <1>0, ListTypes, Zenon
  <2> HIDE DEF S
  <2>2. k \in 1 .. Len(S)
    <3>1. K \in SUBSET (Nat \ {0}) /\ K \subseteq 1 .. Len(S)
      BY <2>1
    <3> HIDE DEF K
    <3> QED BY <1>3, <3>1, FirstFacts, Zenon
  <2> HIDE DEF k
  <2> DEFINE to == target - UsedBefore(S, k)
  <2>3. S[k] \in 0 .. Len(chunk) /\ to \in Int
    <3>1. k \in 1 .. Len(S) + 1
      BY <2>1, <2>2
    <3>2. S[k] \in 1 .. Len(chunk) /\ UsedBefore(S, k) \in Nat
      BY <2>1, <2>2, <3>1, Zenon
    <3> QED BY <1>0, <3>2
  <2> HIDE DEF to
  <2>4. chunk' = chunk /\ node' = node /\ MoveTo(d, S[k], to, target) /\ Len(chunk) <= Len(chunk)
    BY <1>0, <1>3 DEF to
  <2> QED BY <1>0, <2>3, <2>4, MoveToTyped, Zenon
<1> QED BY <1>1, <1>2, <1>3, Zenon DEF SeekBack, NULL

(* Seeking forward, with a new chunk for a gap behind the end, keeps the   *)
(* types.                                                                  *)
LEMMA SeekForwardTyped ==
  ASSUME TypeInv, status = "ok", NEW d \in Descriptors, open_files[d].file # NULL,
         NEW st, st.chunk \in 0 .. Len(chunk), st.offset \in Int, st.total \in Int,
         NEW off \in Int, SeekForward(d, st, off)
  PROVE  TypeInv'
<1> DEFINE f       == open_files[d].file
           S       == Chunks(st.chunk)
           at(j)   == IF j = 1 THEN st.offset ELSE 0
           has(j)  == used(S[j]) - at(j)
           rest(j) == IF j = 1 THEN off ELSE off - (UsedBefore(S, j) - st.offset)
           K       == {j \in DOMAIN S : j = Len(S) \/ has(j) < 0 \/ has(j) >= rest(j)}
           k       == Min(K)
           gap     == IF S = <<>> THEN off ELSE rest(k) - has(k)
           new     == Len(chunk) + 1
           total   == st.total + off
           place   == at(k) + rest(k)
           r       == NewChunk(gap, JunkBytes(gap))
<1>0. /\ Sane(chunk) /\ Len(chunk) \in Nat /\ Nodes(node, Len(chunk)) /\ f \in 1 .. Len(node)
  BY StateTypes DEF NULL
<1>1. CASE Fails(ENOMEM)
  BY <1>1, FailTyped, Zenon
<1>2. CASE Crashes("freed")
  BY <1>2, CrashTyped, Zenon
<1>3. /\ Len(S) \in Nat /\ DOMAIN S = 1 .. Len(S) /\ S \in Seq(1 .. Len(chunk))
      /\ S # <<>> => Len(S) \in 1 .. Len(S)
      /\ \A j \in 1 .. Len(S) : S[j] \in 1 .. Len(chunk)
      /\ \A j \in 1 .. Len(S) + 1 : UsedBefore(S, j) \in Nat
  BY <1>0, ListTypes, Zenon
<1>e. \/ Fails(ENOMEM) \/ Crashes("freed")
      \/ S = <<>> /\ MoveTo(d, 0, st.offset, total) /\ UNCHANGED <<node, chunk>>
      \/ S # <<>> /\ MoveTo(d, S[k], place, total) /\ UNCHANGED <<node, chunk>>
      \/ /\ gap > 0 /\ MoveTo(d, new, gap, total)
         /\ chunk' = Append(IF S = <<>> THEN chunk ELSE [chunk EXCEPT ![S[k]].next = new], r)
         /\ node' = IF S = <<>> THEN [node EXCEPT ![f].content = new] ELSE node
  BY Zenon DEF SeekForward, NULL
<1> HIDE DEF S
<1>4. S # <<>> => k \in 1 .. Len(S)
  <2>1. S # <<>> => K \in SUBSET Nat /\ K # {} /\ K \subseteq 1 .. Len(S)
    BY <1>3
  <2> HIDE DEF K
  <2> QED BY <2>1, MinFacts, Zenon
<1> HIDE DEF k
<1>5. S # <<>> => S[k] \in 1 .. Len(chunk) /\ UsedBefore(S, k) \in Nat
  <2>1. S # <<>> => k \in 1 .. Len(S) + 1
    BY <1>3, <1>4
  <2> QED BY <1>3, <1>4, <2>1, Zenon
<1>6. S # <<>> => used(S[k]) \in Nat
  BY <1>0, <1>5, SaneTypes, Zenon DEF used
<1>7. (S # <<>> => place \in Int) /\ gap \in Int
  BY <1>5, <1>6
<1> HIDE DEF place, gap
<1>8. Len(chunk) <= Len(chunk) /\ Len(chunk) <= Len(chunk) + 1 /\ 0 \in 0 .. Len(chunk)
      /\ new \in 0 .. new /\ Len(chunk) + 1 \in Nat /\ (gap > 0 => gap \in Nat)
      /\ (S # <<>> => S[k] \in 0 .. Len(chunk))
  BY <1>0, <1>5, <1>7
<1>9. CASE S = <<>> /\ MoveTo(d, 0, st.offset, total) /\ UNCHANGED <<node, chunk>>
  <2>1. chunk' = chunk /\ node' = node
    BY <1>9, Zenon
  <2> QED BY <1>0, <1>8, <1>9, <2>1, MoveToTyped, Zenon
<1>10. CASE S # <<>> /\ MoveTo(d, S[k], place, total) /\ UNCHANGED <<node, chunk>>
  <2>1. chunk' = chunk /\ node' = node
    BY <1>10, Zenon
  <2> QED BY <1>0, <1>7, <1>8, <1>10, <2>1, MoveToTyped, Zenon
<1>11. CASE /\ gap > 0 /\ MoveTo(d, new, gap, total)
            /\ chunk' = Append(IF S = <<>> THEN chunk ELSE [chunk EXCEPT ![S[k]].next = new], r)
            /\ node' = IF S = <<>> THEN [node EXCEPT ![f].content = new] ELSE node
  <2>1. Plain(r)
    <3>1. JunkBytes(gap) \in Seq(Int) /\ Len(JunkBytes(gap)) <= gap
      BY <1>7, <1>11, JunkFacts
    <3> QED BY <1>8, <1>11, <3>1, NewIsPlain, Zenon
  <2> HIDE DEF r
  <2>2. Sane(chunk') /\ Len(chunk') = Len(chunk) + 1
    <3>1. CASE S = <<>>
      <4>1. Extends(chunk, Append(chunk, r), 0) /\ Len(Append(chunk, r)) = Len(chunk) + 1
        BY <1>0, <2>1, ChunkAdded, Zenon
      <4> QED BY <1>11, <3>1, <4>1, Zenon DEF Extends
    <3>2. CASE S # <<>>
      <4> DEFINE c == S[k]
      <4>0. c \in 1 .. Len(chunk)
        BY <1>5, <3>2, Zenon
      <4>2. chunk' = Linked(chunk, c, r)
        BY <1>11, <3>2, Zenon DEF Linked
      <4> HIDE DEF c
      <4>1. Extends(chunk, Linked(chunk, c, r), c) /\ Len(Linked(chunk, c, r)) = Len(chunk) + 1
        BY <1>0, <2>1, <4>0, ChunkLinked
      <4> QED BY <4>1, <4>2, Zenon DEF Extends
    <3> QED BY <3>1, <3>2
  <2>3. Nodes(node', Len(chunk')) /\ Len(node') = Len(node)
    <3>1. Nodes(node, Len(chunk'))
      BY <1>0, <1>8, <2>2, TypesGrow, Zenon
    <3>2. CASE S = <<>>
      <4>1. node' = Holding(node, f, new)
        BY <1>11, <3>2, Zenon DEF Holding
      <4>2. new \in 0 .. Len(chunk') /\ Len(chunk') \in Nat
        BY <1>8, <2>2
      <4> HIDE DEF new, f
      <4> QED BY <1>0, <3>1, <4>1, <4>2, ContentChanged DEF f
    <3>3. CASE S # <<>>
      BY <1>11, <3>1, <3>3, Zenon
    <3> QED BY <3>2, <3>3
  <2>4. new \in 0 .. Len(chunk') /\ Len(chunk) <= Len(chunk')
    BY <1>8, <2>2
  <2> QED BY <1>7, <1>11, <2>2, <2>3, <2>4, MoveToTyped, Zenon
<1> QED BY <1>e, <1>1, <1>2, <1>9, <1>10, <1>11, Zenon

(* lseek keeps the types.                                                  *)
LEMMA LseekTyped ==
  ASSUME TypeInv, NEW d \in Descriptors, NEW off \in Offsets, NEW whence \in {"SET", "CUR", "END"},
         dandelion_lseek(d, off, whence)
  PROVE  TypeInv'
<1> DEFINE st == SeekStart(open_files[d], whence)
<1>0. status = "ok" /\ off \in Int
  BY FilesAssumption, Zenon DEF dandelion_lseek
<1> HIDE DEF st
<1>1. CASE Fails(EBADF)
  BY <1>0, <1>1, FailTyped, Zenon
<1>2. CASE st.how # "ok" /\ Crashes(st.how)
  BY <1>2, CrashTyped, Zenon
<1>3. CASE open_files[d].file # NULL /\ (SeekBack(d, st, off) \/ SeekForward(d, st, off))
  <2>1. st.chunk \in 0 .. Len(chunk) /\ st.offset \in Int /\ st.total \in Int
    BY <1>0, <1>3, SeekStartTypes, Zenon DEF st
  <2> QED BY <1>0, <1>3, <2>1, SeekBackTyped, SeekForwardTyped, Zenon
<1> QED BY <1>1, <1>2, <1>3, Zenon DEF dandelion_lseek, st

(* Other chunks, and nothing else.                                         *)
LEMMA ChunksTyped ==
  ASSUME TypeInv, status = "ok", Sane(chunk'), Len(chunk) <= Len(chunk'), status' = status,
         UNCHANGED <<node, directory, open_files, written>>
  PROVE  TypeInv'
<1>1. /\ Len(chunk) \in Nat /\ Len(node) \in Nat /\ Nodes(node, Len(chunk))
      /\ Named(directory, Len(node)) /\ Table(open_files, Len(node), Len(chunk)) /\ written \in Nat
  BY StateTypes, Zenon
<1>2. Len(chunk') \in Nat /\ Len(node) <= Len(node)
  BY <1>1, SaneTypes
<1>3. Nodes(node, Len(chunk')) /\ Table(open_files, Len(node), Len(chunk'))
  BY <1>1, <1>2, TypesGrow, Zenon
<1> QED BY <1>1, <1>3, Zenon DEF TypeInv, Typed

(* ftruncate and truncate keep the types.                                  *)
LEMMA TruncateTyped ==
  ASSUME TypeInv, status = "ok", NEW f \in 1 .. Len(node), NEW len \in Int, Truncate(f, len)
  PROVE  TypeInv'
<1> DEFINE S       == Chunks(node[f].content)
           rest(j) == len - UsedBefore(S, j)
           K       == {j \in DOMAIN S : used(S[j]) >= rest(j)}
           k       == First(K)
           behind  == SubSeq(S, k + 1, Len(S))
           over    == len - Len(DataOf(S))
           cut     == [chunk EXCEPT ![S[k]].data = SubSeq(@, 1, rest(k))]
           r       == NewChunk(over, JunkBytes(over))
<1>0. /\ Sane(chunk) /\ Len(chunk) \in Nat /\ node[f].content \in 0 .. Len(chunk)
  BY StateTypes, Zenon
<1>1. /\ Len(S) \in Nat /\ DOMAIN S = 1 .. Len(S) /\ S \in Seq(1 .. Len(chunk))
      /\ S # <<>> => Len(S) \in 1 .. Len(S)
      /\ \A j \in 1 .. Len(S) : S[j] \in 1 .. Len(chunk)
      /\ \A j \in 1 .. Len(S) + 1 : UsedBefore(S, j) \in Nat
      /\ Len(DataOf(S)) \in Nat
  BY <1>0, ListTypes, Zenon
<1>2. CASE Fails(EINVAL)
  BY <1>2, FailTyped, Zenon
<1>3. CASE Crashes("null") \/ Crashes("freed")
  BY <1>3, CrashTyped, Zenon
<1> HIDE DEF S
<1>4. CASE /\ k # 0 /\ chunk' = Freed(cut, behind) /\ Returns(0, <<>>)
           /\ UNCHANGED <<node, directory, open_files, written>>
  <2> DEFINE c == S[k]
             m == rest(k)
             x == SubSeq(chunk[c].data, 1, m)
  <2>1. k \in 1 .. Len(S) /\ used(S[k]) >= rest(k)
    <3>1. K \in SUBSET (Nat \ {0})
      BY <1>1
    <3> HIDE DEF K
    <3>2. k \in K
      BY <1>4, <3>1, FirstFacts, Zenon
    <3> QED BY <3>2, <1>1, Zenon DEF K
  <2>2. c \in 1 .. Len(chunk) /\ UsedBefore(S, k) \in Nat
    <3>1. k \in 1 .. Len(S) + 1
      BY <1>1, <2>1
    <3> QED BY <1>1, <2>1, <3>1, Zenon
  <2>3. cut = WithData(chunk, c, x)
    BY Zenon DEF WithData
  <2> HIDE DEF k, cut
  <2>4. m \in Int /\ m <= Len(chunk[c].data)
    <3>1. used(c) \in Nat
      BY <1>0, <2>2, SaneTypes, Zenon DEF used
    <3>2. used(c) >= m
      BY <2>1, Zenon
    <3>3. m \in Int
      BY <2>2
    <3> QED BY <3>1, <3>2, <3>3 DEF used
  <2> HIDE DEF c, m
  <2>5. chunk[c].data \in Seq(Int) /\ Len(chunk[c].data) \in Nat /\ chunk[c].cap \in Nat
        /\ Len(chunk[c].data) <= chunk[c].cap
    BY <1>0, <2>2, SaneTypes, Zenon
  <2>6. x \in Seq(Int) /\ Len(x) <= Len(chunk[c].data) /\ Len(x) \in Nat
    <3>1. x \in Seq(Int) /\ Len(x) <= Len(chunk[c].data)
      BY <2>4, <2>5, CutOff, Zenon
    <3> HIDE DEF x
    <3> QED BY <3>1
  <2> HIDE DEF x
  <2>7. Len(x) <= chunk[c].cap
    BY <2>5, <2>6
  <2>8. Extends(chunk, cut, c) /\ Len(cut) = Len(chunk)
    BY <1>0, <2>2, <2>3, <2>6, <2>7, DataChanged, Zenon
  <2>9. Sane(cut)
    BY <2>8, Zenon DEF Extends
  <2>10. Sane(chunk') /\ Len(chunk') = Len(chunk)
    BY <1>4, <2>8, <2>9, FreedFacts, Zenon
  <2>11. Len(chunk) <= Len(chunk') /\ status' = status
    BY <1>0, <1>4, <2>10 DEF Returns
  <2> QED BY <1>4, <2>10, <2>11, ChunksTyped, Zenon
<1>5. CASE /\ S # <<>> /\ CanAllocate(chunk, over)
           /\ chunk' = Append([chunk EXCEPT ![Last(S)].next = Len(chunk) + 1], r)
           /\ Returns(0, <<>>)
           /\ UNCHANGED <<node, directory, open_files, written>>
  <2> DEFINE c == S[Len(S)]
  <2>1. c \in 1 .. Len(chunk) /\ over \in Nat
    <3>1. c \in 1 .. Len(chunk)
      BY <1>1, <1>5, Zenon
    <3>2. over \in Nat
      BY <1>1, <1>5 DEF CanAllocate
    <3> QED BY <3>1, <3>2
  <2> HIDE DEF over
  <2>2. Plain(r)
    <3>1. JunkBytes(over) \in Seq(Int) /\ Len(JunkBytes(over)) <= over
      <4>1. over \in Nat
        BY <2>1, Zenon
      <4>2. over \in Int
        BY <4>1
      <4>3. JunkBytes(over) \in Seq(Int) /\ Len(JunkBytes(over)) = IF over > 0 THEN over ELSE 0
        BY <4>2, JunkFacts, Zenon
      <4> QED BY <4>1, <4>3
    <3> QED BY <2>1, <3>1, NewIsPlain, Zenon
  <2> HIDE DEF r
  <2>3. chunk' = Linked(chunk, c, r)
    BY <1>5, Zenon DEF Linked, Last
  <2> HIDE DEF c
  <2>4. Extends(chunk, chunk', c) /\ Len(chunk') = Len(chunk) + 1
    BY <1>0, <2>1, <2>2, <2>3, ChunkLinked, Zenon
  <2>5. Sane(chunk')
    BY <2>4, Zenon DEF Extends
  <2>6. Len(chunk) <= Len(chunk') /\ status' = status
    BY <1>0, <1>5, <2>4 DEF Returns
  <2> QED BY <1>5, <2>5, <2>6, ChunksTyped, Zenon
<1> QED BY <1>2, <1>3, <1>4, <1>5, Zenon DEF Truncate, S

(* The order in which the input items are found.                           *)
LEMMA OrderFacts ==
  ASSUME NEW order \in SetToSeqs(DOMAIN Inputs)
  PROVE  \E n \in Nat : /\ DOMAIN order = 1 .. n /\ n = Cardinality(DOMAIN Inputs)
                        /\ \A f \in 1 .. n : order[f] \in Names /\ Inputs[order[f]] \in Nat
                        /\ \A f, g \in 1 .. n : f # g => order[f] # order[g]
<1> DEFINE n == Cardinality(DOMAIN Inputs)
<1>1. DOMAIN Inputs \subseteq Names /\ IsFiniteSet(Names) /\ \A x \in DOMAIN Inputs : Inputs[x] \in Nat
  BY FilesAssumption, Zenon
<1>2. n \in Nat
  BY <1>1, FS_Subset, FS_CardinalityType, Zenon
<1>3. order \in [1 .. n -> DOMAIN Inputs] /\ \A f, g \in 1 .. n : f # g => order[f] # order[g]
  BY Zenon DEF SetToSeqs
<1>4. n = Cardinality(DOMAIN Inputs)
  OBVIOUS
<1> HIDE DEF n
<1> QED BY <1>1, <1>2, <1>3, <1>4, Zenon

(* The types at the start.                                                 *)
LEMMA InitTyped == Init => TypeInv
<1> SUFFICES ASSUME Init PROVE TypeInv
  OBVIOUS
<1>1. PICK order \in SetToSeqs(DOMAIN Inputs) :
        /\ node = [f \in DOMAIN order |-> [content |-> f, links |-> 1, opens |-> 0,
                                           mode |-> {"r", "w"}, freed |-> FALSE]]
        /\ chunk = [f \in DOMAIN order |->
                      [cap |-> Inputs[order[f]],
                       data |-> [i \in 1 .. Inputs[order[f]] |-> MaxBytes + i],
                       next |-> NULL, input |-> TRUE, freed |-> FALSE]]
        /\ directory = [n \in Names |-> First({f \in DOMAIN order : order[f] = n})]
        /\ open_files = [d \in Descriptors |-> Closed]
        /\ written = 0
        /\ status = "ok"
  BY Zenon DEF Init
<1>2. PICK n \in Nat : /\ DOMAIN order = 1 .. n
                       /\ \A f \in 1 .. n : order[f] \in Names /\ Inputs[order[f]] \in Nat
  BY OrderFacts, Zenon
<1>3. Sane(chunk) /\ Len(chunk) = n
  <2> DEFINE data(f)  == [i \in 1 .. Inputs[order[f]] |-> MaxBytes + i]
             first(f) == [cap |-> Inputs[order[f]], data |-> data(f), next |-> 0,
                          input |-> TRUE, freed |-> FALSE]
  <2>1. ASSUME NEW f \in 1 .. n PROVE data(f) \in Seq(Int) /\ Len(data(f)) = Inputs[order[f]]
    <3>1. Inputs[order[f]] \in Nat /\ MaxBytes \in Nat
      BY <1>2, FilesAssumption, Zenon
    <3> QED BY <3>1
  <2>2. chunk = [f \in 1 .. n |-> first(f)]
    BY <1>1, <1>2, Zenon DEF NULL
  <2> HIDE DEF data
  <2>3. ASSUME NEW f \in 1 .. n
        PROVE  /\ first(f) \in ChunkSet /\ first(f).next = 0
               /\ first(f).data = data(f) /\ first(f).cap = Inputs[order[f]]
    <3>1. data(f) \in Seq(Int) /\ Inputs[order[f]] \in Nat
      BY <1>2, <2>1, Zenon
    <3> QED BY <3>1 DEF ChunkSet
  <2> HIDE DEF first
  <2>4. /\ chunk \in Seq(ChunkSet) /\ Len(chunk) = n
        /\ \A f \in 1 .. n : chunk[f] = first(f)
    BY <1>2, <2>2, <2>3
  <2>5. ASSUME NEW f \in 1 .. n PROVE chunk[f].next = 0 /\ Len(chunk[f].data) <= chunk[f].cap
    <3>1. Len(data(f)) <= Inputs[order[f]]
      BY <1>2, <2>1
    <3> QED BY <2>3, <2>4, <3>1, Zenon
  <2> QED BY <2>4, <2>5, Zenon DEF Sane, Chained
<1>4. Nodes(node, n) /\ Len(node) = n
  <2> DEFINE first(f) == [content |-> f, links |-> 1, opens |-> 0,
                          mode |-> {"r", "w"}, freed |-> FALSE]
  <2>1. node = [f \in 1 .. n |-> first(f)]
    BY <1>1, <1>2, Zenon
  <2>2. \A f \in 1 .. n : first(f) \in NodeSet /\ first(f).content = f
    BY <1>2 DEF NodeSet
  <2> HIDE DEF first
  <2>3. /\ node \in Seq(NodeSet) /\ Len(node) = n
        /\ \A f \in 1 .. n : node[f] = first(f)
    BY <1>2, <2>1, <2>2
  <2>4. \A f \in 1 .. n : f <= n
    BY <1>2
  <2> QED BY <2>2, <2>3, <2>4, Zenon DEF Nodes
<1>5. Named(directory, n)
  <2>1. ASSUME NEW name \in Names
        PROVE  First({f \in 1 .. n : order[f] = name}) \in 0 .. n
    <3> DEFINE K == {f \in 1 .. n : order[f] = name}
    <3>1. K \in SUBSET (Nat \ {0}) /\ K \subseteq 0 .. n /\ 0 \in 0 .. n
      BY <1>2
    <3> HIDE DEF K
    <3>2. First(K) = 0 \/ First(K) \in K
      BY <3>1, FirstFacts, Zenon
    <3>3. First(K) \in 0 .. n
      BY <3>1, <3>2, Zenon
    <3> QED BY <3>3, Zenon DEF K
  <2>2. directory = [name \in Names |-> First({f \in 1 .. n : order[f] = name})]
    BY <1>1, <1>2, Zenon
  <2>3. ASSUME NEW name \in Names PROVE directory[name] \in Nat /\ directory[name] <= n
    <3>1. directory[name] \in 0 .. n
      BY <2>1, <2>2, Zenon
    <3> QED BY <1>2, <3>1
  <2>4. directory \in [Names -> Nat]
    BY <2>2, <2>3, Zenon
  <2> QED BY <2>3, <2>4, Zenon DEF Named
<1>6. Table(open_files, n, n)
  <2>1. Closed.file <= n /\ Closed.chunk <= n
    BY <1>2, ClosedFacts
  <2> QED BY <1>1, <2>1, ClosedFacts, Zenon DEF Table
<1>7. written \in Nat
  BY <1>1
<1> QED BY <1>3, <1>4, <1>5, <1>6, <1>7, Zenon DEF TypeInv, Typed

(* Every call keeps the types.                                             *)
LEMMA NextTyped == TypeInv /\ [Next]_vars => TypeInv'
<1> SUFFICES ASSUME TypeInv, [Next]_vars PROVE TypeInv'
  OBVIOUS
<1>1. ASSUME NEW name \in Names, NEW flags \in OpenFlags, NEW mode \in OpenModes,
             dandelion_open(name, flags, mode)
      PROVE  TypeInv'
  BY <1>1, OpenTyped, Zenon
<1>2. ASSUME NEW name \in Names, dandelion_unlink(name) PROVE TypeInv'
  BY <1>2, UnlinkTyped, Zenon
<1>3. ASSUME NEW d \in Descriptors, dandelion_close(d) PROVE TypeInv'
  BY <1>3, CloseTyped, Zenon
<1>4. ASSUME NEW d \in Descriptors, NEW len \in Lengths,
             dandelion_read(d, len) \/ dandelion_write(d, len)
      PROVE  TypeInv'
  BY <1>4, ReadTyped, WriteTyped, Zenon
<1>5. ASSUME NEW d \in Descriptors, NEW len \in Lengths, NEW off \in Offsets,
             pread(d, len, off) \/ pwrite(d, len, off)
      PROVE  TypeInv'
  BY <1>5, PreadTyped, PwriteTyped, Zenon
<1>6. ASSUME NEW d \in Descriptors, NEW off \in Offsets, NEW whence \in {"SET", "CUR", "END"},
             dandelion_lseek(d, off, whence)
      PROVE  TypeInv'
  BY <1>6, LseekTyped, Zenon
<1>7. ASSUME NEW name \in Names, NEW len \in Offsets, dandelion_truncate(name, len) PROVE TypeInv'
  <2>1. status = "ok" /\ len \in Int
    BY <1>7, FilesAssumption, Zenon DEF dandelion_truncate
  <2>2. CASE Fails(ENOENT)
    BY <2>1, <2>2, FailTyped, Zenon
  <2>3. CASE directory[name] # NULL /\ Truncate(directory[name], len)
    <3>1. directory[name] \in 1 .. Len(node)
      BY <2>1, <2>3, StateTypes DEF NULL
    <3> QED BY <2>1, <2>3, <3>1, TruncateTyped, Zenon
  <2> QED BY <1>7, <2>2, <2>3, Zenon DEF dandelion_truncate
<1>8. ASSUME NEW d \in Descriptors, NEW len \in Offsets, dandelion_ftruncate(d, len) PROVE TypeInv'
  <2>1. status = "ok" /\ len \in Int
    BY <1>8, FilesAssumption, Zenon DEF dandelion_ftruncate
  <2>2. CASE Fails(EBADF)
    BY <2>1, <2>2, FailTyped, Zenon
  <2>3. CASE open_files[d].file # NULL /\ Truncate(open_files[d].file, len)
    <3>1. open_files[d].file \in 1 .. Len(node)
      BY <2>1, <2>3, StateTypes DEF NULL
    <3> QED BY <2>1, <2>3, <3>1, TruncateTyped, Zenon
  <2> QED BY <1>8, <2>2, <2>3, Zenon DEF dandelion_ftruncate
<1>9. ASSUME UNCHANGED vars PROVE TypeInv'
  BY <1>9, Zenon DEF TypeInv, vars
<1> QED BY <1>1, <1>2, <1>3, <1>4, <1>5, <1>6, <1>7, <1>8, <1>9, Zenon DEF Next

(* The types are kept for ever.                                            *)
LEMMA AlwaysTyped == Spec => []TypeInv
<1>1. Init => TypeInv
  BY InitTyped
<1>2. TypeInv /\ [Next]_vars => TypeInv'
  BY NextTyped
<1> QED BY <1>1, <1>2, PTL DEF Spec

(* Nothing is ever written behind the end of a chunk's buffer: write,      *)
(* pwrite, lseek and truncate keep used within the capacity, for every     *)
(* chunk size, number of descriptors and sequence of calls, polite or not, *)
(* and also when a call has failed or a fault has happened.                *)
THEOREM BuffersKept == Spec => []WithinCapacity
<1>1. TypeInv => WithinCapacity
  <2> SUFFICES ASSUME TypeInv, NEW c \in DOMAIN chunk PROVE used(c) <= chunk[c].cap
    BY Zenon DEF WithinCapacity
  <2>1. Sane(chunk)
    BY Zenon DEF TypeInv
  <2>2. c \in 1 .. Len(chunk)
    BY <2>1 DEF Sane, Chained
  <2> QED BY <2>1, <2>2, SaneTypes, Zenon DEF used
<1> QED BY <1>1, AlwaysTyped, PTL

-----------------------------------------------------------------------------
(* The counts of names and descriptors.                                    *)

Owners(of) == [d \in Descriptors |-> of[d].file]

Counted(nd, dir, of) ==
  \A f \in 1 .. Len(nd) :
    /\ nd[f].opens = Count(Descriptors, Owners(of), f)
    /\ nd[f].links = Count(Names, dir, f)
    /\ nd[f].freed <=> nd[f].opens = 0 /\ nd[f].links = 0

CountInv == TypeInv /\ (status = "ok" => Counted(node, directory, open_files))

(* The counts, and what is counted, stay as they are.                      *)
KeepsCounts ==
  /\ Len(node') = Len(node)
  /\ \A f \in 1 .. Len(node) : /\ node'[f].links = node[f].links
                               /\ node'[f].opens = node[f].opens
                               /\ node'[f].freed = node[f].freed
  /\ directory' = directory
  /\ \A d \in Descriptors : open_files'[d].file = open_files[d].file

(* The counts stay right when neither they nor what is counted changes.    *)
LEMMA KeptIsCounted ==
  ASSUME Counted(node, directory, open_files), KeepsCounts
  PROVE  Counted(node', directory', open_files')
<1>1. Owners(open_files') = Owners(open_files)
  BY Zenon DEF Owners, KeepsCounts
<1> QED BY <1>1, Zenon DEF Counted, KeepsCounts

(* A call that returns an error leaves the counts and what is counted      *)
(* alone.                                                                  *)
LEMMA FailKeeps ==
  ASSUME NEW code, Fails(code)
  PROVE  KeepsCounts
BY Zenon DEF Fails, Returns, KeepsCounts

(* A crash ends the behaviour.                                             *)
LEMMA CrashKeeps ==
  ASSUME NEW fault, fault # "ok", Crashes(fault)
  PROVE  status' # "ok"
BY Zenon DEF Crashes, Faulty

(* A descriptor that moves, and a file that has its first chunk.           *)
LEMMA MoveKeeps ==
  ASSUME TypeInv, status = "ok", NEW d \in Descriptors, NEW c, NEW off, directory' = directory,
         \/ open_files' = open_files
         \/ open_files' = Moved(open_files, d, c, off)
         \/ open_files' = ToPlace(open_files, d, c, off)
         \/ open_files' = ToChunk(open_files, d, c, off)
         \/ open_files' = ToOffset(open_files, d, off),
         \/ node' = node
         \/ open_files[d].file # NULL /\ \E x : node' = Holding(node, open_files[d].file, x)
  PROVE  KeepsCounts
<1>1. /\ Len(chunk) \in Nat /\ Len(node) \in Nat
      /\ Nodes(node, Len(chunk)) /\ Table(open_files, Len(node), Len(chunk))
      /\ open_files[d].file \in 0 .. Len(node)
  BY StateTypes, Zenon
<1>2. \A e \in Descriptors : open_files'[e].file = open_files[e].file
  <2>1. open_files' = open_files \/ \E b, y : open_files' = Moved(open_files, d, b, y)
    <3>1. /\ ToPlace(open_files, d, c, off) = Moved(open_files, d, c, off)
          /\ ToChunk(open_files, d, c, off) = Moved(open_files, d, c, off)
          /\ ToOffset(open_files, d, off) = Moved(open_files, d, open_files[d].chunk, off)
      BY <1>1, MovedForms
    <3> QED BY <3>1, Zenon
  <2>2. open_files \in [Descriptors -> DescSet]
    BY <1>1, TableTypes, Zenon
  <2>3. ASSUME NEW b, NEW y, NEW e \in Descriptors
        PROVE  Moved(open_files, d, b, y)[e].file = open_files[e].file
    BY <2>2, Zenon DEF Moved, DescSet
  <2> QED BY <2>1, <2>3, Zenon
<1>3. /\ Len(node') = Len(node)
      /\ \A f \in 1 .. Len(node) : /\ node'[f].links = node[f].links
                                   /\ node'[f].opens = node[f].opens
                                   /\ node'[f].freed = node[f].freed
  <2>1. CASE node' = node
    BY <2>1, Zenon
  <2>2. ASSUME open_files[d].file # NULL, NEW x, node' = Holding(node, open_files[d].file, x)
        PROVE  <1>3!1 /\ <1>3!2
    <3> DEFINE g == open_files[d].file
               r == [node[g] EXCEPT !.content = x]
               h == [node EXCEPT ![g] = r]
    <3>1. g \in 1 .. Len(node) /\ node \in Seq(NodeSet) /\ node[g] \in NodeSet
      BY <1>1, <2>2, NodeTypes DEF NULL
    <3>2. r.links = node[g].links /\ r.opens = node[g].opens /\ r.freed = node[g].freed
      BY <3>1, Zenon DEF NodeSet
    <3>3. node' = h
      BY <2>2, <3>1, Zenon DEF Holding
    <3> HIDE DEF r, g
    <3>4. /\ Len(h) = Len(node) /\ h[g] = r
          /\ \A f \in 1 .. Len(node) : f # g => h[f] = node[f]
      BY <3>1
    <3> HIDE DEF h
    <3> QED BY <3>2, <3>3, <3>4, Zenon
  <2> QED BY <2>1, <2>2, Zenon
<1> QED BY <1>2, <1>3, Zenon DEF KeepsCounts

(* The loop of write and pwrite leaves the counts alone.                   *)
LEMMA FillKeeps ==
  ASSUME TypeInv, status = "ok", NEW p, NEW d \in Descriptors, NEW len \in Nat, NEW moves \in BOOLEAN,
         Ready(p), open_files[d].file # NULL, Fill(p, d, len, moves)
  PROVE  status' = "ok" => KeepsCounts
<1>1. Sane(p.ch) /\ p.current \in 0 .. Len(p.ch) /\ written \in Nat
  BY StateTypes, Zenon DEF Ready
<1>2. \/ status' # "ok"
      \/ /\ node' = Holding(node, open_files[d].file, p.content)
         /\ open_files' = open_files \/ \E c : open_files' = ToChunk(open_files, d, c, 0)
         /\ directory' = directory
  BY <1>1, FillEnds, Zenon
<1> QED BY <1>2, MoveKeeps, Zenon

(* Only open, close and unlink change the counts.                          *)
LEMMA ReadKeeps ==
  ASSUME TypeInv, NEW d \in Descriptors, NEW len, dandelion_read(d, len)
  PROVE  status' = "ok" => KeepsCounts
<1>1. \/ \E code : Fails(code)
      \/ Crashes("freed")
      \/ /\ node' = node /\ directory' = directory
         /\ \/ open_files' = ToOffset(open_files, d, 0)
            \/ \E c, off : open_files' = ToPlace(open_files, d, c, off)
  BY Zenon DEF dandelion_read, ToOffset, ToPlace
<1>2. status = "ok"
  BY Zenon DEF dandelion_read
<1> QED BY <1>1, <1>2, FailKeeps, CrashKeeps, MoveKeeps, Zenon

(* pread leaves the counts alone.                                          *)
LEMMA PreadKeeps ==
  ASSUME NEW d \in Descriptors, NEW len, NEW off, pread(d, len, off)
  PROVE  status' = "ok" => KeepsCounts
<1>1. \/ \E code : Fails(code)
      \/ Crashes("freed") \/ Crashes("null")
      \/ UNCHANGED <<node, chunk, directory, open_files, written>>
  BY Zenon DEF pread
<1> QED BY <1>1, FailKeeps, CrashKeeps, Zenon DEF KeepsCounts

(* write leaves the counts alone.                                          *)
LEMMA WriteKeeps ==
  ASSUME TypeInv, NEW d \in Descriptors, NEW len \in Lengths, dandelion_write(d, len)
  PROVE  status' = "ok" => KeepsCounts
<1> DEFINE p == PrepareWrite(open_files[d], len)
<1>0. status = "ok" /\ len \in Nat /\ TRUE \in BOOLEAN
  BY FilesAssumption, Zenon DEF dandelion_write
<1> HIDE DEF p
<1>1. \/ Fails(EBADF)
      \/ p.how # "ok" /\ Crashes(p.how)
      \/ open_files[d].file # NULL /\ Fill(p, d, len, TRUE)
  BY Zenon DEF dandelion_write, CanWrite, p
<1>2. open_files[d].file # NULL => Ready(p)
  BY <1>0, PrepareWriteReady, Zenon DEF p
<1> QED BY <1>0, <1>1, <1>2, FailKeeps, CrashKeeps, FillKeeps, Zenon

(* pwrite leaves the counts alone.                                         *)
LEMMA PwriteKeeps ==
  ASSUME TypeInv, NEW d \in Descriptors, NEW len \in Lengths, NEW off \in Offsets, pwrite(d, len, off)
  PROVE  status' = "ok" => KeepsCounts
<1> DEFINE p == PreparePwrite(open_files[d], len, off)
<1>0. status = "ok" /\ len \in Nat /\ off \in Int /\ FALSE \in BOOLEAN
  BY FilesAssumption, Zenon DEF pwrite
<1> HIDE DEF p
<1>1. \/ Fails(ENOMEM)
      \/ p.how = "freed" /\ Crashes(p.how)
      \/ open_files[d].file # NULL /\ p.how = "ok" /\ Fill(p, d, len, FALSE)
  BY Zenon DEF pwrite, CanWrite, p
<1>2. open_files[d].file # NULL /\ p.how = "ok" => Ready(p)
  BY <1>0, PreparePwriteReady, Zenon DEF p
<1> QED BY <1>0, <1>1, <1>2, FailKeeps, CrashKeeps, FillKeeps

(* lseek leaves the counts alone.                                          *)
LEMMA LseekKeeps ==
  ASSUME TypeInv, NEW d \in Descriptors, NEW off, NEW whence, dandelion_lseek(d, off, whence)
  PROVE  status' = "ok" => KeepsCounts
<1> DEFINE st == SeekStart(open_files[d], whence)
<1> HIDE DEF st
<1>0. status = "ok"
  BY Zenon DEF dandelion_lseek
<1>1. \/ Fails(EBADF)
      \/ st.how # "ok" /\ Crashes(st.how)
      \/ open_files[d].file # NULL /\ (SeekBack(d, st, off) \/ SeekForward(d, st, off))
  BY Zenon DEF dandelion_lseek, st
<1>2. ASSUME NEW c, NEW y, NEW t, MoveTo(d, c, y, t)
      PROVE  open_files' = ToPlace(open_files, d, c, y) /\ directory' = directory
  BY <1>2, Zenon DEF MoveTo, ToPlace
<1>3. ASSUME SeekBack(d, st, off) PROVE status' = "ok" => KeepsCounts
  <2>1. \/ Fails(EINVAL) \/ Crashes("null") \/ Crashes("freed")
        \/ node' = node /\ \E c, y, t : MoveTo(d, c, y, t)
    BY <1>3, Zenon DEF SeekBack
  <2> QED BY <1>0, <1>2, <2>1, FailKeeps, CrashKeeps, MoveKeeps, Zenon
<1>4. ASSUME open_files[d].file # NULL, SeekForward(d, st, off) PROVE status' = "ok" => KeepsCounts
  <2>1. \/ Fails(ENOMEM) \/ Crashes("freed")
        \/ /\ node' = node \/ \E x : node' = Holding(node, open_files[d].file, x)
           /\ \E c, y, t : MoveTo(d, c, y, t)
    BY <1>4, Zenon DEF SeekForward, Holding
  <2> QED BY <1>0, <1>2, <1>4, <2>1, FailKeeps, CrashKeeps, MoveKeeps, Zenon
<1> QED BY <1>1, <1>3, <1>4, FailKeeps, CrashKeeps, Zenon

(* ftruncate and truncate leave the counts alone.                          *)
LEMMA TruncateKeeps ==
  ASSUME NEW f, NEW len, Truncate(f, len)
  PROVE  status' = "ok" => KeepsCounts
<1>1. \/ Fails(EINVAL) \/ Crashes("null") \/ Crashes("freed")
      \/ UNCHANGED <<node, directory, open_files, written>>
  BY Zenon DEF Truncate
<1> QED BY <1>1, FailKeeps, CrashKeeps, Zenon DEF KeepsCounts

(* A descriptor that is set to another file.                               *)
LEMMA OwnersPut ==
  ASSUME NEW of, NEW m \in Nat, NEW n \in Nat, Table(of, m, n), NEW d \in Descriptors, NEW r
  PROVE  LET u == Owners(of)
             v == Owners(Put(of, d, r))
         IN  /\ u[d] = of[d].file /\ v[d] = r.file
             /\ \A e \in Descriptors : e # d => v[e] = u[e]
<1>1. of \in [Descriptors -> DescSet]
  BY TableTypes, Zenon
<1>2. Put(of, d, r)[d] = r /\ \A e \in Descriptors : e # d => Put(of, d, r)[e] = of[e]
  BY <1>1, Zenon DEF Put
<1> QED BY <1>2, Zenon DEF Owners

(* close counts one descriptor less, and frees a file that nothing leads   *)
(* to any more.                                                            *)
LEMMA CloseCounts ==
  ASSUME CountInv, NEW d \in Descriptors, dandelion_close(d), status' = "ok"
  PROVE  Counted(node', directory', open_files')
<1> DEFINE f == open_files[d].file
           u == Owners(open_files)
           v == Owners(open_files')
<1>0. status = "ok" /\ TypeInv /\ Counted(node, directory, open_files) /\ IsFiniteSet(Descriptors)
  BY FilesAssumption, Zenon DEF dandelion_close, CountInv
<1>1. CASE Fails(EBADF)
  BY <1>0, <1>1, FailKeeps, KeptIsCounted, Zenon
<1>2. CASE /\ f # NULL /\ free_data(f, node[f].links, node[f].opens - 1)
           /\ open_files' = [open_files EXCEPT ![d] = Closed]
           /\ UNCHANGED <<directory, written>>
  <2>1. f \in 1 .. Len(node) /\ node[f].links \in Int /\ node[f].opens - 1 \in Int
    BY <1>0, <1>2, StateTypes DEF NULL
  <2>2. /\ Len(node') = Len(node)
        /\ node'[f].links = node[f].links /\ node'[f].opens = node[f].opens - 1
        /\ node'[f].freed = Dead(node[f].links, node[f].opens - 1)
        /\ \A i \in 1 .. Len(node) : i # f => node'[i] = node[i]
    <3> DEFINE l == node[f].links
               o == node[f].opens - 1
    <3> HIDE DEF l, o
    <3>1. f \in 1 .. Len(node) /\ l \in Int /\ o \in Int /\ free_data(f, l, o)
      BY <1>2, <2>1, Zenon DEF l, o
    <3>2. /\ Len(node') = Len(node) /\ node'[f].links = l /\ node'[f].opens = o
          /\ node'[f].freed = Dead(l, o)
          /\ \A i \in 1 .. Len(node) : i # f => node'[i] = node[i]
      BY <1>0, <3>1, free_dataFacts, Zenon
    <3> QED BY <3>2, Zenon DEF l, o
  <2>3. u[d] = f /\ v[d] = 0 /\ \A e \in Descriptors : e # d => v[e] = u[e]
    <3>1. /\ Len(node) \in Nat /\ Len(chunk) \in Nat /\ Table(open_files, Len(node), Len(chunk))
      BY <1>0, StateTypes, Zenon
    <3>2. open_files' = Put(open_files, d, Closed)
      BY <1>2, Zenon DEF Put
    <3>3. LET w == Owners(Put(open_files, d, Closed))
          IN  /\ u[d] = f /\ w[d] = Closed.file
              /\ \A e \in Descriptors : e # d => w[e] = u[e]
      BY <3>1, OwnersPut
    <3> QED BY <3>2, <3>3, ClosedFacts, Zenon
  <2> HIDE DEF f, u, v
  <2>4. ASSUME NEW i \in 1 .. Len(node)
        PROVE  /\ i = f => Count(Descriptors, v, i) = Count(Descriptors, u, i) - 1
               /\ i # f => Count(Descriptors, v, i) = Count(Descriptors, u, i)
    <3>1. i # 0
      OBVIOUS
    <3>2. Redirects(Descriptors, u, v, d)
      BY <1>0, <2>3, Zenon DEF Redirects
    <3> QED BY <2>3, <3>1, <3>2, CountMoves
  <2>5. ASSUME NEW i \in 1 .. Len(node)
        PROVE  /\ node[i].opens = Count(Descriptors, u, i)
               /\ node[i].links = Count(Names, directory, i)
               /\ node[i].freed <=> node[i].opens = 0 /\ node[i].links = 0
    BY <1>0, Zenon DEF Counted, u
  <2>6. ASSUME NEW i \in 1 .. Len(node)
        PROVE  /\ node'[i].opens = Count(Descriptors, v, i)
               /\ node'[i].links = Count(Names, directory, i)
               /\ node'[i].freed <=> node'[i].opens = 0 /\ node'[i].links = 0
    <3>1. CASE i = f
      BY <2>2, <2>4, <2>5, <3>1, Zenon DEF Dead
    <3>2. CASE i # f
      BY <2>2, <2>4, <2>5, <3>2, Zenon
    <3> QED BY <3>1, <3>2
  <2> QED BY <1>2, <2>2, <2>6, Zenon DEF Counted, v
<1> QED BY <1>1, <1>2, Zenon DEF dandelion_close

(* unlink counts one name less, and frees a file that nothing leads to any *)
(* more.                                                                   *)
LEMMA UnlinkCounts ==
  ASSUME CountInv, NEW name \in Names, dandelion_unlink(name), status' = "ok"
  PROVE  Counted(node', directory', open_files')
<1> DEFINE f == directory[name]
           u == directory
           v == directory'
<1>0. status = "ok" /\ TypeInv /\ Counted(node, directory, open_files) /\ IsFiniteSet(Names)
  BY FilesAssumption, Zenon DEF dandelion_unlink, CountInv
<1>1. CASE Fails(ENOTDIR)
  BY <1>0, <1>1, FailKeeps, KeptIsCounted, Zenon
<1>2. CASE /\ f # NULL /\ free_data(f, node[f].links - 1, node[f].opens)
           /\ directory' = [directory EXCEPT ![name] = NULL]
           /\ UNCHANGED <<open_files, written>>
  <2>1. f \in 1 .. Len(node) /\ node[f].links - 1 \in Int /\ node[f].opens \in Int
    BY <1>0, <1>2, StateTypes DEF NULL
  <2>2. /\ Len(node') = Len(node)
        /\ node'[f].links = node[f].links - 1 /\ node'[f].opens = node[f].opens
        /\ node'[f].freed = Dead(node[f].links - 1, node[f].opens)
        /\ \A i \in 1 .. Len(node) : i # f => node'[i] = node[i]
    <3> DEFINE l == node[f].links - 1
               o == node[f].opens
    <3> HIDE DEF l, o
    <3>1. f \in 1 .. Len(node) /\ l \in Int /\ o \in Int /\ free_data(f, l, o)
      BY <1>2, <2>1, Zenon DEF l, o
    <3>2. /\ Len(node') = Len(node) /\ node'[f].links = l /\ node'[f].opens = o
          /\ node'[f].freed = Dead(l, o)
          /\ \A i \in 1 .. Len(node) : i # f => node'[i] = node[i]
      BY <1>0, <3>1, free_dataFacts, Zenon
    <3> QED BY <3>2, Zenon DEF l, o
  <2>3. u[name] = f /\ v[name] = 0 /\ \A e \in Names : e # name => v[e] = u[e]
    <3>1. directory \in [Names -> Nat]
      BY <1>0, StateTypes, Zenon DEF Named
    <3> QED BY <1>2, <3>1, Zenon DEF NULL
  <2> HIDE DEF f, u, v
  <2>4. ASSUME NEW i \in 1 .. Len(node)
        PROVE  /\ i = f => Count(Names, v, i) = Count(Names, u, i) - 1
               /\ i # f => Count(Names, v, i) = Count(Names, u, i)
    <3>1. i # 0
      OBVIOUS
    <3>2. Redirects(Names, u, v, name)
      BY <1>0, <2>3, Zenon DEF Redirects
    <3> QED BY <2>3, <3>1, <3>2, CountMoves
  <2>5. ASSUME NEW i \in 1 .. Len(node)
        PROVE  /\ node[i].opens = Count(Descriptors, Owners(open_files), i)
               /\ node[i].links = Count(Names, u, i)
               /\ node[i].freed <=> node[i].opens = 0 /\ node[i].links = 0
    BY <1>0, Zenon DEF Counted, u
  <2>6. ASSUME NEW i \in 1 .. Len(node)
        PROVE  /\ node'[i].opens = Count(Descriptors, Owners(open_files), i)
               /\ node'[i].links = Count(Names, v, i)
               /\ node'[i].freed <=> node'[i].opens = 0 /\ node'[i].links = 0
    <3>1. CASE i = f
      BY <2>2, <2>4, <2>5, <3>1, Zenon DEF Dead
    <3>2. CASE i # f
      BY <2>2, <2>4, <2>5, <3>2, Zenon
    <3> QED BY <3>1, <3>2
  <2> QED BY <1>2, <2>2, <2>6, Zenon DEF Counted, v
<1> QED BY <1>1, <1>2, Zenon DEF dandelion_unlink

(* The counts once open has created a missing file.                        *)
LEMMA CreatedCounts ==
  ASSUME CountInv, status = "ok", NEW name \in Names, NEW mode \in SUBSET {"r", "w"}
  PROVE  LET fs  == OpenNodes(name, mode)
             f   == OpenFile(name, mode)
             dir == [directory EXCEPT ![name] = f]
         IN  Counted(fs, dir, open_files) /\ fs[f].links > 0
<1> DEFINE fs  == OpenNodes(name, mode)
           f   == OpenFile(name, mode)
           dir == [directory EXCEPT ![name] = f]
<1>0. TypeInv /\ Counted(node, directory, open_files) /\ IsFiniteSet(Names) /\ IsFiniteSet(Descriptors)
  BY FilesAssumption, Zenon DEF CountInv
<1>1. /\ Len(node) \in Nat /\ Len(fs) \in Nat /\ f \in 1 .. Len(fs)
      /\ \A i \in 1 .. Len(node) : fs[i] = node[i]
      /\ directory[name] # 0 => fs = node /\ f = directory[name]
      /\ directory[name] = 0 =>
           /\ Len(fs) = Len(node) + 1 /\ f = Len(fs)
           /\ fs[f].links = 1 /\ fs[f].opens = 0 /\ ~fs[f].freed
  BY <1>0, OpenNodesFacts, StateTypes
<1>2. /\ directory \in [Names -> Nat] /\ \A n \in Names : directory[n] \in 0 .. Len(node)
      /\ \A d \in Descriptors : open_files[d].file \in 0 .. Len(node)
  BY <1>0, StateTypes, Zenon DEF Named
<1>3. dir[name] = f /\ \A n \in Names : n # name => dir[n] = directory[n]
  BY <1>2, Zenon
<1> HIDE DEF fs, f
<1>4. CASE directory[name] # 0
  <2>1. dir = directory /\ fs = node
    BY <1>1, <1>2, <1>4, Zenon
  <2>2. fs[f].links > 0
    <3>1. directory[name] = f
      BY <1>1, <1>4, Zenon
    <3>2. Count(Names, directory, f) > 0
      BY <1>0, <3>1, CountTypes
    <3>3. fs[f].links = Count(Names, directory, f)
      BY <1>0, <1>1, <2>1, Zenon DEF Counted
    <3> QED BY <3>2, <3>3, Zenon
  <2> QED BY <1>0, <2>1, <2>2, Zenon DEF fs, f
<1>5. CASE directory[name] = 0
  <2> HIDE DEF dir
  <2>1. ASSUME NEW i \in 1 .. Len(node)
        PROVE  Count(Names, dir, i) = Count(Names, directory, i)
    <3>1. i # 0 /\ i # f
      BY <1>1, <1>5
    <3>2. directory[name] = i <=> dir[name] = i
      BY <1>3, <1>5, <3>1, Zenon
    <3>3. Redirects(Names, directory, dir, name)
      BY <1>0, <1>3, Zenon DEF Redirects
    <3> QED BY <3>2, <3>3, CountMoves
  <2>2. Count(Names, dir, f) = 1
    <3>1. \A n \in Names : directory[n] # f
      BY <1>1, <1>2, <1>5
    <3>2. \A n \in Names : dir[n] = f <=> n = name
      BY <1>3, <3>1, Zenon
    <3> QED BY <3>2, CountFew, Zenon
  <2>3. Count(Descriptors, Owners(open_files), f) = 0
    <3>1. \A d \in Descriptors : open_files[d].file # f
      BY <1>1, <1>2, <1>5
    <3>2. \A d \in Descriptors : Owners(open_files)[d] # f
      BY <3>1, Zenon DEF Owners
    <3> QED BY <3>2, CountFew, Zenon
  <2>4. ASSUME NEW i \in 1 .. Len(fs)
        PROVE  /\ fs[i].opens = Count(Descriptors, Owners(open_files), i)
               /\ fs[i].links = Count(Names, dir, i)
               /\ fs[i].freed <=> fs[i].opens = 0 /\ fs[i].links = 0
    <3>1. CASE i = f
      BY <1>1, <1>5, <2>2, <2>3, <3>1
    <3>2. CASE i # f
      <4>1. i \in 1 .. Len(node)
        BY <1>1, <1>5, <3>2
      <4> QED BY <1>0, <1>1, <2>1, <4>1, Zenon DEF Counted
    <3> QED BY <3>1, <3>2
  <2>5. fs[f].links > 0
    BY <1>1, <1>5
  <2> QED BY <2>4, <2>5, Zenon DEF Counted, fs, f, dir
<1> QED BY <1>4, <1>5, Zenon

(* open counts one descriptor more, and one name when it makes a file.     *)
LEMMA OpenCounts ==
  ASSUME CountInv, NEW name \in Names, NEW flags \in OpenFlags, NEW mode \in OpenModes,
         dandelion_open(name, flags, mode), status' = "ok"
  PROVE  Counted(node', directory', open_files')
<1> DEFINE fs   == OpenNodes(name, mode)
           f    == OpenFile(name, mode)
           dir  == [directory EXCEPT ![name] = f]
           free == {d \in Descriptors : open_files[d].file = NULL}
           c    == IF flags.trunc THEN NULL ELSE fs[f].content
<1>0. /\ status = "ok" /\ mode \in SUBSET {"r", "w"} /\ TypeInv
      /\ Counted(node, directory, open_files) /\ IsFiniteSet(Descriptors)
  BY FilesAssumption, Zenon DEF dandelion_open, CountInv
<1>1. CASE \E code : Fails(code)
  BY <1>0, <1>1, FailKeeps, KeptIsCounted, Zenon
<1>2. CASE /\ directory' = dir
           /\ \/ free = {} /\ node' = fs /\ Returns(EMFILE, <<>>) /\ UNCHANGED <<chunk, open_files>>
              \/ free # {} /\ open_existing_file(fs, f, Min(free), flags)
  <2>1. Counted(fs, dir, open_files) /\ fs[f].links > 0
    BY <1>0, CreatedCounts, Zenon
  <2>2. /\ Nodes(fs, Len(chunk)) /\ Len(fs) \in Nat /\ f \in 1 .. Len(fs) /\ Len(chunk) \in Nat
        /\ Len(node) \in Nat /\ Table(open_files, Len(node), Len(chunk))
    BY <1>0, OpenNodesFacts, StateTypes, Zenon
  <2> HIDE DEF fs, f, dir
  <2>3. CASE node' = fs /\ UNCHANGED <<chunk, open_files>>
    BY <1>2, <2>1, <2>3, Zenon
  <2>4. CASE /\ free # {} /\ node' = Opened(fs, f, c)
             /\ open_files' = Put(open_files, Min(free), OpenDesc(f, c, flags))
    <3> DEFINE d == Min(free)
               u == Owners(open_files)
               v == Owners(open_files')
    <3>1. d \in Descriptors /\ open_files[d].file = 0
      <4>1. free \in SUBSET Nat /\ free # {}
        BY <2>4, FilesAssumption, Zenon
      <4> HIDE DEF free
      <4>2. d \in free
        BY <4>1, MinFacts, Zenon
      <4> HIDE DEF d
      <4> QED BY <4>2, Zenon DEF free, NULL
    <3>2. c \in 0 .. Len(chunk)
      BY <2>2, NodeTypes DEF NULL
    <3>3. OpenDesc(f, c, flags).file = f
      BY DEF OpenDesc
    <3> HIDE DEF c, d, free
    <3>4. u[d] = 0 /\ v[d] = f /\ \A e \in Descriptors : e # d => v[e] = u[e]
      <4> DEFINE r == OpenDesc(f, c, flags)
      <4> HIDE DEF r
      <4>1. LET w == Owners(Put(open_files, d, r))
            IN  /\ u[d] = open_files[d].file /\ w[d] = r.file
                /\ \A e \in Descriptors : e # d => w[e] = u[e]
        BY <2>2, <3>1, OwnersPut
      <4>2. open_files' = Put(open_files, d, r)
        BY <2>4, Zenon DEF d, r
      <4> QED BY <3>1, <3>3, <4>1, <4>2, Zenon DEF r
    <3>5. /\ Len(node') = Len(fs)
          /\ node'[f].links = fs[f].links /\ node'[f].opens = fs[f].opens + 1
          /\ node'[f].freed = fs[f].freed
          /\ \A i \in 1 .. Len(fs) : i # f => node'[i] = fs[i]
      BY <2>2, <2>4, <3>2, OpenChanged, Zenon
    <3>6. Redirects(Descriptors, u, v, d)
      BY <1>0, <3>1, <3>4, Zenon DEF Redirects
    <3> HIDE DEF v
    <3>7. ASSUME NEW i \in 1 .. Len(fs)
          PROVE  /\ i = f => Count(Descriptors, v, i) = Count(Descriptors, u, i) + 1
                 /\ i # f => Count(Descriptors, v, i) = Count(Descriptors, u, i)
      <4>1. i # 0
        OBVIOUS
      <4> QED BY <3>4, <3>6, <4>1, CountMoves
    <3>8. Count(Descriptors, u, f) \in Nat
      BY <1>0, CountTypes, Zenon
    <3>9. ASSUME NEW i \in 1 .. Len(fs)
          PROVE  /\ fs[i].opens = Count(Descriptors, u, i)
                 /\ fs[i].links = Count(Names, dir, i)
                 /\ fs[i].freed <=> fs[i].opens = 0 /\ fs[i].links = 0
      BY <2>1, Zenon DEF Counted
    <3> HIDE DEF u
    <3>10. ASSUME NEW i \in 1 .. Len(fs)
           PROVE  /\ node'[i].opens = Count(Descriptors, v, i)
                  /\ node'[i].links = Count(Names, dir, i)
                  /\ node'[i].freed <=> node'[i].opens = 0 /\ node'[i].links = 0
      <4>1. CASE i = f
        <5>1. fs[f].links # 0 /\ fs[f].opens + 1 # 0
          BY <2>1, <2>2, <3>8, <3>9
        <5>2. ~fs[f].freed
          BY <2>2, <3>9, <5>1, Zenon
        <5>3. node'[f].opens = Count(Descriptors, v, f) /\ node'[f].links = Count(Names, dir, f)
          BY <2>2, <3>5, <3>7, <3>9, Zenon
        <5> QED BY <3>5, <4>1, <5>1, <5>2, <5>3, Zenon
      <4>2. CASE i # f
        BY <3>5, <3>7, <3>9, <4>2, Zenon
      <4> QED BY <4>1, <4>2
    <3> QED BY <1>2, <3>5, <3>10, Zenon DEF Counted, v
  <2>5. \/ node' = fs /\ UNCHANGED <<chunk, open_files>>
        \/ /\ free # {} /\ node' = Opened(fs, f, c)
           /\ open_files' = Put(open_files, Min(free), OpenDesc(f, c, flags))
    BY <1>0, <1>2, OpenEnds, Zenon
  <2> QED BY <2>3, <2>4, <2>5, Zenon
<1> QED BY <1>1, <1>2, Zenon DEF dandelion_open, OpenNodes, OpenFile

(* The counts are right at the start.                                      *)
LEMMA InitCounts == Init => CountInv
<1> SUFFICES ASSUME Init PROVE CountInv
  OBVIOUS
<1>1. PICK order \in SetToSeqs(DOMAIN Inputs) :
        /\ node = [f \in DOMAIN order |-> [content |-> f, links |-> 1, opens |-> 0,
                                           mode |-> {"r", "w"}, freed |-> FALSE]]
        /\ directory = [n \in Names |-> First({f \in DOMAIN order : order[f] = n})]
        /\ open_files = [d \in Descriptors |-> Closed]
  BY Zenon DEF Init
<1>2. PICK n \in Nat : /\ DOMAIN order = 1 .. n
                       /\ \A f \in 1 .. n : order[f] \in Names
                       /\ \A f, g \in 1 .. n : f # g => order[f] # order[g]
  BY OrderFacts, Zenon
<1>3. Len(node) = n
  BY <1>1, <1>2
<1>4. ASSUME NEW f \in 1 .. n
      PROVE  /\ node[f].opens = Count(Descriptors, Owners(open_files), f)
             /\ node[f].links = Count(Names, directory, f)
             /\ node[f].freed <=> node[f].opens = 0 /\ node[f].links = 0
  <2>1. node[f].opens = 0 /\ node[f].links = 1 /\ ~node[f].freed
    BY <1>1, <1>2
  <2>2. Count(Descriptors, Owners(open_files), f) = 0
    <3>1. f # 0
      BY <1>2
    <3>2. \A d \in Descriptors : Owners(open_files)[d] # f
      BY <1>1, <3>1, ClosedFacts, Zenon DEF Owners
    <3> QED BY <3>2, CountFew, Zenon
  <2>3. ASSUME NEW name \in Names PROVE directory[name] = f <=> name = order[f]
    <3> DEFINE K == {g \in 1 .. n : order[g] = name}
    <3>1. directory[name] = First(K)
      BY <1>1, <1>2, Zenon
    <3>2. K \in SUBSET (Nat \ {0}) /\ f # 0
      BY <1>2
    <3>3. f \in K <=> name = order[f]
      BY Zenon
    <3>4. \A g \in K : order[f] = name => g = f
      BY <1>2, Zenon
    <3> HIDE DEF K
    <3> QED BY <3>1, <3>2, <3>3, <3>4, FirstFacts, Zenon
  <2>4. Count(Names, directory, f) = 1
    BY <1>2, <2>3, CountFew, Zenon
  <2>5. ~(node[f].opens = 0 /\ node[f].links = 0)
    BY <2>1
  <2> QED BY <2>1, <2>2, <2>4, <2>5, Zenon
<1> QED BY <1>3, <1>4, InitTyped, Zenon DEF CountInv, Counted

(* Every step keeps them right.                                            *)
LEMMA NextCounts == CountInv /\ [Next]_vars => CountInv'
<1> SUFFICES ASSUME CountInv, [Next]_vars, status' = "ok" PROVE Counted(node', directory', open_files')
  BY NextTyped, Zenon DEF CountInv
<1>0. TypeInv
  BY Zenon DEF CountInv
<1>1. ASSUME KeepsCounts, status = "ok" PROVE Counted(node', directory', open_files')
  BY <1>1, KeptIsCounted, Zenon DEF CountInv
<1>2. ASSUME NEW name \in Names, NEW flags \in OpenFlags, NEW mode \in OpenModes,
             dandelion_open(name, flags, mode)
      PROVE  Counted(node', directory', open_files')
  BY <1>2, OpenCounts, Zenon
<1>3. ASSUME NEW name \in Names, dandelion_unlink(name)
      PROVE  Counted(node', directory', open_files')
  BY <1>3, UnlinkCounts, Zenon
<1>4. ASSUME NEW d \in Descriptors, dandelion_close(d)
      PROVE  Counted(node', directory', open_files')
  BY <1>4, CloseCounts, Zenon
<1>5. ASSUME NEW d \in Descriptors, NEW len \in Lengths,
             dandelion_read(d, len) \/ dandelion_write(d, len)
      PROVE  KeepsCounts /\ status = "ok"
  BY <1>0, <1>5, ReadKeeps, WriteKeeps, Zenon DEF dandelion_read, dandelion_write
<1>6. ASSUME NEW d \in Descriptors, NEW len \in Lengths, NEW off \in Offsets,
             pread(d, len, off) \/ pwrite(d, len, off)
      PROVE  KeepsCounts /\ status = "ok"
  BY <1>0, <1>6, PreadKeeps, PwriteKeeps, Zenon DEF pread, pwrite
<1>7. ASSUME NEW d \in Descriptors, NEW off \in Offsets, NEW whence \in {"SET", "CUR", "END"},
             dandelion_lseek(d, off, whence)
      PROVE  KeepsCounts /\ status = "ok"
  BY <1>0, <1>7, LseekKeeps, Zenon DEF dandelion_lseek
<1>8. ASSUME NEW name \in Names, NEW len \in Offsets, dandelion_truncate(name, len)
      PROVE  KeepsCounts /\ status = "ok"
  BY <1>8, TruncateKeeps, FailKeeps, Zenon DEF dandelion_truncate
<1>9. ASSUME NEW d \in Descriptors, NEW len \in Offsets, dandelion_ftruncate(d, len)
      PROVE  KeepsCounts /\ status = "ok"
  BY <1>9, TruncateKeeps, FailKeeps, Zenon DEF dandelion_ftruncate
<1>10. ASSUME UNCHANGED vars PROVE KeepsCounts /\ status = "ok"
  BY <1>10, Zenon DEF vars, KeepsCounts
<1> QED BY <1>1, <1>2, <1>3, <1>4, <1>5, <1>6, <1>7, <1>8, <1>9, <1>10, Zenon DEF Next

(* The counts of a file are the names and the descriptors that lead to it, *)
(* and the file is deallocated exactly when there are none: free_data is   *)
(* called for every one that goes, in whatever order open, close and       *)
(* unlink come, and no descriptor or name is left with a freed file.       *)
THEOREM FilesCounted == Spec => []LivesWhileReachable
<1>1. CountInv => LivesWhileReachable
  <2> SUFFICES ASSUME CountInv, status = "ok", NEW f \in DOMAIN node
               PROVE  /\ node[f].opens = Cardinality({d \in Descriptors : open_files[d].file = f})
                      /\ node[f].links = Cardinality({n \in Names : directory[n] = f})
                      /\ node[f].freed <=> node[f].opens = 0 /\ node[f].links = 0
    BY Zenon DEF LivesWhileReachable
  <2>1. TypeInv /\ Counted(node, directory, open_files)
    BY Zenon DEF CountInv
  <2>2. f \in 1 .. Len(node)
    BY <2>1, StateTypes, NodeTypes, Zenon
  <2>3. Leading(Descriptors, Owners(open_files), f) = {d \in Descriptors : open_files[d].file = f}
    BY Zenon DEF Leading, Owners
  <2> QED BY <2>1, <2>2, <2>3, Zenon DEF Counted, Count, Leading
<1> QED BY <1>1, InitCounts, NextCounts, PTL DEF Spec
=============================================================================
