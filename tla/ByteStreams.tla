---------------------------- MODULE ByteStreams ----------------------------
(***************************************************************************)
(* What the file layer promises to clients that write a file once, from    *)
(* its beginning to its end, and read it as often as they like: a file is  *)
(* one sequence of bytes, a write extends it, and a reader gets its bytes  *)
(* in order.  Chunks, and memory that is freed, cannot be seen.            *)
(***************************************************************************)
EXTENDS Integers, Sequences, SequencesExt

CONSTANT Descriptors

VARIABLES
  stream,      \* the bytes of every file so far
  cursor,      \* what every descriptor is open for, or Closed
  got          \* the bytes that the last call returned

vars == <<stream, cursor, got>>

(* The bytes of s behind position pos begin with block.                    *)
IsAt(block, s, pos) == \A i \in DOMAIN block : pos + i \in DOMAIN s /\ block[i] = s[pos + i]

Closed == [file |-> 0, pos |-> 0, writes |-> FALSE]

(* There may be files in the beginning.                                    *)
Init ==
  /\ cursor = [d \in Descriptors |-> Closed]
  /\ got = <<>>

(* A reader begins at the first byte.  A writer is alone when it begins,   *)
(* and begins with an empty file.                                          *)
OpenToRead(d, f) ==
  /\ got' = <<>>
  /\ cursor[d] = Closed
  /\ cursor' = [cursor EXCEPT ![d] = [file |-> f, pos |-> 0, writes |-> FALSE]]
  /\ \/ f \in DOMAIN stream /\ stream' = stream
     \/ f = Len(stream) + 1 /\ stream' = Append(stream, <<>>)

OpenToWrite(d, f) ==
  /\ got' = <<>>
  /\ cursor[d] = Closed
  /\ \A e \in Descriptors : cursor[e].file # f
  /\ cursor' = [cursor EXCEPT ![d] = [file |-> f, pos |-> 0, writes |-> TRUE]]
  /\ stream' = IF f \in DOMAIN stream THEN [stream EXCEPT ![f] = <<>>]
               ELSE Append(stream, <<>>)

(* A file is created and cannot be opened.                                 *)
Create ==
  /\ got' = <<>>
  /\ stream' = Append(stream, <<>>)
  /\ UNCHANGED cursor

(* The bytes of a file go when no descriptor is left that reads or writes  *)
(* it, with the last descriptor or later.                                  *)
Close(d) ==
  LET f == cursor[d].file
  IN  /\ got' = <<>>
      /\ cursor[d] # Closed
      /\ cursor' = [cursor EXCEPT ![d] = Closed]
      /\ \/ stream' = stream
         \/ /\ \A e \in Descriptors : cursor'[e].file # f
            /\ stream' = [stream EXCEPT ![f] = <<>>]

Discard(f) ==
  /\ got' = <<>>
  /\ \A d \in Descriptors : cursor[d].file # f
  /\ stream' = [stream EXCEPT ![f] = <<>>]
  /\ UNCHANGED cursor

(* A write keeps what is there and changes no other file.                  *)
Write(d) ==
  LET f == cursor[d].file
  IN  /\ got' = <<>>
      /\ cursor[d].writes
      /\ DOMAIN stream' = DOMAIN stream
      /\ \A g \in DOMAIN stream : g # f => stream'[g] = stream[g]
      /\ IsPrefix(stream[f], stream'[f])
      /\ UNCHANGED cursor

(* A read gets the bytes that follow, and gets some unless there are none. *)
Read(d) ==
  LET all == stream[cursor[d].file]
      pos == cursor[d].pos
      n   == Len(got')
  IN  /\ cursor[d] # Closed /\ ~cursor[d].writes
      /\ IsAt(got', all, pos)
      /\ pos < Len(all) => n > 0
      /\ cursor' = [cursor EXCEPT ![d].pos = pos + n]
      /\ UNCHANGED stream

(* A read from a given position that leaves the descriptor's alone.        *)
ReadAt(d) ==
  LET all == stream[cursor[d].file]
  IN  /\ cursor[d] # Closed /\ ~cursor[d].writes
      /\ \E pos \in 0 .. Len(all) : IsAt(got', all, pos)
      /\ UNCHANGED <<stream, cursor>>

Seek(d) ==
  /\ got' = <<>>
  /\ cursor[d] # Closed /\ ~cursor[d].writes
  /\ \E pos \in 0 .. Len(stream[cursor[d].file]) : cursor' = [cursor EXCEPT ![d].pos = pos]
  /\ UNCHANGED stream

(* A call that fails, or has nothing to do.                                *)
Refuse == got' = <<>> /\ UNCHANGED <<stream, cursor>>

Next ==
  \/ Refuse
  \/ \E d \in Descriptors : Close(d) \/ Write(d) \/ Read(d) \/ ReadAt(d) \/ Seek(d)
  \/ \E d \in Descriptors, f \in 1 .. Len(stream) + 1 : OpenToRead(d, f) \/ OpenToWrite(d, f)
  \/ \E f \in DOMAIN stream : Discard(f)
  \/ Create

Spec == Init /\ [][Next]_vars
=============================================================================
