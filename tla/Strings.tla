------------------------------ MODULE Strings ------------------------------
(***************************************************************************)
(* The functions of the file system that take strings apart: paths into    *)
(* components (src/file_system/paths.c), the comparison of names (paths.h) *)
(* and the item argv or environ into an array of strings                   *)
(* (setup_charpparray of src/file_system/file_system.c); and the functions *)
(* that move bytes (src/system/freestanding.c).                            *)
(*                                                                         *)
(* They are checked for every text up to a length: a state is a text, and  *)
(* a step adds a character to it.  A character is a string of length one,  *)
(* or, where the order matters, a number with NUL as 0.  Positions count   *)
(* from 1, so that a loop up to `index < length` ends at Len + 1.          *)
(***************************************************************************)
EXTENDS Integers, Sequences, SequencesExt, FiniteSetsExt

CONSTANTS
  Alphabet,  \* the characters of each kind of text
  MaxLen,    \* the greatest length of each kind of text
  WORD       \* sizeof(size_t) and sizeof(char *)

ASSUME StringsAssumption == DOMAIN MaxLen = DOMAIN Alphabet /\ WORD \in Nat \ {0}

VARIABLES
  kind,      \* "path", "name", "args" or "bytes"
  text

-----------------------------------------------------------------------------
(* paths.c: a path is a sequence of characters.                            *)

(* The first position from i on where P holds, or the one behind the end.  *)
Find(p, i, P(_)) == Min({j \in i .. Len(p) + 1 : j = Len(p) + 1 \/ P(p[j])})

get_next_component(p) ==
  LET from == Find(p, 1, LAMBDA c : c # "/")
      to   == Find(p, from, LAMBDA c : c = "/")
  IN  [from |-> from, to |-> to]

get_component_advance(p) ==
  LET next == get_next_component(p)
  IN  [component |-> SubSeq(p, next.from, next.to - 1), rest |-> SubSeq(p, next.to, Len(p))]

(* The loop of find_file_path and create_directories over a path.          *)
RECURSIVE Components(_)
Components(p) ==
  LET next == get_component_advance(p)
  IN  IF next.component = <<>> THEN <<>> ELSE <<next.component>> \o Components(next.rest)

get_directories(p) ==
  SubSeq(p, 1, Max({1} \cup {i \in DOMAIN p : p[i] = "/"}) - 1)

(* Faulty: the slash in front stays.                                       *)
get_file_WithSlash(p) ==
  LET last  == Max({1} \cup {i \in DOMAIN p : p[i] # "/"})
      start == Max({1} \cup {i \in 1 .. last : p[i] = "/"})
  IN  SubSeq(p, start, Len(p))

(* For a path that is not empty.                                           *)
get_file(p) ==
  LET last  == Max({1} \cup {i \in DOMAIN p : p[i] # "/"})
      start == Max({1} \cup {i \in 1 .. last : p[i] = "/"})
  IN  SubSeq(p, IF p[start] = "/" THEN start + 1 ELSE start, Len(p))

-----------------------------------------------------------------------------
(* paths.h: names end at their length or at NUL.                           *)

NUL == 0

(* Faulty: the first characters decide alone.                              *)
namecmp_Common(a, b) ==
  LET stops == {i \in 1 .. Min({Len(a), Len(b)}) : a[i] # b[i] \/ a[i] = NUL}
      i     == Min(stops)
  IN  IF stops = {} \/ a[i] = b[i] THEN 0
      ELSE IF a[i] < b[i] THEN -1 ELSE 1

namecmp(a, b) ==
  LET stops == {i \in 1 .. Min({Len(a), Len(b)}) : a[i] # b[i] \/ a[i] = NUL}
      i     == Min(stops)
  IN  IF stops # {}
      THEN IF a[i] = b[i] THEN 0
           ELSE IF a[i] = NUL THEN -1
           ELSE IF b[i] = NUL THEN 1
           ELSE IF a[i] < b[i] THEN -1 ELSE 1
      ELSE IF Len(a) < Len(b) /\ b[Len(a) + 1] # NUL THEN -1
      ELSE IF Len(b) < Len(a) /\ a[Len(b) + 1] # NUL THEN 1
      ELSE 0

-----------------------------------------------------------------------------
(* setup_charpparray for the bytes d.                                      *)

Quotes == {"'", "\""}

(* The end of the argument that begins at i: a space outside of quotes.    *)
(* When a quote is not closed this is one more than the position behind    *)
(* the data.                                                               *)
RECURSIVE ArgEnd(_, _)
ArgEnd(d, i) ==
  IF i > Len(d) \/ d[i] = " " THEN i
  ELSE IF d[i] \in Quotes THEN ArgEnd(d, Find(d, i + 1, LAMBDA c : c = d[i]) + 1)
  ELSE ArgEnd(d, i + 1)

(* Where the arguments are; both passes over the data go through them.     *)
RECURSIVE Spans(_, _)
Spans(d, i) ==
  IF \A j \in i .. Len(d) : d[j] = " " THEN <<>>
  ELSE LET from == Find(d, i, LAMBDA c : c # " ")
       IN  <<[from |-> from, to |-> ArgEnd(d, from)]>> \o Spans(d, ArgEnd(d, from))

(* The characters that are counted for one argument.                       *)
RECURSIVE num_characters(_, _)
num_characters(d, i) ==
  LET closing == Find(d, i + 1, LAMBDA c : c = d[i])
  IN  IF i > Len(d) \/ d[i] = " " THEN 0
      ELSE IF d[i] \in Quotes THEN closing - i - 1 + num_characters(d, closing + 1)
      ELSE 1 + num_characters(d, i + 1)

(* Faulty: quotes are copied.                                              *)
Copied_WithQuotes(mem, i, to) == SubSeq(mem, i, Min({to, Len(mem)}) - 1)

(* The characters that are copied for it, from what is in memory: the data *)
(* and one more byte.                                                      *)
RECURSIVE Copied(_, _, _)
Copied(mem, i, to) ==
  LET closing == Min({j \in i + 1 .. to : j = to \/ mem[j] = mem[i]})
  IN  IF i >= to THEN <<>>
      ELSE IF mem[i] \in Quotes
      THEN SubSeq(mem, i + 1, closing - 1) \o Copied(mem, closing + 1, to)
      ELSE <<mem[i]>> \o Copied(mem, i + 1, to)

(* Faulty: nothing is added for the last pointer.                          *)
ArraySize_NoEnd(arguments) == WORD * arguments

(* The bytes asked for the array of pointers, and the words that           *)
(* dandelion_alloc gives for them.                                         *)
ArraySize(arguments) == WORD * arguments + 1

Words(size) == (size + WORD - 1) \div WORD

(* The words of the array of pointers, and for each argument the size of   *)
(* its block and what is copied into it.  Without data `pp_array[0] = NULL`*)
(* replaces the caller's pointer to the new array: there is none.          *)
setup_charpparray(d, behind) ==
  LET spans == Spans(d, 1)
  IN  [words   |-> IF d = <<>> THEN 0 ELSE Words(ArraySize(Len(spans))),
       strings |-> [k \in DOMAIN spans |->
                      [size  |-> num_characters(d, spans[k].from) + 1,
                       chars |-> Copied(Append(d, behind), spans[k].from, spans[k].to)]]]

-----------------------------------------------------------------------------
(* freestanding.c, on the memory m.                                        *)

(* size bytes are loaded and then stored.                                  *)
Stored(m, to, from, size) ==
  [i \in DOMAIN m |-> IF i \in to .. to + size - 1 THEN m[from + i - to] ELSE m[i]]

(* Forward, in words while there are any.                                  *)
memcpy(m, to, from, n) ==
  LET words == n \div WORD
      steps == [k \in 1 .. words |-> [at |-> (k - 1) * WORD, size |-> WORD]]
               \o [k \in 1 .. n % WORD |-> [at |-> words * WORD + k - 1, size |-> 1]]
      Step(mem, s) == Stored(mem, to + s.at, from + s.at, s.size)
  IN  FoldLeft(Step, m, steps)

(* Faulty: the direction is always forward.                                *)
memmove_Forward(m, to, from, n) == memcpy(m, to, from, n)

memmove(m, to, from, n) ==
  LET Step(mem, k) == Stored(mem, to + n - k, from + n - k, 1)
  IN  IF to > from /\ to - from < n
      THEN FoldLeft(Step, m, [k \in 1 .. n |-> k])
      ELSE memcpy(m, to, from, n)

-----------------------------------------------------------------------------
Init == kind \in DOMAIN Alphabet /\ text = <<>>

Next ==
  /\ Len(text) < MaxLen[kind]
  /\ \E c \in Alphabet[kind] : text' = Append(text, c)
  /\ UNCHANGED kind

Spec == Init /\ [][Next]_<<kind, text>>

-----------------------------------------------------------------------------
(* Properties.                                                             *)

(* The components of a path: its runs of characters other than '/'.        *)
Runs(p) ==
  LET starts == SetToSortSeq({i \in DOMAIN p : p[i] # "/" /\ (i = 1 \/ p[i - 1] = "/")}, <)
      length(i) == Max({n \in 1 .. Len(p) + 1 - i : \A j \in i .. i + n - 1 : p[j] # "/"})
  IN  [k \in DOMAIN starts |-> SubSeq(p, starts[k], starts[k] + length(starts[k]) - 1)]

(* A path is taken apart into its components, whatever slashes are around  *)
(* and between them; and get_directories and get_file cut it in front of   *)
(* the last one, if no slash follows it.                                   *)
PathsSplit ==
  kind = "path" =>
    /\ Components(text) = Runs(text)
    /\ text # <<>> /\ Last(text) # "/" =>
         /\ Components(get_directories(text)) = Front(Runs(text))
         /\ get_file(text) = Last(Runs(text))

(* The part of a name that counts, and the order of names letter by letter.*)
Cut(a) == SubSeq(a, 1, Min({i \in 1 .. Len(a) + 1 : i = Len(a) + 1 \/ a[i] = NUL}) - 1)

Before(a, b) ==
  \E k \in 0 .. Len(a) :
    /\ k < Len(b)
    /\ SubSeq(a, 1, k) = SubSeq(b, 1, k)
    /\ k = Len(a) \/ a[k + 1] < b[k + 1]

(* namecmp is that order, for two names of any lengths, each with or       *)
(* without a NUL: the sorted lists of directories depend on it.            *)
NamesOrdered ==
  kind = "name" =>
    \A k \in 0 .. Len(text) :
      LET a == SubSeq(text, 1, k)
          b == SubSeq(text, k + 1, Len(text))
      IN  namecmp(a, b) = IF Before(Cut(a), Cut(b)) THEN -1
                          ELSE IF Before(Cut(b), Cut(a)) THEN 1 ELSE 0

(* "Both the '' and "" can be used to escape strings that contain spaces.  *)
(* ... everything within the outermost set of quotataion marks will be     *)
(* esacaped" (README): reading character by character, with the quote that *)
(* is open and the words so far.                                           *)
Read(st, c) ==
  CASE st.quote # "" /\ c = st.quote -> [st EXCEPT !.quote = ""]
    [] st.quote # "" /\ c # st.quote -> [st EXCEPT !.word = Append(@, c)]
    [] st.quote = "" /\ c \in Quotes -> [st EXCEPT !.quote = c, !.inside = TRUE]
    [] st.quote = "" /\ c = " " /\ st.inside ->
         [quote |-> "", inside |-> FALSE, word |-> <<>>, words |-> Append(st.words, st.word)]
    [] st.quote = "" /\ c = " " /\ ~st.inside -> st
    [] OTHER -> [st EXCEPT !.word = Append(@, c), !.inside = TRUE]

Reading(d) ==
  FoldLeft(Read, [quote |-> "", inside |-> FALSE, word |-> <<>>, words |-> <<>>], d)

Separated(d) ==
  LET st == Reading(d) IN IF st.inside THEN Append(st.words, st.word) ELSE st.words

(* If all quotes are closed the arguments are the words that the README    *)
(* describes, each in a block that its characters and a NUL fill exactly.  *)
ArgumentsSplit ==
  kind = "args" /\ Reading(text).quote = "" =>
    LET strings == setup_charpparray(text, "a").strings
    IN  /\ [k \in DOMAIN strings |-> strings[k].chars] = Separated(text)
        /\ \A k \in DOMAIN strings : strings[k].size = Len(strings[k].chars) + 1

(* Whatever the data is, and whatever byte follows it, no string is longer *)
(* than its block and the NULL behind the last pointer is inside of the    *)
(* array, for which a byte and not a pointer was added.                    *)
StringsFit ==
  kind = "args" /\ text # <<>> =>
    \A behind \in Alphabet["args"] :
      LET array == setup_charpparray(text, behind)
      IN  /\ \A k \in DOMAIN array.strings :
               Len(array.strings[k].chars) <= array.strings[k].size
          /\ Len(array.strings) < array.words

(* "need to make sure we copy non overlapping regions first before         *)
(* overwriting" (memmove): however source and target overlap, the target   *)
(* is then what the source was, and nothing else has changed.  This relies *)
(* on memcpy, which copies in words, "as memmove assumes this to be true". *)
OverlapsMoved ==
  kind = "bytes" =>
    LET m == [i \in DOMAIN text |-> i]
    IN  \A to, from \in DOMAIN m :
          \A n \in 0 .. Len(m) + 1 - Max({to, from}) :
            memmove(m, to, from, n) =
              [i \in DOMAIN m |-> IF to <= i /\ i < to + n THEN from + i - to ELSE i]

=============================================================================
