------------------------------- MODULE IoSets -------------------------------
(***************************************************************************)
(* How data sets enter and leave a function: dandelion_init,               *)
(* dandelion_add_output, dandelion_exit and the getters of                 *)
(* src/runtime/runtime.c, between the set-up and the dump of the debug     *)
(* platform (src/system/platform/debug/debug.c).                           *)
(*                                                                         *)
(* The platform hands over one flat array of buffers in which each set is  *)
(* a range given by the offsets of the set and of its successor, the last  *)
(* one being a sentinel.  The runtime builds a tree from it, lets the      *)
(* program append buffers to the output sets, and flattens them at exit.   *)
(*                                                                         *)
(* Sets and buffers are numbered from 1.  An IoSet and an IoBuffer are     *)
(* records of the same size, the unit in which memory is counted.  Whether *)
(* dandelion_alloc finds memory is left open (module Heap models it).      *)
(***************************************************************************)
EXTENDS Integers, Sequences, FiniteSetsExt, Lists

CONSTANTS
  Folders,     \* what input_sets/ may hold: a sequence of items per set
  Sets,        \* number of folders in output_sets/
  Buffers,     \* buffers the program outputs, records of ident and data
  NoIdent,     \* NULL as the ident of a buffer
  Nested,      \* idents of files in folders that output_sets/ does not have
  MaxOutputs   \* outputs of the program, bounds the model

(* The items of some folders.                                              *)
Contents(folders) == UNION {Range(folders[i]) : i \in DOMAIN folders}

ASSUME IoAssumption ==
  /\ Sets \in Nat /\ MaxOutputs \in Nat
  /\ \A folders \in Folders : folders \in Seq(Seq(Contents(folders)))
  /\ \A b \in Buffers : DOMAIN b = {"ident", "data"}

VARIABLES
  sysdata,     \* the structure shared with the platform
  rtdata,      \* the trees of the runtime
  given,       \* what input_sets/ holds
  taken,       \* records handed out by dandelion_alloc; none is ever freed
  files,       \* what output_sets/ holds at the end
  status       \* "start", "running", or how the program has ended

vars == <<sysdata, rtdata, given, taken, files, status>>

UNINITIALIZED == 256
DANDELION_OOM == 259

(* What is found in memory nobody has written, or outside of an array.     *)
Garbage == [ident |-> NoIdent, data |-> NoIdent]

At(array, k) == IF k \in DOMAIN array THEN array[k] ELSE Garbage

-----------------------------------------------------------------------------
(* The platform.                                                           *)

(* The running sum of the lengths, one more for the sentinel.              *)
Offsets(lens) ==
  LET o[i \in 1 .. Len(lens) + 1] == IF i = 1 THEN 0 ELSE o[i - 1] + lens[i - 1]
  IN  o

Total(lens) == Offsets(lens)[Len(lens) + 1]

Lens(lists) == [i \in DOMAIN lists |-> Len(lists[i])]

__dandelion_platform_init(folders) ==
  [input_sets |-> Offsets(Lens(folders)), input_bufs |-> FlattenSeq(folders),
   output_sets |-> [i \in 1 .. Sets + 1 |-> 0], output_bufs |-> <<>>,
   exit_code |-> UNINITIALIZED]

(* Faulty: the last buffer of each set is forgotten.                       *)
Published_Short(sys, i) ==
  [j \in 1 .. sys.output_sets[i + 1] - sys.output_sets[i] - 1 |->
     At(sys.output_bufs, sys.output_sets[i] + j)]

(* The buffers of an output set as the platform finds them.                *)
Published(sys, i) ==
  [j \in 1 .. sys.output_sets[i + 1] - sys.output_sets[i] |->
     At(sys.output_bufs, sys.output_sets[i] + j)]

(* The buffers of all sets in the order in which they are dumped.          *)
Todo(sys) ==
  FlattenSeq([i \in 1 .. Sets |->
                [j \in DOMAIN Published(sys, i) |-> <<i, Published(sys, i)[j]>>]])

(* A buffer without ident is passed over, another one becomes a file of    *)
(* its folder in place of one of the same name.                            *)
dump_io_buf(f, e) ==
  IF e[2].ident = NoIdent THEN f
  ELSE [x \in DOMAIN f \cup {<<e[1], e[2].ident>>} |->
          IF x = <<e[1], e[2].ident>> THEN e[2].data ELSE f[x]]

(* The first file that cannot be opened ends the process.                  *)
dump_global_data(sys) ==
  LET todo == Todo(sys)
      bad  == {k \in DOMAIN todo : todo[k][2].ident \in Nested}
      done == IF bad = {} THEN todo ELSE SubSeq(todo, 1, Min(bad) - 1)
      written[k \in 0 .. Len(done)] ==
        IF k = 0 THEN <<>> ELSE dump_io_buf(written[k - 1], done[k])
  IN  [complete |-> bad = {}, files |-> written[Len(done)]]

__dandelion_platform_exit(sys) ==
  /\ sysdata' = sys
  /\ files' = dump_global_data(sys).files
  /\ status' = IF dump_global_data(sys).complete THEN "exited" ELSE "aborted"

-----------------------------------------------------------------------------
(* The runtime.                                                            *)

(* Faulty: the offset of the set is not added.                             *)
Tree_NoOffset(sys) ==
  [i \in 1 .. Len(sys.input_sets) - 1 |->
     [j \in 1 .. sys.input_sets[i + 1] - sys.input_sets[i] |-> sys.input_bufs[j]]]

Tree(sys) ==
  [i \in 1 .. Len(sys.input_sets) - 1 |->
     [j \in 1 .. sys.input_sets[i + 1] - sys.input_sets[i] |->
        sys.input_bufs[sys.input_sets[i] + j]]]

EmptySet == [buffers |-> <<>>, buffers_len |-> 0, buffers_cap |-> 0]

(* An allocation of no bytes returns NULL and takes nothing; the runtime   *)
(* expects that.  Any other one may fail.                                  *)
dandelion_init ==
  /\ status = "start"
  /\ LET sys == __dandelion_platform_init(given)
         tree == Tree(sys)
         requests == <<Len(tree)>> \o Lens(tree) \o <<Sets>>
     IN  \/ /\ sysdata' = sys
            /\ rtdata' = [input_sets |-> tree,
                          output_sets |-> [i \in 1 .. Sets |-> EmptySet]]
            /\ taken' = Total(requests)
            /\ status' = "running"
            /\ UNCHANGED files
         \/ /\ \E n \in Range(requests) : n # 0
            /\ __dandelion_platform_exit([sys EXCEPT !.exit_code = DANDELION_OOM])
            /\ UNCHANGED <<rtdata, taken>>
  /\ UNCHANGED given

dandelion_input_buffer_count(set_idx) ==
  IF set_idx \in DOMAIN rtdata.input_sets THEN Len(rtdata.input_sets[set_idx]) ELSE 0

dandelion_get_input(set_idx, buf_idx) ==
  IF buf_idx \in 1 .. dandelion_input_buffer_count(set_idx)
  THEN rtdata.input_sets[set_idx][buf_idx]
  ELSE NoIdent

(* Faulty: the new array is one record larger than the code says.          *)
NewCap_Add(cap) == 2 * (cap + 1)

NewCap(cap) == IF cap = 0 THEN 1 ELSE 2 * cap

(* Faulty: the buffers stay in the old array.                              *)
Grown_NoCopy(set) ==
  [set EXCEPT !.buffers = [k \in 1 .. NewCap(set.buffers_cap) |-> Garbage],
              !.buffers_cap = NewCap(@)]

(* The buffers move to a new array, the old one is left behind.            *)
Grown(set) ==
  [set EXCEPT !.buffers = [k \in 1 .. NewCap(set.buffers_cap) |->
                             IF k <= set.buffers_len THEN At(@, k) ELSE Garbage],
              !.buffers_cap = NewCap(@)]

(* The buffer is stored behind the last one.  Outside of the array that is *)
(* a write into the memory of somebody else.                               *)
Appended(set, buf) ==
  [set EXCEPT !.buffers = [k \in DOMAIN @ |->
                             IF k = set.buffers_len + 1 THEN buf ELSE @[k]],
              !.buffers_len = @ + 1]

Store(set_idx, set, buf) ==
  /\ rtdata' = [rtdata EXCEPT !.output_sets[set_idx] = Appended(set, buf)]
  /\ status' = IF set.buffers_len + 1 \in DOMAIN set.buffers
               THEN "running" ELSE "overrun"
  /\ UNCHANGED <<sysdata, given, files>>

Outputs == Total([i \in 1 .. Sets |-> rtdata.output_sets[i].buffers_len])

dandelion_add_output(set_idx, buf) ==
  /\ status = "running"
  /\ \/ set_idx \notin 1 .. Sets /\ UNCHANGED vars
     \/ /\ set_idx \in 1 .. Sets
        /\ Outputs < MaxOutputs
        /\ LET set == rtdata.output_sets[set_idx]
           IN  \/ /\ set.buffers_len # set.buffers_cap
                  /\ Store(set_idx, set, buf)
                  /\ UNCHANGED taken
               \/ /\ set.buffers_len = set.buffers_cap
                  /\ Store(set_idx, Grown(set), buf)
                  /\ taken' = taken + NewCap(set.buffers_cap)
               \/ \* no memory: the result is not checked, a store through NULL
                  /\ set.buffers_len = set.buffers_cap
                  /\ status' = "crashed"
                  /\ UNCHANGED <<sysdata, rtdata, given, taken, files>>

(* The output sets one behind the other.                                   *)
Flat(sets, offsets) ==
  [k \in 1 .. offsets[Sets + 1] |->
     LET i == CHOOSE i \in 1 .. Sets : offsets[i] < k /\ k <= offsets[i + 1]
     IN  At(sets[i].buffers, k - offsets[i])]

dandelion_exit(exit_code) ==
  /\ status = "running"
  /\ LET sets == rtdata.output_sets
         offsets == Offsets([i \in 1 .. Sets |-> sets[i].buffers_len])
         sys == [sysdata EXCEPT !.exit_code = exit_code]
     IN  \/ /\ __dandelion_platform_exit([sys EXCEPT !.output_bufs = Flat(sets, offsets),
                                                     !.output_sets = offsets])
            /\ taken' = taken + offsets[Sets + 1]
         \/ /\ offsets[Sets + 1] # 0
            /\ __dandelion_platform_exit([sys EXCEPT !.exit_code = DANDELION_OOM])
            /\ UNCHANGED taken
  /\ UNCHANGED <<rtdata, given>>

-----------------------------------------------------------------------------
(* The structures before dandelion_init; it reads none of them.            *)
Init ==
  /\ given \in Folders
  /\ sysdata = __dandelion_platform_init(<<>>)
  /\ rtdata = [input_sets |-> <<>>,
               output_sets |-> [i \in 1 .. Sets |->
                 [buffers |-> <<>>, buffers_len |-> 0, buffers_cap |-> 0]]]
  /\ taken = 0
  /\ files = <<>>
  /\ status = "start"

Next ==
  \/ dandelion_init
  \/ \E set_idx \in 1 .. Sets + 1, buf \in Buffers : dandelion_add_output(set_idx, buf)
  \/ \E exit_code \in {0, 1} : dandelion_exit(exit_code)

Spec == Init /\ [][Next]_vars

-----------------------------------------------------------------------------
(* Properties.                                                             *)

(* Through dandelion_input_buffer_count and dandelion_get_input a running  *)
(* program finds exactly the items of the input folders, each in its set   *)
(* and in order, and nothing behind the last one: splitting the flat array *)
(* at the offsets inverts what the platform did, empty sets included.      *)
InputsServed ==
  status = "running" =>
    \A i \in 1 .. Len(given) + 1, j \in 1 .. Len(sysdata.input_bufs) + 1 :
      dandelion_get_input(i, j) =
        IF i \in DOMAIN given /\ j \in DOMAIN given[i] THEN given[i][j] ELSE NoIdent

(* No array of outputs is ever freed when it grows.  Even so, the records  *)
(* taken for a set stay below four times the buffers in it, the doubling   *)
(* of buffers_cap sees to that.                                            *)
GrowthBounded ==
  status = "running" =>
    taken <= Len(given) + Len(sysdata.input_bufs) + Sets
             + Total([i \in 1 .. Sets |-> Max({0, 4 * rtdata.output_sets[i].buffers_len - 3})])

Listed(i) == SubSeq(rtdata.output_sets[i].buffers, 1, rtdata.output_sets[i].buffers_len)

(* When the process ends without an error of the runtime or of the dump,   *)
(* output_sets/ has a file for every ident that was output, with the data  *)
(* that was output last under this ident in this set, and no other file.   *)
DumpedLast ==
  (status = "exited" /\ sysdata.exit_code # DANDELION_OOM) =>
    LET named == {x \in (1 .. Sets) \X (1 .. Outputs) :
                    x[2] \in DOMAIN Listed(x[1]) /\ Listed(x[1])[x[2]].ident # NoIdent}
        name(x) == <<x[1], Listed(x[1])[x[2]].ident>>
    IN  /\ DOMAIN files = {name(x) : x \in named}
        /\ \A x \in named :
             (\A y \in named : name(y) = name(x) => y[2] <= x[2])
               => files[name(x)] = Listed(x[1])[x[2]].data

(* The runtime implements output lists that are published all at once:     *)
(* growing an array loses and reorders nothing, dandelion_exit hands over  *)
(* every buffer in its set and in order, and an exit for want of memory    *)
(* hands over nothing.                                                     *)
Service == INSTANCE OutputService WITH
  Lists <- 1 .. Sets,
  Items <- Buffers,
  lists <- [i \in 1 .. Sets |-> Listed(i)],
  published <- [i \in 1 .. Sets |-> Published(sysdata, i)],
  phase <- CASE status \in {"start", "running"} -> "open"
             [] status \in {"exited", "aborted"} /\ sysdata.exit_code # DANDELION_OOM -> "done"
             [] OTHER -> "failed"

ServesOutputs == Service!Spec
=============================================================================
