------------------------------ MODULE Session ------------------------------
(***************************************************************************)
(* The life of a program: __initialization and _exit of                    *)
(* src/newlib_shim/shim.c with fs_initialize and fs_terminate of           *)
(* src/file_system/file_system.c.  fs_initialize turns the input sets into *)
(* folders of the tree of Namespace, opens the standard streams and sets   *)
(* up argv and environ.  main calls the file system through the wrappers   *)
(* of the shim.  At the end fs_terminate walks through the folders of the  *)
(* output sets and hands their files to the runtime.                       *)
(*                                                                         *)
(* One step is one set or item of fs_initialize, one call of main, or one  *)
(* file of the walk, whose recursion is a stack.  What files hold is left  *)
(* out, and of an error only that it is not 0 matters here.                *)
(***************************************************************************)
EXTENDS Namespace

CONSTANTS
  Given,   \* what the platform may hand over: a set of records with
           \*   inputs   a sequence of [name, items], items a sequence of [path, data]
           \*   outputs  a sequence of names of sets
           \* where names and paths are sequences of components, empty when the
           \* identifier is, and data tells whether the item has any
  MaxCalls, \* number of calls of main that are followed
  Allocs   \* what comes of allocations other than of D_File structures: {TRUE}
           \* when memory suffices, else BOOLEAN

Path == Seq(Names \cup {DOT, DOTDOT})

ASSUME SessionAssumption ==
  /\ 1 .. 10 \subseteq Names /\ 0 .. 2 \subseteq Descriptors
  /\ MaxCalls \in Nat /\ Allocs \subseteq BOOLEAN /\ TRUE \in Allocs
  /\ \A g \in Given : /\ g.inputs \in Seq([name: Path, items: Seq([path: Path, data: BOOLEAN])])
                       /\ g.outputs \in Seq(Path)

(* The names that the code knows, in the order of namecmp, and two others. *)
ARGV == 1
DEV == 2
ENVIRON == 3
OUT == 4
STDERR == 5
STDIN == 6
STDIO == 7
STDOUT == 8
URANDOM == 9
X == 10

E == 1   \* any error number

VARIABLES
  given,    \* the sets of this program
  prog,     \* where the program is, a record with
            \*   pc             "boot", "inputs", "folders", "stdin", "main", "ending", "exited"
            \*   set, item, dir the set and item it is at, and the folder of the set
            \*   argv, environ  "null", "given" or "empty"
            \*   placed         the files made of input items, each with its full path
            \*   walk           the calls of add_output_from_file that have not returned:
            \*                  the next file and the path of its folder
            \*   calls          how many calls main has made
            \*   lost           whether fs_terminate has ignored that memory ran out
            \*   errno          errno of newlib
            \*   code           what main returned, then what dandelion_exit was called with
  outputs   \* what each output set was given

own == <<given, prog, outputs>>
all == <<vars, own>>

-----------------------------------------------------------------------------
(* fs_initialize.                                                          *)

At(pc) == status = "ok" /\ prog.pc = pc

(* A step of the program itself that leaves the tree ns and the given      *)
(* descriptors.                                                            *)
Builds(ns, opened) ==
  /\ node' = ns
  /\ open_files' = opened
  /\ UNCHANGED <<dirs, ret, status, given, outputs>>

Breaks(fault) == Crashes(fault) /\ UNCHANGED own

(* Faulty: the error is not passed on.                                     *)
Leave_Quietly ==
  /\ prog' = [prog EXCEPT !.pc = "exited"]
  /\ UNCHANGED <<vars, given, outputs>>

(* The program ends, without a walk through the output sets that are left. *)
Leave ==
  /\ prog' = [prog EXCEPT !.pc = "exited", !.code = E]
  /\ UNCHANGED <<vars, given, outputs>>

(* The static folders and the device, then stderr and stdout, which are    *)
(* opened before they are linked.                                          *)
StdioFolder == 4
Static ==
  <<StaticNode(0), StaticNode(Stored(DEV, 0)),
    [StaticNode(Stored(URANDOM, 0)) EXCEPT !.dir = FALSE], StaticNode(Stored(STDIO, 0)),
    NewNode(Stored(STDERR, 0), FALSE, <<0, 1>>), NewNode(Stored(STDOUT, 0), FALSE, <<0, 1>>)>>

StaticTree ==
  LET links == <<<<ROOT, 2>>, <<2, 3>>, <<ROOT, StdioFolder>>,
                 <<StdioFolder, 5>>, <<StdioFolder, 6>>>>
      tree[k \in 0 .. Len(links)] ==
        IF k = 0 THEN Static ELSE link_file_to_folder(tree[k - 1], links[k][1], links[k][2]).ns
  IN  tree[Len(links)]

AddStatic ==
  /\ At("boot")
  /\ \/ FALSE \in Allocs /\ Leave
     \/ /\ Builds(StaticTree, [open_files EXCEPT ![1] = 6, ![2] = 5])
        /\ prog' = [prog EXCEPT !.pc = "inputs"]

(* Faulty: prevent_up is not looked at.                                    *)
AddDirectories_Up(start, path) == create_directories(node, start, path, <<0, 0>>, TRUE)

(* create_directories with prevent_up.                                     *)
AddDirectories(start, path) ==
  IF DOTDOT \in Range(path) THEN Tree(node, NULL)
  ELSE create_directories(node, start, path, <<0, 0>>, TRUE)

GoTo(k, pc) == [prog EXCEPT !.set = k, !.item = 0, !.dir = NULL, !.pc = pc]

Set == given.inputs[prog.set]
Item == Set.items[prog.item]

(* The folder of an input set; a set without a name is left out.           *)
AddInputSet ==
  LET way == AddDirectories(ROOT, Set.name)
  IN  /\ At("inputs") /\ prog.set <= Len(given.inputs) /\ prog.item = 0
      /\ \/ /\ Set.name = <<>>
            /\ Builds(node, open_files)
            /\ prog' = GoTo(prog.set + 1, "inputs")
         \/ /\ Set.name # <<>> /\ way.at > 0
            /\ Builds(way.ns, open_files)
            /\ prog' = [prog EXCEPT !.item = 1, !.dir = way.at]
         \/ Set.name # <<>> /\ way.at = NULL /\ Leave
         \/ Set.name # <<>> /\ way.at < 0 /\ Breaks(way.at)

(* Items called stdin, argv and environ of the set stdio.  The array of an *)
(* item without data is overwritten by NULL; the allocations of            *)
(* setup_charpparray are not checked.                                      *)
Special(name) == Set.name = <<STDIO>> /\ Last(Item.path) = name

Array(name, old) == IF ~Special(name) THEN old ELSE IF Item.data THEN "given" ELSE "null"

Placed(r, f) ==
  \/ r.at = NULL /\ Leave
  \/ r.at < 0 /\ Breaks(r.at)
  \/ r.at > 0 /\ (Special(ARGV) \/ Special(ENVIRON)) /\ FALSE \in Allocs /\ Breaks(Null)
  \/ /\ r.at > 0
     /\ IF Special(STDIN)
        THEN Builds([r.ns EXCEPT ![f].opens = Up(@)], [open_files EXCEPT ![0] = f])
        ELSE Builds(r.ns, open_files)
     /\ prog' = [prog EXCEPT !.item = @ + 1, !.argv = Array(ARGV, @),
                   !.environ = Array(ENVIRON, @),
                   !.placed = Append(@, [path |-> Set.name \o Item.path, file |-> f])]

(* The file of an input item; an item without a name is left out.          *)
AddInputItem ==
  LET way  == AddDirectories(prog.dir, Front(Item.path))
      with == Append(way.ns, NewNode(Stored(Last(Item.path), 0), FALSE, <<0, 0>>))
  IN  /\ At("inputs") /\ prog.item > 0 /\ prog.item <= Len(Set.items)
      /\ \/ /\ Item.path = <<>>
            /\ Builds(node, open_files)
            /\ prog' = [prog EXCEPT !.item = @ + 1]
         \/ Item.path # <<>> /\ way.at = NULL /\ Leave
         \/ Item.path # <<>> /\ way.at < 0 /\ Breaks(way.at)
         \/ Item.path # <<>> /\ way.at > 0 /\ Len(way.ns) = MaxNodes /\ Leave
         \/ /\ Item.path # <<>> /\ way.at > 0 /\ Len(way.ns) < MaxNodes
            /\ Placed(link_file_to_folder(with, way.at, Len(with)), Len(with))

NextInputSet ==
  /\ At("inputs")
  /\ Builds(node, open_files)
  /\ \/ /\ prog.item > 0 /\ prog.item > Len(Set.items)
        /\ prog' = GoTo(prog.set + 1, "inputs")
     \/ /\ prog.set > Len(given.inputs)
        /\ prog' = GoTo(1, "folders")

(* Folders for the output sets.                                            *)
AddOutputFolder ==
  LET way == AddDirectories(ROOT, given.outputs[prog.set])
  IN  /\ At("folders")
      /\ \/ /\ prog.set > Len(given.outputs)
            /\ Builds(node, open_files)
            /\ prog' = GoTo(1, "stdin")
         \/ /\ prog.set <= Len(given.outputs) /\ way.at > 0
            /\ Builds(way.ns, open_files)
            /\ prog' = GoTo(prog.set + 1, "folders")
         \/ prog.set <= Len(given.outputs) /\ way.at = NULL /\ Leave
         \/ prog.set <= Len(given.outputs) /\ way.at < 0 /\ Breaks(way.at)

(* Empty arrays, where none were given; their allocation is not checked.   *)
Ready ==
  LET Made(a) == IF a = "null" THEN "empty" ELSE a
  IN  prog' = [prog EXCEPT !.pc = "main", !.argv = Made(@), !.environ = Made(@)]

AddStdin ==
  LET f    == Len(node) + 1
      with == Append(node, NewNode(Stored(STDIN, 0), FALSE, <<0, 1>>))
      r    == link_file_to_folder(with, StdioFolder, f)
  IN  /\ At("stdin")
      /\ \/ open_files[0] = NULL /\ Len(node) = MaxNodes /\ Leave
         \/ "null" \in {prog.argv, prog.environ} /\ FALSE \in Allocs /\ Breaks(Null)
         \/ /\ open_files[0] = NULL /\ Len(node) < MaxNodes
            /\ Builds(r.ns, [open_files EXCEPT ![0] = f])
            /\ Ready
         \/ open_files[0] # NULL /\ Builds(node, open_files) /\ Ready

fs_initialize ==
  \/ AddStatic \/ AddInputSet \/ AddInputItem \/ NextInputSet
  \/ AddOutputFolder \/ AddStdin

-----------------------------------------------------------------------------
(* main, and the end of the program.                                       *)

(* errno after a call returned; only failures set it.                      *)
process_error(result) == IF result < 0 THEN E ELSE prog.errno

(* The wrappers of calls that change the tree.                             *)
Call ==
  /\ At("main") /\ prog.calls < MaxCalls
  /\ \/ \E path \in Paths, creat, excl \in BOOLEAN : dandelion_open(path, creat, excl)
     \/ \E d \in Descriptors : dandelion_close(d)
     \/ \E path \in Paths : dandelion_unlink(path)
     \/ \E path \in Paths : dandelion_mkdir(path)
     \/ \E path \in Paths : dandelion_rmdir(path)
  /\ prog' = [prog EXCEPT !.errno = process_error(ret'.code), !.calls = @ + 1]
  /\ UNCHANGED <<given, outputs>>

(* stat, lstat and access: they fail when there is no file.                *)
stat(path) ==
  /\ At("main") /\ find_file(node, path) = NULL
  /\ prog' = [prog EXCEPT !.errno = process_error(ENOTDIR)]
  /\ UNCHANGED <<vars, given, outputs>>

(* The symbols without an implementation fail and set errno, which stays   *)
(* set: those for users and streams, for processes and time, for patterns, *)
(* limits, links and signals, and for sockets.                             *)
SetsErrno ==
  /\ At("main")
  /\ prog' = [prog EXCEPT !.errno = E]
  /\ UNCHANGED <<vars, given, outputs>>

Streams == SetsErrno
Processes == SetsErrno
Limits == SetsErrno
Sockets == SetsErrno

Unsupported == Streams \/ Processes \/ Limits \/ Sockets

(* main returns result, or calls exit, whose status is not used.           *)
Ending(result) ==
  /\ prog' = [GoTo(1, "ending") EXCEPT !.code = result]
  /\ UNCHANGED <<vars, given, outputs>>

Return == At("main") /\ \E result \in {0, E} : Ending(result)

_exit == At("main") /\ Ending(prog.errno)

(* The identifier of an output set is looked up as one name in the root.   *)
FolderOf(ident) ==
  IF Len(ident) = 1 THEN find_file_in_dir(node, ROOT, ident[1]) ELSE NULL

NextOutputSet ==
  /\ prog' = [GoTo(prog.set + 1, "ending") EXCEPT !.walk = <<>>]
  /\ UNCHANGED <<vars, given, outputs>>

(* A file in the place of the folder is searched for children.             *)
OutputSet ==
  LET d == FolderOf(given.outputs[prog.set])
  IN  /\ At("ending") /\ prog.walk = <<>> /\ prog.set <= Len(given.outputs)
      /\ \/ d < 0 /\ Breaks(d)
         \/ d = NULL /\ NextOutputSet
         \/ d > 0 /\ ~node[d].dir /\ TRUE \in Filled /\ Breaks(Confused)
         \/ d > 0 /\ ~node[d].dir /\ FALSE \in Filled /\ NextOutputSet
         \/ /\ d > 0 /\ node[d].dir
            /\ prog' = [prog EXCEPT !.walk = <<[next |-> node[d].child, path |-> <<>>]>>]
            /\ UNCHANGED <<vars, given, outputs>>

(* The walk after the file it is at, and after an error, which returns     *)
(* from all calls to the loop of fs_terminate.                             *)
Advanced(w) == [w EXCEPT ![Len(w)].next = node[@].next]

(* Faulty: the loop does not go on behind the file.                        *)
Unwound_Stuck(w) == <<w[1]>>

Unwound(w) == IF Len(w) = 1 THEN Advanced(w) ELSE <<w[1]>>

Goes(w, gone) ==
  /\ prog' = [prog EXCEPT !.walk = w, !.lost = @ \/ gone]
  /\ UNCHANGED <<vars, given>>

(* Faulty: the names are ignored in every folder.                          *)
Ignored_Everywhere(f) == node[f].name \in {Stored(n, 0) : n \in {ARGV, ENVIRON, STDIN}}

(* Files that fs_terminate ignores in the folder stdio.                    *)
Ignored(f) ==
  /\ Len(prog.walk) = 1 /\ given.outputs[prog.set] = <<STDIO>>
  /\ node[f].name \in {Stored(n, 0) : n \in {ARGV, ENVIRON, STDIN}}

(* add_output_from_file.  Its buffer for the name, the one for content of  *)
(* several chunks and the array of dandelion_add_output may fail.          *)
OutputFile(f, path) ==
  \/ /\ outputs' = [outputs EXCEPT ![prog.set] = Append(@, [path |-> path, file |-> f])]
     /\ Goes(Advanced(prog.walk), FALSE)
  \/ FALSE \in Allocs /\ Goes(Unwound(prog.walk), TRUE) /\ UNCHANGED outputs
  \/ FALSE \in Allocs /\ Leave
  \/ FALSE \in Allocs /\ Breaks(Null)

OutputDirectory(d, path) ==
  \/ /\ Goes(Append(Advanced(prog.walk), [next |-> node[d].child, path |-> path]), FALSE)
     /\ UNCHANGED outputs
  \/ FALSE \in Allocs /\ Leave

Device(f) == node[f].static /\ ~node[f].dir

OutputEntry ==
  LET w    == prog.walk
      f    == Last(w).next
      path == Append(Last(w).path, node[f].name)
  IN  /\ At("ending") /\ w # <<>> /\ f # NULL
      /\ \/ node[f].freed /\ Breaks(Freed)
         \/ ~node[f].freed /\ Ignored(f) /\ Goes(Advanced(w), FALSE) /\ UNCHANGED outputs
         \/ /\ ~node[f].freed /\ ~Ignored(f)
            /\ \/ Device(f) /\ Goes(Unwound(w), FALSE) /\ UNCHANGED outputs
               \/ node[f].dir /\ OutputDirectory(f, path)
               \/ ~node[f].dir /\ ~Device(f) /\ OutputFile(f, path)

FolderDone ==
  LET w == prog.walk
  IN  /\ At("ending") /\ w # <<>> /\ Last(w).next = NULL
      /\ \/ Len(w) = 1 /\ NextOutputSet
         \/ Len(w) > 1 /\ Goes(Front(w), FALSE) /\ UNCHANGED outputs

dandelion_exit ==
  /\ At("ending") /\ prog.set > Len(given.outputs)
  /\ prog' = [prog EXCEPT !.pc = "exited"]
  /\ UNCHANGED <<vars, given, outputs>>

fs_terminate == OutputSet \/ OutputEntry \/ FolderDone \/ dandelion_exit

-----------------------------------------------------------------------------
SessionInit ==
  /\ node = <<StaticNode(0)>>
  /\ open_files = [d \in Descriptors |-> NULL]
  /\ dirs = [h \in Handles |-> [dir |-> NULL, child |-> 0]]
  /\ ret = [code |-> 0, name |-> 0]
  /\ status = "ok"
  /\ given \in Given
  /\ prog = [pc |-> "boot", set |-> 1, item |-> 0, dir |-> NULL,
             argv |-> "null", environ |-> "null", placed |-> <<>>,
             walk |-> <<>>, calls |-> 0, lost |-> FALSE, errno |-> 0, code |-> 0]
  /\ outputs = [s \in DOMAIN given.outputs |-> <<>>]

SessionNext ==
  \/ fs_initialize
  \/ Call
  \/ \E path \in Paths : stat(path)
  \/ Unsupported
  \/ Return
  \/ _exit
  \/ fs_terminate

(* There is one thread and no call waits: the program's own steps go on.   *)
(* What main does, and whether it ends, is not said.                       *)
SessionSpec ==
  /\ SessionInit /\ [][SessionNext]_all
  /\ WF_all(fs_initialize) /\ WF_all(fs_terminate)

-----------------------------------------------------------------------------
(* Properties.                                                             *)

(* The path, of stored names, that leads from directory d to node n.       *)
Ancestors(n) ==
  LET up[k \in 0 .. Len(node)] ==
        IF k = 0 THEN n ELSE IF up[k - 1] = NULL THEN NULL ELSE node[up[k - 1]].parent
  IN  up

Below(d) == {n \in Live \ {d} : Listed(n) /\ d \in Range(Ancestors(n))}

PathTo(d, n) ==
  LET up    == Ancestors(n)
      depth == Min({k \in DOMAIN up : up[k] = d})
  IN  [i \in 1 .. depth |-> node[up[depth - i]].name]

InStore(path) ==
  LET names == SelectSeq(path, LAMBDA c : c # DOT)
  IN  [i \in DOMAIN names |-> Stored(names[i], 0)]

(* All items in sets called stdio whose last component is name.            *)
StdioItems(name) ==
  {i \in UNION {Range(set.items) : set \in {t \in Range(given.inputs) : t.name = <<STDIO>>}} :
     i.path # <<>> /\ Last(i.path) = name}

ArrayGiven(a, name) ==
  /\ a # "null"
  /\ StdioItems(name) = {} => a = "empty"
  /\ StdioItems(name) # {} /\ (\A i \in StdioItems(name) : i.data) => a = "given"

(* When main begins, every input item is where its name says, in the       *)
(* folder of its own set ("to prevent input items getting written into     *)
(* different input sets by going up the file tree", create_directories),   *)
(* and the first one of a name is found by it.  The standard streams are   *)
(* open, in the folder stdio, and argv and environ are arrays.             *)
Started ==
  [][prog.pc # "main" /\ prog'.pc = "main" =>
       /\ \A p \in Range(prog'.placed) :
            /\ PathTo(ROOT, p.file)' = InStore(p.path)
            /\ find_file(node', p.path) =
                 Min({n \in DOMAIN node' \ {ROOT} : PathTo(ROOT, n)' = InStore(p.path)})
       /\ \A d \in 0 .. 2 :
            /\ open_files'[d] \in Below(StdioFolder)'
            /\ node'[open_files'[d]].name = Stored(<<STDOUT, STDERR, STDIN>>[IF d = 0 THEN 3 ELSE d], 0)
       /\ ArrayGiven(prog.argv, ARGV)' /\ ArrayGiven(prog.environ, ENVIRON)']_all

(* The files an output set should get: those in the folder of its name,    *)
(* with their paths from there, without argv, environ and stdin of stdio.  *)
Wanted(ident) ==
  LET folders == {n \in Entries(ROOT) : Len(ident) = 1 /\ node[n].name = Stored(ident[1], 0)}
      special == IF ident = <<STDIO>> THEN {InStore(<<n>>) : n \in {ARGV, ENVIRON, STDIN}} ELSE {}
      all_in(d) == {[path |-> PathTo(d, n), file |-> n] :
                      n \in {m \in Below(d) : ~node[m].dir /\ ~Device(m)}}
  IN  {o \in UNION {all_in(d) : d \in folders} : o.path \notin special}

(* "go through output set names and find all files in folders that are     *)
(* named after them" (fs_terminate): an output set gets no other file and  *)
(* no file twice; once the walk is through with it, it has them all,       *)
(* unless memory ran out.  Folders inside folders are not found by name.   *)
OutputsExact ==
  \A s \in DOMAIN outputs :
    /\ IsInjective(outputs[s])
    /\ Range(outputs[s]) \subseteq Wanted(given.outputs[s])
    /\ prog.pc \in {"ending", "exited"} /\ s < prog.set /\ ~prog.lost =>
         Range(outputs[s]) = Wanted(given.outputs[s])

(* The input items that have a name, in sets that have one.                *)
Named ==
  UNION {{<<s, i>> : i \in {j \in DOMAIN given.inputs[s].items :
                              given.inputs[s].items[j].path # <<>>}} :
           s \in {t \in DOMAIN given.inputs : given.inputs[t].name # <<>>}}

(* A program that ends with 0 was given all of its inputs, and all of its  *)
(* output sets were gone through.                                          *)
ZeroMeansDone ==
  prog.pc = "exited" /\ prog.code = 0 =>
    /\ Len(prog.placed) = Cardinality(Named)
    /\ prog.set > Len(given.outputs)

(* Start and end of the program come to an end: it gets to main, or to     *)
(* dandelion_exit, or breaks.                                              *)
Ends == prog.pc # "main" ~> status # "ok" \/ prog.pc \in {"main", "exited"}

=============================================================================
