----------------------------- MODULE Namespace -----------------------------
(***************************************************************************)
(* The tree of directories and files: the D_File structures of             *)
(* src/file_system/file_system.c with the calls of fs_implementation.c     *)
(* that look up, add and remove names, and that keep a file or directory   *)
(* open.  What a file holds, and the access modes, are in module Files.    *)
(*                                                                         *)
(* A directory keeps its children in a list that is sorted by name, linked *)
(* through the children.  Structures are numbered in the order of their    *)
(* allocation, and a number is not used again, so that an access to freed  *)
(* memory is seen.  Such an access, one through a NULL pointer and a loop  *)
(* that does not end, end the behaviour with the status that names them.   *)
(*                                                                         *)
(* A path is the sequence of its components.  A component is a name, or    *)
(* DOT or DOTDOT, which come before all names in the order of namecmp.     *)
(***************************************************************************)
EXTENDS Integers, Sequences, FiniteSets, FiniteSetsExt, Lists

CONSTANTS
  Names,       \* names of files and directories, numbers in the order of namecmp
  Paths,       \* the paths that clients use
  Descriptors, \* indices of open_files
  Handles,     \* the DIR structures of clients
  MaxNodes,    \* D_File structures that fit into memory
  USHRT,       \* number of values of an unsigned short, 65536
  Tails,       \* what follows the name of a new file in its structure: 0 is
               \* the end of the name, 1 something that is left in memory
  Leftovers,   \* values of the counts, <<links, opens>>, that a new directory
               \* is left with
  Filled,      \* whether a file that is taken for a directory has content
  Polite       \* whether clients keep to what the polite guards below say

DOT == -1
DOTDOT == 0

ASSUME NamespaceAssumption ==
  /\ Names \subseteq Nat \ {0} /\ Names # {} /\ IsFiniteSet(Names)
  /\ Paths \subseteq Seq(Names \cup {DOT, DOTDOT})
  /\ Descriptors \subseteq Nat /\ IsFiniteSet(Descriptors) /\ IsFiniteSet(Handles)
  /\ Cardinality(Descriptors) + Cardinality(Handles) < USHRT
  /\ MaxNodes \in Nat /\ USHRT \in Nat \ 0 .. 2
  /\ Tails \subseteq 0 .. 1 /\ Leftovers \subseteq Nat \X Nat /\ Filled \subseteq BOOLEAN
  /\ Polite \in BOOLEAN

VARIABLES
  node,        \* the D_File structures
  open_files,  \* the file each descriptor has open, or NULL
  dirs,        \* the directory each handle has open, or NULL, and its position
  ret,         \* what the last call returned: its code, and the name of an entry
  status       \* "ok", or what has gone wrong

vars == <<node, open_files, dirs, ret, status>>

NULL == 0
ROOT == 1

EBADF == -9
EEXIST == -17
EMFILE == -24
EMLINK == -31
ENOENT == -2
ENOMEM == -12
ENOTDIR == -20
ENOTEMPTY == -39
EPERM == -1
NoMore == -1

(* Where a walk through the structures goes wrong.                         *)
Freed == -1
Null == -2
Hang == -3
Confused == -4
Fault == <<"freed", "null", "hang", "confused">>

(* The counts are of type unsigned short.                                  *)
Up(n) == (n + 1) % USHRT
Down(n) == (n + USHRT - 1) % USHRT

(* The stored name is even when it ends where it should.  A name that is   *)
(* followed by something else comes behind it and before the next one.     *)
Stored(name, tail) == 2 * name + tail

-----------------------------------------------------------------------------
(* Walking through the tree ns.  A walk returns a node, NULL, or a fault.  *)

(* The list of siblings from node c on, by the number of steps.            *)
Chain(ns, c) ==
  LET follow == [n \in 0 .. Len(ns) |-> IF n = NULL THEN NULL ELSE ns[n].next]
      at[k \in 0 .. Len(ns)] == IF k = 0 THEN c ELSE follow[at[k - 1]]
  IN  at

Alive(ns, n) == IF n > 0 /\ ns[n].freed THEN Freed ELSE n

(* The first node of that list that is in S.                               *)
FirstIn(ns, c, S) ==
  LET from[k \in 0 .. Len(ns)] == [n \in 0 .. Len(ns) |->
        IF n = NULL THEN NULL
        ELSE IF ns[n].freed THEN Freed
        ELSE IF n \in S THEN n
        ELSE IF k = 0 THEN Hang
        ELSE from[k - 1][ns[n].next]]
  IN  from[Len(ns)][c]

(* The search stops at the first name that does not come before the one    *)
(* that is looked for.                                                     *)
Exactly(ns, n, name) == IF n > 0 /\ ns[n].name # name THEN NULL ELSE n

(* Faulty: the search ends at the first entry.                             *)
find_file_in_dir_First(ns, d, name) ==
  IF name = DOT THEN d
  ELSE IF name = DOTDOT THEN Alive(ns, ns[d].parent)
  ELSE Exactly(ns, Alive(ns, ns[d].child), Stored(name, 0))

find_file_in_dir(ns, d, name) ==
  IF name = DOT THEN d
  ELSE IF name = DOTDOT THEN Alive(ns, ns[d].parent)
  ELSE Exactly(ns, FirstIn(ns, ns[d].child, {n \in DOMAIN ns : ns[n].name >= Stored(name, 0)}),
               Stored(name, 0))

find_file(ns, path) ==
  LET into == [d \in Confused .. Len(ns) |-> [name \in Range(path) |->
                 IF d <= 0 THEN d
                 ELSE IF ~ns[d].dir THEN NULL
                 ELSE find_file_in_dir(ns, d, name)]]
      to[k \in 0 .. Len(path)] == IF k = 0 THEN ROOT ELSE into[to[k - 1]][path[k]]
  IN  to[Len(path)]

-----------------------------------------------------------------------------
(* Changing the tree.  The result is the new tree, and a node, NULL when   *)
(* the operation was refused, or a fault.                                  *)

Tree(ns, at) == [ns |-> ns, at |-> at]

LinkFirst(ns, d, f) == Tree([ns EXCEPT ![f].next = ns[d].child, ![d].child = f], f)

LinkBehind(ns, n, f) ==
  IF n < 0 THEN Tree(ns, n)
  ELSE Tree([ns EXCEPT ![f].next = ns[n].next, ![n].next = f], f)

link_file_to_folder(ns, d, f) ==
  LET first   == Alive(ns, ns[d].child)
      counted == [ns EXCEPT ![f].parent = d, ![f].links = Up(@)]
  IN  IF ~ns[d].dir THEN Tree(ns, NULL)
      ELSE IF first < 0 THEN Tree(ns, first)
      ELSE IF first = NULL THEN LinkFirst(counted, d, f)
      ELSE IF ns[f].name < ns[first].name THEN LinkFirst(counted, d, f)
      ELSE LinkBehind(counted,
                      FirstIn(ns, first, {n \in DOMAIN ns :
                                            \/ ns[n].next = NULL
                                            \/ ns[f].name < ns[ns[n].next].name}), f)

NewNode(name, dir, counts) ==
  [name |-> name, dir |-> dir, static |-> FALSE, freed |-> FALSE,
   parent |-> NULL, child |-> NULL, next |-> NULL, links |-> counts[1], opens |-> counts[2]]

(* A step of create_directories, after the name was looked up in the       *)
(* directory r.at.  The counts of a new directory are what its memory      *)
(* holds.                                                                  *)
Unless(r, old) == IF r.at = NULL THEN Tree(old, NULL) ELSE r

Enter(r, name, found, counts) ==
  IF found # NULL THEN Tree(r.ns, found)
  ELSE IF Len(r.ns) = MaxNodes THEN Tree(r.ns, Null)
  ELSE Unless(link_file_to_folder(Append(r.ns, NewNode(Stored(name, 0), TRUE, counts)),
                                  r.at, Len(r.ns) + 1), r.ns)

(* A file on the way is searched as if its content was a list of children. *)
create_directories(ns, start, path, counts, filled) ==
  LET Sub(r, name) ==
        IF r.at <= 0 \/ name = DOT THEN r
        ELSE IF name = DOTDOT
        THEN IF r.ns[r.at].parent = NULL THEN r
             ELSE Tree(r.ns, Alive(r.ns, r.ns[r.at].parent))
        ELSE IF r.ns[r.at].dir
        THEN Enter(r, name, find_file_in_dir(r.ns, r.at, name), counts)
        ELSE Enter(r, name, IF filled THEN Confused ELSE NULL, counts)
      made[k \in 0 .. Len(path)] ==
        IF k = 0 THEN Tree(ns, IF ns[start].dir THEN start ELSE NULL)
        ELSE Sub(made[k - 1], path[k])
  IN  made[Len(path)]

(* free_data.  It is called for the children of a directory as well, and   *)
(* their list is followed through a child after that one was freed.        *)
FreedNode == [NewNode(0, FALSE, <<0, 0>>) EXCEPT !.freed = TRUE]

(* Faulty: open descriptors are not looked at.                             *)
Dead_Unlinked(n) == n.links = 0

(* Faulty: names are not looked at.                                        *)
Dead_Closed(n) == n.opens = 0

Dead(n) == n.links = 0 /\ n.opens = 0

free_data(ns, f) ==
  LET bad == FirstIn(ns, ns[f].child, {n \in DOMAIN ns : Dead(ns[n])})
  IN  IF ~Dead(ns[f]) THEN Tree(ns, f)
      ELSE IF bad > 0 THEN Tree(ns, Freed)
      ELSE IF bad < 0 THEN Tree(ns, bad)
      ELSE Tree([ns EXCEPT ![f] = FreedNode], f)

(* unlink from the node's parent, wherever it is in the list.              *)
CutBehind(ns, prev, f) ==
  IF prev < 0 THEN Tree(ns, prev)
  ELSE IF prev = NULL THEN free_data(ns, f)
  ELSE free_data([ns EXCEPT ![prev].next = ns[f].next], f)

Unlinked(ns, f) ==
  LET p       == ns[f].parent
      counted == [ns EXCEPT ![f].links = Down(@)]
  IN  IF p = NULL THEN Tree(ns, Null)
      ELSE IF ns[p].freed THEN Tree(ns, Freed)
      ELSE IF ns[p].child = f THEN free_data([counted EXCEPT ![p].child = ns[f].next], f)
      ELSE CutBehind(counted, FirstIn(ns, ns[p].child, {n \in DOMAIN ns : ns[n].next = f}), f)

-----------------------------------------------------------------------------
(* How a call ends.                                                        *)

Returns(code) == ret' = [code |-> code, name |-> 0] /\ status' = status

Fails(code) == Returns(code) /\ UNCHANGED <<node, open_files, dirs>>

Crashes(fault) ==
  /\ status' = Fault[-fault]
  /\ UNCHANGED <<node, open_files, dirs, ret>>

(* A polite client does not link, leaves a directory with entries alone,   *)
(* uses no file as a directory, gives no file the name . or .., goes up    *)
(* only from directories that exist and stops before memory is exhausted.  *)
PoliteRemove(f) == f # ROOT /\ node[f].child = NULL

PoliteCreate(path) ==
  LET to      == [k \in 0 .. Len(path) |-> find_file(node, SubSeq(path, 1, k))]
      missing == {k \in DOMAIN to : to[k] = NULL}
  IN  /\ Len(node) + Cardinality(missing) <= MaxNodes
      /\ missing # {} => Last(path) \in Names
      /\ missing # {} /\ DOTDOT \in Range(path) => missing = {Len(path)}
      /\ \A k \in 0 .. Len(path) - 1 : to[k] > 0 => node[to[k]].dir

-----------------------------------------------------------------------------
(* open and close, opendir, readdir and closedir.                          *)

(* What is left of open once the file is found or made.                    *)
OpenNode(ns, f) ==
  LET free == {d \in Descriptors : open_files[d] = NULL}
  IN  \/ /\ free = {}
         /\ node' = ns
         /\ Returns(EMFILE)
         /\ UNCHANGED <<open_files, dirs>>
      \/ /\ free # {}
         /\ node' = [ns EXCEPT ![f].opens = Up(@)]
         /\ open_files' = [open_files EXCEPT ![Min(free)] = f]
         /\ Returns(Min(free))
         /\ UNCHANGED dirs

OpenMade(made, with) ==
  \/ made.at < 0 /\ Crashes(made.at)
  \/ /\ made.at = NULL
     /\ node' = with
     /\ Returns(ENOTDIR)
     /\ UNCHANGED <<open_files, dirs>>
  \/ made.at > 0 /\ OpenNode(made.ns, made.at)

(* The directories on the way stay when the file cannot be made.           *)
CreateAndOpen(way, file) ==
  \/ way.at < 0 /\ Crashes(way.at)
  \/ /\ way.at = NULL
     /\ node' = way.ns
     /\ Returns(ENOTDIR)
     /\ UNCHANGED <<open_files, dirs>>
  \/ /\ way.at > 0 /\ Len(way.ns) = MaxNodes
     /\ node' = way.ns
     /\ Returns(ENOMEM)
     /\ UNCHANGED <<open_files, dirs>>
  \/ /\ way.at > 0 /\ Len(way.ns) < MaxNodes
     /\ LET with == Append(way.ns, file)
        IN  OpenMade(link_file_to_folder(with, way.at, Len(with)), with)

dandelion_open(path, creat, excl) ==
  LET found == find_file(node, path)
  IN  /\ status = "ok" /\ (Polite => PoliteCreate(path))
      /\ \/ found < 0 /\ Crashes(found)
         \/ found > 0 /\ creat /\ excl /\ Fails(EEXIST)
         \/ found = NULL /\ ~creat /\ Fails(ENOENT)
         \/ /\ found = NULL /\ creat
            /\ \E tail \in Tails, counts \in Leftovers, filled \in Filled :
                 CreateAndOpen(create_directories(node, ROOT, Front(path), counts, filled),
                               NewNode(Stored(Last(path), tail), FALSE, <<0, 0>>))
         \/ found > 0 /\ ~(creat /\ excl) /\ OpenNode(node, found)

dandelion_close(d) ==
  LET f == open_files[d]
      r == free_data([node EXCEPT ![f].opens = Down(@)], f)
  IN  /\ status = "ok"
      /\ \/ f = NULL /\ Fails(EBADF)
         \/ f # NULL /\ node[f].freed /\ Crashes(Freed)
         \/ f # NULL /\ ~node[f].freed /\ r.at < 0 /\ Crashes(r.at)
         \/ /\ f # NULL /\ ~node[f].freed /\ r.at > 0
            /\ node' = r.ns
            /\ open_files' = [open_files EXCEPT ![d] = NULL]
            /\ Returns(0)
            /\ UNCHANGED dirs

dandelion_opendir(h, path) ==
  LET d == find_file(node, path)
  IN  /\ status = "ok" /\ dirs[h].dir = NULL
      /\ \/ d < 0 /\ Crashes(d)
         \/ d = NULL /\ Fails(ENOENT)
         \/ d > 0 /\ ~node[d].dir /\ Fails(ENOTDIR)
         \/ /\ d > 0 /\ node[d].dir
            /\ node' = [node EXCEPT ![d].opens = Up(@)]
            /\ dirs' = [dirs EXCEPT ![h] = [dir |-> d, child |-> 0]]
            /\ Returns(0)
            /\ UNCHANGED open_files

(* A handle is closed once, and not used afterwards.                       *)
dandelion_closedir(h) ==
  LET d == dirs[h].dir
      r == free_data([node EXCEPT ![d].opens = Down(@)], d)
  IN  /\ status = "ok" /\ d # NULL
      /\ \/ node[d].freed /\ Crashes(Freed)
         \/ ~node[d].freed /\ r.at < 0 /\ Crashes(r.at)
         \/ /\ ~node[d].freed /\ r.at > 0
            /\ node' = r.ns
            /\ dirs' = [dirs EXCEPT ![h] = [dir |-> NULL, child |-> 0]]
            /\ Returns(0)
            /\ UNCHANGED open_files

(* The entry whose number the handle has, counted from the first child.    *)
dandelion_readdir(h) ==
  LET d  == dirs[h].dir
      k  == dirs[h].child
      at == Chain(node, node[d].child)
      n  == at[k]
  IN  /\ status = "ok" /\ d # NULL /\ k \in DOMAIN at
      /\ \/ node[d].freed /\ Crashes(Freed)
         \/ ~node[d].freed /\ n = NULL /\ k > 0 /\ at[k - 1] = NULL /\ Fails(ENOENT)
         \/ ~node[d].freed /\ n = NULL /\ (k > 0 => at[k - 1] # NULL) /\ Fails(NoMore)
         \/ ~node[d].freed /\ n # NULL /\ node[n].freed /\ Crashes(Freed)
         \/ /\ ~node[d].freed /\ n # NULL /\ ~node[n].freed
            /\ dirs' = [dirs EXCEPT ![h].child = k + 1]
            /\ ret' = [code |-> 0, name |-> node[n].name]
            /\ UNCHANGED <<node, open_files, status>>

dandelion_seekdir(h, k) ==
  /\ status = "ok" /\ dirs[h].dir # NULL
  /\ dirs' = [dirs EXCEPT ![h].child = k]
  /\ Returns(0)
  /\ UNCHANGED <<node, open_files>>

-----------------------------------------------------------------------------
(* link, unlink, mkdir and rmdir.                                          *)

dandelion_unlink(path) ==
  LET f == find_file(node, path)
      r == Unlinked(node, f)
  IN  /\ status = "ok"
      /\ Polite /\ f > 0 => PoliteRemove(f)
      /\ \/ f < 0 /\ Crashes(f)
         \/ f = NULL /\ Fails(ENOTDIR)
         \/ f > 0 /\ r.at < 0 /\ Crashes(r.at)
         \/ /\ f > 0 /\ r.at > 0
            /\ node' = r.ns
            /\ Returns(0)
            /\ UNCHANGED <<open_files, dirs>>

(* Faulty: a directory with entries is removed.                            *)
dandelion_rmdir_Full(path) ==
  LET d == find_file(node, path)
      r == Unlinked(node, d)
  IN  /\ status = "ok"
      /\ d > 0 /\ d # ROOT /\ node[d].dir /\ r.at > 0
      /\ node' = r.ns
      /\ Returns(0)
      /\ UNCHANGED <<open_files, dirs>>

dandelion_rmdir(path) ==
  LET d == find_file(node, path)
      r == Unlinked(node, d)
  IN  /\ status = "ok"
      /\ Polite => d # ROOT
      /\ \/ d < 0 /\ Crashes(d)
         \/ d = NULL /\ Fails(ENOENT)
         \/ d > 0 /\ ~node[d].dir /\ Fails(ENOTDIR)
         \/ d > 0 /\ node[d].dir /\ node[d].child # NULL /\ Fails(ENOTEMPTY)
         \/ /\ d > 0 /\ node[d].dir /\ node[d].child = NULL
            /\ r.at < 0
            /\ Crashes(r.at)
         \/ /\ d > 0 /\ node[d].dir /\ node[d].child = NULL
            /\ r.at > 0
            /\ node' = r.ns
            /\ Returns(0)
            /\ UNCHANGED <<open_files, dirs>>

MakeDirectory(made) ==
  \/ made.at < 0 /\ Crashes(made.at)
  \/ /\ made.at > 0
     /\ node' = made.ns
     /\ Returns(0)
     /\ UNCHANGED <<open_files, dirs>>

(* "/" has an empty name in the root, which is not found there and adds    *)
(* nothing.                                                                *)
dandelion_mkdir(path) ==
  LET p     == find_file(node, IF path = <<>> THEN <<>> ELSE Front(path))
      found == find_file_in_dir(node, p, Last(path))
  IN  /\ status = "ok" /\ (Polite => PoliteCreate(path))
      /\ \/ p < 0 /\ Crashes(p)
         \/ p = NULL /\ Fails(ENOENT)
         \/ p > 0 /\ ~node[p].dir /\ Fails(ENOTDIR)
         \/ path = <<>> /\ Fails(0)
         \/ /\ p > 0 /\ node[p].dir /\ path # <<>>
            /\ \/ found < 0 /\ Crashes(found)
               \/ found > 0 /\ Fails(EEXIST)
               \/ /\ found = NULL
                  /\ \E counts \in Leftovers :
                       MakeDirectory(create_directories(node, p, <<Last(path)>>, counts, FALSE))

(* The file keeps its name and its one next pointer.  The new directory    *)
(* may be a file, and then only the count changes.                         *)
Linked(r, f) ==
  \/ r.at < 0 /\ Crashes(r.at)
  \/ /\ r.at >= 0
     /\ node' = [r.ns EXCEPT ![f].links = Up(@)]
     /\ Returns(0)
     /\ UNCHANGED <<open_files, dirs>>

LinkInto(f, way) ==
  \/ way.at < 0 /\ Crashes(way.at)
  \/ /\ way.at = NULL
     /\ node' = way.ns
     /\ Returns(ENOTDIR)
     /\ UNCHANGED <<open_files, dirs>>
  \/ way.at > 0 /\ Linked(link_file_to_folder(way.ns, way.at, f), f)

dandelion_link(old, new) ==
  LET f    == find_file(node, old)
      used == find_file(node, new)
  IN  /\ status = "ok" /\ ~Polite /\ new # <<>>
      /\ \/ f < 0 /\ Crashes(f)
         \/ f = NULL /\ Fails(ENOTDIR)
         \/ f > 0 /\ node[f].dir /\ Fails(EPERM)
         \/ f > 0 /\ ~node[f].dir /\ node[f].links = USHRT - 1 /\ Fails(EMLINK)
         \/ /\ f > 0 /\ ~node[f].dir /\ node[f].links < USHRT - 1
            /\ \/ used < 0 /\ Crashes(used)
               \/ used > 0 /\ Fails(EEXIST)
               \/ /\ used = NULL
                  /\ \E counts \in Leftovers, filled \in Filled :
                       LinkInto(f, create_directories(node, ROOT, Front(new), counts, filled))

-----------------------------------------------------------------------------
(* fs_initialize adds folders that are not allocated and whose count keeps *)
(* them from being freed; one of them, with the first name, stands for all.*)
StaticNode(name) ==
  [name |-> name, dir |-> TRUE, static |-> TRUE, freed |-> FALSE,
   parent |-> NULL, child |-> NULL, next |-> NULL, links |-> 1, opens |-> 0]

Init ==
  /\ node = link_file_to_folder(<<StaticNode(0), StaticNode(Stored(Min(Names), 0))>>, ROOT, 2).ns
  /\ open_files = [d \in Descriptors |-> NULL]
  /\ dirs = [h \in Handles |-> [dir |-> NULL, child |-> 0]]
  /\ ret = [code |-> 0, name |-> 0]
  /\ status = "ok"

Next ==
  \/ \E path \in Paths, creat, excl \in BOOLEAN : dandelion_open(path, creat, excl)
  \/ \E d \in Descriptors : dandelion_close(d)
  \/ \E h \in Handles, path \in Paths : dandelion_opendir(h, path)
  \/ \E h \in Handles : dandelion_closedir(h)
  \/ \E h \in Handles : dandelion_readdir(h)
  \/ \E h \in Handles, k \in 0 .. Cardinality(Names) : dandelion_seekdir(h, k)
  \/ \E path \in Paths : dandelion_unlink(path)
  \/ \E path \in Paths : dandelion_rmdir(path)
  \/ \E path \in Paths : dandelion_mkdir(path)
  \/ \E old, new \in Paths : dandelion_link(old, new)

Spec == Init /\ [][Next]_vars

-----------------------------------------------------------------------------
(* Properties of what polite clients do.                                   *)

Live == {n \in DOMAIN node : ~node[n].freed}

(* A static folder has one link more than paths that lead to it.           *)
Listed(n) == node[n].links > IF node[n].static THEN 1 ELSE 0

Entries(d) == {n \in Live \ {ROOT} : node[n].parent = d /\ Listed(n)}

(* The list of children of a directory, as long as it is a list.           *)
ListOf(d) == {Chain(node, node[d].child)[k] : k \in 0 .. Len(node)} \ {NULL}

(* What a path leads to when a directory is the set of its entries.        *)
Resolve(path) ==
  LET Into(d, name) ==
        LET hits == {n \in Entries(d) : node[n].name = Stored(name, 0)}
        IN  IF d = NULL THEN NULL
            ELSE IF ~node[d].dir THEN NULL
            ELSE IF name = DOT THEN d
            ELSE IF name = DOTDOT THEN node[d].parent
            ELSE IF hits = {} THEN NULL
            ELSE CHOOSE n \in hits : TRUE
      to[k \in 0 .. Len(path)] == IF k = 0 THEN ROOT ELSE Into(to[k - 1], path[k])
  IN  to[Len(path)]

(* find_file, which gives up at the first name that comes later, finds a   *)
(* file exactly when there is one.                                         *)
FindsByName == \A path \in Paths : find_file(node, path) = Resolve(path)

(* A structure is deallocated exactly when it has no name and is not open: *)
(* not earlier, as descriptors and handles still use it, and not later.    *)
FreedWhenUnused ==
  \A n \in DOMAIN node :
    LET opens == Cardinality({d \in Descriptors : open_files[d] = n})
                 + Cardinality({h \in Handles : dirs[h].dir = n})
    IN  /\ n \in Live => node[n].opens = opens
        /\ node[n].freed => opens = 0 /\ \A d \in Live : n \notin ListOf(d)
        /\ n \in Live /\ ~node[n].static /\ ~Listed(n) => opens > 0

(* Nothing that has a name is cut off from the root: there is no loop in   *)
(* the tree, and no directory goes while it has entries.                   *)
NothingCutOff ==
  \A n \in Live : Listed(n) /\ n # ROOT =>
    /\ node[n].parent \in Live
    /\ node[n].parent # ROOT => Listed(node[n].parent)

(* No call goes through a pointer that is NULL or whose target was freed,  *)
(* takes a file for a directory, or runs forever.                          *)
NoFault == status = "ok"

-----------------------------------------------------------------------------
(* A property of all clients.                                              *)

(* Whatever happens to its names and to the directories above it, a file   *)
(* is not deallocated while a descriptor has it open.                      *)
FilesStayOpen ==
  [][\A d \in Descriptors :
       LET f == open_files[d]
       IN  f # NULL /\ ~node[f].freed /\ ~node[f].dir /\ open_files'[d] = f
             => ~node'[f].freed]_vars

-----------------------------------------------------------------------------
(* What documentation says and the code does not keep.                     *)

(* "link the file at one path to another path"                             *)
(* (test_interfaces/src/fs_interface.rs).                                  *)
LinkAddsPath ==
  [][\A old, new \in Paths :
       dandelion_link(old, new) /\ ret'.code = 0 /\ status' = "ok"
         => find_file(node', new) = find_file(node, old)]_vars

(* "remove path from pointing to file, if last path leading to file and if *)
(* it is not open, remove file" (test_interfaces/src/fs_interface.rs).     *)
RemovedWithLastPath ==
  [][\A path \in Paths :
       LET f == find_file(node, path)
       IN  dandelion_unlink(path) /\ ret'.code = 0 /\ status' = "ok" =>
             \/ node'[f].freed \/ node[f].static \/ node[f].opens > 0
             \/ \E other \in Paths : find_file(node', other) = f]_vars

(* "increase to make sure it does not get dealloced" (opendir): what is    *)
(* open is not deallocated.  The counts of a new directory are not set.    *)
OpenStays ==
  /\ \A d \in Descriptors : open_files[d] # NULL => open_files[d] \in Live
  /\ \A h \in Handles : dirs[h].dir # NULL => dirs[h].dir \in Live

(* "find a file using a absolute string path" (file_system.h): a file that *)
(* was created is found by the path it was created with.                   *)
CreatedIsFound ==
  [][\A path \in Paths : dandelion_open(path, TRUE, FALSE) /\ ret'.code >= 0
         => find_file(node', path) = open_files'[ret'.code]]_vars
=============================================================================
