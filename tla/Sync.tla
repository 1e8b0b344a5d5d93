-------------------------------- MODULE Sync --------------------------------
(***************************************************************************)
(* What Client::download (rsync/rsync_client.cpp) does with two trees: it   *)
(* lists the local one, merges the two sorted lists into a queue of files   *)
(* to get, gets them, deletes what the remote side does not have, and at    *)
(* last adds up the sizes of directories.  PathUtil's calls are modelled by *)
(* what they do to the local tree.                                          *)
(*                                                                          *)
(* The walk does not see everything: listDirectory passes over names that   *)
(* begin with .acrosync, over links it cannot read, and over what is in a   *)
(* directory that it cannot open.  All of this is Unlisted.                 *)
(*                                                                          *)
(* How a file is transferred is the matter of module Download, with disks   *)
(* that are full and renames that fail for reasons of their own: here it    *)
(* arrives or it does not, and only what is in its place can stop it.       *)
(* Modes and byte counters are left out, and so is the download of a single *)
(* file.                                                                    *)
(***************************************************************************)
EXTENDS EntryOrder

CONSTANTS
  Paths,         \* of the nodes of the trees, without a slash at the end
  RemoteTrees,   \* the trees there may be on either side
  LocalTrees,
  Invalid,       \* paths with characters not allowed
  Unlisted,      \* paths that listDirectory passes over
  Internal,      \* paths under .acrosync/ in the top directory
  Selections     \* values of includeFiles; Everything is none

None == [kind |-> "none", time |-> 0]
Everything == Paths

(* What is before the last slash. *)
Parent(p) ==
  LET slashes == {k \in DOMAIN p : p[k] = Slash}
  IN  IF slashes = {} THEN <<>>
      ELSE SubSeq(p, 1, (CHOOSE k \in slashes : \A j \in slashes : j <= k) - 1)

Reachable(tree, p) == Parent(p) = <<>> \/ tree[Parent(p)].kind = "dir"

(* What may be at a path. *)
Nodes == {None} \cup [kind : {"file", "dir", "link", "special"}, time : Nat]

IsTree(tree) ==
  /\ tree \in [Paths -> Nodes]
  /\ \A p \in Paths : tree[p] # None => Reachable(tree, p)

ASSUME SyncAssumption ==
  /\ IsFiniteSet(Paths)
  /\ \A p \in Paths :
       /\ p \in Seq(Nat \ {0}) /\ p # <<>>
       /\ p[1] # Slash /\ p[Len(p)] # Slash
       /\ Parent(p) = <<>> \/ Parent(p) \in Paths
  /\ \A tree \in RemoteTrees \cup LocalTrees : IsTree(tree)
  /\ Invalid \subseteq Paths /\ Internal \subseteq Unlisted /\ Unlisted \subseteq Paths
  /\ \A p \in Paths : Parent(p) \in Unlisted => p \in Unlisted
  /\ Selections \subseteq SUBSET Paths

VARIABLES
  pc,              \* "index", "merge", "transfer", "delete", "sizes" or "done"
  remote, local,   \* the trees
  before,          \* the local tree at the start (read by properties only)
  included,        \* includeFiles
  deletionEnabled, \* d_deletionEnabled
  directories,     \* localDirectories: the stack of what is still to be listed
  localFiles, remoteFiles,
  i, index,        \* where the merge and the deletion are in the two lists
  queue,           \* indices of the files to get
  updated,         \* d_updatedFiles
  failed,          \* whether a file did not arrive
  sizes            \* whose sizes have been added to that of each directory

vars == <<pc, remote, local, before, included, deletionEnabled, directories,
          localFiles, remoteFiles, i, index, queue, updated, failed, sizes>>
constant == <<remote, before, included, deletionEnabled, remoteFiles>>
-----------------------------------------------------------------------------
Top == [path |-> <<Slash>>, kind |-> "dir", time |-> 0]

NewEntry(tree, p) ==
  [path |-> IF tree[p].kind = "dir" THEN Append(p, Slash) ELSE p,
   kind |-> tree[p].kind, time |-> tree[p].time]

NodeOf(entry) ==
  IF entry.kind = "dir" THEN SubSeq(entry.path, 1, Len(entry.path) - 1) ELSE entry.path

Present(tree) == {p \in Paths : tree[p] # None}

RemoteList(tree) == <<Top>> \o Sorted({NewEntry(tree, p) : p \in Present(tree)}, GloballyLess)

Init ==
  /\ pc = "index"
  /\ remote \in RemoteTrees /\ local \in LocalTrees
  /\ before = local
  /\ included \in Selections
  /\ deletionEnabled \in BOOLEAN
  /\ directories = <<Top>> /\ localFiles = <<Top>>
  /\ remoteFiles = RemoteList(remote)
  /\ i = 2 /\ index = 2
  /\ queue = <<>> /\ updated = {} /\ failed = FALSE /\ sizes = <<>>
-----------------------------------------------------------------------------
(* The entries at some places of a list, in their order. *)
Selected(list, places) ==
  [n \in 1 .. Cardinality(places) |->
     list[CHOOSE k \in places : Cardinality({j \in places : j < k}) = n - 1]]

(* listDirectory: the files of a directory in their order, and its directories
   the other way round, for a stack. *)
Files(list) == Selected(list, {k \in DOMAIN list : list[k].kind # "dir"})
Directories(list) == Selected(list, {k \in DOMAIN list : list[k].kind = "dir"})

ForwardStack(list) == Directories(list)

ReverseStack(list) ==
  LET dirs == Directories(list)
  IN  [k \in 1 .. Len(dirs) |-> dirs[Len(dirs) + 1 - k]]

Listing(dir) ==
  Sorted({NewEntry(local, p) : p \in {q \in Present(local) \ Unlisted :
            Parent(q) = IF dir = Top THEN <<>> ELSE NodeOf(dir)}},
         CompareLocally)

ListNext ==
  /\ pc = "index" /\ included = Everything /\ directories # <<>>
  /\ LET dir == directories[Len(directories)]
         list == Listing(dir)
     IN  /\ localFiles' = (IF dir = Top THEN localFiles ELSE Append(localFiles, dir)) \o Files(list)
         /\ directories' = SubSeq(directories, 1, Len(directories) - 1) \o ReverseStack(list)
  /\ UNCHANGED <<pc, local, i, index, queue, updated, failed, sizes, constant>>

(* createEntry for each of includeFiles.  It follows links, and those of the
   model lead nowhere. *)
ListIncluded ==
  /\ pc = "index" /\ included # Everything /\ directories # <<>>
  /\ localFiles' =
       <<Top>> \o Sorted({NewEntry(local, p) :
                             p \in {q \in included : local[q].kind \in {"file", "dir"}}}, GloballyLess)
  /\ directories' = <<>>
  /\ UNCHANGED <<pc, local, i, index, queue, updated, failed, sizes, constant>>

Indexed ==
  /\ pc = "index" /\ directories = <<>>
  /\ pc' = "merge"
  /\ UNCHANGED <<local, directories, localFiles, i, index, queue, updated, failed, sizes, constant>>
-----------------------------------------------------------------------------
(* PathUtil and the file system. *)
Empty(tree, p) == \A q \in Paths : Parent(q) = p => tree[q] = None

(* remove: anything but a directory that is not empty; a path that ends with a
   slash names only a directory. *)
Removed(tree, entry) ==
  LET p == NodeOf(entry)
  IN  IF /\ entry.kind = "dir" => tree[p].kind = "dir"
         /\ tree[p].kind = "dir" => Empty(tree, p)
        THEN [tree EXCEPT ![p] = None]
        ELSE tree

(* createDirectory, createSymlink *)
Created(tree, p, node) ==
  IF tree[p] = None /\ Reachable(tree, p) THEN [tree EXCEPT ![p] = node] ELSE tree

(* rename of the temporary file, and setModifiedTime: a directory that could
   not be removed stays and takes the time. *)
Installed(tree, entry) ==
  LET p == NodeOf(entry)
      cleared == Removed(tree, entry)
  IN  IF ~Reachable(tree, p) THEN tree
      ELSE IF cleared[p] # None THEN [cleared EXCEPT ![p].time = entry.time]
      ELSE [cleared EXCEPT ![p] = [kind |-> "file", time |-> entry.time]]

(* isOlderThan *)
IsOlderThan(l, r) == l.time + 1 < r.time

-----------------------------------------------------------------------------
(* The merge: past what is only local, and then one remote entry. *)
AtMostOne(from, r) ==
  IF from <= Len(localFiles) /\ GloballyLess(localFiles[from], r) THEN from + 1 ELSE from

NextLocal(from, r) ==
  CHOOSE k \in from .. Len(localFiles) + 1 :
    /\ \A j \in from .. k - 1 : GloballyLess(localFiles[j], r)
    /\ k <= Len(localFiles) => ~GloballyLess(localFiles[k], r)

HasLocal(r) == i' <= Len(localFiles) /\ ~GloballyLess(r, localFiles[i'])

NewDirectory(r) ==
  /\ ~HasLocal(r) /\ r.kind = "dir"
  /\ local' = Created(local, NodeOf(r), [kind |-> "dir", time |-> 0])
  /\ UNCHANGED queue

NewLink(r) ==
  /\ ~HasLocal(r) /\ r.kind = "link"
  /\ local' = Created(local, NodeOf(r), [kind |-> "link", time |-> 0])
  /\ UNCHANGED queue

NewFile(r) ==
  /\ ~HasLocal(r) /\ r.kind = "file"
  /\ queue' = IF NodeOf(r) \in Invalid \cup Internal THEN queue ELSE Append(queue, index)
  /\ UNCHANGED local

SameLink(r) ==
  /\ HasLocal(r) /\ r.kind = "link"
  /\ local' = Created(Removed(local, r), NodeOf(r), [kind |-> "link", time |-> 0])
  /\ UNCHANGED queue

SameDirectory(r) ==
  /\ HasLocal(r) /\ r.kind = "dir"
  /\ local' = IF localFiles[i'].kind = "dir" THEN local
              ELSE Created(Removed(local, r), NodeOf(r), [kind |-> "dir", time |-> 0])
  /\ UNCHANGED queue

SameFile(r) ==
  /\ HasLocal(r) /\ r.kind \in {"file", "special"}
  /\ IF localFiles[i'].kind = "dir"
       THEN local' = Removed(local, r) /\ queue' = Append(queue, index)
       ELSE /\ queue' = IF /\ r.kind = "file" /\ NodeOf(r) \notin Invalid
                          /\ IsOlderThan(localFiles[i'], r)
                         THEN Append(queue, index) ELSE queue
            /\ UNCHANGED local

Skip(r) == ~HasLocal(r) /\ r.kind = "special" /\ UNCHANGED <<local, queue>>

Merge ==
  /\ pc = "merge" /\ index <= Len(remoteFiles)
  /\ index' = index + 1
  /\ i' = NextLocal(i, remoteFiles[index])
  /\ LET r == remoteFiles[index]
     IN  \/ NewDirectory(r) \/ NewLink(r) \/ NewFile(r)
         \/ SameDirectory(r) \/ SameLink(r) \/ SameFile(r) \/ Skip(r)
  /\ UNCHANGED <<pc, directories, localFiles, updated, failed, sizes, constant>>

Merged ==
  /\ pc = "merge" /\ index > Len(remoteFiles)
  /\ pc' = "transfer"
  /\ i' = 1
  /\ UNCHANGED <<local, directories, localFiles, index, queue, updated, failed, sizes, constant>>
-----------------------------------------------------------------------------
(* One file of the queue arrives, in the first phase or in the second, or does
   not arrive at all. *)
Transfer ==
  /\ pc = "transfer" /\ i <= Len(queue)
  /\ LET r == remoteFiles[queue[i]]
     IN  \/ /\ local' = Installed(local, r)
            /\ updated' = updated \cup {NodeOf(r)}
            /\ UNCHANGED failed
         \/ /\ failed' = TRUE
            /\ UNCHANGED <<local, updated>>
  /\ i' = i + 1
  /\ UNCHANGED <<pc, directories, localFiles, index, queue, sizes, constant>>

Transferred ==
  /\ pc = "transfer" /\ i > Len(queue)
  /\ pc' = IF deletionEnabled THEN "delete" ELSE "sizes"
  /\ i' = Len(localFiles)
  /\ index' = Len(remoteFiles)
  /\ UNCHANGED <<local, directories, localFiles, queue, updated, failed, sizes, constant>>
-----------------------------------------------------------------------------
(* Backwards through both lists, never as far as the top. *)
PastEqual(l) ==
  CHOOSE k \in 1 .. index :
    /\ \A j \in k + 1 .. index : ~GloballyLess(remoteFiles[j], l)
    /\ k > 1 => GloballyLess(remoteFiles[k], l)

NextRemote(l) ==
  CHOOSE k \in 1 .. index :
    /\ \A j \in k + 1 .. index : GloballyLess(l, remoteFiles[j])
    /\ k > 1 => ~GloballyLess(l, remoteFiles[k])

KeepFirst(l, k) == GloballyLess(remoteFiles[k], l)

OnlyLocal(l, k) == k <= 1 \/ GloballyLess(remoteFiles[k], l)

Delete ==
  /\ pc = "delete" /\ i > 1
  /\ index' = NextRemote(localFiles[i])
  /\ local' = IF OnlyLocal(localFiles[i], index') THEN Removed(local, localFiles[i]) ELSE local
  /\ i' = i - 1
  /\ UNCHANGED <<pc, directories, localFiles, queue, updated, failed, sizes, constant>>

Deleted ==
  /\ pc = "delete" /\ i <= 1
  /\ pc' = "sizes"
  /\ UNCHANGED <<local, directories, localFiles, i, index, queue, updated, failed, sizes, constant>>
-----------------------------------------------------------------------------
(* Entry::contains.  The directories that lead to an entry are kept on a stack,
   and the size of a file is added to that of each of them. *)
Contains(dir, entry) ==
  Len(dir.path) <= Len(entry.path) /\ SubSeq(entry.path, 1, Len(dir.path)) = dir.path

PoppedOnce(stack, entry) ==
  IF Len(stack) > 1 /\ ~Contains(remoteFiles[stack[Len(stack)]], entry)
    THEN SubSeq(stack, 1, Len(stack) - 1)
    ELSE stack

Popped(stack, entry) ==
  LET Leads(d) == d = 1 \/ Contains(remoteFiles[stack[d]], entry)
  IN  SubSeq(stack, 1, CHOOSE d \in DOMAIN stack :
                         Leads(d) /\ \A e \in DOMAIN stack : e > d => ~Leads(e))

DirectoryStack ==
  LET stack[k \in DOMAIN remoteFiles] ==
        IF k = 1 THEN <<1>>
        ELSE LET popped == Popped(stack[k - 1], remoteFiles[k])
             IN  IF remoteFiles[k].kind = "dir" THEN Append(popped, k) ELSE popped
  IN  stack

AddSizes ==
  /\ pc = "sizes"
  /\ LET stack == DirectoryStack
     IN  sizes' = [d \in DOMAIN remoteFiles |->
                    {k \in DOMAIN remoteFiles \ {1} :
                       /\ remoteFiles[k].kind # "dir"
                       /\ \E j \in DOMAIN stack[k] : stack[k][j] = d}]
  /\ pc' = "done"
  /\ UNCHANGED <<local, directories, localFiles, i, index, queue, updated, failed, constant>>
-----------------------------------------------------------------------------
Next ==
  \/ ListNext \/ ListIncluded \/ Indexed
  \/ Merge \/ Merged
  \/ Transfer \/ Transferred
  \/ Delete \/ Deleted \/ AddSizes

Spec == Init /\ [][Next]_vars
-----------------------------------------------------------------------------
(* What is on the local list: all but what listDirectory passes over, or what
   createEntry finds of includeFiles. *)
Seen(p) ==
  IF included = Everything THEN before[p] # None /\ p \notin Unlisted
  ELSE p \in included /\ before[p].kind \in {"file", "dir"}

(* The walk with a stack that orders each directory by compareLocally yields
   the order of compareGlobally, which the merge and the deletion pass rely
   on, and lists everything that listDirectory does not pass over, at any
   depth, once. *)
ListIsSorted ==
  /\ IsSorted(Tail(localFiles))
  /\ pc # "index" =>
       {NodeOf(e) : e \in {localFiles[k] : k \in 2 .. Len(localFiles)}} = {p \in Paths : Seen(p)}

(* The merge queues a remote file if and only if the local list has no file or
   link at its path or one that is older, whatever else the lists hold, with
   and without includeFiles.  A local file that is not on the list is fetched
   again in every download, even if it is the same or newer. *)
Needed(p) ==
  /\ remote[p].kind = "file" /\ p \notin Invalid
  /\ IF Seen(p) /\ before[p].kind # "dir" THEN IsOlderThan(before[p], remote[p])
     ELSE p \notin Internal

QueueIsExact ==
  pc \notin {"index", "merge"} =>
    {NodeOf(remoteFiles[queue[k]]) : k \in DOMAIN queue} = {p \in Paths : Needed(p)}

(* Nothing disappears but in the deletion pass, and then only what the remote
   side does not have, or has as a directory and not as a file, or the other
   way round. *)
RemovesOnlyMissing ==
  [][\A p \in Paths :
       local[p] # None /\ local'[p] = None =>
         /\ pc = "delete"
         /\ remote[p] # None => (remote[p].kind = "dir" <=> local[p].kind # "dir")]_vars

(* What is reported as updated is there and not older, with or without
   deletion, failures or a selection, unless a directory had been in its place,
   or something else where one of its directories belongs.  If everything is
   included and every file arrives, a download with deletion leaves the tree of
   the remote side: what it does not have is gone, but for what listDirectory
   passes over and the directories in which something of that is left; what it
   has, and what did not have to change from one kind to another, is there and
   no file is older, but for special files and names that are not allowed. *)
Above(d, p) ==
  Len(d) < Len(p) /\ p[Len(d) + 1] = Slash /\ \A k \in DOMAIN d : d[k] = p[k]

Obstructed(p) == \E d \in Paths : Above(d, p) /\ before[d].kind \notin {"none", "dir"}

SameKind(p) ==
  \/ None \in {before[p], remote[p]}
  \/ before[p].kind = remote[p].kind
  \/ remote[p].kind \in {"link", "special"} /\ before[p].kind # "dir" /\ p \notin Unlisted

IsCurrent(p) == local[p].kind = "file" /\ ~IsOlderThan(local[p], remote[p])

Gone(p) == local[p] = None \/ p \in Unlisted \/ ~Empty(local, p)

Mirrors(p) ==
  CASE remote[p].kind = "special" -> local[p] = before[p]
    [] remote[p].kind = "file" ->
         IF p \in Invalid \cup Internal THEN local[p] = before[p] ELSE IsCurrent(p)
    [] OTHER -> local[p].kind = remote[p].kind

Mirror ==
  pc = "done" =>
    /\ \A p \in updated :
         remote[p].kind = "file" /\ (IsCurrent(p) \/ Obstructed(p) \/ before[p].kind = "dir")
    /\ deletionEnabled /\ included = Everything /\ ~failed =>
         \A p \in Paths :
           IF remote[p] = None THEN Gone(p)
           ELSE SameKind(p) /\ ~Obstructed(p) => Mirrors(p)

(* What is reported of a directory is the size of everything that is not a
   directory under it, at any depth: the order of the list keeps what is in a
   directory together, whatever is named almost like it. *)
SizesAreExact ==
  pc = "done" =>
    \A d \in DOMAIN remoteFiles :
      sizes[d] = {k \in DOMAIN remoteFiles :
                    /\ remoteFiles[d].kind = "dir" /\ remoteFiles[k].kind # "dir"
                    /\ d = 1 \/ Contains(remoteFiles[d], remoteFiles[k])}
=============================================================================
