-------------------------------- MODULE Vfs ---------------------------------
(***************************************************************************)
(* The tree of the virtual file system: vfs/vfs.c, with the node functions *)
(* n_open, n_remove and n_release of a FAT volume as far as vfs.c uses     *)
(* them.                                                                   *)
(*                                                                         *)
(* The tree holds a node for every path that is in use, and for every      *)
(* directory above it.  Nodes are counted twice: count has one for the     *)
(* tree and one for each user, tree_state one for each user.  The pointers *)
(* tree[0 .. 2] are abstracted to the function at from paths to nodes.     *)
(* Everything between vfs_lock_tree and vfs_unlock_tree is one step.       *)
(***************************************************************************)
EXTENDS Naturals, Sequences, FiniteSets

CONSTANTS
  Users,      \* the tasks
  Driver,     \* those of them that mount a node
  NodeCount,  \* bound: the number of struct vfs_node that fit in memory
  Names,      \* the names of the components
  Path,       \* the paths, closed under prefixes
  Disk,       \* path -> what the volume holds at first: dir, file or none
  NONE        \* the NULL of a pointer

VARIABLES
  treeAt,    \* path -> the node in the tree
  treeNode,  \* node -> count, tree_state, mount_state, n_release, mode and type
  disk,      \* path -> what the volume holds
  hold,      \* task -> the node it has opened
  treeNew,   \* task -> the node it wants to mount
  treePc     \* task -> where it is in vfs_open or vfs_mount

Nodes == 1 .. NodeCount
Root == <<>>

Prefixes(p) == {SubSeq(p, 1, k) : k \in 0 .. Len(p)}

\* NONE is no node; the root is a path, with a node of its own.
ASSUME VfsAssumption ==
  /\ IsFiniteSet(Users) /\ NodeCount \in Nat \ {0} /\ NONE \notin Nodes
  /\ Path \subseteq Seq(Names) /\ Root \in Path
  /\ \A p \in Path : Prefixes(p) \subseteq Path
  /\ Disk \in [Path -> {"dir", "file", "none"}]

vfsVars == <<treeAt, treeNode, disk, hold, treeNew, treePc>>

\* What a call of vfs_open may ask for.
Types == {"any", "dir", "file"}
Modes == {{}, {"create"}, {"create", "exclusive"}, {"stat_only"}, {"truncate"}}

VfsTypeOK ==
  /\ treeAt \in [Path -> Nodes \cup {NONE}]
  /\ treeNode \in [Nodes -> [count : Nat, tree_state : Nat, mount_state : {0, 1},
                        n_release : BOOLEAN, exclusive : BOOLEAN,
                        type : {"dir", "file"}]]
  /\ disk \in [Path -> {"dir", "file", "none"}]
  /\ hold \in [Users -> Nodes \cup {NONE}]
  /\ treeNew \in [Users -> Nodes \cup {NONE}]
  /\ treePc \in [Users -> Types \cup {"idle", "truncate", "stat_only", "mount"}]

\* A node as n_open or a driver has made it; n_release says that it is vfs.c's.
Fresh(type, exclusive) ==
  [count |-> 1, tree_state |-> 0, mount_state |-> 0,
   n_release |-> FALSE, exclusive |-> exclusive, type |-> type]

\* vfs_init: the root is mounted, and never released.
VfsInit ==
  /\ treeAt = [p \in Path |-> IF p = Root THEN 1 ELSE NONE]
  /\ treeNode = [n \in Nodes |->
               IF n = 1 THEN [Fresh("dir", FALSE) EXCEPT !.mount_state = 1, !.n_release = TRUE]
                        ELSE [Fresh("dir", FALSE) EXCEPT !.count = 0]]
  /\ disk = Disk
  /\ hold = [t \in Users |-> NONE]
  /\ treeNew = [t \in Users |-> NONE]
  /\ treePc = [t \in Users |-> "idle"]

-----------------------------------------------------------------------------
\* The n-th unused structure.
Free == {n \in Nodes : treeNode[n].count = 0}
Unused(i) == CHOOSE n \in Free : Cardinality({m \in Free : m < n}) = i - 1

Children(tree, p) == {q \in Path : Len(q) = Len(p) + 1 /\ p \in Prefixes(q) /\ tree[q] # NONE}

PathOf(n) == CHOOSE p \in Path : treeAt[p] = n

\* How many components of p find_node finds from the root.
VfsFound(p) == CHOOSE k \in 0 .. Len(p) :
  /\ treeAt[SubSeq(p, 1, k)] # NONE
  /\ \A j \in 0 .. Len(p) : treeAt[SubSeq(p, 1, j)] # NONE => j <= k

\* Another file system is mounted at a directory above p.
Foreign(p) == \E q \in Prefixes(p) \ {Root, p} :
  treeAt[q] # NONE /\ treeNode[treeAt[q]].mount_state = 1

\* Mutant: a user who comes back to an idle node is not counted.
IncrementOnce(r) == [r EXCEPT !.count = @ + 1]

\* Mutant: the wrong counter is incremented.
IncrementSwapped(r) == [r EXCEPT !.count = @ + 1, !.mount_state = @ + 1]

\* vfs_increment_count
Increment(r) ==
  [r EXCEPT !.count = @ + 1, !.tree_state = IF @ > 0 THEN @ + 1 ELSE @]

\* set_tree_state
SetTreeState(r) == [r EXCEPT !.tree_state = IF @ = 0 THEN 1 ELSE @]

\* vfs_decrement_count of a count that is positive
Decrement(r) ==
  [r EXCEPT !.count = @ - 1, !.tree_state = IF @ > 0 THEN @ - 1 ELSE @]

\* Mutant: the user count of a directory is not looked at.
IdleMount(r) == r.mount_state = 0

\* Mutant: mount_state is not looked at.
IdleUsers(r) == r.tree_state = 0

\* The conditions of the loops that remove directories nobody needs.
Idle(r) == r.tree_state = 0 /\ r.mount_state = 0

\* Mutant: only the leaf is removed.
DoomedLeaf(tree, nodes, p) ==
  {q \in {p} \ {Root} : Idle(nodes[tree[p]]) /\ Children(tree, p) = {}}

(***************************************************************************)
(* The loop that removes p and the directories above it as long as they    *)
(* are unused leaves: remove_leaf_node, unset_n_release, and the release   *)
(* of the file system, which frees a node whose count becomes 0.           *)
(***************************************************************************)
Doomed(tree, nodes, p) ==
  {q \in Prefixes(p) \ {Root} :
    \A r \in Prefixes(p) : Len(r) >= Len(q) =>
      Idle(nodes[tree[r]]) /\ Children(tree, r) \subseteq Prefixes(p)}

Prune(tree, nodes, p) ==
  LET doomed == Doomed(tree, nodes, p)
      gone == {tree[q] : q \in doomed} IN
    /\ treeAt' = [q \in Path |-> IF q \in doomed THEN NONE ELSE tree[q]]
    /\ treeNode' = [n \in Nodes |->
                  IF n \in gone THEN [Decrement(nodes[n]) EXCEPT !.n_release = FALSE]
                                ELSE nodes[n]]

-----------------------------------------------------------------------------
\* n_open of the volume can find, or make, the last component of p.
CanOpen(p, mode) ==
  LET parent == SubSeq(p, 1, Len(p) - 1) IN
    \/ Foreign(p)
    \/ /\ disk[parent] = "dir"
       /\ IF disk[p] = "none" THEN "create" \in mode
                              ELSE ~({"create", "exclusive"} \subseteq mode)

\* The type a new node gets; a missing file is made with the type asked for.
Made(p, type) ==
  IF ~Foreign(p) /\ disk[p] # "none" THEN {disk[p]}
  ELSE IF type = "any" THEN {"file"} \cup (IF Foreign(p) THEN {"dir"} ELSE {})
  ELSE {type}

\* Mutant: the exclusive mode of a node that is open is not looked at.
BusyIgnored(n, mode) == "exclusive" \in mode /\ treeNode[n].mount_state = 0

\* The test of an existing node that is the last component.
Busy(n, mode) ==
  /\ "stat_only" \notin mode
  /\ "exclusive" \in mode \/ treeNode[n].exclusive
  /\ ~(treeNode[n].mount_state = 1 /\ "create" \notin mode /\ treeNode[n].count = 1)

(***************************************************************************)
(* The part of vfs_open under the lock, when the walk gets through: the    *)
(* last component, which is in the tree or made by n_open, is taken.       *)
(***************************************************************************)
OpenTree(t, p, type, mode) ==
  LET d == VfsFound(p) IN
    /\ d < Len(p) => Len(p) - d <= Cardinality(Free)
    /\ d = Len(p) /\ p # Root => ~Busy(treeAt[p], mode)
    /\ \A k \in d + 1 .. Len(p) - 1 : CanOpen(SubSeq(p, 1, k), {})
    /\ d < Len(p) => CanOpen(p, mode)
    /\ \E made \in Made(p, type) :
         LET n == IF d = Len(p) THEN treeAt[p] ELSE Unused(Len(p) - d)
             fresh(q) == Unused(Len(q) - d)
             added == {q \in Prefixes(p) : Len(q) \in d + 1 .. Len(p)}
             nodes == [m \in Nodes |->
               IF \E q \in added : m = fresh(q)
                 THEN [Fresh(IF m = n THEN made ELSE "dir", m = n /\ "exclusive" \in mode)
                         EXCEPT !.n_release = TRUE]
                 ELSE treeNode[m]] IN
           /\ treeAt' = [q \in Path |-> IF q \in added THEN fresh(q) ELSE treeAt[q]]
           /\ treeNode' = [nodes EXCEPT ![n] = SetTreeState(Increment(@))]
           /\ hold' = [hold EXCEPT ![t] = n]
           /\ disk' = IF d < Len(p) /\ ~Foreign(p) THEN [disk EXCEPT ![p] = made] ELSE disk

\* vfs_open up to vfs_unlock_tree; the type and the truncation follow.
VfsOpen(t, p, type, mode) ==
  /\ treePc[t] = "idle" /\ hold[t] = NONE
  /\ p = Root => type # "file"
  /\ "stat_only" \in mode => type = "any"
  /\ OpenTree(t, p, type, mode)
  /\ treePc' = [treePc EXCEPT ![t] = IF mode \in {{"stat_only"}, {"truncate"}}
                                 THEN CHOOSE m \in mode : TRUE ELSE type]
  /\ UNCHANGED treeNew

(***************************************************************************)
(* vfs_open, or vfs_remove, when component f cannot be opened (it does not *)
(* exist, there is no memory, the device fails): the directories that the  *)
(* walk has added are removed again.                                       *)
(***************************************************************************)
OpenFails(t, p, f) ==
  /\ treePc[t] = "idle"
  /\ LET d == VfsFound(p)
         added == {q \in Prefixes(p) : Len(q) \in d + 1 .. f - 1}
         fresh(q) == Unused(Len(q) - d) IN
       /\ f \in d + 1 .. Len(p)
       /\ f - 1 - d <= Cardinality(Free)
       /\ \A q \in added : CanOpen(q, {})
       /\ Prune([q \in Path |-> IF q \in added THEN fresh(q) ELSE treeAt[q]],
                [m \in Nodes |-> IF \E q \in added : m = fresh(q)
                                  THEN [Fresh("dir", FALSE) EXCEPT !.n_release = TRUE]
                                  ELSE treeNode[m]],
                SubSeq(p, 1, f - 1))
  /\ UNCHANGED <<disk, hold, treeNew, treePc>>

\* n_release of vfs.c for the node that the task has.
ReleaseNode(n) ==
  LET nodes == [treeNode EXCEPT ![n] = Decrement(@)] IN
    IF treeNode[n].mount_state = 1
      THEN treeNode' = nodes /\ UNCHANGED treeAt
      ELSE Prune(treeAt, nodes, PathOf(n))

\* The rest of vfs_open: the type is the one asked for.
OpenDone(t) ==
  /\ treePc[t] \in Types \cup {"truncate"}
  /\ treePc[t] \in {"dir", "file"} => treeNode[hold[t]].type = treePc[t]
  /\ treePc' = [treePc EXCEPT ![t] = "idle"]
  /\ UNCHANGED <<treeAt, treeNode, disk, hold, treeNew>>

\* The type is another one, or n_truncate fails: the node is released.
OpenUndone(t) ==
  /\ \/ treePc[t] \in {"dir", "file"} /\ treeNode[hold[t]].type # treePc[t]
     \/ treePc[t] = "truncate"
  /\ ReleaseNode(hold[t])
  /\ hold' = [hold EXCEPT ![t] = NONE]
  /\ treePc' = [treePc EXCEPT ![t] = "idle"]
  /\ UNCHANGED <<disk, treeNew>>

\* A user releases its node; a look at the status is over then.
VfsRelease(t) ==
  /\ treePc[t] \in {"idle", "stat_only"} /\ hold[t] # NONE
  /\ ReleaseNode(hold[t])
  /\ hold' = [hold EXCEPT ![t] = NONE]
  /\ treePc' = [treePc EXCEPT ![t] = "idle"]
  /\ UNCHANGED <<disk, treeNew>>

\* A working directory is shared with a new task (fd_clone_func).
Clone(t, u) ==
  /\ treePc[t] = "idle" /\ hold[t] # NONE /\ treeNode[hold[t]].type = "dir"
  /\ treePc[u] = "idle" /\ hold[u] = NONE
  /\ treeNode' = [treeNode EXCEPT ![hold[t]] = Increment(@)]
  /\ hold' = [hold EXCEPT ![u] = hold[t]]
  /\ UNCHANGED <<treeAt, disk, treeNew, treePc>>

\* Mutant: vfs_remove does not look whether the path is in the tree.
RemovableOpen(p) == p # Root

\* vfs_remove finds no node for the last component.
Removable(p) == p # Root /\ treeAt[p] = NONE

(***************************************************************************)
(* vfs_remove: the volume removes a file or an empty directory.  A path    *)
(* that is in the tree is busy.                                            *)
(***************************************************************************)
Remove(t, p) ==
  /\ treePc[t] = "idle"
  /\ Removable(p)
  /\ ~Foreign(p)
  /\ disk[p] # "none"
  /\ \A q \in Path : Len(q) = Len(p) + 1 /\ p \in Prefixes(q) => disk[q] = "none"
  /\ \A q \in Prefixes(p) \ {p} : disk[q] = "dir"
  /\ Len(p) - 1 - VfsFound(SubSeq(p, 1, Len(p) - 1)) <= Cardinality(Free)
  /\ disk' = [disk EXCEPT ![p] = "none"]
  /\ UNCHANGED <<treeAt, treeNode, hold, treeNew, treePc>>

-----------------------------------------------------------------------------
\* A driver makes the node that it will mount.
NewNode(t) ==
  /\ t \in Driver
  /\ treePc[t] = "idle" /\ hold[t] = NONE /\ treeNew[t] = NONE
  /\ Free # {}
  /\ treeNew' = [treeNew EXCEPT ![t] = Unused(1)]
  /\ \E type \in {"dir", "file"} : treeNode' = [treeNode EXCEPT ![Unused(1)] = Fresh(type, FALSE)]
  /\ UNCHANGED <<treeAt, disk, hold, treePc>>

\* vfs_mount opens the target.
MountOpen(t, p) ==
  /\ treePc[t] = "idle" /\ hold[t] = NONE /\ treeNew[t] # NONE
  /\ OpenTree(t, p, "any", {})
  /\ treePc' = [treePc EXCEPT ![t] = "mount"]
  /\ UNCHANGED treeNew

\* The tests of vfs_mount, before and after it takes the lock.
Mountable(t) ==
  /\ hold[t] # treeAt[Root]
  /\ treeNode[hold[t]].type = treeNode[treeNew[t]].type
  /\ treeNode[hold[t]].count <= 2
  /\ Children(treeAt, PathOf(hold[t])) = {}
  /\ treeNode[hold[t]].tree_state = 1
  /\ treeNode[hold[t]].mount_state = 0

(***************************************************************************)
(* vfs_mount puts the new node in the place of the target, which it keeps  *)
(* for ever.  The driver has its own reference to the new node.            *)
(***************************************************************************)
Mount(t) ==
  /\ treePc[t] = "mount"
  /\ Mountable(t)
  /\ treeAt' = [treeAt EXCEPT ![PathOf(hold[t])] = treeNew[t]]
  /\ treeNode' = [treeNode EXCEPT ![treeNew[t]] = [Increment(@) EXCEPT
                !.tree_state = 0, !.mount_state = 1, !.n_release = TRUE]]
  /\ hold' = [hold EXCEPT ![t] = treeNew[t]]
  /\ treeNew' = [treeNew EXCEPT ![t] = NONE]
  /\ treePc' = [treePc EXCEPT ![t] = "idle"]
  /\ UNCHANGED disk

\* DE_BUSY or DE_TYPE: the target is released, and the driver frees its node.
MountFails(t) ==
  /\ treePc[t] = "mount"
  /\ ~Mountable(t)
  /\ LET nodes == [treeNode EXCEPT ![hold[t]] = Decrement(@), ![treeNew[t]].count = 0] IN
       IF treeNode[hold[t]].mount_state = 1
         THEN treeNode' = nodes /\ UNCHANGED treeAt
         ELSE Prune(treeAt, nodes, PathOf(hold[t]))
  /\ hold' = [hold EXCEPT ![t] = NONE]
  /\ treeNew' = [treeNew EXCEPT ![t] = NONE]
  /\ treePc' = [treePc EXCEPT ![t] = "idle"]
  /\ UNCHANGED disk

VfsNext ==
  \E t \in Users :
    \/ OpenDone(t) \/ OpenUndone(t) \/ VfsRelease(t) \/ NewNode(t) \/ Mount(t) \/ MountFails(t)
    \/ \E u \in Users : Clone(t, u)
    \/ \E p \in Path :
         \/ Remove(t, p) \/ MountOpen(t, p)
         \/ \E f \in 1 .. Len(p) : OpenFails(t, p, f)
         \/ \E type \in Types, mode \in Modes : VfsOpen(t, p, type, mode)

-----------------------------------------------------------------------------
UserCount(n) == Cardinality({t \in Users : hold[t] = n})

InTree(n) == \E p \in Path : treeAt[p] = n

(***************************************************************************)
(* The counts of a node in the tree are those of its users: one count more *)
(* for the tree, whatever clones, failed opens and mounts happened         *)
(* (vfs_increment_count, vfs_decrement_count, set_tree_state).             *)
(***************************************************************************)
CountsExact ==
  \A n \in Nodes : InTree(n) /\ treeNode[n].mount_state = 0 =>
    treeNode[n].count = UserCount(n) + 1 /\ treeNode[n].tree_state = UserCount(n)

(***************************************************************************)
(* A node that a task has opened is never freed, and the release function  *)
(* it will be released with is that of vfs.c (n_release, unset_n_release). *)
(***************************************************************************)
HeldIsLive ==
  \A t \in Users : hold[t] # NONE => treeNode[hold[t]].count > 0 /\ treeNode[hold[t]].n_release

(***************************************************************************)
(* The tree has no gaps and no leaves that nobody uses: what a failed walk *)
(* or the last release leaves behind is removed up to the first directory  *)
(* in use (the loops of n_release, vfs_open and vfs_remove).               *)
(***************************************************************************)
TreeTidy ==
  \A p \in Path \ {Root} : treeAt[p] # NONE =>
    /\ treeAt[SubSeq(p, 1, Len(p) - 1)] # NONE
    /\ Children(treeAt, p) # {} \/ treeNode[treeAt[p]].mount_state = 1 \/ UserCount(treeAt[p]) > 0

(***************************************************************************)
(* A file that is open, and the directories above it, are not removed from *)
(* the volume: vfs_remove finds them in the tree (vfs_remove, n_remove).   *)
(***************************************************************************)
OpenIsOnDisk ==
  \A p \in Path : treeAt[p] # NONE /\ treeNode[treeAt[p]].mount_state = 0 /\ ~Foreign(p) =>
    disk[p] = treeNode[treeAt[p]].type

(***************************************************************************)
(* A file that was opened exclusively has no other user, but for those who *)
(* only look at its status (the test de_busy of vfs_open).                 *)
(***************************************************************************)
ExclusiveAlone ==
  \A n \in Nodes : treeNode[n].exclusive /\ treeNode[n].type = "file" /\ treeNode[n].count > 0 =>
    Cardinality({t \in Users : hold[t] = n /\ treePc[t] # "stat_only"}) <= 1

(***************************************************************************)
(* A mounted file system stays where it is, and the directory it covers is *)
(* not found any more by anyone (vfs_mount has no counterpart).            *)
(***************************************************************************)
MountStays ==
  \A p \in Path : treeAt[p] # NONE =>
       (treeNode[treeAt[p]].mount_state = 1 => treeAt'[p] = treeAt[p])
=============================================================================
