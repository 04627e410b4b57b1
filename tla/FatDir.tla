------------------------------- MODULE FatDir -------------------------------
(***************************************************************************)
(* The directory tree of the FAT driver (common/fat.c): directories are    *)
(* chains of clusters holding records, a record that starts with zero ends *)
(* the directory, a removed one starts with 0xE5. A path is followed by    *)
(* fill_record_buffer, which creates what is missing when the mode says so *)
(* and extends a directory that is full. The contents of files are the     *)
(* subject of module Fat; names are those that fill_path_buffer produces   *)
(* (module FatName).                                                       *)
(*                                                                         *)
(* The driver is called under one lock, so one call is under way at a time *)
(* and each component of its path is one step.  A write of the table may   *)
(* fail while a directory grows, where the driver does not look at it; the *)
(* failures that it looks at are in module Fat.                            *)
(***************************************************************************)
EXTENDS Integers, Sequences, FiniteSets

CONSTANTS Name,         \* names of records
          Clusters,     \* data clusters 2 .. Clusters + 1
          Slots,        \* records in a cluster
          RootSlots,    \* records in the fixed root directory
          Fixed,        \* a fixed root directory (FAT12, FAT16)
          Depth,        \* bound on the length of a path
          Handles       \* open files

Cluster == 2 .. Clusters + 1
Root == IF Fixed THEN 1 ELSE 2     \* 1 stands for the fixed area
Area == Cluster \cup {Root}
Last == Clusters + 2               \* a table value of 0x0FFFFFF8 or more
Size(c) == IF c = 1 THEN RootSlots ELSE Slots

VARIABLES slot,   \* the records on the disk, by area and index
          table,  \* the allocation table
          fd,     \* the handles: opened, and where their record is
          op,     \* the call under way, and the result of the last one
          sound,  \* ready: no write of the table has failed
          kept    \* history: no record was taken from a directory that is there

vars == <<slot, table, fd, op, sound, kept>>

EndMark == [name |-> "end", dir |-> FALSE, cluster |-> 0]
\* Mutant: a removed record starts with zero.
DeletedZero == [name |-> "end", dir |-> FALSE, cluster |-> 0]

Deleted == [name |-> "deleted", dir |-> FALSE, cluster |-> 0]
Nowhere == <<0, 0>>                \* record_sector and record_offset zero
Records(c) == [1..Size(c) -> [name : Name \cup {"end", "deleted", "dot", "dotdot"},
                              dir : BOOLEAN, cluster : {0} \cup Cluster]]

At(a) == slot[a[1]][a[2]]
Idle == op.pc = "idle"
Closed == [opened |-> FALSE, addr |-> Nowhere]
Paths == (UNION {[1..n -> Name] : n \in 1..Depth}) \X BOOLEAN
IsDir(p, i) == i < Len(p[1]) \/ p[2]

-----------------------------------------------------------------------------
(* Walking a directory *)

\* The areas of the directory that starts at c, in order.
Chain(c) ==
    LET f[n \in 0..Clusters] ==
          IF n = 0 THEN <<c>>
          ELSE LET s == f[n - 1]
                   t == IF s[Len(s)] = 1 THEN Last ELSE table[s[Len(s)]]
               IN  IF Len(s) < n \/ t \notin Cluster THEN s ELSE Append(s, t)
    IN  f[Clusters]

\* The addresses of its records in order, up to the first end mark.
Visible(c) ==
    LET ch == Chain(c)
        all == {<<k, j>> \in (1..Len(ch)) \X (1..(Slots + RootSlots)) : j <= Size(ch[k])}
        before(x, y) == x[1] < y[1] \/ (x[1] = y[1] /\ x[2] < y[2])
    IN  {<<ch[x[1]], x[2]>> : x \in
            {x \in all : \A y \in all : before(y, x) =>
                                          slot[ch[y[1]]][y[2]].name # "end"}}

\* The first of the addresses A of the directory that starts at c.
FirstOf(c, A) ==
    LET ch == Chain(c)
        pos(a) == (CHOOSE k \in 1..Len(ch) : ch[k] = a[1]) * (Slots + RootSlots + 1) + a[2]
    IN  CHOOSE a \in A : \A b \in A : pos(a) <= pos(b)

\* Mutant: only the first cluster of the directory is searched.
FoundFirst(c, n) == {a \in Visible(c) : At(a).name = n /\ a[1] = c}

\* iterate_fixed_root_dir and iterate_dir with a name.
Found(c, n) == {a \in Visible(c) : At(a).name = n}

\* Mutant: a record of a file is taken for a free one.
EmptyFiles(c) == {a \in Visible(c) : ~At(a).dir}

\* The same with find_empty.
Empty(c) == {a \in Visible(c) : At(a).name \in {"end", "deleted"}}

Free == {c \in Cluster : table[c] = 0}

\* allocate_cluster; where its search starts is part of module Fat.
Allocate == {c \in Free : \A d \in Free : c <= d}

\* Mutant: the new cluster's own table value is not set to the end.
ExtendZero(c, new) ==
    LET ch == Chain(c)
    IN  [table EXCEPT ![new] = -1, ![ch[Len(ch)]] = new]

\* append_cluster for a directory: a zeroed cluster at the end of the chain.
Zeroed(c) == [j \in 1..Size(c) |-> EndMark]
Extend(c, new) ==
    LET ch == Chain(c)
    IN  [table EXCEPT ![new] = Last, ![ch[Len(ch)]] = new]

-----------------------------------------------------------------------------
(* Calls *)

NoCall == [pc |-> "idle", kind |-> "none", h |-> 0, path |-> <<<<>>, FALSE>>,
           new |-> <<<<>>, FALSE>>, create |-> FALSE, i |-> 1, cl |-> Root,
           addr |-> Nowhere, rec |-> EndMark, res |-> "none", phase |-> 1, tries |-> 0]

Begin(kind, h, p, q, create) ==
    /\ Idle /\ sound
    /\ op' = [NoCall EXCEPT !.pc = "step", !.kind = kind, !.h = h, !.path = p,
                            !.new = q, !.create = create]
    /\ UNCHANGED <<slot, table, fd, sound, kept>>

\* Only a call that succeeded is remembered, for the properties.
Finish(r) ==
    op' = IF r = "ok"
            THEN [NoCall EXCEPT !.kind = op.kind, !.path = op.path, !.new = op.new,
                                !.addr = op.addr, !.res = r]
            ELSE NoCall

\* fat_open with a free handle; a mode with w or a creates.
OpenBegin ==
    \E h \in Handles, p \in Paths, create \in BOOLEAN :
        /\ ~fd[h].opened /\ \A g \in Handles : g < h => fd[g].opened
        /\ Begin("open", h, p, p, create)

RemoveBegin == \E p \in Paths : Begin("remove", 0, p, p, FALSE)

\* fat_rename takes paths of the same length.
RenameBegin ==
    \E p, q \in Paths :
        Len(p[1]) = Len(q[1]) /\ (q[2] => p[2]) /\ Begin("rename", 0, p, q, FALSE)

CloseFile ==
    /\ Idle /\ sound
    /\ \E h \in Handles : fd[h].opened /\ fd' = [fd EXCEPT ![h] = Closed]
    /\ UNCHANGED <<slot, table, op, sound, kept>>

-----------------------------------------------------------------------------
(* fill_record_buffer, one component *)

Component == op.path[1][op.i]
AtLast == op.i = Len(op.path[1])
\* Mutant: only the caller's own handle is looked at.
InUseOwn(a) == AtLast /\ op.h # 0 /\ fd[op.h].opened /\ fd[op.h].addr = a

\* The record is the one of an open handle.
InUse(a) == AtLast /\ \E h \in Handles : fd[h].opened /\ fd[h].addr = a

\* Go to the next component, or end the search.
Onward(a, r) ==
    IF ~AtLast /\ ~r.dir THEN Finish("invalid_name")
    ELSE op' = [op EXCEPT !.addr = a, !.rec = r, !.cl = r.cluster,
                          !.i = IF AtLast THEN op.i ELSE op.i + 1, !.tries = 0,
                          !.pc = IF AtLast THEN "found" ELSE "step"]

StepFound ==
    /\ op.pc = "step" /\ Found(op.cl, Component) # {}
    /\ LET a == FirstOf(op.cl, Found(op.cl, Component))
       IN  IF InUse(a) THEN Finish("already_open") ELSE Onward(a, At(a))
    /\ UNCHANGED <<slot, table, fd, sound, kept>>

StepMissing ==
    /\ op.pc = "step" /\ Found(op.cl, Component) = {} /\ ~op.create
    /\ IF op.kind = "rename" /\ op.phase = 2
         THEN op' = [op EXCEPT !.pc = "rename_new"]
         ELSE Finish("not_found")
    /\ UNCHANGED <<slot, table, fd, sound, kept>>

\* The end of the first of the two searches for a free record.
Searched(n) ==
    /\ op.pc = "step" /\ Found(op.cl, Component) = {} /\ op.create
    /\ Empty(op.cl) = {} /\ op.cl # 1 /\ op.tries < n

\* No record is free: the directory gets another cluster. The fixed root
\* directory cannot grow.
StepExtend ==
    /\ Searched(2) /\ Free # {}
    /\ \E c \in Allocate :
         /\ table' = Extend(op.cl, c)
         /\ slot' = [slot EXCEPT ![c] = Zeroed(c)]
    /\ op' = [op EXCEPT !.tries = @ + 1]
    /\ UNCHANGED <<fd, sound, kept>>

\* The table cannot be written with the new cluster, or with its predecessor;
\* the result of append_cluster is not looked at.
StepExtendFails ==
    /\ Searched(2) /\ Free # {}
    /\ \E c \in Allocate :
         /\ \/ table' = [table EXCEPT ![c] = Last]
            \/ table' = Extend(op.cl, c)
         /\ slot' = [slot EXCEPT ![c] = Zeroed(c)]
    /\ op' = [op EXCEPT !.tries = @ + 1]
    /\ sound' = FALSE
    /\ UNCHANGED <<fd, kept>>

\* Mutant: the parent of a directory in the root directory is the root's area.
NewDirRoot(c, parent) ==
    [j \in 1..Slots |->
        CASE j = 1 -> [name |-> "dot", dir |-> TRUE, cluster |-> c]
          [] j = 2 -> [name |-> "dotdot", dir |-> TRUE, cluster |-> c]
          [] OTHER -> EndMark]

\* A new directory: its cluster with the records of itself and its parent.
NewDir(c, parent) ==
    [j \in 1..Slots |->
        CASE j = 1 -> [name |-> "dot", dir |-> TRUE, cluster |-> c]
          [] j = 2 -> [name |-> "dotdot", dir |-> TRUE, cluster |-> parent]
          [] OTHER -> EndMark]

\* The record is created at a, where the search for a free one stopped.
CreateAt(a) ==
    IF InUse(a) THEN Finish("already_open") /\ UNCHANGED <<slot, table, fd>>
    ELSE IF IsDir(op.path, op.i)
      THEN \/ /\ Free = {}
              /\ Finish("no_space")
              /\ UNCHANGED <<slot, table, fd>>
           \/ \E c \in Allocate :
                LET r == [name |-> Component, dir |-> TRUE, cluster |-> c]
                    made == [slot EXCEPT ![c] =
                              NewDir(c, IF op.i = 1 THEN 0 ELSE op.cl)]
                IN  /\ table' = [table EXCEPT ![c] = Last]
                    /\ IF a = Nowhere
                         THEN slot' = made /\ Finish("inconsistent")
                         ELSE slot' = [made EXCEPT ![a[1]][a[2]] = r] /\ Onward(a, r)
                    /\ UNCHANGED fd
      ELSE LET r == [name |-> Component, dir |-> FALSE, cluster |-> 0]
           IN  /\ IF a = Nowhere
                    THEN Finish("inconsistent") /\ UNCHANGED slot
                    ELSE slot' = [slot EXCEPT ![a[1]][a[2]] = r] /\ Onward(a, r)
               /\ UNCHANGED <<table, fd>>

StepCreate ==
    /\ op.pc = "step" /\ Found(op.cl, Component) = {} /\ op.create
    /\ Empty(op.cl) # {}
    /\ CreateAt(FirstOf(op.cl, Empty(op.cl)))
    /\ UNCHANGED <<sound, kept>>

\* The search for a free record failed twice and returned -1, which is not
\* taken for an error: the address of the previous component is used, so that
\* its record is overwritten. The fixed root directory resets it first.
StepNoRoom ==
    /\ op.pc = "step" /\ Found(op.cl, Component) = {} /\ op.create
    /\ Empty(op.cl) = {} /\ (op.cl = 1 \/ Free = {} \/ op.tries = 2)
    /\ CreateAt(op.addr)
    /\ kept' = (kept /\ (op.addr = Nowhere \/ slot'[op.addr[1]] = slot[op.addr[1]]))
    /\ UNCHANGED sound

-----------------------------------------------------------------------------
(* What follows the search *)

OpenEnd ==
    /\ op.pc = "found" /\ op.kind = "open"
    /\ fd' = [fd EXCEPT ![op.h] = [opened |-> TRUE, addr |-> op.addr]]
    /\ Finish("ok")
    /\ UNCHANGED <<slot, table, sound, kept>>

\* Mutant: the second cluster of the directory is not looked at.
EmptyDirFirst(c) ==
    \A a \in Visible(c) \ {<<c, 1>>, <<c, 2>>} : a[1] = c => At(a).name \in {"end", "deleted"}

\* A directory is empty when its third record and those after it are.
EmptyDir(c) ==
    \A a \in Visible(c) \ {<<c, 1>>, <<c, 2>>} : At(a).name \in {"end", "deleted"}

\* fat_remove: the kind must match, a directory must be empty.
RemoveEnd ==
    /\ op.pc = "found" /\ op.kind = "remove"
    /\ IF op.path[2] # op.rec.dir THEN Finish("wrong_kind") /\ UNCHANGED <<slot, table>>
       ELSE IF op.rec.dir /\ ~EmptyDir(op.rec.cluster)
         THEN Finish("not_empty") /\ UNCHANGED <<slot, table>>
       ELSE LET gone == IF op.rec.cluster = 0 THEN {}
                        ELSE {Chain(op.rec.cluster)[k] : k \in 1..Len(Chain(op.rec.cluster))}
            IN  /\ slot' = [c \in Area |->
                      IF c \in gone THEN Zeroed(c)
                      ELSE IF c = op.addr[1] THEN [slot[c] EXCEPT ![op.addr[2]] = Deleted]
                      ELSE slot[c]]
                /\ table' = [c \in DOMAIN table |-> IF c \in gone THEN 0 ELSE table[c]]
                /\ Finish("ok")
    /\ UNCHANGED <<fd, sound, kept>>

\* Mutant: the last directory of the two paths is not compared.
SameDirectoryButOne(p, q) == \A i \in 1..(Len(p[1]) - 2) : p[1][i] = q[1][i]

\* fat_rename: the old name exists, the new one must not, both are in the same
\* directory, and then the old record gets the new name.
SameDirectory(p, q) == \A i \in 1..(Len(p[1]) - 1) : p[1][i] = q[1][i]

\* The search is made for the old name, the new one and the old one again.
RenameOld ==
    /\ op.pc = "found" /\ op.kind = "rename" /\ op.phase = 1
    /\ op' = [op EXCEPT !.pc = "step", !.path = op.new, !.new = op.path, !.i = 1,
                        !.cl = Root, !.addr = Nowhere, !.phase = 2]
    /\ UNCHANGED <<slot, table, fd, sound, kept>>

RenameExists ==
    /\ op.pc = "found" /\ op.kind = "rename" /\ op.phase = 2
    /\ Finish("exists")
    /\ UNCHANGED <<slot, table, fd, sound, kept>>

RenameNew ==
    /\ op.pc = "rename_new"
    /\ IF SameDirectory(op.new, op.path)
         THEN op' = [op EXCEPT !.pc = "step", !.path = op.new, !.new = op.path, !.i = 1,
                               !.cl = Root, !.addr = Nowhere, !.phase = 3]
         ELSE Finish("other_directory")
    /\ UNCHANGED <<slot, table, fd, sound, kept>>

\* Mutant: the old name is written back.
RenameEndOld ==
    /\ op.pc = "found" /\ op.kind = "rename" /\ op.phase = 3
    /\ slot' = [slot EXCEPT ![op.addr[1]][op.addr[2]].name = op.path[1][Len(op.path[1])]]
    /\ Finish("ok")
    /\ UNCHANGED <<table, fd, sound, kept>>

RenameEnd ==
    /\ op.pc = "found" /\ op.kind = "rename" /\ op.phase = 3
    /\ slot' = [slot EXCEPT ![op.addr[1]][op.addr[2]].name = op.new[1][Len(op.new[1])]]
    /\ Finish("ok")
    /\ UNCHANGED <<table, fd, sound, kept>>

-----------------------------------------------------------------------------
Init ==
    /\ slot = [c \in Area |-> Zeroed(c)]
    /\ table = [c \in Cluster |-> IF c = Root THEN Last ELSE 0]
    /\ fd = [h \in Handles |-> Closed]
    /\ op = NoCall
    /\ sound = TRUE /\ kept = TRUE

Next ==
    \/ OpenBegin \/ RemoveBegin \/ RenameBegin \/ CloseFile
    \/ StepFound \/ StepMissing \/ StepExtend \/ StepExtendFails \/ StepCreate \/ StepNoRoom
    \/ OpenEnd \/ RemoveEnd \/ RenameOld \/ RenameExists \/ RenameNew \/ RenameEnd

Spec == Init /\ [][Next]_vars

-----------------------------------------------------------------------------
(* Properties *)

TypeOK ==
    /\ \A c \in Area : slot[c] \in Records(c)
    /\ table \in [Cluster -> {0} \cup Cluster \cup {Last}]
    /\ \A h \in Handles : fd[h].opened \in BOOLEAN
    /\ sound \in BOOLEAN /\ kept \in BOOLEAN

\* All the records of the directory that starts at c, end marks or not.
Inside(c) ==
    LET ch == Chain(c)
    IN  {<<ch[k], j>> : k \in 1..Len(ch), j \in 1..(Slots + RootSlots)} \cap
          (UNION {{a} \X (1..Size(a)) : a \in Area})
Named(c) == {a \in Inside(c) : At(a).name \in Name}

\* The record of a path, found without regard to end marks; Nowhere if none.
Lookup(p) ==
    LET f[i \in 0..Len(p)] ==
          IF i = 0 THEN <<Root, Nowhere>>
          ELSE LET d == f[i - 1][1]
                   m == IF d = 0 THEN {} ELSE {a \in Named(d) : At(a).name = p[i]}
               IN  IF m = {} THEN <<0, Nowhere>>
                   ELSE LET a == CHOOSE a \in m : TRUE IN <<At(a).cluster, a>>
    IN  f[Len(p)][2]

Directories == {Root} \cup {At(a).cluster : a \in
                 {a \in UNION {{c} \X (1..Size(c)) : c \in Area} :
                      At(a).name \in Name /\ At(a).dir}}

(***************************************************************************)
(* A file or directory that is created where no record is free and the     *)
(* directory cannot grow overwrites the record of the directory it should  *)
(* be in (fill_record_buffer): what was in that directory is lost.  The    *)
(* properties say what holds as long as this has not happened (kept).      *)
(* They are about the directories as the driver sees them: after a table   *)
(* that could not be written a directory may have grown in memory only,    *)
(* and what was created there is not on the volume, although the call      *)
(* succeeds; all later calls fail then.                                    *)
(***************************************************************************)

\* No directory has two records of the same name.
UniqueNames ==
    Idle /\ kept => \A c \in Directories : \A a, b \in Named(c) : At(a).name = At(b).name => a = b

\* No record lies behind an end mark, where no search would reach it.
NoneHidden == Idle /\ kept => \A c \in Directories : Named(c) \subseteq Visible(c)

\* A successful open, remove or rename did what its path says: the path leads
\* to the record that was opened, to nothing, or from the new name to the
\* record of the old one.
DidWhatItSays ==
    op.pc = "idle" /\ op.res = "ok" /\ kept =>
        CASE op.kind = "open"   -> Lookup(op.path[1]) = op.addr
          [] op.kind = "remove" -> Lookup(op.path[1]) = Nowhere
          [] op.kind = "rename" -> Lookup(op.new[1]) = op.addr /\ Lookup(op.path[1]) = Nowhere

\* The record of an open handle stays a record of a directory, and no two
\* handles share it.
OpenStays ==
    Idle /\ kept =>
    /\ \A h \in Handles : fd[h].opened =>
          \E c \in Directories : fd[h].addr \in Named(c)
    /\ \A g, h \in Handles : fd[g].opened /\ fd[h].opened /\ fd[g].addr = fd[h].addr => g = h

\* Every directory starts with a record of itself and one of its parent, and
\* the directories are disjoint.
TreeOK ==
    Idle /\ kept =>
    /\ \A c \in Directories : \A a \in Named(c) : At(a).dir =>
          /\ slot[At(a).cluster][1] = [name |-> "dot", dir |-> TRUE, cluster |-> At(a).cluster]
          /\ slot[At(a).cluster][2] = [name |-> "dotdot", dir |-> TRUE,
                                       cluster |-> IF c = Root THEN 0 ELSE c]
    /\ \A c, d \in Directories : c # d => Inside(c) \cap Inside(d) = {}

\* Only a removal or a rename changes a record that is there: creating takes a
\* free one, with the exception above.
RecordsKept ==
    kept' => \A c \in Area : \A j \in 1..Size(c) :
          slot[c][j].name \in Name /\ slot'[c][j] # slot[c][j]
              => op.kind \in {"remove", "rename"}
=============================================================================
