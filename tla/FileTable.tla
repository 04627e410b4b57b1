------------------------------ MODULE FileTable ------------------------------
(***************************************************************************)
(* The file table and the file descriptors (syscall/file.c).               *)
(*                                                                         *)
(* An entry is allocated by locking lock[0], and shared by the descriptors *)
(* that file_dup and fd_clone_func copy; fte->count counts them.  lock[1]  *)
(* protects the entry; a step here holds it at its beginning or its end    *)
(* only where the code calls the file system with it.  A descriptor table  *)
(* belongs to one task.  fd.state, the length of the table in use, is left *)
(* out: table elements beyond it are zero.                                 *)
(***************************************************************************)
EXTENDS Naturals, Sequences, FiniteSets

CONSTANTS
  Task,    \* the tasks
  First,   \* the task that exists at the beginning and does not exit
  Entry,   \* the entries of the file table (4096)
  MaxFd,   \* TASK_FD_STATIC_COUNT (64)
  NIL      \* no task, no entry, no descriptor

Fd == 0 .. (MaxFd - 1)

\* A descriptor and an entry can be told from nothing, and so can a task.
ASSUME TableAssumption == First \in Task /\ MaxFd \in Nat /\ NIL \notin Task \cup Entry \cup Fd

VARIABLES
  lock0,      \* entry -> lock[0], 1 if allocated
  lock1,      \* entry -> the task that holds lock[1]
  tableCount, \* entry -> count
  tableNode,  \* entry -> whether it has a node
  alive,      \* the tasks that exist
  table,      \* task -> descriptor -> entry
  tablePc,    \* task -> where it is
  mine,       \* task -> the entries it is opening, closing or using
  fd,         \* task -> the descriptor it installed, or closes
  then,       \* task -> what follows when mine are dropped
  tableDup,   \* task -> [src, dst] of file_dup
  child       \* task -> [to, i] of fd_clone_func

entries == <<lock0, lock1, tableCount, tableNode>>
locals == <<mine, fd, then, tableDup, child>>
tableVars == <<entries, alive, table, tablePc, locals>>

NoDup == [src |-> NIL, dst |-> NIL]
NoChild == [to |-> NIL, i |-> 0]

TableTypeOK ==
  /\ lock0 \in [Entry -> {0, 1}] /\ lock1 \in [Entry -> Task \cup {NIL}]
  /\ tableCount \in [Entry -> Nat] /\ tableNode \in [Entry -> BOOLEAN]
  /\ alive \subseteq Task
  /\ table \in [Task -> [Fd -> Entry \cup {NIL}]]
  /\ tablePc \in [Task -> {"idle", "open", "second", "nodes", "install", "drop",
                           "release", "unlock", "clear", "dup", "clone", "exit",
                           "io", "block"}]
  /\ mine \in [Task -> Seq(Entry)] /\ fd \in [Task -> Fd \cup {NIL}]
  /\ then \in [Task -> {"idle", "dup", "exit"}]
  /\ tableDup \in [Task -> [src : Fd \cup {NIL}, dst : Fd \cup {NIL}]]
  /\ child \in [Task -> [to : Task \cup {NIL}, i : 0 .. MaxFd]]

TableInit ==
  /\ lock0 = [e \in Entry |-> 0] /\ lock1 = [e \in Entry |-> NIL]
  /\ tableCount = [e \in Entry |-> 0] /\ tableNode = [e \in Entry |-> FALSE]
  /\ alive = {First}
  /\ table = [t \in Task |-> [i \in Fd |-> NIL]]
  /\ tablePc = [t \in Task |-> "idle"]
  /\ mine = [t \in Task |-> <<>>] /\ fd = [t \in Task |-> NIL]
  /\ then = [t \in Task |-> "idle"] /\ tableDup = [t \in Task |-> NoDup]
  /\ child = [t \in Task |-> NoChild]

Ready(t) == t \in alive /\ tablePc[t] = "idle"
Goto(t, l) == tablePc' = [tablePc EXCEPT ![t] = l]

-----------------------------------------------------------------------------
\* alloc_file_entry, and count = 1.
Alloc(t, e) ==
  /\ lock0[e] = 0
  /\ lock0' = [lock0 EXCEPT ![e] = 1]
  /\ tableCount' = [tableCount EXCEPT ![e] = 1]
  /\ mine' = [mine EXCEPT ![t] = Append(@, e)]

(***************************************************************************)
(* file_open.  It expects that lock[1] of a new entry is free and that it  *)
(* has no node, and would lose the entry otherwise (DE_UNEXPECTED):        *)
(* AllocatedFresh below says that it never does.                           *)
(***************************************************************************)
FileOpen(t, e) ==
  /\ Ready(t)
  /\ Alloc(t, e)
  /\ lock1' = [lock1 EXCEPT ![e] = t]
  /\ Goto(t, "open")
  /\ UNCHANGED <<tableNode, alive, table, fd, then, tableDup, child>>

\* vfs_open returns with or without a node.
FileOpenDone(t, ok) ==
  LET e == Head(mine[t]) IN
  /\ tablePc[t] = "open"
  /\ lock1' = [lock1 EXCEPT ![e] = NIL]
  /\ tableNode' = [tableNode EXCEPT ![e] = ok]
  /\ Goto(t, IF ok THEN "install" ELSE "drop")
  /\ UNCHANGED <<lock0, tableCount, alive, table, locals>>

\* The node is a directory, and the file was to be written.
OpenDirectory(t) ==
  /\ tablePc[t] = "install" /\ Len(mine[t]) = 1 /\ fd[t] = NIL
  /\ Goto(t, "drop")
  /\ UNCHANGED <<entries, alive, table, locals>>

\* file_pipe and file_openpty: the first entry, then the second one.
Pair(t, e) ==
  /\ Ready(t)
  /\ Alloc(t, e)
  /\ Goto(t, "second")
  /\ UNCHANGED <<lock1, tableNode, alive, table, fd, then, tableDup, child>>

PairSecond(t, e) ==
  /\ tablePc[t] = "second"
  /\ Alloc(t, e)
  /\ Goto(t, "nodes")
  /\ UNCHANGED <<lock1, tableNode, alive, table, fd, then, tableDup, child>>

PairNoEntry(t) ==
  /\ tablePc[t] = "second"
  /\ \A e \in Entry : lock0[e] = 1
  /\ Goto(t, "drop")
  /\ UNCHANGED <<entries, alive, table, locals>>

\* vfs_pipe or pty_create returns with two nodes, or fails.
PairNodes(t, ok) ==
  /\ tablePc[t] = "nodes"
  /\ tableNode' = [e \in Entry |-> tableNode[e] \/ (ok /\ \E k \in 1 .. 2 : e = mine[t][k])]
  /\ Goto(t, IF ok THEN "install" ELSE "drop")
  /\ UNCHANGED <<lock0, lock1, tableCount, alive, table, locals>>

\* Mutant: the table is one element longer than it is.
UnusedBeyond(t) == {i \in Fd : table[t][i] = NIL} \cup {MaxFd}

UnusedFd(t) == {i \in Fd : table[t][i] = NIL}

\* alloc_file_descriptor: the first element that is zero.
Lowest(I) == CHOOSE i \in I : \A j \in I : i <= j

Install(t) ==
  LET i == Lowest(UnusedFd(t)) IN
  /\ tablePc[t] = "install" /\ UnusedFd(t) # {}
  /\ table' = [table EXCEPT ![t][i] = Head(mine[t])]
  /\ mine' = [mine EXCEPT ![t] = Tail(@)]
  /\ IF Len(mine[t]) = 1
     THEN Goto(t, "idle") /\ fd' = [fd EXCEPT ![t] = NIL]
     ELSE UNCHANGED tablePc /\ fd' = [fd EXCEPT ![t] = i]
  /\ UNCHANGED <<entries, alive, then, tableDup, child>>

\* Mutant: only the descriptor is closed, not the entry that has none.
UndoFirst(t) == IF fd[t] = NIL THEN mine[t] ELSE <<table[t][fd[t]]>>

\* What must be dropped when there is no descriptor: both ends of a pipe.
Undo(t) == IF fd[t] = NIL THEN mine[t] ELSE <<table[t][fd[t]]>> \o mine[t]

InstallFull(t) ==
  /\ tablePc[t] = "install" /\ UnusedFd(t) = {}
  /\ mine' = [mine EXCEPT ![t] = Undo(t)]
  /\ Goto(t, "drop")
  /\ UNCHANGED <<entries, alive, table, fd, then, tableDup, child>>

-----------------------------------------------------------------------------
\* file_close, alone or as a part of file_dup and of fd_release_func.
BeginClose(t, i, next) ==
  /\ table[t][i] # NIL
  /\ mine' = [mine EXCEPT ![t] = <<table[t][i]>>]
  /\ fd' = [fd EXCEPT ![t] = i]
  /\ then' = [then EXCEPT ![t] = next]
  /\ Goto(t, "drop")

FileClose(t, i) ==
  /\ Ready(t)
  /\ BeginClose(t, i, "idle")
  /\ UNCHANGED <<entries, alive, table, tableDup, child>>

\* Mutant: the node is released although the entry is shared.
GoneAlways(e) == TRUE

\* The count reaches 0.
Gone(e) == tableCount[e] <= 1

\* Mutant: the entry keeps its node.
NodeAfterKept(e) == tableNode[e]

NodeAfter(e) == tableNode[e] /\ ~Gone(e)

\* file_decrement_count, while it holds lock[1] ...
Drop(t) ==
  LET e == Head(mine[t]) IN
  /\ tablePc[t] = "drop" /\ lock1[e] = NIL
  /\ tableCount' = [tableCount EXCEPT ![e] = IF @ > 0 THEN @ - 1 ELSE 0]
  /\ tableNode' = [tableNode EXCEPT ![e] = NodeAfter(e)]
  /\ Goto(t, IF ~Gone(e) THEN "clear" ELSE IF tableNode[e] THEN "release" ELSE "unlock")
  /\ UNCHANGED <<lock0, lock1, alive, table, locals>>

\* ... then n_release is called, and at last lock[0] is unlocked.
NodeRelease(t) ==
  /\ tablePc[t] = "release"
  /\ Goto(t, "unlock")
  /\ UNCHANGED <<entries, alive, table, locals>>

Unlock(t) ==
  /\ tablePc[t] = "unlock"
  /\ lock0' = [lock0 EXCEPT ![Head(mine[t])] = 0]
  /\ Goto(t, "clear")
  /\ UNCHANGED <<lock1, tableCount, tableNode, alive, table, locals>>

\* file_close clears the descriptor after the entry was dropped.
FdClear(t) ==
  /\ tablePc[t] = "clear"
  /\ table' = IF fd[t] = NIL THEN table ELSE [table EXCEPT ![t][fd[t]] = NIL]
  /\ fd' = [fd EXCEPT ![t] = NIL]
  /\ mine' = [mine EXCEPT ![t] = Tail(@)]
  /\ IF Len(mine[t]) > 1
     THEN Goto(t, "drop") /\ UNCHANGED then
     ELSE Goto(t, then[t]) /\ then' = [then EXCEPT ![t] = "idle"]
  /\ UNCHANGED <<entries, alive, tableDup, child>>

-----------------------------------------------------------------------------
\* file_dup with min_fd = max_fd closes the target first.
Dup2(t, i, j) ==
  /\ Ready(t) /\ i # j /\ table[t][i] # NIL
  /\ tableDup' = [tableDup EXCEPT ![t] = [src |-> i, dst |-> j]]
  /\ \/ BeginClose(t, j, "dup")
     \/ table[t][j] = NIL /\ Goto(t, "dup") /\ UNCHANGED <<mine, fd, then>>
  /\ UNCHANGED <<entries, alive, table, child>>

\* F_DUPFD takes the first descriptor from min_fd on.
DupFrom(t, i, min) ==
  LET I == {j \in UnusedFd(t) : j >= min} IN
  /\ Ready(t) /\ table[t][i] # NIL /\ I # {}
  /\ tableDup' = [tableDup EXCEPT ![t] = [src |-> i, dst |-> Lowest(I)]]
  /\ Goto(t, "dup")
  /\ UNCHANGED <<entries, alive, table, mine, fd, then, child>>

\* Mutant: a copy is not counted.
Uncounted(e) == UNCHANGED tableCount

Counted(e) == tableCount' = [tableCount EXCEPT ![e] = @ + 1]

FileDup(t) ==
  LET e == table[t][tableDup[t].src] IN
  /\ tablePc[t] = "dup" /\ lock1[e] = NIL
  /\ table' = [table EXCEPT ![t][tableDup[t].dst] = e]
  /\ Counted(e)
  /\ tableDup' = [tableDup EXCEPT ![t] = NoDup]
  /\ Goto(t, "idle")
  /\ UNCHANGED <<lock0, lock1, tableNode, alive, mine, fd, then, child>>

\* fd_clone_func, called by task_create: one descriptor after the other.
FdClone(t, u) ==
  /\ Ready(t) /\ u \notin alive
  /\ \A v \in Task : child[v].to # u
  /\ child' = [child EXCEPT ![t] = [to |-> u, i |-> 0]]
  /\ Goto(t, "clone")
  /\ UNCHANGED <<entries, alive, table, mine, fd, then, tableDup>>

FdCloneNext(t) ==
  LET u == child[t].to
      i == child[t].i
      e == table[t][i]
  IN
  /\ tablePc[t] = "clone" /\ i < MaxFd
  /\ \/ e = NIL /\ UNCHANGED <<table, tableCount>>
     \/ /\ e # NIL /\ lock1[e] = NIL
        /\ table' = [table EXCEPT ![u][i] = e]
        /\ Counted(e)
  /\ child' = [child EXCEPT ![t].i = i + 1]
  /\ UNCHANGED <<lock0, lock1, tableNode, alive, tablePc, mine, fd, then, tableDup>>

FdCloneDone(t) ==
  /\ tablePc[t] = "clone" /\ child[t].i = MaxFd
  /\ alive' = alive \cup {child[t].to}
  /\ child' = [child EXCEPT ![t] = NoChild]
  /\ Goto(t, "idle")
  /\ UNCHANGED <<entries, table, mine, fd, then, tableDup>>

\* fd_release_func, called by task_exit: all descriptors are closed.
TaskExit(t) ==
  /\ Ready(t) /\ t # First
  /\ Goto(t, "exit")
  /\ UNCHANGED <<entries, alive, table, locals>>

FdRelease(t) ==
  LET I == Fd \ UnusedFd(t) IN
  /\ tablePc[t] = "exit" /\ I # {}
  /\ BeginClose(t, Lowest(I), "exit")
  /\ UNCHANGED <<entries, alive, table, tableDup, child>>

FdReleased(t) ==
  /\ tablePc[t] = "exit" /\ Fd \ UnusedFd(t) = {}
  /\ alive' = alive \ {t}
  /\ Goto(t, "idle")
  /\ UNCHANGED <<entries, table, locals>>

-----------------------------------------------------------------------------
(***************************************************************************)
(* file_read, file_write, file_lseek, file_ioctl and others call the node  *)
(* with lock[1] held.  For a node that may block, file_read and file_write *)
(* only fetch the node under the lock.                                     *)
(***************************************************************************)
FileUse(t, i, blocking) ==
  LET e == table[t][i] IN
  /\ Ready(t) /\ e # NIL /\ lock1[e] = NIL
  /\ mine' = [mine EXCEPT ![t] = <<e>>]
  /\ lock1' = [lock1 EXCEPT ![e] = IF blocking THEN NIL ELSE t]
  /\ Goto(t, IF blocking THEN "block" ELSE "io")
  /\ UNCHANGED <<lock0, tableCount, tableNode, alive, table, fd, then, tableDup, child>>

FileUseDone(t) ==
  /\ tablePc[t] \in {"io", "block"}
  /\ lock1' = [e \in Entry |-> IF lock1[e] = t THEN NIL ELSE lock1[e]]
  /\ mine' = [mine EXCEPT ![t] = <<>>]
  /\ Goto(t, "idle")
  /\ UNCHANGED <<lock0, tableCount, tableNode, alive, table, fd, then, tableDup, child>>

OpenStep(t) ==
  \/ \E e \in Entry : FileOpen(t, e) \/ Pair(t, e) \/ PairSecond(t, e)
  \/ \E ok \in BOOLEAN : FileOpenDone(t, ok) \/ PairNodes(t, ok)
  \/ OpenDirectory(t) \/ PairNoEntry(t) \/ Install(t) \/ InstallFull(t)

CloseStep(t) ==
  \/ \E i \in Fd : FileClose(t, i)
  \/ Drop(t) \/ NodeRelease(t) \/ Unlock(t) \/ FdClear(t)
  \/ TaskExit(t) \/ FdRelease(t) \/ FdReleased(t)

ShareStep(t) ==
  \/ \E i, j \in Fd : Dup2(t, i, j) \/ DupFrom(t, i, j)
  \/ \E u \in Task : FdClone(t, u)
  \/ FileDup(t) \/ FdCloneNext(t) \/ FdCloneDone(t)

UseStep(t) ==
  \/ \E i \in Fd, blocking \in BOOLEAN : FileUse(t, i, blocking)
  \/ FileUseDone(t)

TableNext ==
  \E t \in Task : OpenStep(t) \/ CloseStep(t) \/ ShareStep(t) \/ UseStep(t)

-----------------------------------------------------------------------------
\* The descriptors of t whose entry was dropped already, but that are not cleared.
Stale(t) == IF tablePc[t] \in {"release", "unlock", "clear"} THEN {fd[t]} ELSE {}

\* A reference to e is in the table of t, or in its hands before it installs or
\* after it undid it.
InTable(t, i, e) == table[t][i] = e /\ i \notin Stale(t)
InHand(t, k, e) ==
  /\ k \in DOMAIN mine[t] /\ mine[t][k] = e
  /\ \/ tablePc[t] \in {"open", "second", "nodes", "install"}
     \/ tablePc[t] = "drop" /\ (k = 1 => fd[t] = NIL)
     \/ tablePc[t] \in {"release", "unlock", "clear"} /\ k = 2

InTables(e) == {d \in Task \X Fd : InTable(d[1], d[2], e)}
InHands(e) == {h \in Task \X {1, 2} : InHand(h[1], h[2], e)}

(***************************************************************************)
(* fte->count is the number of references to the entry, whatever other     *)
(* tasks that share it copy, close or exit with at the same time           *)
(* (file_dup, fd_clone_func, file_decrement_count).                        *)
(***************************************************************************)
CountIsReferences ==
  \A e \in Entry : tableCount[e] = Cardinality(InTables(e)) + Cardinality(InHands(e))

(***************************************************************************)
(* An entry that can be allocated is as file_open expects it: lock[1] is   *)
(* free, and no node and no count are left (file_decrement_count).         *)
(***************************************************************************)
AllocatedFresh ==
  \A e \in Entry : lock0[e] = 0 => lock1[e] = NIL /\ ~tableNode[e] /\ tableCount[e] = 0

(***************************************************************************)
(* A task that uses a descriptor finds a node in the entry, and the node   *)
(* is not released while the task is inside it, not even when lock[1] is   *)
(* not held (n = fte->node in file_read and file_write).                   *)
(***************************************************************************)
NodeWhileUsed ==
  /\ \A t \in Task : tablePc[t] \in {"io", "block"} => tableNode[Head(mine[t])]
  /\ \A t \in Task, i \in Fd :
       table[t][i] # NIL /\ i \notin Stale(t) => tableNode[table[t][i]]

(***************************************************************************)
(* No entry is lost: an allocated one is in a table or in the hands of a   *)
(* task that still frees it, also after one of the steps of file_open,     *)
(* file_pipe or file_openpty has failed.                                   *)
(***************************************************************************)
NoEntryLost ==
  \A e \in Entry : lock0[e] = 1 =>
    \/ InTables(e) # {} \/ InHands(e) # {}
    \/ \E t \in Task : tablePc[t] \in {"release", "unlock"} /\ Head(mine[t]) = e
=============================================================================
