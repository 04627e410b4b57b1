------------------------------- MODULE FatIo -------------------------------
(***************************************************************************)
(* The nodes of a FAT volume on a device whose medium can be changed:      *)
(* vfs/fat_io.c, with common/fat.c as far as fat_io.c uses it.             *)
(*                                                                         *)
(* A driver instance belongs to one medium.  Nodes outlive the instance:   *)
(* each has a slot of node_array, whose number is also its fd.  Operations *)
(* hold fat_mtx from enter_fat to leave_fat; the medium may be changed     *)
(* between any two accesses to the device, which reports the change once.  *)
(***************************************************************************)
EXTENDS Naturals, FiniteSets

CONSTANTS
  Task,      \* the tasks
  Name,      \* the names of the files
  Slots,     \* bound: the size of node_array
  MaxMedium, \* bound: the number of media
  NONE       \* the NULL of a pointer

Fd == 0 .. Slots - 1
Root == "/."

VARIABLES
  medium,        \* the medium in the device
  pending,       \* the device has a change to report
  alive,         \* struct fat_io exists
  media_changed, \* io->media_changed
  instance,      \* io->instance: 0, or the medium it was created from
  open,          \* fd -> the file that the instance has open
  node,          \* fd -> the node in node_array: name, media_changed, count and born
  owner,         \* the task that holds fat_mtx
  task,          \* task -> what it does: pc, kind, fd and name
  access,        \* the last access to the device: by which instance, to which medium
  got            \* task -> what its last read was asked for and what it read

vars == <<medium, pending, alive, media_changed, instance, open, node, owner, task, access, got>>

device == <<medium, pending>>
Resting == [pc |-> "idle", kind |-> "none", fd |-> 0, name |-> Root]
Kinds == {"none", "open", "read", "append", "truncate", "remove", "stat", "sync", "readdir"}

TypeOK ==
  /\ medium \in 1 .. MaxMedium /\ instance \in 0 .. MaxMedium
  /\ pending \in BOOLEAN /\ alive \in BOOLEAN /\ media_changed \in BOOLEAN
  /\ open \in [Fd -> Name \cup {Root, NONE}]
  /\ \A f \in Fd : node[f] = NONE
       \/ node[f] \in [name : Name \cup {Root}, stale : BOOLEAN, count : 1 .. Cardinality(Task) + 1,
                       born : 0 .. MaxMedium]
  /\ owner \in Task \cup {NONE}
  /\ task \in [Task -> [pc : {"idle", "lock", "again", "body", "more", "leave", "undo"},
                        kind : Kinds, fd : Fd, name : Name \cup {Root}]]

Init ==
  /\ medium = 1 /\ pending = FALSE
  /\ alive = FALSE /\ media_changed = FALSE
  /\ instance = 0
  /\ open = [f \in Fd |-> NONE]
  /\ node = [f \in Fd |-> NONE]
  /\ owner = NONE
  /\ task = [t \in Task |-> Resting]
  /\ access = [by |-> 0, to |-> 0]
  /\ got = [t \in Task |-> NONE]

\* The user changes the medium.
Change ==
  /\ medium < MaxMedium
  /\ medium' = medium + 1
  /\ pending' = TRUE
  /\ UNCHANGED <<alive, media_changed, instance, open, node, owner, task, access, got>>

-----------------------------------------------------------------------------
Goto(t, pc) == task' = [task EXCEPT ![t].pc = pc]
Closed == [f \in Fd |-> NONE]

\* fat_io_create: the root gets the first slot, and the first access creates
\* the instance.
Create ==
  /\ ~alive
  /\ alive' = TRUE
  /\ media_changed' = TRUE
  /\ node' = [f \in Fd |-> IF f = 0 THEN [name |-> Root, stale |-> TRUE, count |-> 1, born |-> 0] ELSE NONE]
  /\ UNCHANGED <<device, instance, open, owner, task, access, got>>

(***************************************************************************)
(* A task calls a function of a node.  vfs.c opens a name only when its    *)
(* tree has no node for it.                                                *)
(***************************************************************************)
Call(t, kind, f, n) ==
  /\ task[t].pc = "idle"
  /\ node[f] # NONE
  /\ kind \in {"open", "remove", "readdir"} => node[f].name = Root
  /\ kind \in {"read", "append", "truncate"} => node[f].name # Root
  /\ IF kind = "open" THEN \A g \in Fd : node[g] # NONE => node[g].name # n ELSE n = node[f].name
  /\ \A u \in Task : task[u].pc # "idle" => ~(task[u].kind = "open" /\ kind = "open")
  /\ task' = [task EXCEPT ![t] = [pc |-> "lock", kind |-> kind, fd |-> f, name |-> n]]
  /\ node' = [node EXCEPT ![f].count = @ + 1]
  /\ UNCHANGED <<device, alive, media_changed, instance, open, owner, access, got>>

\* enter_fat when the instance is up to date.
Enter(t) ==
  /\ task[t].pc \in {"lock", "again"}
  /\ owner = NONE
  /\ ~media_changed
  /\ owner' = t
  /\ Goto(t, "body")
  /\ UNCHANGED <<device, alive, media_changed, instance, open, node, access, got>>

\* Mutant: the root is not opened again.
ReopenedNot == [f \in Fd |-> NONE]

\* The files of a new instance: enter_fat opens the root with its old fd.
Reopened == [f \in Fd |-> IF node[f] # NONE /\ node[f].name = Root THEN Root ELSE NONE]

\* enter_fat creates an instance from the medium and opens the root.
EnterCreate(t) ==
  /\ task[t].pc \in {"lock", "again"}
  /\ owner = NONE
  /\ media_changed
  /\ ~pending
  /\ owner' = t
  /\ media_changed' = FALSE
  /\ instance' = medium
  /\ access' = [by |-> medium, to |-> medium]
  /\ open' = Reopened
  /\ node' = [f \in Fd |-> IF node[f] # NONE /\ node[f].name = Root
                             THEN [node[f] EXCEPT !.stale = FALSE, !.born = medium] ELSE node[f]]
  /\ Goto(t, "body")
  /\ UNCHANGED <<device, alive, got>>

\* A task gives the node back that its call has used.
Unuse(nodes, t) == [nodes EXCEPT ![task[t].fd].count = @ - 1]

\* fat_create fails: the device reports another change, or an error.
EnterFails(t) ==
  /\ task[t].pc \in {"lock", "again"}
  /\ owner = NONE
  /\ media_changed
  /\ pending' = FALSE
  /\ media_changed' = TRUE
  /\ instance' = 0 /\ open' = Closed
  /\ IF task[t].kind = "readdir" /\ task[t].pc = "lock"
       THEN Goto(t, "again") /\ UNCHANGED node
       ELSE task' = [task EXCEPT ![t] = Resting] /\ node' = Unuse(node, t)
  /\ UNCHANGED <<medium, alive, owner, access, got>>

-----------------------------------------------------------------------------
\* Mutant: fat_io_read and fat_io_write ask the device in any case.
CanAccessAlways == ~pending

\* The device is accessed, and has no change to report.
CanAccess == ~media_changed /\ ~pending

(***************************************************************************)
(* fat_io_read and fat_io_write: a change that the device reports sets     *)
(* media_changed, after which the device is not accessed any more.         *)
(***************************************************************************)
Access ==
  /\ CanAccess
  /\ access' = [by |-> instance, to |-> medium]
  /\ UNCHANGED <<media_changed, device>>

AccessFails ==
  /\ media_changed' = (media_changed \/ pending)
  /\ pending' = (pending /\ media_changed)
  /\ UNCHANGED <<medium, access>>

\* Mutant: the new node gets a slot that the instance does not use.
SlotsUnopened == {f \in Fd : open[f] = NONE}

\* The slots that n_open may take.
FreeSlots == {f \in Fd : node[f] = NONE}

\* Mutant: the slot behind the free one is taken.
FirstNext(S) == (CHOOSE f \in S : \A g \in S : f <= g) + 1

First(S) == CHOOSE f \in S : \A g \in S : f <= g

\* n_open takes a slot, if there is one.
OpenSlot(t) ==
  /\ task[t].pc = "body" /\ task[t].kind = "open" /\ owner = t
  /\ IF FreeSlots = {}
       THEN Goto(t, "leave") /\ UNCHANGED node
       ELSE LET f == First(FreeSlots) IN
              /\ node' = [Unuse(node, t) EXCEPT ![f] =
                   [name |-> task[t].name, stale |-> FALSE, count |-> 1, born |-> instance]]
              /\ task' = [task EXCEPT ![t].pc = "more", ![t].fd = f]
  /\ UNCHANGED <<device, alive, media_changed, instance, open, owner, access, got>>

\* fat_open finds or creates the file; the node is its user's then.
OpenFile(t) ==
  /\ task[t].pc = "more" /\ task[t].kind = "open"
  /\ Access
  /\ open' = [open EXCEPT ![task[t].fd] = task[t].name]
  /\ Goto(t, "leave")
  /\ UNCHANGED <<alive, instance, node, owner, got>>

\* It fails, perhaps after fat_open has marked the fd (fat_control).
OpenFails(t) ==
  /\ task[t].pc = "more" /\ task[t].kind = "open"
  /\ AccessFails
  /\ \E done \in {NONE, task[t].name} : open' = [open EXCEPT ![task[t].fd] = done]
  /\ task' = [task EXCEPT ![t].pc = "leave", ![t].kind = "none"]
  /\ UNCHANGED <<alive, instance, node, owner, got>>

\* The functions of a node that use its fd, which must be open.
InBody(t, kinds) == task[t].pc \in {"body", "more"} /\ task[t].kind \in kinds /\ owner = t

\* n_read_write_common: the file is accessed once or more often.
ReadWrite(t) ==
  /\ InBody(t, {"read"})
  /\ open[task[t].fd] # NONE
  /\ Access
  /\ got' = [got EXCEPT ![t] = [asked |-> node[task[t].fd].born, medium |-> medium,
                               name |-> task[t].name, read |-> open[task[t].fd]]]
  /\ \E pc \in IF task[t].pc = "body" THEN {"more", "leave"} ELSE {"leave"} : Goto(t, pc)
  /\ UNCHANGED <<alive, instance, open, node, owner>>

\* n_append takes the size from the record that is open, and writes behind it.
AppendFile(t) ==
  /\ InBody(t, {"append"})
  /\ open[task[t].fd] # NONE
  /\ Access
  /\ Goto(t, "leave")
  /\ UNCHANGED <<alive, instance, open, node, owner, got>>

\* n_truncate makes the file shorter, or extends it after leave_fat.
TruncateFile(t) ==
  /\ InBody(t, {"truncate"})
  /\ open[task[t].fd] # NONE
  /\ \/ Access /\ Goto(t, "leave")
     \/ task' = [task EXCEPT ![t].pc = "lock", ![t].kind = "append"] /\ UNCHANGED <<media_changed, device, access>>
  /\ owner' = IF task'[t].pc = "lock" THEN NONE ELSE owner
  /\ UNCHANGED <<alive, instance, open, node, got>>

\* n_remove works with a path.
RemoveFile(t) ==
  /\ InBody(t, {"remove"})
  /\ Access
  /\ Goto(t, "leave")
  /\ UNCHANGED <<alive, instance, open, node, owner, got>>

\* n_readdir asks the device for a change first.
Readdir(t) ==
  /\ InBody(t, {"readdir"})
  /\ IF task[t].pc = "body"
       THEN /\ media_changed' = (media_changed \/ pending)
            /\ pending' = FALSE
            /\ Goto(t, IF pending THEN "leave" ELSE "more")
            /\ UNCHANGED <<medium, access>>
       ELSE open[task[t].fd] # NONE /\ Access /\ Goto(t, "leave")
  /\ UNCHANGED <<alive, instance, open, node, owner, got>>

\* n_stat copies the record, without any access.  The others fail when the fd
\* is not open in this instance.
NoAccess(t) ==
  /\ \/ InBody(t, {"stat"})
     \/ InBody(t, {"read", "append", "truncate"}) /\ open[task[t].fd] = NONE
  /\ Goto(t, "leave")
  /\ UNCHANGED <<device, alive, media_changed, instance, open, node, owner, access, got>>

\* An access fails, or the device reports a change.
UseFails(t) ==
  /\ InBody(t, {"read", "append", "truncate", "remove", "readdir"})
  /\ AccessFails
  /\ Goto(t, "leave")
  /\ UNCHANGED <<alive, instance, open, node, owner, got>>

\* n_sync asks the device.
Sync(t) ==
  /\ task[t].pc = "body" /\ task[t].kind = "sync" /\ owner = t
  /\ media_changed' = (media_changed \/ pending)
  /\ pending' = FALSE
  /\ Goto(t, "leave")
  /\ UNCHANGED <<medium, alive, instance, open, node, owner, access, got>>

\* leave_fat marks all nodes when the medium was changed.
Stale == IF media_changed THEN [f \in Fd |-> IF node[f] = NONE THEN NONE ELSE [node[f] EXCEPT !.stale = TRUE]]
                          ELSE node

\* leave_fat, where fat_delete would write the information of the file system;
\* the node of a failed n_open is released after it.
Leave(t) ==
  /\ task[t].pc = "leave" /\ owner = t
  /\ instance' = IF media_changed THEN 0 ELSE instance
  /\ open' = IF media_changed THEN Closed ELSE open
  /\ access' = IF media_changed /\ instance # 0 /\ CanAccess
                 THEN [by |-> instance, to |-> medium] ELSE access
  /\ owner' = NONE
  /\ CASE task[t].kind = "none" -> Goto(t, "undo") /\ node' = Stale
       [] task[t].kind = "open" -> task' = [task EXCEPT ![t] = Resting] /\ node' = Stale
       [] OTHER -> task' = [task EXCEPT ![t] = Resting] /\ node' = Unuse(Stale, t)
  /\ UNCHANGED <<device, alive, media_changed, got>>

-----------------------------------------------------------------------------
\* Mutant: only files that are open keep the structure.
LastOpen(f) == \A g \in Fd \ {f} : open[g] = NONE

\* No other node is in node_array.
LastNode(f) == \A g \in Fd \ {f} : node[g] = NONE

(***************************************************************************)
(* n_release of the last user: the fd is closed unless the instance is     *)
(* another one, and the last node frees the fat_io.  fat_delete writes the *)
(* information of the file system.                                         *)
(***************************************************************************)
Free(f) ==
  LET last == LastNode(f) IN
    /\ owner = NONE
    /\ node[f] # NONE /\ node[f].count = 1
    /\ node' = [node EXCEPT ![f] = NONE]
    /\ alive' = ~last
    /\ instance' = IF last THEN 0 ELSE instance
    /\ open' = IF last THEN Closed
               ELSE IF ~media_changed /\ ~node[f].stale THEN [open EXCEPT ![f] = NONE] ELSE open
    /\ IF last /\ instance # 0 THEN Access \/ AccessFails ELSE UNCHANGED <<media_changed, device, access>>
    /\ UNCHANGED <<owner, got>>

\* A node that nobody uses is released; the root only as the last one.
Release(f) ==
  /\ \A t \in Task : task[t].pc = "undo" => task[t].fd # f
  /\ f = 0 => \A g \in Fd \ {0} : node[g] = NONE
  /\ Free(f)
  /\ UNCHANGED task

\* The end of an n_open that failed.
Undo(t) ==
  /\ task[t].pc = "undo"
  /\ Free(task[t].fd)
  /\ task' = [task EXCEPT ![t] = Resting]

Next ==
  \/ Change \/ Create
  \/ \E f \in Fd : Release(f)
  \/ \E t \in Task :
       \/ Enter(t) \/ EnterCreate(t) \/ EnterFails(t)
       \/ OpenSlot(t) \/ OpenFile(t) \/ OpenFails(t)
       \/ ReadWrite(t) \/ AppendFile(t) \/ TruncateFile(t) \/ RemoveFile(t) \/ Readdir(t)
       \/ NoAccess(t) \/ UseFails(t) \/ Sync(t) \/ Leave(t) \/ Undo(t)
       \/ \E kind \in Kinds \ {"none"}, f \in Fd, n \in Name \cup {Root} : Call(t, kind, f, n)

Spec == Init /\ [][Next]_vars

-----------------------------------------------------------------------------
(***************************************************************************)
(* A read returns the file that was opened, from the medium on which it    *)
(* was opened, although slots and fd numbers are used again and the        *)
(* instance is replaced (enter_fat, leave_fat, n_open, n_release).         *)
(***************************************************************************)
ReadsOwnFile ==
  \A t \in Task : got[t] # NONE => got[t].asked = got[t].medium /\ got[t].name = got[t].read

(***************************************************************************)
(* An instance never reads from or writes to another medium than the one   *)
(* it was created from; its table would destroy the other one              *)
(* (media_changed in fat_io_read and fat_io_write).                        *)
(***************************************************************************)
OwnMedium == access.by = access.to

(***************************************************************************)
(* Every file that the instance has open belongs to a node that can close  *)
(* it, or nobody could open it again (FAT_FILE_ALREADY_OPEN); and the root *)
(* is open whenever there is an instance (enter_fat, n_release).           *)
(***************************************************************************)
OpenHasNode ==
  /\ \A f \in Fd : open[f] # NONE => node[f] # NONE /\ node[f].name = open[f] /\ ~node[f].stale
  /\ instance # 0 => open[0] = Root

(***************************************************************************)
(* The structure that all nodes share is freed only when no task is in one *)
(* of its functions (n_release).                                           *)
(***************************************************************************)
FreedUnused ==
  ~alive => /\ \A t \in Task : task[t].pc = "idle"
            /\ \A f \in Fd : node[f] = NONE
=============================================================================
