----------------------------- MODULE UsbStorage -----------------------------
(***************************************************************************)
(* The mass storage nodes of USB devices and the drives mounted from them  *)
(* (usb/usb_msc.c, usb/usb_mnt.c).  Every device has a driver task that    *)
(* puts a node into msc_dev_array and then runs usb_mnt_update, which      *)
(* drops the nodes of devices that are gone from the drives and binds the  *)
(* drives to the nodes of the array.  Devices are unplugged at any time.   *)
(*                                                                         *)
(* msc_dev_lock is held for one step; usb_mnt_lock from MntLock to the     *)
(* last Bind.  A node has the name of its device.  A name of n_open is one *)
(* of an entry of the array.                                               *)
(***************************************************************************)
EXTENDS Naturals, FiniteSets

CONSTANTS
  Dev,      \* devices; each is plugged in once
  Slots,    \* entries of msc_dev_array and usb_mnt_nodes
  MaxUsers, \* bound: users of a node
  None

Slot == 0 .. Slots - 1

VARIABLES
  plugged,   \* data->port = dev->port and data->device = dev->device
  pc,        \* per device: where its driver task is
  array,     \* msc_dev_array
  count,     \* reference counts of the nodes
  live,      \* the node is allocated
  held,      \* data->count shares of the USB node that the storage nodes hold
  users,     \* users that opened a node by its name
  mntLock,   \* holder of usb_mnt_lock
  k,         \* loop variable of usb_mnt_update
  temp,      \* the node that vfs_open returned to usb_mnt_update
  mnt        \* usb_mnt_nodes: allocated, msc_node, media_changed, mounted

vars == <<plugged, pc, array, count, live, held, users, mntLock, k, temp, mnt>>

Drive == [there : BOOLEAN, msc : Dev \cup {None}, changed : BOOLEAN, mounted : BOOLEAN]

NoDrive == [there |-> FALSE, msc |-> None, changed |-> FALSE, mounted |-> FALSE]

TypeOK ==
  /\ plugged \in [Dev -> {"new", "in", "out"}]
  /\ pc \in [Dev -> {"idle", "probe", "update", "sync", "drop", "open", "bind", "exit"}]
  /\ array \in [Slot -> Dev \cup {None}]
  /\ count \in [Dev -> 0 .. MaxUsers + 3] /\ live \in [Dev -> BOOLEAN]
  /\ held \in [Dev -> 0 .. 1] /\ users \in [Dev -> 0 .. MaxUsers]
  /\ mntLock \in Dev \cup {None} /\ k \in 0 .. Slots /\ temp \in Dev \cup {None}
  /\ mnt \in [Slot -> Drive]

Init ==
  /\ plugged = [d \in Dev |-> "new"] /\ pc = [d \in Dev |-> "idle"]
  /\ array = [i \in Slot |-> None]
  /\ count = [d \in Dev |-> 0] /\ live = [d \in Dev |-> FALSE]
  /\ held = [d \in Dev |-> 0] /\ users = [d \in Dev |-> 0]
  /\ mntLock = None /\ k = 0 /\ temp = None
  /\ mnt = [i \in Slot |-> NoDrive]

-----------------------------------------------------------------------------
(* Devices come and go.                                                     *)

Plug(d) ==
  /\ plugged[d] = "new"
  /\ plugged' = [plugged EXCEPT ![d] = "in"] /\ pc' = [pc EXCEPT ![d] = "probe"]
  /\ UNCHANGED <<array, count, live, held, users, mntLock, k, temp, mnt>>

Unplug(d) ==
  /\ plugged[d] = "in" /\ plugged' = [plugged EXCEPT ![d] = "out"]
  /\ UNCHANGED <<pc, array, count, live, held, users, mntLock, k, temp, mnt>>

-----------------------------------------------------------------------------
(* Reference counts.                                                        *)

\* n_release of n shares at a time, given the counts c; the last one
\* releases the USB node.
Drop(c, D) ==
  /\ count' = [d \in Dev |-> IF d \in D THEN c[d] - 1 ELSE c[d]]
  /\ live' = [d \in Dev |-> live[d] /\ ~(d \in D /\ c[d] = 1)]
  /\ held' = [d \in Dev |-> IF d \in D /\ c[d] = 1 THEN 0 ELSE held[d]]

\* check_media_changed_locked: the entries of the devices that are gone.
Stale == {i \in Slot : array[i] # None /\ plugged[array[i]] = "out"}

CheckedKeeps == array

Checked == [i \in Slot |-> IF i \in Stale THEN None ELSE array[i]]

DropStale == Drop(count, {array[i] : i \in Stale})

Lowest(S) == CHOOSE i \in S : \A j \in S : i <= j

-----------------------------------------------------------------------------
(* bulk_only_driver.                                                        *)

\* What the device answers: scsi_inquiry, scsi_read_capacity and its repetition
\* succeed, and the size is a possible one.  The results of bulk_only_reset,
\* scsi_test_unit_ready and scsi_request_sense do not matter.
Answers == [inquiry : BOOLEAN, capacity : BOOLEAN, again : BOOLEAN, size : BOOLEAN]

Identified(a) == a.inquiry /\ (a.capacity \/ a.again) /\ a.size

ProbeFails(d) ==
  /\ pc[d] = "probe" /\ (\E a \in Answers : ~Identified(a)) /\ pc' = [pc EXCEPT ![d] = "exit"]
  /\ UNCHANGED <<plugged, array, count, live, held, users, mntLock, k, temp, mnt>>

\* The first free entry gets the new node; without one there is none.
Add(d) ==
  /\ pc[d] = "probe" /\ \E a \in Answers : Identified(a)
  /\ LET free == {i \in Slot : Checked[i] = None}
         gone == {array[i] : i \in Stale}
     IN IF free = {} THEN array' = Checked /\ DropStale
        ELSE /\ array' = [Checked EXCEPT ![Lowest(free)] = d]
             /\ count' = [e \in Dev |-> IF e = d THEN 1 ELSE IF e \in gone THEN count[e] - 1 ELSE count[e]]
             /\ live' = [e \in Dev |-> e = d \/ (live[e] /\ ~(e \in gone /\ count[e] = 1))]
             /\ held' = [e \in Dev |-> IF e = d THEN 1 ELSE IF e \in gone /\ count[e] = 1 THEN 0 ELSE held[e]]
  /\ pc' = [pc EXCEPT ![d] = "update"]
  /\ UNCHANGED <<plugged, users, mntLock, k, temp, mnt>>

-----------------------------------------------------------------------------
(* usb_mnt_update.                                                          *)

MntLock(d) ==
  /\ pc[d] = "update" /\ mntLock = None
  /\ mntLock' = d /\ k' = 0 /\ pc' = [pc EXCEPT ![d] = "sync"]
  /\ UNCHANGED <<plugged, array, count, live, held, users, temp, mnt>>

AskedLost(i) ==
  [mnt[i] EXCEPT !.changed = mnt[i].msc # None /\ plugged[mnt[i].msc] # "in" /\ i > 0]

\* n_sync, and n_read and n_write, of a drive: the device is asked.
Asked(i) ==
  [mnt[i] EXCEPT !.changed = @ \/ (mnt[i].msc # None /\ plugged[mnt[i].msc] # "in")]

\* sync_fat_io, one drive.
SyncDrive(d) ==
  /\ pc[d] = "sync" /\ k < Slots
  /\ mnt' = IF mnt[k].mounted THEN [mnt EXCEPT ![k] = Asked(k)] ELSE mnt
  /\ k' = k + 1
  /\ UNCHANGED <<plugged, pc, array, count, live, held, users, mntLock, temp>>

SyncDone(d) ==
  /\ pc[d] = "sync" /\ k = Slots
  /\ k' = 0 /\ pc' = [pc EXCEPT ![d] = "drop"]
  /\ UNCHANGED <<plugged, array, count, live, held, users, mntLock, temp, mnt>>

DroppedKept(i) == [mnt[i] EXCEPT !.changed = FALSE]

Dropped(i) == [mnt[i] EXCEPT !.msc = None, !.changed = FALSE]

\* A drive whose media changed gives its node back.
DropDrive(d) ==
  /\ pc[d] = "drop" /\ k < Slots
  /\ IF mnt[k].there /\ mnt[k].changed /\ mnt[k].msc # None
     THEN Drop(count, {mnt[k].msc}) /\ mnt' = [mnt EXCEPT ![k] = Dropped(k)]
     ELSE UNCHANGED <<count, live, held, mnt>>
  /\ k' = k + 1
  /\ UNCHANGED <<plugged, pc, array, users, mntLock, temp>>

DropDone(d) ==
  /\ pc[d] = "drop" /\ k = Slots
  /\ k' = 0 /\ pc' = [pc EXCEPT ![d] = "open"]
  /\ UNCHANGED <<plugged, array, count, live, held, users, mntLock, temp, mnt>>

\* vfs_open of /dev/dancy-usb-storage/k, with n_open.
OpenNode(d) ==
  /\ pc[d] = "open" /\ k < Slots
  /\ array' = Checked
  /\ LET n == Checked[k]
         gone == {array[i] : i \in Stale}
     IN /\ Drop([e \in Dev |-> IF e = n THEN count[e] + 1 ELSE count[e]], gone)
        /\ temp' = n
        /\ IF n = None THEN k' = k + 1 /\ UNCHANGED pc
           ELSE pc' = [pc EXCEPT ![d] = "bind"] /\ UNCHANGED k
  /\ UNCHANGED <<plugged, users, mntLock, mnt>>

UpdateDoneHeld(d) ==
  /\ pc[d] = "open" /\ k = Slots
  /\ k' = 0 /\ pc' = [pc EXCEPT ![d] = "exit"]
  /\ UNCHANGED <<plugged, array, count, live, held, users, mntLock, temp, mnt>>

\* alloc_node and mount_drive: the drive exists and is mounted, or was.
Mounted(i) == [mnt[i] EXCEPT !.there = TRUE, !.mounted = TRUE]

\* The drive takes the node unless it has one, and is mounted.  The share of vfs_open is given back.
Bind(d) ==
  /\ pc[d] = "bind"
  /\ IF mnt[k].msc = None
     THEN /\ mnt' = [mnt EXCEPT ![k] = [Mounted(k) EXCEPT !.msc = temp]]
          /\ UNCHANGED <<count, live, held>>
     ELSE /\ mnt' = [mnt EXCEPT ![k] = Mounted(k)]
          /\ Drop(count, {temp})
  /\ temp' = None /\ k' = k + 1 /\ pc' = [pc EXCEPT ![d] = "open"]
  /\ UNCHANGED <<plugged, array, users, mntLock>>

UpdateDone(d) ==
  /\ pc[d] = "open" /\ k = Slots
  /\ k' = 0 /\ mntLock' = None /\ pc' = [pc EXCEPT ![d] = "exit"]
  /\ UNCHANGED <<plugged, array, count, live, held, users, temp, mnt>>

-----------------------------------------------------------------------------
(* Users.                                                                   *)

\* A program opens a node by its name.
Open(i) ==
  /\ array' = Checked
  /\ LET n == Checked[i]
         more == n # None /\ users[n] < MaxUsers
     IN /\ Drop([e \in Dev |-> IF more /\ e = n THEN count[e] + 1 ELSE count[e]], {array[j] : j \in Stale})
        /\ users' = [e \in Dev |-> IF more /\ e = n THEN users[e] + 1 ELSE users[e]]
  /\ UNCHANGED <<plugged, pc, mntLock, k, temp, mnt>>

Close(d) ==
  /\ users[d] > 0
  /\ users' = [users EXCEPT ![d] = @ - 1] /\ Drop(count, {d})
  /\ UNCHANGED <<plugged, pc, array, mntLock, k, temp, mnt>>

\* n_readdir.
List ==
  /\ Stale # {} /\ array' = Checked /\ DropStale
  /\ UNCHANGED <<plugged, pc, users, mntLock, k, temp, mnt>>

\* A program uses a file of a drive.
UseDrive(i) ==
  /\ mnt[i].mounted /\ mnt' = [mnt EXCEPT ![i] = Asked(i)]
  /\ UNCHANGED <<plugged, pc, array, count, live, held, users, mntLock, k, temp>>

Driver(d) ==
  \/ ProbeFails(d) \/ Add(d) \/ MntLock(d) \/ SyncDrive(d) \/ SyncDone(d)
  \/ DropDrive(d) \/ DropDone(d) \/ OpenNode(d) \/ Bind(d) \/ UpdateDone(d)

Next ==
  \/ \E d \in Dev : Plug(d) \/ Unplug(d) \/ Driver(d) \/ Close(d)
  \/ \E i \in Slot : Open(i) \/ UseDrive(i)
  \/ List

\* Driver tasks are scheduled.  A task takes usb_mnt_lock once, so that every
\* waiting task finds it free in the end.
Spec == Init /\ [][Next]_vars /\ \A d \in Dev : WF_vars(Driver(d))

-----------------------------------------------------------------------------
References(d) ==
  Cardinality({i \in Slot : array[i] = d}) + Cardinality({i \in Slot : mnt[i].msc = d})
    + users[d] + (IF temp = d THEN 1 ELSE 0)

(* The count of a storage node is the number of places that have it, and it *)
(* is freed, with its share of the USB node, exactly when that is zero.     *)
CountIsReferences ==
  \A d \in Dev :
    /\ count[d] = References(d)
    /\ live[d] = (count[d] > 0) /\ held[d] = (IF live[d] THEN 1 ELSE 0)

Calm == \A d \in Dev : pc[d] \in {"idle", "exit"}

(* When no driver task is at work, every device in the array that is still  *)
(* plugged in has its drive: a drive is not left with a device that was in  *)
(* its place before.                                                        *)
DriveIsCurrent ==
  Calm => \A i \in Slot :
    (array[i] # None /\ plugged[array[i]] = "in") => (mnt[i].msc = array[i] /\ mnt[i].mounted)

(* Every device that is plugged in is given up or ends with its driver task *)
(* through usb_mnt_update.                                                  *)
DriverEnds == \A d \in Dev : pc[d] = "probe" ~> pc[d] = "exit"
=============================================================================
