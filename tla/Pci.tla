-------------------------------- MODULE Pci --------------------------------
(***************************************************************************)
(* PCI configuration space, drivers and interrupt handlers                 *)
(* (kernel/pci/pci.c). pci_init goes through the devices and drivers; a    *)
(* driver that fits installs a handler. Meanwhile other tasks read and     *)
(* write configuration registers, through two ports shared by all devices  *)
(* or, for devices in Ecam, through memory of their own, and devices send  *)
(* messages to the vectors they were given.                                *)
(***************************************************************************)
EXTENDS Integers, Sequences, FiniteSets

CONSTANTS Devices,    \* 1 .. number of devices
          Class,      \* the class of each device
          Drivers,    \* a sequence of drivers: the class each fits, -1 for any
          Ecam,       \* devices with memory-mapped configuration
          Msi,        \* devices with message signalled interrupts
          Tasks,      \* other tasks that access configuration registers
          Entries     \* length of handler_array (64)

None == 0
Scan == 0                            \* the task that runs pci_init
Actors == Tasks \cup {Scan}

VARIABLES lock,     \* pci_lock: its holder, or -1
          port,     \* the device that the address port names
          acc,      \* of each task: the access under way
          i, j,     \* the loops of pci_init
          step,     \* the step of pci_install_handler
          next,     \* array_i
          handler,  \* handler_array: the device whose function is there, or None
          cmd,      \* interrupts of each device by line: "on" or "off"
          msi,      \* of each device: the vector, and whether it is enabled
          sent,     \* messages under way to a vector, with their device
          calls,    \* the handler that was last called, and for whom
          got       \* the register that a task read last

vars == <<lock, port, acc, i, j, step, next, handler, cmd, msi, sent, calls, got>>

NoAcc == [dev |-> None, st |-> "none", op |-> "none"]
Rest == acc[Scan] = NoAcc

-----------------------------------------------------------------------------
(* pci_read and pci_write *)

Start(t, d, op) ==
    acc' = [acc EXCEPT ![t] = [dev |-> d, st |-> IF d \in Ecam THEN "data" ELSE "lock", op |-> op]]

\* Mutant: the lock is not waited for.
LockFreeAny == TRUE
\* Mutant: the lock is taken once and never again.
LockFreeNever == lock = -1 /\ next = 0
LockFree == lock = -1

TakeLock(t) ==
    /\ acc[t].st = "lock" /\ LockFree
    /\ lock' = t
    /\ acc' = [acc EXCEPT ![t].st = "addr"]
    /\ UNCHANGED <<port, i, j, step, next, handler, cmd, msi, sent, calls, got>>

SetAddress(t) ==
    /\ acc[t].st = "addr"
    /\ port' = acc[t].dev
    /\ acc' = [acc EXCEPT ![t].st = "data"]
    /\ UNCHANGED <<lock, i, j, step, next, handler, cmd, msi, sent, calls, got>>

\* The register is that of the device the port names at this time.
Data(t) ==
    LET a == acc[t]
        d == IF a.dev \in Ecam THEN a.dev ELSE port
    IN  /\ a.st = "data"
        /\ got' = IF a.op = "read" THEN [got EXCEPT ![t] = <<a.dev, d>>] ELSE got
        /\ cmd' = CASE a.op = "off" -> [cmd EXCEPT ![d] = "off"]
                    [] a.op = "on"  -> [cmd EXCEPT ![d] = "on"]
                    [] OTHER -> cmd
        /\ msi' = CASE a.op = "disable" -> [msi EXCEPT ![d].on = FALSE]
                    [] a.op = "vector"  -> [msi EXCEPT ![d].v = next]
                    [] a.op = "enable"  -> [msi EXCEPT ![d].on = TRUE]
                    [] OTHER -> msi
        /\ lock' = IF a.dev \in Ecam THEN lock ELSE -1
        /\ acc' = [acc EXCEPT ![t] = NoAcc]
        /\ UNCHANGED <<port, i, j, step, next, handler, sent, calls>>

\* A task reads a register, or writes one that has no part in interrupts.
Use(t) ==
    /\ acc[t] = NoAcc
    /\ \E d \in Devices, op \in {"read", "write"} : Start(t, d, op)
    /\ UNCHANGED <<lock, port, i, j, step, next, handler, cmd, msi, sent, calls, got>>

-----------------------------------------------------------------------------
(* pci_init *)

Matches(d, n) == Drivers[n] = -1 \/ Drivers[n] = Class[d]

Advance ==
    IF j < Len(Drivers) THEN j' = j + 1 /\ i' = i ELSE j' = 1 /\ i' = i + 1

\* The next driver for the next device; one that fits is initialised.
TryDriver ==
    /\ i \in Devices /\ step = 0
    /\ IF Matches(i, j) THEN step' = 1 /\ UNCHANGED <<i, j>> ELSE Advance /\ UNCHANGED step
    /\ UNCHANGED <<lock, port, acc, next, handler, cmd, msi, sent, calls, got>>

\* An error of a driver ends pci_init.
Stop == i' = Cardinality(Devices) + 1 /\ step' = 0 /\ UNCHANGED j

\* pci_install_handler: first the line is switched off.
LineOff ==
    /\ step = 1 /\ Rest
    /\ Start(Scan, i, "off") /\ step' = 2
    /\ UNCHANGED <<lock, port, i, j, next, handler, cmd, msi, sent, calls, got>>

\* Mutant: an entry is used and not taken.
EntryShared == next' = IF next = 0 THEN 1 ELSE next

\* get_handler_entry
Entry == next' = next + 1

\* Mutant: one entry too many is given out.
TakeEntryPast ==
    /\ step = 2 /\ Rest /\ i \in Msi
    /\ next <= Entries /\ Entry
    /\ step' = 3
    /\ UNCHANGED <<lock, port, acc, i, j, handler, cmd, msi, sent, calls, got>>

\* A device with messages takes an entry and puts its function there; there may
\* be none left.
TakeEntry ==
    /\ step = 2 /\ Rest /\ i \in Msi
    /\ \/ /\ next < Entries
          /\ Entry
          /\ handler' = [handler EXCEPT ![next'] = i] /\ step' = 3
          /\ UNCHANGED <<i, j>>
       \/ next = Entries /\ Stop /\ UNCHANGED <<next, handler>>
    /\ UNCHANGED <<lock, port, acc, cmd, msi, sent, calls, got>>

\* Mutant: the messages are enabled before the vector is written.
OrderEarly == <<"disable", "enable", "vector">>
Order == <<"disable", "vector", "enable">>

Message ==
    /\ step \in 3..5 /\ Rest
    /\ Start(Scan, i, Order[step - 2]) /\ step' = step + 1
    /\ UNCHANGED <<lock, port, i, j, next, handler, cmd, msi, sent, calls, got>>

\* A device without messages: every line gets the handler, or the line that
\* the firmware chose, if there is one, and the line is switched on.
LineOn ==
    /\ step = 2 /\ Rest /\ i \notin Msi
    /\ \/ Start(Scan, i, "on") /\ step' = 6 /\ UNCHANGED <<i, j>>
       \/ Stop /\ UNCHANGED acc
    /\ UNCHANGED <<lock, port, next, handler, cmd, msi, sent, calls, got>>

Installed ==
    /\ step = 6 /\ Rest
    /\ step' = 0 /\ Advance
    /\ UNCHANGED <<lock, port, acc, next, handler, cmd, msi, sent, calls, got>>

-----------------------------------------------------------------------------
(* Interrupts *)

\* A device with messages on sends one (external).
Send(d) ==
    /\ msi[d].on /\ sent = {}
    /\ sent' = {<<msi[d].v, d>>}
    /\ UNCHANGED <<lock, port, acc, i, j, step, next, handler, cmd, msi, calls, got>>

\* Mutant: the vectors are counted from one.
IndexNext(v) == v + 1
Index(v) == v

\* pci_msi_handler. The lock of an entry is only held while its function is
\* being set, and then the device is silent.
MsiHandler ==
    \E m \in sent :
        /\ sent' = sent \ {m}
        /\ calls' = IF Index(m[1]) \in 1..Entries THEN <<m[2], handler[Index(m[1])]>>
                    ELSE <<m[2], None>>
        /\ UNCHANGED <<lock, port, acc, i, j, step, next, handler, cmd, msi, got>>

-----------------------------------------------------------------------------
Init ==
    /\ lock = -1 /\ port = 1 /\ acc = [t \in Actors |-> NoAcc]
    /\ i = 1 /\ j = 1 /\ step = 0 /\ next = 0
    /\ handler = [n \in 1..Entries |-> None]
    /\ cmd = [d \in Devices |-> "on"] /\ msi = [d \in Devices |-> [v |-> 0, on |-> FALSE]]
    /\ sent = {} /\ calls = <<1, 1>> /\ got = [t \in Actors |-> <<1, 1>>]

PciInit == TryDriver \/ LineOff \/ TakeEntry \/ Message \/ LineOn \/ Installed

Next ==
    \/ \E t \in Actors : TakeLock(t) \/ SetAddress(t) \/ Data(t)
    \/ \E t \in Tasks : Use(t)
    \/ PciInit
    \/ \E d \in Devices : Send(d)
    \/ MsiHandler

Spec == Init /\ [][Next]_vars

\* spin_enter is granted in the end and pci_init goes on.
FairSpec ==
    /\ Spec /\ WF_vars(PciInit)
    /\ \A t \in Actors : SF_vars(TakeLock(t)) /\ WF_vars(SetAddress(t)) /\ WF_vars(Data(t))

-----------------------------------------------------------------------------
(* Properties *)

TypeOK == lock \in Actors \cup {-1} /\ port \in Devices /\ next \in 0..Entries /\ step \in 0..6

\* A register that a task reads is one of the device it asked for: no other
\* task changes the address port between the two accesses.
ReadsOwn == \A t \in Actors : got[t][1] = got[t][2]

\* A message calls the function that the driver of its device installed.
CallsOwn == calls[1] = calls[2]

\* Devices with messages have vectors of their own, and such a device does not
\* also use its line.
OwnVector ==
    \A d, e \in Devices :
        /\ msi[d].on /\ msi[e].on /\ d # e => msi[d].v # msi[e].v
        /\ msi[d].on => cmd[d] = "off" /\ handler[msi[d].v] = d

\* pci_init ends, whatever the other tasks do.
InitEnds == <>(i \notin Devices)
=============================================================================
