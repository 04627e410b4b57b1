-------------------------------- MODULE Usb ---------------------------------
(***************************************************************************)
(* USB devices of a root port: the handler of port status changes, the     *)
(* port task, slots and their pages, and the transfer entry points of the  *)
(* controller (usb/xhci.c); the nodes of devices (usb/usb_node.c); the     *)
(* attach task and the drivers it starts (usb/usb_task.c, usb/usb_ep.c,    *)
(* usb/usb_hid.c).                                                         *)
(*                                                                         *)
(* There is one port and one device structure.  A device that is plugged   *)
(* in has a number (a plug); nodes are known by their device number.       *)
(***************************************************************************)
EXTENDS Naturals, FiniteSets

CONSTANTS
  PortTasks,  \* port tasks there can be at a time
  Drivers,    \* attach and driver tasks there can be at a time
  Users,      \* tasks that open the node of a device
  MaxPlug,    \* bound: devices that are plugged in
  MaxNode,    \* bound: nodes that are created
  CacheMax,   \* pages xhci_mm_page keeps (64 in the code)
  Faults      \* TRUE: commands and allocations may fail

Actors == PortTasks \cup Drivers \cup Users
None == 0
Free == "free"

VARIABLES
  port,     \* the register: ccs, csc, ped and the plug that is there
  events,   \* port status change events that were not handled
  irq,      \* the handler: what it read of the register
  sync,     \* port->_task
  pc,       \* where each task is
  locks,    \* holders of port->lock, dev->lock and hci->lock
  slot,     \* slot_id # 0, state, the plug it addressed, and its pages
  cache,    \* pages in the array of xhci_mm_page
  pages,    \* history: pages that were allocated
  dev,      \* port->dev is there, and dev->device
  ports,    \* hci->ports[port]
  nodes,    \* nodes: count and plug
  made,     \* hci->monotonic
  ref,      \* the node a task holds
  reach,    \* history: the plug of the node and of the slot of the last transfer
  missed,   \* history: the port changed after the handler had read it and before
            \* it cleared the change bits
  failed    \* history: a command or an allocation failed

history == <<reach, missed, failed>>
vars == <<port, events, irq, sync, pc, locks, slot, cache, pages, dev, ports, nodes, made, ref, history>>
hw == <<port, events, irq>>
slots == <<slot, cache, pages>>
tree == <<dev, ports, nodes, made, ref>>

Pcs == {"idle", "lock", "test", "rmdev", "rmhci", "disable", "enable", "address", "evaluate",
        "atdev", "athci", "unlock", "getdev", "gethci", "work", "check", "bus", "transfer", "done", "open"}

TypeOK ==
  /\ missed \in BOOLEAN /\ failed \in BOOLEAN /\ port.plug \in 0 .. MaxPlug /\ events \in Nat
  /\ pc \in [Actors -> Pcs]
  /\ locks \in [{"port", "dev", "hci"} -> Actors \cup {Free}]
  /\ slot.state \in 0 .. 2 /\ slot.pages \in 0 .. 3 /\ cache \in 0 .. CacheMax
  /\ ports \in 0 .. MaxNode /\ made \in 0 .. MaxNode
  /\ \A n \in 1 .. MaxNode : nodes[n].count \in 0 .. 1 + Cardinality(Actors)

Init ==
  /\ port = [ccs |-> FALSE, csc |-> FALSE, ped |-> FALSE, plug |-> 0] /\ events = 0
  /\ irq = [pc |-> "wait", val |-> <<FALSE, FALSE, FALSE>>]
  /\ sync = FALSE /\ pc = [a \in Actors |-> "idle"]
  /\ locks = [l \in {"port", "dev", "hci"} |-> Free]
  /\ slot = [on |-> FALSE, state |-> 0, plug |-> 0, pages |-> 0] /\ cache = 0 /\ pages = 0
  /\ dev = [there |-> FALSE, device |-> None]
  /\ ports = None /\ nodes = [n \in 1 .. MaxNode |-> [count |-> 0, plug |-> 0]] /\ made = 0
  /\ ref = [a \in Actors |-> None]
  /\ reach = [node |-> 0, slot |-> 0] /\ missed = FALSE /\ failed = FALSE

-----------------------------------------------------------------------------
(* The port (external): plugging sets a change bit, which is an event.      *)

Changed(p) ==
  /\ port' = p /\ events' = events + (IF port.csc THEN 0 ELSE 1)
  /\ missed' = (missed \/ irq.pc = "clear")

Plug ==
  /\ ~port.ccs /\ port.plug < MaxPlug
  /\ Changed([port EXCEPT !.ccs = TRUE, !.csc = TRUE, !.plug = @ + 1])
  /\ UNCHANGED <<irq, sync, pc, locks, slots, tree, reach, failed>>

Unplug ==
  /\ port.ccs
  /\ Changed([port EXCEPT !.ccs = FALSE, !.csc = TRUE, !.ped = FALSE])
  /\ UNCHANGED <<irq, sync, pc, locks, slots, tree, reach, failed>>

-----------------------------------------------------------------------------
(* event_ring_handler, for a port status change.                            *)

Rest == <<sync, pc, locks, slots, tree, history>>

IrqReads ==
  /\ irq.pc = "wait" /\ events > 0
  /\ events' = events - 1
  /\ irq' = [pc |-> "clear", val |-> <<port.ccs, port.csc, port.ped>>]
  /\ UNCHANGED <<port, Rest>>

\* All change bits are cleared, also those that were not read.
IrqClears ==
  /\ irq.pc = "clear"
  /\ port' = [port EXCEPT !.csc = FALSE]
  /\ irq' = [irq EXCEPT !.pc = IF irq.val[1] /\ irq.val[2] THEN "reset" ELSE "task"]
  /\ UNCHANGED <<events, Rest>>

\* After 100 ms the port is reset; a device that is there is enabled.
IrqResets ==
  /\ irq.pc = "reset"
  /\ port' = [port EXCEPT !.ped = port.ccs]
  /\ events' = events + (IF port.ccs THEN 1 ELSE 0)
  /\ irq' = [irq EXCEPT !.pc = "task"]
  /\ UNCHANGED Rest

WantedEnabled == irq.val[1] /\ irq.val[3]

\* A task is created when the device is gone or is enabled.
Wanted == (~irq.val[1] /\ irq.val[2]) \/ (irq.val[1] /\ irq.val[3])

IrqTask ==
  /\ irq.pc = "task"
  /\ irq' = [irq EXCEPT !.pc = "wait"]
  /\ IF Wanted
     THEN /\ sync' = TRUE
          /\ IF \E p \in PortTasks : pc[p] = "idle"
             THEN LET p == CHOOSE p \in PortTasks : pc[p] = "idle" IN pc' = [pc EXCEPT ![p] = "lock"]
             ELSE UNCHANGED pc
     ELSE UNCHANGED <<sync, pc>>
  /\ UNCHANGED <<port, events, locks, slots, tree, history>>

-----------------------------------------------------------------------------
(* Locks. *)

Take(a, l, next) ==
  /\ locks[l] = Free
  /\ locks' = [locks EXCEPT ![l] = a]
  /\ pc' = [pc EXCEPT ![a] = next]

Drop(a, ls, next) ==
  /\ locks' = [l \in DOMAIN locks |-> IF l \in ls THEN Free ELSE locks[l]]
  /\ pc' = [pc EXCEPT ![a] = next]

\* Something fails.
Fault == Faults /\ failed' = TRUE

Goto(a, next) == pc' = [pc EXCEPT ![a] = next] /\ UNCHANGED locks

-----------------------------------------------------------------------------
(* xhci_port_task. *)

PortLock(p) ==
  /\ pc[p] = "lock" /\ Take(p, "port", "test")
  /\ UNCHANGED <<hw, sync, slots, tree, history>>

\* The first task that comes does the work of all that were created.
PortTest(p) ==
  /\ pc[p] = "test"
  /\ sync' = FALSE
  /\ Goto(p, IF ~sync THEN "unlock" ELSE IF dev.there THEN "rmdev" ELSE "disable")
  /\ UNCHANGED <<hw, slots, tree, history>>

PortUnlock(p) ==
  /\ pc[p] = "unlock" /\ Drop(p, {"port"}, "idle")
  /\ UNCHANGED <<hw, sync, slots, tree, history>>

\* usb_remove_device and usb_attach_device: dev->lock and then hci->lock.
PortDevLock(p) ==
  /\ \/ pc[p] = "rmdev" /\ Take(p, "dev", "rmhci")
     \/ pc[p] = "atdev" /\ Take(p, "dev", "athci")
  /\ UNCHANGED <<hw, sync, slots, tree, history>>

Put(ns, n) == IF n = None THEN ns ELSE [ns EXCEPT ![n].count = @ - 1]

\* handle_device_locked(dev, 0), all under both locks.
PortRemove(p) ==
  /\ pc[p] = "rmhci" /\ locks["hci"] = Free
  /\ dev' = IF ports = None THEN dev ELSE [dev EXCEPT !.device = None]
  /\ nodes' = Put(nodes, ports)
  /\ ports' = None
  /\ Drop(p, {"dev"}, "disable")
  /\ UNCHANGED <<hw, sync, slots, made, ref, history>>

\* xhci_mm_page for the pages of a slot: as many as fit go to the array.
Smaller(a, b) == IF a < b THEN a ELSE b

\* PortDisable that takes the pages for given when the array is full.
PortDisableForgets(p) ==
  /\ pc[p] = "disable"
  /\ slot' = [on |-> FALSE, state |-> 0, plug |-> 0, pages |-> 0]
  /\ cache' = Smaller(cache + slot.pages, CacheMax)
  /\ Goto(p, IF port.ccs /\ port.ped THEN "enable" ELSE "unlock")
  /\ UNCHANGED <<hw, sync, pages, tree, history>>

\* The old slot, if any, is disabled and gives its pages back.  A command
\* that fails ends the task, and the slot stays.
PortDisable(p) ==
  /\ pc[p] = "disable"
  /\ \/ /\ ~slot.on
        /\ Goto(p, IF port.ccs /\ port.ped THEN "enable" ELSE "unlock")
        /\ UNCHANGED <<slots, failed>>
     \/ /\ slot.on
        /\ LET back == Smaller(slot.pages, CacheMax - cache) IN
           /\ slot' = [on |-> FALSE, state |-> 0, plug |-> 0, pages |-> slot.pages - back]
           /\ cache' = cache + back
        /\ Goto(p, IF port.ccs /\ port.ped THEN "enable" ELSE "unlock")
        /\ UNCHANGED <<pages, failed>>
     \/ /\ slot.on /\ Fault
        /\ slot' = [slot EXCEPT !.state = 0]
        /\ Goto(p, "unlock")
        /\ UNCHANGED <<cache, pages>>
  /\ UNCHANGED <<hw, sync, tree, reach, missed>>

\* Enable slot; then the device context, ring 0 and the buffer get pages, and
\* the last of them may be missing.
PortEnable(p) ==
  /\ pc[p] = "enable"
  /\ \/ \E k \in slot.pages .. 3 :
          LET from == Smaller(cache, k - slot.pages) IN
          /\ slot' = [on |-> TRUE, state |-> 0, plug |-> 0, pages |-> k]
          /\ cache' = cache - from
          /\ pages' = pages + (k - slot.pages - from)
          /\ IF k = 3 THEN Goto(p, "address") /\ UNCHANGED failed
                      ELSE cache' = 0 /\ Fault /\ Goto(p, "unlock")
     \/ Fault /\ Goto(p, "unlock") /\ UNCHANGED slots
  /\ UNCHANGED <<hw, sync, tree, reach, missed>>

\* Address device: it is the device that is at the port.
PortAddress(p) ==
  /\ pc[p] = "address"
  /\ \/ /\ port.ccs
        /\ slot' = [slot EXCEPT !.state = 1, !.plug = port.plug]
        /\ Goto(p, "evaluate") /\ UNCHANGED failed
     \/ Fault /\ Goto(p, "unlock") /\ UNCHANGED slot
     \/ ~port.ccs /\ Goto(p, "unlock") /\ UNCHANGED <<slot, failed>>
  /\ UNCHANGED <<hw, sync, cache, pages, tree, reach, missed>>

\* The first descriptor and evaluate context.  When that command completes
\* with an error the device is attached nevertheless, in state 1.  The first
\* time there may be no memory for the device structure.
PortEvaluate(p) ==
  /\ pc[p] = "evaluate"
  /\ \/ slot' = [slot EXCEPT !.state = 2] /\ Goto(p, "atdev") /\ UNCHANGED failed
     \/ Fault /\ Goto(p, "atdev") /\ UNCHANGED slot
     \/ Fault /\ Goto(p, "unlock") /\ (slot' = slot \/ (~dev.there /\ slot' = [slot EXCEPT !.state = 2]))
     \/ (port.plug # slot.plug \/ ~port.ccs) /\ Goto(p, "unlock") /\ UNCHANGED <<slot, failed>>
  /\ UNCHANGED <<hw, sync, cache, pages, tree, reach, missed>>

\* handle_device_locked(dev, 1), and the attach task.
PortAttach(p) ==
  /\ pc[p] = "athci" /\ locks["hci"] = Free
  /\ \/ /\ made < MaxNode
        /\ made' = made + 1
        /\ dev' = [there |-> TRUE, device |-> made + 1]
        /\ nodes' = [Put(nodes, ports) EXCEPT ![made + 1] = [count |-> 1, plug |-> slot.plug]]
        /\ ports' = made + 1
        /\ LET idle == {d \in Drivers : pc[d] = "idle"} IN
           pc' = [a \in Actors |-> IF a = p THEN "unlock"
                                   ELSE IF idle # {} /\ a = CHOOSE d \in idle : TRUE THEN "getdev"
                                   ELSE pc[a]]
        /\ UNCHANGED failed
     \/ \* malloc fails
        /\ Fault \/ (made = MaxNode /\ UNCHANGED failed)
        /\ dev' = [there |-> TRUE, device |-> IF ports = None THEN dev.device ELSE None]
        /\ nodes' = Put(nodes, ports) /\ ports' = None
        /\ pc' = [pc EXCEPT ![p] = "unlock"]
        /\ UNCHANGED made
  /\ locks' = [locks EXCEPT !["dev"] = Free]
  /\ UNCHANGED <<hw, sync, slots, ref, reach, missed>>

-----------------------------------------------------------------------------
(* usb_attach_device_task and drivers. *)

AttachLocks(d) ==
  /\ pc[d] = "getdev" /\ Take(d, "dev", "gethci")
  /\ UNCHANGED <<hw, sync, slots, tree, history>>

AttachUncounted(d) ==
  /\ pc[d] = "gethci" /\ locks["hci"] = Free
  /\ ref' = [ref EXCEPT ![d] = ports]
  /\ Drop(d, {"dev"}, IF ports = None THEN "idle" ELSE "work")
  /\ UNCHANGED <<hw, sync, slots, dev, ports, nodes, made, history>>

\* The node that is there now, if any.
Attach(d) ==
  /\ pc[d] = "gethci" /\ locks["hci"] = Free
  /\ ref' = [ref EXCEPT ![d] = ports]
  /\ nodes' = IF ports = None THEN nodes ELSE [nodes EXCEPT ![ports].count = @ + 1]
  /\ Drop(d, {"dev"}, IF ports = None THEN "idle" ELSE "work")
  /\ UNCHANGED <<hw, sync, slots, dev, ports, made, history>>

StartDriverUncounted(d) ==
  /\ pc[d] = "work"
  /\ \E e \in Drivers :
       /\ pc[e] = "idle"
       /\ pc' = [pc EXCEPT ![e] = "work"]
       /\ ref' = [ref EXCEPT ![e] = ref[d]]
  /\ UNCHANGED <<hw, sync, locks, slots, dev, ports, nodes, made, history>>

\* start_driver_2: a driver task, with a reference of its own.
StartDriver(d) ==
  /\ pc[d] = "work"
  /\ \E e \in Drivers :
       /\ pc[e] = "idle"
       /\ pc' = [pc EXCEPT ![e] = "work"]
       /\ ref' = [ref EXCEPT ![e] = ref[d]]
       /\ nodes' = [nodes EXCEPT ![ref[d]].count = @ + 1]
  /\ UNCHANGED <<hw, sync, locks, slots, dev, ports, made, history>>

\* The task ends, and n_release.
DriverEnds(a) ==
  /\ pc[a] \in {"work", "done"}
  /\ pc' = [pc EXCEPT ![a] = "idle"]
  /\ ref' = [ref EXCEPT ![a] = None]
  /\ nodes' = Put(nodes, ref[a])
  /\ UNCHANGED <<hw, sync, locks, slots, dev, ports, made, history>>

\* n_read, usb_configure_endpoints, ...: dev->lock, the number, transfers.
Work(a) ==
  /\ pc[a] = "work" /\ Take(a, "dev", "check")
  /\ UNCHANGED <<hw, sync, slots, tree, history>>

CheckSkipped(a) ==
  /\ pc[a] = "check"
  /\ Goto(a, "bus")
  /\ UNCHANGED <<hw, sync, slots, tree, history>>

\* DE_MEDIA_CHANGED unless the device is still the one of the node.
Check(a) ==
  /\ pc[a] = "check"
  /\ \/ ref[a] = dev.device /\ Goto(a, "bus")
     \/ ref[a] # dev.device /\ Drop(a, {"dev"}, "done")
  /\ UNCHANGED <<hw, sync, slots, tree, history>>

\* u_write_request, u_write_ep, u_configure_ep.
Bus(a) ==
  /\ pc[a] = "bus" /\ Take(a, "port", "transfer")
  /\ UNCHANGED <<hw, sync, slots, tree, history>>

\* A slot that is not in state 2 makes nothing of it, without an error.
Transfer(a) ==
  /\ pc[a] = "transfer"
  /\ reach' = IF slot.on /\ slot.state > 1
              THEN [node |-> nodes[ref[a]].plug, slot |-> slot.plug]
              ELSE reach
  /\ \/ Drop(a, {"port"}, "bus")            \* another transfer
     \/ Drop(a, {"port", "dev"}, "work")
     \/ Drop(a, {"port", "dev"}, "done")
  /\ UNCHANGED <<hw, sync, slots, tree, missed, failed>>

\* n_open of a user.
Open(u) ==
  /\ pc[u] = "idle" /\ locks["hci"] = Free /\ ports # None
  /\ ref' = [ref EXCEPT ![u] = ports]
  /\ nodes' = [nodes EXCEPT ![ports].count = @ + 1]
  /\ pc' = [pc EXCEPT ![u] = "work"]
  /\ UNCHANGED <<hw, sync, locks, slots, dev, ports, made, history>>

Handler == IrqReads \/ IrqClears \/ IrqResets \/ IrqTask
PortTask(p) ==
  \/ PortLock(p) \/ PortTest(p) \/ PortUnlock(p) \/ PortDevLock(p) \/ PortRemove(p)
  \/ PortDisable(p) \/ PortEnable(p) \/ PortAddress(p) \/ PortEvaluate(p) \/ PortAttach(p)
Driver(d) == AttachLocks(d) \/ Attach(d) \/ StartDriver(d)
Caller(a) == DriverEnds(a) \/ Work(a) \/ Check(a) \/ Bus(a) \/ Transfer(a)

\* A task that has dev->lock.
Holds(a) == (pc[a] = "gethci" /\ Driver(a)) \/ Check(a) \/ Bus(a) \/ Transfer(a)

Next ==
  \/ Plug \/ Unplug \/ Handler
  \/ \E p \in PortTasks : PortTask(p)
  \/ \E d \in Drivers : Driver(d)
  \/ \E u \in Users : Open(u)
  \/ \E a \in Drivers \cup Users : Caller(a)

Spec == Init /\ [][Next]_vars

(***************************************************************************)
(* The interrupt task, the port tasks and those that work with a device    *)
(* are scheduled. A spin lock is tried again at every turn: who waits gets *)
(* it if it is free again and again.                                       *)
(***************************************************************************)
FairSpec ==
  /\ Spec /\ WF_vars(Handler)
  /\ \A p \in PortTasks : SF_vars(PortTask(p))
  /\ \A a \in Drivers \cup Users : WF_vars(Holds(a))

-----------------------------------------------------------------------------
(* Properties. *)

\* usb_node.c: the count of a node is the number of those who hold it, the
\* tree included, so that none is freed in somebody's hands.
NodesCounted ==
  \A n \in 1 .. MaxNode :
    nodes[n].count = Cardinality({a \in Actors : ref[a] = n}) + (IF ports = n THEN 1 ELSE 0)

\* data->device != dev->device: a transfer through a node reaches the device
\* the node was made for, never the one that was plugged in after it.
ReachesOwn == reach.node = reach.slot

\* xhci_mm_page: a page is in the array or in one slot, never lost.
PagesKept == cache + slot.pages = pages

(***************************************************************************)
(* A port task holds port->lock and takes dev->lock (xhci.c 891 and 1296); *)
(* whoever transfers something holds dev->lock and takes port->lock (613,  *)
(* 661, 717). When both have their first lock none gets its second one.    *)
(***************************************************************************)
LockCycle ==
  \E p \in PortTasks, a \in Drivers \cup Users :
     /\ locks["port"] = p /\ pc[p] \in {"rmdev", "atdev"}
     /\ locks["dev"] = a /\ pc[a] = "bus"

(***************************************************************************)
(* xhci_port_task, xhci_irq_task: the node of a device that is gone for    *)
(* good goes, and a device that stays is attached in the end. There are    *)
(* three exceptions: a change of the port between the handler's read and   *)
(* its write of the register, whose change bit is cleared unseen; the      *)
(* deadlock LockCycle; and, for a device that stays, a command or an       *)
(* allocation that failed, after which the port is not tried again.        *)
(***************************************************************************)
Settles ==
  /\ <>[](~port.ccs /\ ~missed) => <>[](ports = None) \/ <>LockCycle
  /\ <>[](port.ccs /\ made < MaxNode /\ ~missed /\ ~failed)
       => <>[](ports # None /\ nodes[ports].plug = port.plug) \/ <>LockCycle
=============================================================================
