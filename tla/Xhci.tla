-------------------------------- MODULE Xhci --------------------------------
(***************************************************************************)
(* The rings of the USB host controller driver (usb/xhci.c): the command   *)
(* ring, the transfer ring of an endpoint and the event ring, with the     *)
(* task that writes commands, the task that writes requests or endpoint    *)
(* transfers, the interrupt task, and the controller.                      *)
(*                                                                         *)
(* A transfer request block (TRB) is its cycle bit and a serial number;    *)
(* serial 0 is the link at the end of a ring.  A completion has two parts: *)
(* its words 0 to 2 (the body) and word 3, which tells that it is there.   *)
(* The time limits of the two waits may pass at any moment.                *)
(***************************************************************************)
EXTENDS Naturals, Sequences

CONSTANTS
  Entries,    \* TRBs of a ring before the link (127 and 255 in the code)
  Events,     \* TRBs of the event ring (64 in the code)
  MaxCmd,     \* bound: commands
  MaxTrb,     \* bound: TRBs that are written to the ring of the endpoint
  Codes,      \* completion codes that matter
  MaxStages,  \* bound: TRBs of one request
  SlotId,     \* the slot of the device
  MaxSlots    \* max_slots

MaxSerial == MaxCmd + MaxTrb
Nothing == [ring |-> "none", id |-> 0, code |-> "none", c |-> 0]
Event == [ring : {"cmd", "ep", "none"}, id : 0 .. MaxSerial, code : Codes \cup {"none"}, c : 0 .. 1]
Empty == [body |-> Nothing, tag |-> FALSE]
NewRing ==
  [trb |-> [i \in 0 .. Entries |-> [c |-> 0, id |-> 0, ioc |-> FALSE]],
   enqueue |-> 0, cycle |-> 1,     \* the driver's end
   dequeue |-> 0, ccs |-> 1,       \* the controller's end
   bell |-> FALSE, ran |-> 0,      \* the doorbell; history: the last serial that ran
   answered |-> 0]                 \* history: the last serial whose event was handled

VARIABLES
  ring,      \* the command ring and the ring of the endpoint
  serial,    \* the last serial that was written to each ring
  high,      \* buffer_crcr_high: completions of commands, and the trb of the slot
  cmd,       \* write_command
  req,       \* write_request_locked and write_ep_locked
  late,      \* history: the first request that ran into its time limit, or 0
  er,        \* buffer_er
  erw,       \* the controller's end of it: index and cycle
  err,       \* the driver's end of it: buffer_er_dequeue and buffer_er_cycle
  erdp,      \* the dequeue pointer the controller knows
  flags,     \* EINT, IP and EHB
  irq,       \* the interrupt task
  taken      \* history: events that were posted and handled

vars == <<ring, serial, high, cmd, req, late, er, erw, err, erdp, flags, irq, taken>>
rings == <<ring, serial>>
events == <<er, erw, err, erdp, flags, taken>>

Trb == [c : 0 .. 1, id : 0 .. MaxSerial, ioc : BOOLEAN]

TypeOK ==
  /\ \A r \in {"cmd", "ep"} :
       /\ ring[r].trb \in [0 .. Entries -> Trb]
       /\ ring[r].enqueue \in 0 .. Entries - 1 /\ ring[r].dequeue \in 0 .. Entries
       /\ serial[r] \in 0 .. MaxSerial
  /\ \A i \in 0 .. Entries : high[i].body \in Event /\ high[i].tag \in BOOLEAN
  /\ cmd.pc \in {"idle", "wait", "match"} /\ req.pc \in {"idle", "wait", "read"}
  /\ erw.index \in 0 .. Events - 1 /\ err.index \in 0 .. Events - 1
  /\ late \in 0 .. MaxSerial /\ irq.pc \in {"wait", "ring", "body", "tag", "clear", "erdp"}

Init ==
  /\ ring = [r \in {"cmd", "ep"} |-> NewRing] /\ serial = [r \in {"cmd", "ep"} |-> 0]
  /\ high = [i \in 0 .. Entries |-> Empty]
  /\ cmd = [pc |-> "idle", got |-> 0, ok |-> FALSE] /\ req = [pc |-> "idle", got |-> 0, ok |-> FALSE, ep |-> FALSE]
  /\ late = 0
  /\ er = [i \in 0 .. Events - 1 |-> Nothing]
  /\ erw = [index |-> 0, cycle |-> 1] /\ err = [index |-> 0, cycle |-> 1] /\ erdp = 0
  /\ flags = {} /\ irq = [pc |-> "wait", advanced |-> FALSE]
  /\ taken = [posted |-> 0, handled |-> 0]

-----------------------------------------------------------------------------
(* Writing TRBs. *)

Put(r, id, ioc) == [r EXCEPT !.trb[r.enqueue] = [c |-> r.cycle, id |-> id, ioc |-> ioc]]

AdvanceLate(r) ==
  IF r.enqueue >= Entries
  THEN [r EXCEPT !.trb[Entries] = [c |-> r.cycle, id |-> 0, ioc |-> FALSE],
                 !.cycle = 1 - @, !.enqueue = 0]
  ELSE [r EXCEPT !.enqueue = @ + 1]

\* advance_enqueue_locked, and the end of write_command: the last TRB is
\* followed by the link, which toggles the cycle.
Advance(r) ==
  IF r.enqueue + 1 >= Entries
  THEN [r EXCEPT !.trb[Entries] = [c |-> r.cycle, id |-> 0, ioc |-> FALSE],
                 !.cycle = 1 - @, !.enqueue = 0]
  ELSE [r EXCEPT !.enqueue = @ + 1]

\* Nothing in the code looks for a full ring; a controller that is a whole
\* ring (127 commands with time limits of seconds) behind is left out.
Room(name, n) == serial[name] + n - ring[name].answered <= Entries

\* Command that leaves the completion of the last lap.
CommandStale ==
  /\ cmd.pc = "idle" /\ serial["cmd"] < MaxCmd /\ Room("cmd", 1)
  /\ ring' = [ring EXCEPT !["cmd"] = [Put(@, serial["cmd"] + 1, TRUE) EXCEPT !.bell = TRUE]]
  /\ serial' = [serial EXCEPT !["cmd"] = @ + 1]
  /\ cmd' = [pc |-> "wait", got |-> 0, ok |-> FALSE]
  /\ UNCHANGED <<high, req, late, events, irq>>

\* write_command: the TRB, its place for the completion, the doorbell.
Command ==
  /\ cmd.pc = "idle" /\ serial["cmd"] < MaxCmd /\ Room("cmd", 1)
  /\ ring' = [ring EXCEPT !["cmd"] = [Put(@, serial["cmd"] + 1, TRUE) EXCEPT !.bell = TRUE]]
  /\ serial' = [serial EXCEPT !["cmd"] = @ + 1]
  /\ high' = [high EXCEPT ![ring["cmd"].enqueue] = Empty]
  /\ cmd' = [pc |-> "wait", got |-> 0, ok |-> FALSE]
  /\ UNCHANGED <<req, late, events, irq>>

\* Word 3 of the completion is read first.
CommandSees ==
  /\ cmd.pc = "wait" /\ high[ring["cmd"].enqueue].tag
  /\ cmd' = [cmd EXCEPT !.pc = "match"]
  /\ UNCHANGED <<rings, high, req, late, events, irq>>

CommandDone(c) ==
  /\ cmd' = c
  /\ ring' = [ring EXCEPT !["cmd"] = Advance(@)]
  /\ UNCHANGED <<serial, high, req, late, events, irq>>

\* The other words: the completion is of this very TRB.
CommandMatches ==
  /\ cmd.pc = "match"
  /\ LET e == high[ring["cmd"].enqueue].body IN
     IF e.ring = "cmd" /\ e.id # 0
     THEN CommandDone([pc |-> "idle", got |-> e.id, ok |-> e.code = "success"])
     ELSE /\ cmd' = [cmd EXCEPT !.pc = "wait"]
          /\ UNCHANGED <<rings, high, req, late, events, irq>>

CommandTimesOut == cmd.pc = "wait" /\ CommandDone([pc |-> "idle", got |-> 0, ok |-> FALSE])

\* The data stage does not move on.
StagesOver(r, id, n) ==
  LET f[k \in 0 .. n] == IF k = 0 THEN r
                         ELSE IF k = 2 THEN Put(f[k - 1], id + k, k = n)
                         ELSE Advance(Put(f[k - 1], id + k, k = n)) IN f[n]

\* The TRBs of n stages, each with Advance.
Stages(r, id, n) ==
  LET f[k \in 0 .. n] == IF k = 0 THEN r ELSE Advance(Put(f[k - 1], id + k, k = n)) IN f[n]

\* The place the transfer events of the slot are put in.
Slot == Entries

\* The TRBs, slot->trb is cleared, the doorbell.
Ask(n, ep) ==
  /\ req.pc = "idle" /\ serial["ep"] + n <= MaxTrb /\ Room("ep", n)
  /\ ring' = [ring EXCEPT !["ep"] = [Stages(@, serial["ep"], n) EXCEPT !.bell = TRUE]]
  /\ serial' = [serial EXCEPT !["ep"] = @ + n]
  /\ high' = [high EXCEPT ![Slot] = Empty]
  /\ req' = [pc |-> "wait", got |-> 0, ok |-> FALSE, ep |-> ep]
  /\ UNCHANGED <<cmd, late, events, irq>>

\* write_request_locked: the setup, data and status stages.
Request == \E n \in 1 .. MaxStages : Ask(n, FALSE)

\* write_ep_locked: a normal TRB.
Transfer == Ask(1, TRUE)

RequestSees ==
  /\ req.pc = "wait" /\ high[Slot].tag
  /\ req' = [req EXCEPT !.pc = "read"]
  /\ UNCHANGED <<rings, high, cmd, late, events, irq>>

\* A request needs success; a transfer may be short.
RequestReads ==
  /\ req.pc = "read"
  /\ LET e == high[Slot].body IN
     req' = [req EXCEPT !.pc = "idle", !.got = e.id,
                        !.ok = e.code \in {"success"} \cup (IF req.ep THEN {"short"} ELSE {})]
  /\ UNCHANGED <<rings, high, cmd, late, events, irq>>

RequestTimesOut ==
  /\ req.pc = "wait"
  /\ req' = [req EXCEPT !.pc = "idle", !.got = 0, !.ok = FALSE]
  /\ late' = IF late = 0 THEN serial["ep"] ELSE late
  /\ UNCHANGED <<rings, high, cmd, events, irq>>

-----------------------------------------------------------------------------
(* The controller (external).  It runs TRBs with its own cycle bit, in the *)
(* order of the ring, follows the link, and posts an event for a command   *)
(* and for the TRB that asks for one.                                       *)

Full == (erw.index + 1) % Events = erdp

Follow(r) == [r EXCEPT !.dequeue = 0, !.ccs = 1 - @]

Controller(name) ==
  LET r == ring[name]
      t == r.trb[r.dequeue]
  IN /\ r.bell
     /\ IF t.c # r.ccs
        THEN ring' = [ring EXCEPT ![name].bell = FALSE] /\ UNCHANGED <<er, erw, flags, taken>>
        ELSE IF r.dequeue = Entries
        THEN ring' = [ring EXCEPT ![name] = Follow(@)] /\ UNCHANGED <<er, erw, flags, taken>>
        ELSE /\ ring' = [ring EXCEPT ![name] = [@ EXCEPT !.dequeue = @ + 1, !.ran = t.id]]
             /\ IF ~t.ioc
                THEN UNCHANGED <<er, erw, flags, taken>>
                ELSE /\ ~Full
                     /\ \E c \in Codes :
                          er' = [er EXCEPT ![erw.index] = [ring |-> name, id |-> t.id, code |-> c, c |-> erw.cycle]]
                     /\ erw' = IF erw.index + 1 = Events
                               THEN [index |-> 0, cycle |-> 1 - erw.cycle]
                               ELSE [erw EXCEPT !.index = @ + 1]
                     /\ flags' = flags \cup (IF "EHB" \in flags THEN {} ELSE {"EINT", "IP", "EHB"})
                     /\ taken' = [taken EXCEPT !.posted = @ + 1]
     /\ UNCHANGED <<serial, high, cmd, req, late, err, erdp, irq>>

-----------------------------------------------------------------------------
(* The interrupt task.                                                      *)

\* event_wait with a time limit: the interrupt need not come.
IrqWakes ==
  /\ irq.pc = "wait" /\ "EINT" \in flags
  /\ irq' = [pc |-> "ring", advanced |-> FALSE]
  /\ UNCHANGED <<rings, high, cmd, req, late, events>>

Current == er[err.index]

DequeuedSameCycle ==
  IF err.index + 1 >= Events THEN [err EXCEPT !.index = 0] ELSE [err EXCEPT !.index = @ + 1]

\* buffer_er_dequeue moves on, and its cycle at the end of the ring.
Dequeued ==
  IF err.index + 1 >= Events
  THEN [index |-> 0, cycle |-> 1 - err.cycle]
  ELSE [err EXCEPT !.index = @ + 1]

NextEvent ==
  /\ err' = Dequeued
  /\ irq' = [pc |-> "ring", advanced |-> TRUE]
  /\ taken' = [taken EXCEPT !.handled = @ + 1]
  /\ ring' = [ring EXCEPT ![Current.ring].answered = Current.id]
  /\ UNCHANGED <<er, erw, erdp, flags, serial>>

\* The place of an event's completion, and whether it is put there.
Place(e) == IF e.ring = "cmd" THEN (e.id - 1) % Entries ELSE Slot

\* A command's place must be clear; the slot max_slots, which xhci_port_task
\* accepts, gets none of its events.
Wanted(e) ==
  IF e.ring = "cmd" THEN high[Place(e)] = Empty ELSE SlotId < MaxSlots

IrqTakesTagFirst ==
  /\ irq.pc = "ring" /\ Current.c = err.cycle /\ Wanted(Current)
  /\ high' = [high EXCEPT ![Place(Current)].tag = TRUE]
  /\ irq' = [irq EXCEPT !.pc = "tag"]
  /\ UNCHANGED <<rings, cmd, req, late, events>>

\* event_ring_handler; the words 0 to 2 go first.
IrqTakes ==
  /\ irq.pc = "ring" /\ Current.c = err.cycle
  /\ \/ /\ Wanted(Current)
        /\ high' = [high EXCEPT ![Place(Current)].body = Current]
        /\ irq' = [irq EXCEPT !.pc = "tag"]
        /\ UNCHANGED <<rings, events>>
     \/ /\ ~Wanted(Current)
        /\ NextEvent /\ UNCHANGED high
  /\ UNCHANGED <<cmd, req, late>>

\* Word 3 goes last.
IrqTags ==
  /\ irq.pc = "tag"
  /\ high' = [high EXCEPT ![Place(Current)].tag = TRUE]
  /\ NextEvent
  /\ UNCHANGED <<cmd, req, late>>

\* Nothing is left: EINT and IP are cleared.
IrqClears ==
  /\ irq.pc = "ring" /\ Current.c # err.cycle
  /\ flags' = flags \ {"EINT", "IP"}
  /\ irq' = [irq EXCEPT !.pc = "erdp"]
  /\ UNCHANGED <<rings, high, cmd, req, late, er, erw, err, erdp, taken>>

IrqNoErdp ==
  /\ irq.pc = "erdp"
  /\ irq' = [irq EXCEPT !.pc = "wait"]
  /\ UNCHANGED <<rings, high, cmd, req, late, events>>

\* The dequeue pointer with EHB, when it has moved; the controller asks
\* again when there are events beyond it.
IrqErdp ==
  /\ irq.pc = "erdp"
  /\ irq' = [irq EXCEPT !.pc = "wait"]
  /\ IF irq.advanced
     THEN /\ erdp' = err.index
          /\ flags' = IF erw = err THEN flags \ {"EHB"} ELSE {"EINT", "IP", "EHB"}
     ELSE UNCHANGED <<erdp, flags>>
  /\ UNCHANGED <<rings, high, cmd, req, late, er, erw, err, taken>>

Irq == IrqWakes \/ IrqTakes \/ IrqTags \/ IrqClears \/ IrqErdp

Next ==
  \/ Command \/ CommandSees \/ CommandMatches \/ CommandTimesOut
  \/ Request \/ Transfer
  \/ RequestSees \/ RequestReads \/ RequestTimesOut
  \/ Controller("cmd") \/ Controller("ep")
  \/ Irq

Spec == Init /\ [][Next]_vars

\* The interrupt task is scheduled, and its waits have time limits.
FairSpec == Spec /\ WF_vars(Irq)

-----------------------------------------------------------------------------
(* Properties. *)

\* advance_enqueue_locked, write_command: the controller runs the TRBs in
\* the order they were written and each once, whatever wraps.
RunInOrder ==
  \A r \in {"cmd", "ep"} :
       ring'[r].ran # ring[r].ran => ring'[r].ran = ring[r].ran + 1

\* write_command: a command takes its own completion, even when earlier
\* ones ran into their time limits and were answered late.
CommandsOwn == cmd.pc = "idle" /\ cmd.got # 0 => cmd.got = serial["cmd"]

\* write_request_locked, write_ep_locked: a request takes its own answer, and
\* never one that was there before it. The exception begins with the first
\* request that runs into its time limit: nothing tells its answer, when it
\* comes late, from that of the next request, nor that one from the next.
RequestsOwn ==
  req.pc = "idle" => IF late = 0 THEN req.got = serial["ep"]
                     ELSE req.got = 0 \/ req.got >= late

\* xhci_irq_task: the event ring is read without a gap or a repetition: the
\* driver's end is where as many events have been taken as handled.
EventsInOrder ==
  /\ taken.handled <= taken.posted
  /\ (err = erw) = (taken.handled = taken.posted)
  /\ taken.posted - taken.handled < Events

\* xhci_irq_task: an event that was posted is handled, also one that is
\* posted after the ring was found empty and before EINT is cleared.
EventsHandled ==
  \A n \in 1 .. MaxSerial : taken.posted >= n ~> taken.handled >= n
=============================================================================
