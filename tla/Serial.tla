------------------------------- MODULE Serial -------------------------------
(***************************************************************************)
(* The serial port driver (kernel/misc/serial.c), for one port: the ring   *)
(* that the interrupt handler fills and the readers empty, sending byte by *)
(* byte, and changing the speed. A section between spin_enter and          *)
(* spin_leave is one step. The device has one byte of room in either       *)
(* direction; a byte that arrives on top of another is lost there. It      *)
(* interrupts when a byte arrives and none was waiting.                    *)
(***************************************************************************)
EXTENDS Integers, Sequences, FiniteSets

CONSTANTS Tasks,
          Size,       \* COM_BUFFER_SIZE
          Bytes,      \* bound on the bytes that arrive
          Out,        \* bytes of a send
          Speeds      \* speeds of TCSETS

VARIABLES base, start, end,   \* the ring
          event,              \* serial_event
          rx,                 \* the byte waiting in the device, or 0
          arrived,            \* bytes that have arrived
          irq,                \* an interrupt is pending
          thr,                \* the device can take a byte to send
          wire,               \* bytes that were put on the wire: task and number
          baud, termios,      \* the speed of the port and the one reported
          pc, arg,            \* of each task: where it is, and a count
          drain,              \* serial_init: what it has read of start and end
          ready,              \* serial_ready
          taken, accepted,    \* bytes read by tasks and taken from the device
          lost,               \* serial_init threw bytes away
          late,               \* history: bytes accepted when serial_init ended
          looked              \* history: the device was looked at since then

vars == <<base, start, end, event, rx, arrived, irq, thr, wire, baud, termios, pc, arg,
          drain, ready, taken, accepted, lost, late, looked>>
ring == <<base, start, end, event>>
device == <<rx, arrived, irq>>
sending == <<thr, wire>>
speed == <<baud, termios>>
ended == <<late, looked>>
counts == <<taken, accepted, lost, ended>>

-----------------------------------------------------------------------------
(* write_buffer_byte and the interrupt handlers *)

Full == start = (end + 1) % Size

\* Mutant: the ring is filled to the last place.
HasRoomLast == TRUE
HasRoom == ~Full

\* Mutant: the index of the ring does not wrap.
NextPlaceOn(p) == p + 1
NextPlace(p) == (p + 1) % Size

\* Moves the byte that waits in the device, if the ring has room for it; then
\* no byte waits. The event is signalled in either case.
IrqFunc ==
    IF rx = 0 THEN UNCHANGED <<ring, rx, accepted>>
    ELSE /\ event' = TRUE
         /\ IF HasRoom
              THEN /\ base' = [base EXCEPT ![end] = rx] /\ end' = NextPlace(end)
                   /\ rx' = 0 /\ accepted' = Append(accepted, rx) /\ UNCHANGED start
              ELSE UNCHANGED <<base, start, end, rx, accepted>>

Irq ==
    /\ irq /\ irq' = FALSE
    /\ IrqFunc /\ looked' = ready
    /\ UNCHANGED <<arrived, sending, speed, pc, arg, drain, ready, taken, lost, late>>

-----------------------------------------------------------------------------
(* serial_receive *)

Least(a, b) == IF a < b THEN a ELSE b
Held == (end - start) % Size

\* Mutant: every read resets the event.
EventAfterRead(n) == FALSE

\* read_buffer_byte resets the event when it finds the ring empty, which takes
\* one read more than there are bytes.
EventAfter(n) == IF n > Held THEN FALSE ELSE event

\* Mutant: the device is not looked at after a read.
PollsNot(t) == pc' = [pc EXCEPT ![t] = "idle"]

\* The handlers are called after the lock was released, for the byte that did
\* not find room.
Polls(t) == pc' = [pc EXCEPT ![t] = "poll"]

Receive(t) ==
    /\ ready /\ pc[t] = "idle"
    /\ \E n \in 1..Size :
         LET k == Least(n, Held)
         IN  /\ taken' = taken \o [x \in 1..k |-> base[(start + x - 1) % Size]]
             /\ base' = [p \in 0..(Size - 1) |-> IF ((p - start) % Size) < k THEN 0 ELSE base[p]]
             /\ start' = (start + k) % Size
             /\ event' = EventAfter(n)
    /\ Polls(t)
    /\ UNCHANGED <<end, device, sending, speed, arg, drain, ready, accepted, lost, ended>>

Poll(t) ==
    /\ pc[t] \in {"poll", "speed"}
    /\ IrqFunc /\ looked' = ready
    /\ pc' = [pc EXCEPT ![t] = IF @ = "speed" THEN "termios" ELSE "idle"]
    /\ UNCHANGED <<arrived, irq, sending, speed, arg, drain, ready, taken, lost, late>>

-----------------------------------------------------------------------------
(* serial_send *)

SendStart(t) ==
    /\ ready /\ pc[t] = "idle" /\ Len(wire) < Out * Cardinality(Tasks)
    /\ pc' = [pc EXCEPT ![t] = "send"] /\ arg' = [arg EXCEPT ![t] = 0]
    /\ UNCHANGED <<ring, device, sending, speed, drain, ready, counts>>

\* Mutant: a byte is written without asking the device.
ThrFree == TRUE

\* The test of the transmitter and the write are under one lock.
CanSend == thr

SendByte(t) ==
    /\ pc[t] = "send" /\ arg[t] < Out /\ CanSend
    /\ wire' = IF thr THEN Append(wire, <<t, arg[t] + 1>>) ELSE wire
    /\ thr' = FALSE
    /\ arg' = [arg EXCEPT ![t] = @ + 1]
    /\ UNCHANGED <<ring, device, speed, pc, drain, ready, counts>>

\* All was sent, or the device takes no more for a while.
SendEnd(t) ==
    /\ pc[t] = "send" /\ (arg[t] = Out \/ ~thr)
    /\ pc' = [pc EXCEPT ![t] = "idle"] /\ arg' = [arg EXCEPT ![t] = 0]
    /\ UNCHANGED <<ring, device, sending, speed, drain, ready, counts>>

-----------------------------------------------------------------------------
(* n_ioctl with TCSETS *)

\* serial_set_baud programs the port, and calls the handlers. Switching the
\* interrupts off and on again interrupts when a byte waits.
SetBaud(t) ==
    /\ ready /\ pc[t] = "idle"
    /\ \E b \in Speeds : baud' = b /\ arg' = [arg EXCEPT ![t] = b]
    /\ irq' = (irq \/ rx # 0)
    /\ pc' = [pc EXCEPT ![t] = "speed"]
    /\ UNCHANGED <<ring, rx, arrived, sending, termios, drain, ready, counts>>

\* The speed that is reported is set under the lock again.
SetTermios(t) ==
    /\ pc[t] = "termios"
    /\ termios' = arg[t]
    /\ pc' = [pc EXCEPT ![t] = "idle"] /\ arg' = [arg EXCEPT ![t] = 0]
    /\ UNCHANGED <<ring, device, sending, baud, drain, ready, counts>>

-----------------------------------------------------------------------------
(* The end of serial_init: the ring is emptied without the lock *)

DrainLook ==
    /\ ~ready /\ drain = <<>>
    /\ drain' = <<start, end>>
    /\ UNCHANGED <<ring, device, sending, speed, pc, arg, ready, counts>>

DrainTake ==
    /\ ~ready /\ drain # <<>> /\ drain[1] # drain[2]
    /\ base' = [base EXCEPT ![drain[1]] = 0] /\ start' = (drain[1] + 1) % Size
    /\ drain' = <<>> /\ lost' = lost + 1
    /\ UNCHANGED <<end, event, device, sending, speed, pc, arg, ready, taken, accepted, ended>>

\* Goes on as long as another port had a byte.
DrainEnd ==
    /\ ~ready /\ drain # <<>> /\ drain[1] = drain[2]
    /\ event' = FALSE /\ ready' \in BOOLEAN /\ drain' = <<>> /\ late' = Len(accepted)
    /\ UNCHANGED <<base, start, end, device, sending, speed, pc, arg, taken, accepted, lost, looked>>

-----------------------------------------------------------------------------
(* The device (external) *)

Arrive ==
    /\ arrived < Bytes
    /\ arrived' = arrived + 1 /\ rx' = arrived + 1
    /\ irq' = (irq \/ rx = 0)
    /\ UNCHANGED <<ring, sending, speed, pc, arg, drain, ready, counts>>

Sent ==
    /\ ~thr /\ thr' = TRUE
    /\ UNCHANGED <<ring, device, wire, speed, pc, arg, drain, ready, counts>>

Init ==
    /\ base = [p \in 0..(Size - 1) |-> 0] /\ start = 0 /\ end = 0 /\ event = FALSE
    /\ rx = 0 /\ arrived = 0 /\ irq = FALSE /\ thr = TRUE /\ wire = <<>>
    /\ baud = 0 /\ termios = 0
    /\ pc = [t \in Tasks |-> "idle"] /\ arg = [t \in Tasks |-> 0]
    /\ drain = <<>> /\ ready = FALSE /\ taken = <<>> /\ accepted = <<>> /\ lost = 0
    /\ late = 0 /\ looked = FALSE

Next ==
    \/ Irq \/ Arrive \/ Sent
    \/ DrainLook \/ DrainTake \/ DrainEnd
    \/ \E t \in Tasks : \/ Receive(t) \/ Poll(t) \/ SetBaud(t) \/ SetTermios(t)
                        \/ SendStart(t) \/ SendByte(t) \/ SendEnd(t)

Spec == Init /\ [][Next]_vars

-----------------------------------------------------------------------------
(* Properties *)

TypeOK ==
    /\ start \in 0..(Size - 1) /\ end \in 0..(Size - 1)
    /\ \A p \in 0..(Size - 1) : base[p] \in 0..Bytes
    /\ \A t \in Tasks : pc[t] \in {"idle", "poll", "send", "speed", "termios"}

\* Every byte taken from the device is read once and in order, by whichever
\* task, or was the oldest one when serial_init threw it away: the ring loses
\* none when it is full, when its indices wrap, and when it is emptied without
\* the lock while interrupts fill it.
InOrder ==
    taken \o [x \in 1..Held |-> base[(start + x - 1) % Size]]
        = SubSeq(accepted, lost + 1, Len(accepted))

\* A byte in the ring has its event signalled, so that a reader that waits for
\* the event finds it. (Not so for a byte that comes while serial_init empties
\* the ring without the lock: its event may be reset, until another byte comes.)
EventForByte == ready /\ Held > 0 /\ Len(accepted) > late => event

\* A byte that waits in the device has an interrupt coming, or the ring is full
\* and the next read will look for it: the device interrupts only once.
\* (serial_init does not look after it emptied the ring: a byte that came then
\* waits for the first read or change of speed.)
NoStuckByte ==
    rx # 0 /\ looked => irq \/ Full \/ (\E t \in Tasks : pc[t] \in {"poll", "speed"})

\* A byte of a send reaches the wire once, and the bytes of a task in order.
WireInOrder ==
    \A t \in Tasks : LET w == SelectSeq(wire, LAMBDA x : x[1] = t)
                     IN  /\ \A k \in 1..Len(w) : w[k][2] = (IF k = 1 THEN 1 ELSE
                                IF w[k][2] = 1 THEN 1 ELSE w[k - 1][2] + 1)
                         /\ pc[t] = "send" /\ arg[t] > 0 => w # <<>> /\ w[Len(w)][2] = arg[t]

\* When nobody is changing it, the speed that is reported is the speed of the
\* port (it need not be after two tasks changed it at the same time).
SpeedReported == (\A t \in Tasks : pc[t] \notin {"speed", "termios"}) => baud = termios
=============================================================================
