------------------------------ MODULE Shutdown ------------------------------
(***************************************************************************)
(* Run levels and the way down: reboot_internal (syscall/reboot.c), the    *)
(* run level task (base/runlevel.c), panic (base/panic.c) and the handler  *)
(* of non-maskable interrupts (idt_handler of base/idt.c).                 *)
(*                                                                         *)
(* Processor 0 is the boot processor, where the run level task runs; the   *)
(* others are halted by tasks made for that and, before the power goes, by *)
(* a non-maskable interrupt.  Any processor may panic meanwhile.           *)
(***************************************************************************)
EXTENDS Naturals, FiniteSets

CONSTANTS
  Aps,       \* kernel->smp_ap_count
  PerAp,     \* the 4 tasks for each processor in operate
  Callers,   \* tasks that reboot or power off
  Levels,    \* tasks that ask for one of the run levels 1 to 5
  Programs,  \* other programs
  Tries,     \* the 100 tries of check_all_tasks
  Panics     \* processors that may panic

Cpus == 0 .. Aps
Ap == 1 .. Aps

HaltTasks == 1 .. PerAp * Aps
Requests == {0, 6}   \* power off and reset

VARIABLES
  halted,     \* processors that are halted for good
  printing,   \* processors that have come to print the panic message
  down,       \* the computer is off or reset: 0, 6, or 1 while it runs
  haltCount,  \* ap_halt_count
  halters,    \* where the halting tasks are
  rebooting,  \* kernel->rebooting
  alive,      \* programs that run
  signals,    \* the last signal every program was sent
  ignores,    \* programs that block SIGTERM
  gaveUp,     \* check_all_tasks has come to its last try
  pc,         \* where the callers are
  tries,      \* the tries of check_all_tasks
  lock,       \* runlevel_lock: its holder or "free"
  id,         \* runlevel_id
  event,      \* runlevel_event is signalled
  rt,         \* where the run level task is
  apState,    \* kernel->smp_ap_state
  nmi,        \* non-maskable interrupts on their way
  panicLock,  \* panic_lock
  panicked    \* idt_nmi_panic: a processor has set the first bit; the one
              \* that does not halt, or None

None == Aps + 1     \* no processor has panicked
Nobody == Aps + 2   \* one has, and had to halt

tasks == <<haltCount, halters, rebooting, alive, signals, ignores, gaveUp, tries>>
levels == <<lock, id, event>>
nmis == <<apState, nmi, panicLock, panicked>>
vars == <<halted, printing, down, tasks, pc, levels, rt, nmis>>

TypeOK ==
  /\ halted \subseteq Cpus /\ printing \subseteq Cpus /\ down \in {0, 1, 6}
  /\ haltCount \in 0 .. Aps
  /\ halters \in [HaltTasks -> {"none", "read", "act", "halted", "gone"}]
  /\ rebooting \in BOOLEAN
  /\ alive \subseteq Programs /\ ignores \subseteq Programs
  /\ signals \in {"none", "term", "kill"} /\ gaveUp \in BOOLEAN
  /\ pc \in [Callers \cup Levels -> {"user", "create", "term", "kill", "check", "request", "locked", "forever"}]
  /\ tries \in [Callers -> 0 .. Tries]
  /\ lock \in {"free"} \cup Callers \cup Levels
  /\ id \in [0 .. 1 -> 0 .. 6] /\ event \in BOOLEAN
  /\ rt \in {"loop", "wait", "prepare", "send", "ack", "last", "panic", "stopped"}
  /\ apState \in [Cpus -> 0 .. 2] /\ nmi \subseteq Cpus
  /\ panicLock \in BOOLEAN /\ panicked \in Cpus \cup {None, Nobody}

Init ==
  /\ halted = {} /\ printing = {} /\ down = 1
  /\ haltCount = 0 /\ halters = [t \in HaltTasks |-> "none"]
  /\ rebooting = FALSE /\ alive = {} /\ signals = "none"
  /\ ignores \in SUBSET Programs /\ gaveUp = FALSE
  /\ pc = [c \in Callers \cup Levels |-> "user"] /\ tries = [c \in Callers |-> 0]
  /\ lock = "free" /\ id = [i \in 0 .. 1 |-> 1] /\ event = FALSE
  /\ rt = "loop" /\ apState = [c \in Cpus |-> 0] /\ nmi = {}
  /\ panicLock = FALSE /\ panicked = None

\* The computer is on and some processor runs tasks.
Runs == down = 1 /\ \E c \in Cpus : c \notin halted \cup printing

\* Processor 0 runs, for what only runs there.
BspRuns == down = 1 /\ 0 \notin halted \cup printing

-----------------------------------------------------------------------------
(* Programs. *)

CanCreateAlways == TRUE

\* task_append: no task is added while rebooting.
CanCreate == ~rebooting

Fork(p) ==
  /\ Runs /\ p \notin alive /\ CanCreate
  /\ alive' = alive \cup {p}
  /\ UNCHANGED <<halted, printing, down, haltCount, halters, rebooting, signals, ignores, gaveUp, pc, tries, levels, rt, nmis>>

\* A signal that is not blocked ends a program on its way to user mode.
Dies(p) ==
  /\ Runs /\ p \in alive
  /\ signals = "kill" \/ (signals = "term" /\ p \notin ignores)
  /\ alive' = alive \ {p}
  /\ UNCHANGED <<halted, printing, down, haltCount, halters, rebooting, signals, ignores, gaveUp, pc, tries, levels, rt, nmis>>

-----------------------------------------------------------------------------
(* operate. *)

Goes(c, here, there) == pc[c] = here /\ pc' = [pc EXCEPT ![c] = there]

\* The halting tasks; the second caller's are the same as the first's. While
\* there is no structure for one, operate ends programs and tries again
\* (reboot.c 96-101): a task is always made here in the end.
CreateHalters(c) ==
  /\ Runs /\ Goes(c, "user", "create")
  /\ halters' = [t \in HaltTasks |-> IF halters[t] = "none" THEN "read" ELSE halters[t]]
  /\ UNCHANGED <<halted, printing, down, haltCount, rebooting, alive, signals, ignores, gaveUp, tries, levels, rt, nmis>>

\* task_prepare_rebooting.
Prepare(c) ==
  /\ Runs /\ Goes(c, "create", "term")
  /\ rebooting' = TRUE
  /\ UNCHANGED <<halted, printing, down, haltCount, halters, alive, signals, ignores, gaveUp, tries, levels, rt, nmis>>

\* f_send for every task; SIGKILL stays pending when SIGTERM is sent too.
Send(c) ==
  /\ Runs
  /\ \/ Goes(c, "term", "check") /\ signals' = IF signals = "kill" THEN "kill" ELSE "term"
     \/ Goes(c, "kill", "check") /\ signals' = "kill"
  /\ tries' = [tries EXCEPT ![c] = 0]
  /\ UNCHANGED <<halted, printing, down, haltCount, halters, rebooting, alive, ignores, gaveUp, levels, rt, nmis>>

\* f_check: the programs that are left, without the caller itself.
Left(c) == Cardinality(alive) + Cardinality({d \in Callers \ {c} : pc[d] # "user"})

\* check_all_tasks: until nothing is left, or the last try.
Check(c) ==
  /\ Runs /\ pc[c] = "check"
  /\ LET done == Left(c) = 0
         over == ~done /\ tries[c] = Tries
     IN /\ gaveUp' = (gaveUp \/ over)
        /\ tries' = [tries EXCEPT ![c] = IF done \/ over THEN @ ELSE @ + 1]
        /\ pc' = [pc EXCEPT ![c] = IF ~(done \/ over) THEN "check"
                                   ELSE IF signals = "kill" THEN "request" ELSE "kill"]
  /\ UNCHANGED <<halted, printing, down, haltCount, halters, rebooting, alive, signals, ignores, levels, rt, nmis>>

-----------------------------------------------------------------------------
(* ap_halt_task, on processor c. *)

HaltRead(t) ==
  /\ Runs /\ halters[t] = "read"
  /\ halters' = [halters EXCEPT ![t] = IF haltCount = Aps THEN "gone" ELSE "act"]
  /\ UNCHANGED <<halted, printing, down, haltCount, rebooting, alive, signals, ignores, gaveUp, pc, tries, levels, rt, nmis>>

MayHaltAny(c) == TRUE

\* The task state segment says whether this is the boot processor.
MayHalt(c) == c # 0

HaltAct(t, c) ==
  /\ Runs /\ halters[t] = "act" /\ c \notin halted \cup printing
  /\ IF MayHalt(c)
     THEN /\ haltCount' = haltCount + 1
          /\ halted' = halted \cup {c}
          /\ halters' = [halters EXCEPT ![t] = "halted"]
     ELSE /\ halters' = [halters EXCEPT ![t] = "read"]
          /\ UNCHANGED <<haltCount, halted>>
  /\ UNCHANGED <<printing, down, rebooting, alive, signals, ignores, gaveUp, pc, tries, levels, rt, nmis>>

-----------------------------------------------------------------------------
(* runlevel_send_request and the run level task. *)

RequestQuiet(c, level) ==
  /\ Runs /\ lock = "free"
  /\ IF level \in Requests THEN Goes(c, "request", "forever") ELSE Goes(c, "user", "locked")
  /\ lock' = c
  /\ id' = [id EXCEPT ![1] = level]
  /\ UNCHANGED event
  /\ UNCHANGED <<halted, printing, down, tasks, rt, nmis>>

\* The lock is taken, the request is written, the event is signalled.
Request(c, level) ==
  /\ Runs /\ lock = "free"
  /\ IF level \in Requests THEN Goes(c, "request", "forever") ELSE Goes(c, "user", "locked")
  /\ lock' = c
  /\ id' = [id EXCEPT ![1] = level]
  /\ event' = TRUE
  /\ UNCHANGED <<halted, printing, down, tasks, rt, nmis>>

\* The level is reached.
Reached(c) ==
  /\ Runs /\ id[0] = id[1] /\ lock = c
  /\ Goes(c, "locked", "user")
  /\ lock' = "free"
  /\ UNCHANGED <<halted, printing, down, tasks, id, event, rt, nmis>>

\* The loop compares the two; it waits for the event when they are equal.
LevelLoop ==
  /\ BspRuns /\ rt = "loop"
  /\ IF id[1] = id[0]
     THEN rt' = "wait" /\ UNCHANGED id
     ELSE /\ id' = [id EXCEPT ![0] = id[1]]
          /\ rt' = IF id[1] \in Requests THEN "prepare" ELSE "loop"
  /\ UNCHANGED <<halted, printing, down, tasks, pc, lock, event, nmis>>

LevelWait ==
  /\ BspRuns /\ rt = "wait" /\ event
  /\ event' = FALSE /\ rt' = "loop"
  /\ UNCHANGED <<halted, printing, down, tasks, pc, lock, id, nmis>>

\* runlevel_prepare_shutdown: the panic lock, or the processor halts.
ShutdownLock ==
  /\ BspRuns /\ rt = "prepare"
  /\ IF panicLock
     THEN halted' = halted \cup {0} /\ rt' = "stopped" /\ UNCHANGED panicLock
     ELSE panicLock' = TRUE /\ rt' = "send" /\ UNCHANGED halted
  /\ UNCHANGED <<printing, down, tasks, pc, levels, apState, nmi, panicked>>

\* The interrupt for the next processor.
ShutdownSend ==
  /\ BspRuns /\ rt = "send"
  /\ LET rest == {a \in Ap : apState[a] = 0} IN
     IF rest = {}
     THEN rt' = "last" /\ panicLock' = FALSE /\ UNCHANGED <<apState, nmi>>
     ELSE LET a == CHOOSE a \in rest : \A b \in rest : a <= b IN
          /\ apState' = [apState EXCEPT ![a] = 1]
          /\ nmi' = nmi \cup {a}
          /\ rt' = "ack" /\ UNCHANGED panicLock
  /\ UNCHANGED <<halted, printing, down, tasks, pc, levels, panicked>>

AckedNone == TRUE

\* The processor has said that it halts.
Acked == \A a \in Ap : apState[a] # 1

ShutdownAck ==
  /\ BspRuns /\ rt = "ack" /\ Acked
  /\ rt' = "send"
  /\ UNCHANGED <<halted, printing, down, tasks, pc, levels, nmis>>

\* It is sent again while there is no answer.
ShutdownResend ==
  /\ BspRuns /\ rt = "ack" /\ ~Acked
  /\ nmi' = nmi \cup {a \in Ap : apState[a] = 1}
  /\ UNCHANGED <<halted, printing, down, tasks, pc, levels, rt, apState, panicLock, panicked>>

\* The watchdog: there is no answer for ten seconds.
ShutdownWatchdog ==
  /\ BspRuns /\ rt = "ack" /\ ~Acked
  /\ panicLock' = FALSE /\ rt' = "panic"
  /\ UNCHANGED <<halted, printing, down, tasks, pc, levels, apState, nmi, panicked>>

\* runlevel_shutdown and runlevel_reset.
Down ==
  /\ BspRuns /\ rt = "last"
  /\ down' = id[0] /\ rt' = "stopped"
  /\ UNCHANGED <<halted, printing, tasks, pc, levels, nmis>>

-----------------------------------------------------------------------------
(* panic, in two steps, and the handler of non-maskable interrupts. *)

MayPanicAlways == TRUE

\* The first processor to set the bit goes on; it needs the lock as well.
MayPanic == panicked = None /\ ~panicLock

Panic(c) ==
  /\ down = 1 /\ (c \in Panics \/ (c = 0 /\ rt = "panic"))
  /\ c \notin halted \cup printing
  /\ IF MayPanic
     THEN /\ panicLock' = TRUE /\ panicked' = c
          /\ nmi' = (nmi \cup Cpus) \ {c}
          /\ printing' = printing \cup {c}
          /\ UNCHANGED halted
     ELSE /\ halted' = halted \cup {c}
          /\ panicked' = IF panicked = None THEN Nobody ELSE panicked
          /\ UNCHANGED <<panicLock, nmi, printing>>
  /\ rt' = IF c = 0 THEN "stopped" ELSE rt
  /\ UNCHANGED <<down, tasks, pc, levels, apState>>

\* idt_handler, number 2.  A processor that is halted handles it as well.
Nmi(c) ==
  /\ down = 1 /\ c \in nmi
  /\ nmi' = nmi \ {c}
  /\ LET stops == c # 0 /\ apState[c] \in {1, 2}
         panics == panicLock /\ panicked \in Cpus \ {c}
     IN /\ halted' = IF stops \/ panics THEN halted \cup {c} ELSE halted
        /\ printing' = IF stops THEN printing \ {c} ELSE printing
        /\ apState' = IF stops THEN [apState EXCEPT ![c] = 2] ELSE apState
  /\ UNCHANGED <<down, tasks, pc, levels, rt, panicLock, panicked>>

Next ==
  \/ \E p \in Programs : Fork(p) \/ Dies(p)
  \/ \E c \in Callers :
       CreateHalters(c) \/ Prepare(c) \/ Send(c) \/ Check(c) \/ \E r \in Requests : Request(c, r)
  \/ \E c \in Levels : \E l \in 2 .. 3 : Request(c, l)
  \/ \E c \in Levels : Reached(c)
  \/ \E t \in HaltTasks : HaltRead(t)
  \/ \E t \in HaltTasks, c \in Cpus : HaltAct(t, c)
  \/ LevelLoop \/ LevelWait \/ ShutdownLock \/ ShutdownSend \/ ShutdownAck \/ ShutdownResend \/ ShutdownWatchdog \/ Down
  \/ \E c \in Cpus : Panic(c) \/ Nmi(c)

\* The steps that the run level task and its callers take as soon as they can.
LevelStep ==
  \/ LevelLoop \/ LevelWait \/ ShutdownLock \/ ShutdownSend \/ ShutdownAck \/ Down
  \/ rt = "panic" /\ Panic(0)
Ask(c) == Prepare(c) \/ Send(c) \/ Check(c)
Calls(c) == \E r \in Requests : Request(c, r)

-----------------------------------------------------------------------------
(* Properties. *)

\* ap_halt_task: every application processor is halted once, the boot
\* processor never, and the count says how many are.
CountIsHalted ==
  /\ haltCount = Cardinality({t \in HaltTasks : halters[t] = "halted"})
  /\ haltCount <= Cardinality(halted \cap Ap)
  /\ 0 \in halted => panicked # None

\* runlevel_shutdown: when the power goes no other processor runs, and no
\* program is left unless the last try was over.
DownAlone ==
  down # 1 => /\ Ap \subseteq halted
              /\ alive = {} \/ gaveUp

\* panic: two processors never print, and none prints when the power goes.
OnePrints ==
  /\ Cardinality(printing \ halted) <= 1
  /\ down # 1 => printing = {}

\* runlevel_send_request: a computer that is asked to go down goes down,
\* unless it panics.
GoesDown == \A c \in Callers : (pc[c] # "user") ~> (down # 1 \/ panicked # None)

\* runlevel_send_request: a request for a run level is answered, unless
\* the computer goes down.
LevelReached == \A c \in Levels : (pc[c] = "locked") ~> (pc[c] = "user" \/ panicked # None)
=============================================================================
