------------------------------ MODULE Process -------------------------------
(***************************************************************************)
(* Tasks of the kernel: their list, waiting for them and the caretaker     *)
(* (module TaskWait), starting programs (Spawn), signals (Signals), the    *)
(* choice of the next task (Sched), run levels and halting (Shutdown),     *)
(* and, in this module, events (base/event.c) and sleeping                 *)
(* (syscall/sleep.c).                                                      *)
(***************************************************************************)
EXTENDS Integers, FiniteSets, Sequences

CONSTANTS
  Parts,           \* the parts that move
  Structures,      \* the structures of tasks there is memory for
  FirstTask,       \* the structure of the first task
  LastId,          \* bound: the ids of tasks
  WaitingIn,       \* bound: the structures whose tasks wait
  CreateIn,        \* bound: the structures whose tasks create tasks
  Spawns,          \* bound: calls of spawn
  LastSignalled,   \* bound: the ids of tasks that are sent signals
  SignalNumbers,   \* bound: the signals that are sent
  MaskSets,        \* bound: the masks of signals
  Kills,           \* bound: calls of kill
  TaskCount,       \* the tasks the scheduler has
  CpuCount,        \* the processors it runs on
  Priorities,      \* task -> 0 (kernel) .. 3 (low)
  PinnedTasks,     \* the tasks of the boot processor
  Sleepers,        \* bound: the tasks that block
  MayExit,         \* bound: the tasks that exit
  StarvedEvery,    \* the 32 of yield
  StateLimit,      \* bound: state words are counted up to this
  ApCount,         \* kernel->smp_ap_count
  HaltTasksPerAp,  \* the 4 tasks for each processor in operate
  Rebooters,       \* tasks that reboot or power off
  LevelCallers,    \* tasks that ask for a run level
  OtherPrograms,   \* programs that are sent signals on the way down
  LastTry,         \* the 100 tries of check_all_tasks
  PanicsOn,        \* processors that may panic
  Tasks,           \* the tasks that wait
  Events,          \* the events
  ManualReset,     \* the events created with event_type_manual_reset
  Waits,           \* the (events, milliseconds) arguments of event_wait_array
  Forever,         \* the milliseconds argument 0xFFFF
  TickWrap,        \* timer_ticks counts modulo this (2^32)
  NONE,            \* no task
  Width,           \* the largest number is Width - 1 (ULLONG_MAX)
  Second,          \* ticks in a second
  CheckEvery,      \* the 100 of f
  Ahead,           \* epoch_read_ms() - timer_read()
  MaxTime,         \* bound on the time
  Times            \* the times asked for, in ticks

VARIABLES
  part,  \* the part that moves
  eventSignaled,  \* event -> its signaled word
  hint,           \* event -> its task word
  yieldTask,      \* yield_task
  ticks,          \* timer_ticks
  eventPc,        \* task -> where it is in event_wait_array
  call,           \* task -> the arguments of its call
  index,          \* task -> the loop index
  start,          \* task -> data.ticks[0]
  waited,         \* task -> the ticks since its call
  fresh,          \* the auto-reset events signaled since a wait last returned them
  now,            \* timer_read()
  sleepPc,        \* where the task is
  kind,           \* "relative", "realtime" or "monotonic"
  request,        \* what was asked for, in ticks
  until,          \* d0 of s
  looked,         \* d1 of s
  sleepSignaled,  \* a signal is pending
  result,         \* the last result: "none", "ok", or "DE_INTERRUPT"
  remain,         \* the time that was left
  started,        \* history: the time of the call
  \* of TaskWait
  place, waitNext, tail, pool, lastId, waitId, idOwner, owner, waitStopped,
  detached, news, waitPc, walk, want, try, found, waitState, care, claimed,
  \* of Spawn
  spawnPc, frame, spawnLock, retval, arg, actions, node, child, stray, missed,
  spawnSignaled, spawnId, spawnCount,
  \* of Signals
  signalsState, group, session, pending, mask, saved, status, fatal, early, kills,
  \* of Sched
  cur, schedPc, schedNext, runnable, search, schedCount, schedState, blocked,
  schedStopped,
  \* of Shutdown
  halted, printing, down, haltCount, halters, rebooting, alive, signals,
  ignores, gaveUp, levelPc, tries, levelLock, levelId, event, rt, apState,
  nmi, panicLock, panicked

\* Waits for ever, with a time limit on both events, and a look.
LongWaits == {[events |-> <<"auto">>, ms |-> Forever], [events |-> <<"auto">>, ms |-> 1]}
WaitKinds == {[events |-> <<"auto">>, ms |-> Forever], [events |-> <<"manual", "auto">>, ms |-> 1],
              [events |-> <<"auto">>, ms |-> 0]}
\* Four tasks of the four priorities.
FourPriorities == <<0, 2, 3, 1>>
\* What a part that stands still has.
Still == /\ part # "event" => ticks = 0
         /\ part # "level" => ignores = {}

\* The first task has a structure, and no structure is NULL.
ASSUME WaitAssumption ==
  /\ FirstTask \in Structures /\ NONE \notin Structures /\ LastId \in Nat \ {0}
ASSUME SpawnAssumption == Spawns \in Nat
\* Signals have the numbers 1 to 31.
ASSUME SignalAssumption ==
  /\ LastSignalled \in Nat \ {0} /\ Kills \in Nat
  /\ SignalNumbers \subseteq 1 .. 31 /\ MaskSets \subseteq SUBSET SignalNumbers
\* Every processor has a task of its own to begin with.
ASSUME SchedAssumption ==
  /\ TaskCount \in Nat /\ CpuCount \in 1 .. TaskCount
  /\ StarvedEvery \in Nat \ {0} /\ StateLimit \in Nat
ASSUME LevelAssumption ==
  /\ ApCount \in Nat /\ HaltTasksPerAp \in Nat /\ LastTry \in Nat
  /\ IsFiniteSet(OtherPrograms) /\ IsFiniteSet(Rebooters)
\* event_wait_array takes one to 256 events.
ASSUME EventAssumption ==
  /\ TickWrap \in Nat \ {0} /\ NONE \notin Tasks /\ ManualReset \subseteq Events
  /\ \A w \in Waits : w \in [events : Seq(Events), ms : Nat] /\ Len(w.events) \in 1 .. 256
\* The time is within the numbers, and a request is one of them.
ASSUME SleepAssumption ==
  /\ MaxTime \in Nat /\ Width \in Nat /\ 3 <= Width /\ MaxTime < Width - 1
  /\ Second \in Nat \ {0} /\ CheckEvery \in Nat /\ Ahead \in Nat
  /\ Times \subseteq 0 .. Width - 1

Waiting == INSTANCE TaskWait
  WITH Struct <- Structures, TaskHead <- FirstTask, MaxId <- LastId,
       Waiters <- WaitingIn, Creators <- CreateIn, Requests <- {1 .. LastId},
       NONE <- NONE, next <- waitNext, id <- waitId, stopped <- waitStopped,
       pc <- waitPc, state <- waitState
Program == INSTANCE Spawn
  WITH MaxSpawns <- Spawns, pc <- spawnPc, lock <- spawnLock,
       signaled <- spawnSignaled, id <- spawnId, count <- spawnCount
Signal == INSTANCE Signals
  WITH MaxId <- LastSignalled, Sigs <- SignalNumbers, Masks <- MaskSets,
       MaxKills <- Kills, state <- signalsState
Scheduler == INSTANCE Sched
  WITH Tasks <- TaskCount, Cpus <- CpuCount, Priority <- Priorities,
       Uniproc <- PinnedTasks, Sleepers <- Sleepers, Mortal <- MayExit,
       Period <- StarvedEvery, MaxState <- StateLimit, NONE <- NONE,
       pc <- schedPc, next <- schedNext, count <- schedCount,
       state <- schedState, stopped <- schedStopped
RunLevel == INSTANCE Shutdown
  WITH Aps <- ApCount, PerAp <- HaltTasksPerAp, Callers <- Rebooters,
       Levels <- LevelCallers, Programs <- OtherPrograms, Tries <- LastTry,
       Panics <- PanicsOn, pc <- levelPc, lock <- levelLock, id <- levelId
-----------------------------------------------------------------------------
(***************************************************************************)
(* Events: base/event.c.  A waiter looks at its events one by one, each    *)
(* under the event's own lock, then blocks until its event function finds  *)
(* a signaled event or the end of its time.  A signal also leaves the last *)
(* waiter's task in yield_task, a hint that the end of an interrupt uses   *)
(* to switch to that task at once.                                         *)
(***************************************************************************)

waiter == <<eventPc, call, index, start, waited>>
eventVars == <<eventSignaled, hint, yieldTask, ticks, waiter, fresh>>

Index == 0 .. 256
NoCall == [events |-> << >>, ms |-> 0]

EventTypeOK ==
  /\ eventSignaled \in [Events -> {0, 1}]
  /\ hint \in [Events -> Tasks \cup {NONE}]
  /\ yieldTask \in Tasks \cup {NONE}
  /\ ticks \in 0 .. TickWrap - 1
  /\ eventPc \in [Tasks -> {"idle", "scan", "test", "block"}]
  /\ call \in [Tasks -> Waits \cup {NoCall}]
  /\ index \in [Tasks -> Index]
  /\ start \in [Tasks -> 0 .. TickWrap - 1]
  /\ waited \in [Tasks -> 0 .. TickWrap - 1]
  /\ fresh \in SUBSET (Events \ ManualReset)

EventInit ==
  /\ eventSignaled = [e \in Events |-> 0]
  /\ hint = [e \in Events |-> NONE]
  /\ yieldTask = NONE
  /\ ticks \in 0 .. TickWrap - 1
  /\ eventPc = [t \in Tasks |-> "idle"]
  /\ call = [t \in Tasks |-> NoCall]
  /\ index = [t \in Tasks |-> 0]
  /\ start = [t \in Tasks |-> 0]
  /\ waited = [t \in Tasks |-> 0]
  /\ fresh = {}

-----------------------------------------------------------------------------
\* Mutant: the counter is assumed not to wrap around.
TicksAfterUnbounded == ticks + 1

TicksAfter == (ticks + 1) % TickWrap

(***************************************************************************)
(* The timer interrupt.  A wait with a time limit that is over is noticed  *)
(* before the counter has gone round once (49 days).                       *)
(***************************************************************************)
EventTick ==
  /\ \A t \in Tasks : waited[t] < TickWrap - 1
  /\ ticks' = TicksAfter
  /\ waited' = [t \in Tasks |->
       IF eventPc[t] = "idle" \/ call[t].ms = Forever THEN 0 ELSE waited[t] + 1]
  /\ UNCHANGED <<eventSignaled, hint, yieldTask, eventPc, call, index, start, fresh>>

\* event_signal, from a task or an interrupt handler.
EventSignal(e) ==
  /\ eventSignaled' = [eventSignaled EXCEPT ![e] = 1]
  /\ yieldTask' = hint[e]
  /\ hint' = [hint EXCEPT ![e] = NONE]
  /\ fresh' = fresh \cup ({e} \ ManualReset)
  /\ UNCHANGED <<ticks, waiter>>

\* event_reset.
Reset(e) ==
  /\ eventSignaled[e] = 1
  /\ eventSignaled' = [eventSignaled EXCEPT ![e] = 0]
  /\ UNCHANGED <<hint, yieldTask, ticks, waiter, fresh>>

-----------------------------------------------------------------------------
\* Mutant: the end of the wait is computed first, then compared.
TimedOutDeadline(t) ==
  call[t].ms # Forever /\ ticks >= (start[t] + call[t].ms) % TickWrap

\* (timer_ticks - data.ticks[0]) >= data.ticks[1], in 32-bit arithmetic.
TimedOut(t) ==
  /\ call[t].ms # Forever
  /\ (ticks + TickWrap - start[t]) % TickWrap >= call[t].ms

\* Mutant: the event function does not look at the events.
ReadyOnTime(t) == TimedOut(t)

\* Mutant: the event function does not look at the timer.
ReadyOnSignal(t) ==
  \E j \in DOMAIN call[t].events : eventSignaled[call[t].events[j]] = 1

\* event_wait_array_func returns 0.
EventReady(t) ==
  \/ \E j \in DOMAIN call[t].events : eventSignaled[call[t].events[j]] = 1
  \/ TimedOut(t)

\* event_wait and event_wait_array.  Without a time limit data.ticks[0] is
\* never read.
EventWait(t, w) ==
  /\ eventPc[t] = "idle"
  /\ eventPc' = [eventPc EXCEPT ![t] = "scan"]
  /\ call' = [call EXCEPT ![t] = w]
  /\ index' = [index EXCEPT ![t] = 1]
  /\ start' = [start EXCEPT ![t] = IF w.ms = Forever THEN 0 ELSE ticks]
  /\ waited' = [waited EXCEPT ![t] = 0]
  /\ UNCHANGED <<eventSignaled, hint, yieldTask, ticks, fresh>>

\* The index or the -1 that is returned is not used by any property.
Return(t) ==
  /\ eventPc' = [eventPc EXCEPT ![t] = "idle"]
  /\ call' = [call EXCEPT ![t] = NoCall]
  /\ index' = [index EXCEPT ![t] = 0]
  /\ start' = [start EXCEPT ![t] = 0]
  /\ waited' = [waited EXCEPT ![t] = 0]

\* Mutant: the signal is left for the next waiter.
AfterTakeKept(e) == IF e \in Events THEN 1 ELSE 0

\* What an event that has released a waiter is left with.
AfterTake(e) == IF e \in ManualReset THEN 1 ELSE 0

\* One turn of the inner loop, under the lock of the event.
ScanTake(t) ==
  LET e == call[t].events[index[t]] IN
  /\ eventPc[t] = "scan"
  /\ eventSignaled[e] = 1
  /\ eventSignaled' = [eventSignaled EXCEPT ![e] = AfterTake(e)]
  /\ hint' = [hint EXCEPT ![e] = t]
  /\ fresh' = fresh \ {e}
  /\ Return(t)
  /\ UNCHANGED <<yieldTask, ticks>>

ScanNext(t) ==
  LET e == call[t].events[index[t]] IN
  /\ eventPc[t] = "scan"
  /\ eventSignaled[e] = 0
  /\ hint' = [hint EXCEPT ![e] = t]
  /\ \/ /\ index[t] < Len(call[t].events)
        /\ index' = [index EXCEPT ![t] = @ + 1]
        /\ UNCHANGED eventPc
     \/ /\ index[t] = Len(call[t].events)
        /\ eventPc' = [eventPc EXCEPT ![t] = "test"]
        /\ UNCHANGED index
  /\ UNCHANGED <<eventSignaled, yieldTask, ticks, call, start, waited, fresh>>

\* No event was signaled: give up, or task_write_event and task_yield.
TestTime(t) ==
  /\ eventPc[t] = "test"
  /\ \/ /\ call[t].ms = 0 \/ TimedOut(t)
        /\ Return(t)
     \/ /\ ~(call[t].ms = 0 \/ TimedOut(t))
        /\ eventPc' = [eventPc EXCEPT ![t] = "block"]
        /\ UNCHANGED <<call, index, start, waited>>
  /\ UNCHANGED <<eventSignaled, hint, yieldTask, ticks, fresh>>

\* The scheduler, or task_read_event, finds that the function returns 0.
Unblock(t) ==
  /\ eventPc[t] = "block"
  /\ EventReady(t)
  /\ eventPc' = [eventPc EXCEPT ![t] = "scan"]
  /\ index' = [index EXCEPT ![t] = 1]
  /\ UNCHANGED <<call, start, waited>>

EventWake(t) ==
  /\ Unblock(t)
  /\ UNCHANGED <<eventSignaled, hint, yieldTask, ticks, fresh>>

\* event_yield: the hint is used up whether or not the switch succeeds.
Yield ==
  /\ yieldTask # NONE
  /\ yieldTask' = NONE
  /\ \/ Unblock(yieldTask)
     \/ UNCHANGED waiter
  /\ UNCHANGED <<eventSignaled, hint, ticks, fresh>>

-----------------------------------------------------------------------------
EventStep(t) == ScanTake(t) \/ ScanNext(t) \/ TestTime(t) \/ EventWake(t)

EventNext ==
  \/ EventTick \/ Yield
  \/ \E e \in Events : EventSignal(e) \/ Reset(e)
  \/ \E t \in Tasks : EventStep(t) \/ \E w \in Waits : EventWait(t, w)

-----------------------------------------------------------------------------
(***************************************************************************)
(* One signal of an auto-reset event releases at most one waiter, however  *)
(* many look at it (event_wait_array tests and clears under the lock).     *)
(***************************************************************************)
Takes(t, e) ==
  eventPc[t] = "scan" /\ eventPc'[t] = "idle" /\ call[t].events[index[t]] = e

TakenOnce ==
  \A t \in Tasks, e \in Events \ ManualReset : Takes(t, e) => e \in fresh

(***************************************************************************)
(* A wait gives up only when its time is over, also when timer_ticks wraps *)
(* around meanwhile (event_wait_array).                                    *)
(***************************************************************************)
NoEarlyTimeout ==
  \A t \in Tasks :
       eventPc[t] = "test" /\ eventPc'[t] = "idle" => waited[t] >= call[t].ms

(***************************************************************************)
(* A signal is not lost: an event does not stay signaled while a task is   *)
(* blocked on it, also if the signal came between the task's last look and *)
(* its task_write_event, and if the hint in yield_task was overwritten     *)
(* (event_signal, event_wait_array_func).                                  *)
(***************************************************************************)
Wanted(t) == {e \in Events : \E j \in DOMAIN call[t].events : call[t].events[j] = e}

NoLostSignal ==
  \A t \in Tasks :
    eventPc[t] = "block" /\ (\E e \in Wanted(t) : eventSignaled[e] = 1)
    ~> eventPc[t] # "block" \/ \A e \in Wanted(t) : eventSignaled[e] = 0

(***************************************************************************)
(* A wait with a time limit returns, although other waiters may take every *)
(* signal that wakes it up (event_wait_array).                             *)
(***************************************************************************)
TimedWaitReturns ==
  \A t \in Tasks : eventPc[t] # "idle" /\ call[t].ms # Forever ~> eventPc[t] = "idle"

-----------------------------------------------------------------------------
(***************************************************************************)
(* Sleeping: sleep_internal (syscall/sleep.c).  A task sleeps for a time   *)
(* or until a time of one of two clocks; it looks for signals at least     *)
(* every Check ticks.  Time is a number of Width values: the sum of the    *)
(* start and the request may overflow.  The clock of real time is Ahead    *)
(* ticks before the timer.                                                 *)
(***************************************************************************)

sleepVars == <<now, sleepPc, kind, request, until, looked, sleepSignaled, result, remain, started>>

SleepTypeOK ==
  /\ now \in 0 .. MaxTime
  /\ sleepPc \in {"user", "loop", "asleep", "absolute"}
  /\ kind \in {"relative", "realtime", "monotonic"}
  /\ request \in 0 .. Width - 1
  /\ until \in 0 .. Width - 1 /\ looked \in 0 .. Width - 1
  /\ sleepSignaled \in BOOLEAN
  /\ result \in {"none", "ok", "DE_INTERRUPT"}
  /\ remain \in 0 .. Width - 1
  /\ started \in 0 .. MaxTime

SleepInit ==
  /\ now = 0 /\ sleepPc = "user" /\ kind = "relative" /\ request = 0
  /\ until = 0 /\ looked = 0 /\ sleepSignaled = FALSE
  /\ result = "none" /\ remain = 0 /\ started = 0

\* The clock of the request.
Clock == IF kind = "realtime" THEN now + Ahead ELSE now

UntilFree(t, r) == t + r

UntilWrapped(t, r) == (t + r) % Width

\* The end of a sleep of r ticks from t on; it does not overflow.
Until(t, r) == IF t + r >= Width THEN Width - 1 ELSE t + r

\* A sleep is at least two ticks.
Least(r) == IF r < 2 THEN 2 ELSE r

\* The call with flags 0, and with TIMER_ABSTIME.
Call(k, r) ==
  /\ sleepPc = "user" /\ result = "none"
  /\ kind' = k /\ started' = now /\ UNCHANGED <<result, remain>>
  /\ IF k = "relative"
     THEN sleepPc' = "loop" /\ until' = Until(now, Least(r)) /\ request' = Least(r)
     ELSE sleepPc' = "absolute" /\ request' = r /\ UNCHANGED until
  /\ UNCHANGED <<now, looked, sleepSignaled>>

\* s has returned: to user mode, or to the loop of the absolute sleep, which
\* does not look at its result.
Ends(r, left) ==
  IF kind = "relative"
  THEN sleepPc' = "user" /\ result' = r /\ remain' = left
  ELSE sleepPc' = "absolute" /\ UNCHANGED <<result, remain>>

\* s: the time is read, the signals are looked at, the task sleeps.
Loop ==
  /\ sleepPc = "loop"
  /\ looked' = now
  /\ IF until <= now THEN Ends("ok", 0)
     ELSE IF sleepSignaled THEN Ends("DE_INTERRUPT", until - now)
     ELSE sleepPc' = "asleep" /\ UNCHANGED <<result, remain>>
  /\ UNCHANGED <<now, kind, request, until, sleepSignaled, started>>

AwakeLate == now > until

\* f: the sleep is over, or it is time to look at the signals.
Awake == now > until \/ now - looked >= CheckEvery

SleepWake ==
  /\ sleepPc = "asleep" /\ Awake
  /\ sleepPc' = "loop"
  /\ UNCHANGED <<now, kind, request, until, looked, sleepSignaled, result, remain, started>>

\* How far the second of the request is away.
Distance == request \div Second - Clock \div Second

\* The part of the request below the second has come.
FractionCome == request % Second <= Clock % Second

\* The loop of an absolute sleep: at most a second of sleep at a time, and
\* shorter ones in the last second.
Absolute ==
  /\ sleepPc = "absolute"
  /\ IF Distance < 0 \/ (Distance = 0 /\ FractionCome)
     THEN sleepPc' = "user" /\ result' = "ok" /\ UNCHANGED <<until, looked>>
     ELSE IF Distance = 0
     THEN UNCHANGED <<sleepPc, result, until, looked>>
     ELSE IF sleepSignaled
     THEN sleepPc' = "user" /\ result' = "DE_INTERRUPT" /\ UNCHANGED <<until, looked>>
     ELSE /\ until' = Until(now, IF Distance > 1 THEN Second ELSE 1)
          /\ looked' = now
          /\ sleepPc' = "loop" /\ UNCHANGED result
  /\ UNCHANGED <<now, kind, request, sleepSignaled, remain, started>>

SleepTick ==
  /\ now < MaxTime
  /\ now' = now + 1
  /\ UNCHANGED <<sleepPc, kind, request, until, looked, sleepSignaled, result, remain, started>>

\* A signal comes, or is taken in user mode.
SleepSignal ==
  /\ sleepSignaled' = (sleepPc # "user")
  /\ UNCHANGED <<now, sleepPc, kind, request, until, looked, result, remain, started>>

SleepNext ==
  \/ \E k \in {"relative", "realtime", "monotonic"}, r \in Times : Call(k, r)
  \/ Loop \/ SleepWake \/ Absolute \/ SleepTick \/ SleepSignal

-----------------------------------------------------------------------------
(* Properties. *)

\* s and sleep_internal: a sleep that was not interrupted was long enough,
\* also when its end is beyond the largest number.
LongEnough ==
  result = "ok" =>
    IF kind = "relative" THEN now - started >= request ELSE Clock >= request

\* s: the time that is left of an interrupted sleep, with the time it has
\* taken, is what was asked for, or what is there up to the largest number.
RemainIsRest ==
  (result = "DE_INTERRUPT" /\ kind = "relative") =>
    remain + (looked - started) = IF started + request < Width THEN request ELSE Width - 1 - started

\* f: a task that is asleep and gets a signal returns to user mode however
\* long it has still to sleep.
Interrupted == (sleepPc = "asleep" /\ sleepSignaled /\ looked + CheckEvery <= MaxTime) ~> (sleepPc = "user")
-----------------------------------------------------------------------------
(***************************************************************************)
(* The parts share no variable, so a property of one of them holds when    *)
(* they run together if it holds when the others stand still. A behaviour  *)
(* therefore moves one part, chosen at the start.                          *)
(***************************************************************************)
waitVars ==
  <<place, waitNext, tail, pool, lastId, waitId, idOwner, owner, waitStopped,
    detached, news, waitPc, walk, want, try, found, waitState, care,
    claimed>>
spawnVars ==
  <<spawnPc, frame, spawnLock, retval, arg, actions, node, child, stray, missed,
    spawnSignaled, spawnId, spawnCount>>
signalsVars ==
  <<signalsState, group, session, pending, mask, saved, status, fatal, early,
    kills>>
schedVars ==
  <<cur, schedPc, schedNext, runnable, search, schedCount, schedState,
    blocked, schedStopped>>
levelVars ==
  <<halted, printing, down, haltCount, halters, rebooting, alive, signals,
    ignores, gaveUp, levelPc, tries, levelLock, levelId, event, rt, apState,
    nmi, panicLock, panicked>>
vars ==
  <<part, waitVars, spawnVars, signalsVars, schedVars, levelVars, eventVars,
    sleepVars>>

WaitMoves ==
  /\ part = "wait"
  /\ UNCHANGED <<part, spawnVars, signalsVars, schedVars, levelVars,
                  eventVars, sleepVars>>
SpawnMoves ==
  /\ part = "spawn"
  /\ UNCHANGED <<part, waitVars, signalsVars, schedVars, levelVars,
                  eventVars, sleepVars>>
SignalsMoves ==
  /\ part = "signals"
  /\ UNCHANGED <<part, waitVars, spawnVars, schedVars, levelVars, eventVars,
                  sleepVars>>
SchedMoves ==
  /\ part = "sched"
  /\ UNCHANGED <<part, waitVars, spawnVars, signalsVars, levelVars,
                  eventVars, sleepVars>>
LevelMoves ==
  /\ part = "level"
  /\ UNCHANGED <<part, waitVars, spawnVars, signalsVars, schedVars,
                  eventVars, sleepVars>>
EventMoves ==
  /\ part = "event"
  /\ UNCHANGED <<part, waitVars, spawnVars, signalsVars, schedVars,
                  levelVars, sleepVars>>
SleepMoves ==
  /\ part = "sleep"
  /\ UNCHANGED <<part, waitVars, spawnVars, signalsVars, schedVars,
                  levelVars, eventVars>>

Init ==
  /\ part \in Parts
  /\ Waiting!Init /\ Program!Init /\ Signal!Init /\ Scheduler!Init
  /\ RunLevel!Init /\ EventInit /\ SleepInit
  /\ Still

Next ==
  \/ WaitMoves /\ Waiting!Next
  \/ SpawnMoves /\ Program!Next
  \/ SignalsMoves /\ Signal!Next
  \/ SchedMoves /\ Scheduler!Next
  \/ LevelMoves /\ RunLevel!Next
  \/ EventMoves /\ EventNext
  \/ SleepMoves /\ SleepNext

Spec ==
  /\ Init /\ [][Next]_vars
  /\ WF_waitVars(part = "wait" /\ Waiting!CareStep)
  /\ \A x \in Structures : WF_waitVars(part = "wait" /\ (Waiting!WaitStep(x) \/ Waiting!ExitStep(x)))
  /\ \A c \in 1 .. CpuCount : WF_schedVars(part = "sched" /\ Scheduler!InYield(c))
  /\ \A i \in 1 .. LastSignalled : WF_signalsVars(part = "signals" /\ Signal!Leave(i))
  /\ WF_eventVars(part = "event" /\ EventTick) /\ \A t \in Tasks : WF_eventVars(part = "event" /\ EventStep(t))

-----------------------------------------------------------------------------
TypeOK ==
  /\ Waiting!TypeOK /\ Program!TypeOK /\ Signal!TypeOK /\ Scheduler!TypeOK /\ RunLevel!TypeOK
  /\ EventTypeOK /\ SleepTypeOK

\* The circular list of tasks and the pool are whole whenever task_lock is
\* free; a new task works only on memory of its parent that exists, nothing of
\* it leaks and no child is left that the parent was not told of, unless its wait
\* did not find it; a process group is within one session, if its number was not
\* taken before the session began, and only a signal that is not blocked ends a
\* task; a task runs on one processor at a time.
TasksRight ==
  /\ TypeOK
  /\ Waiting!ListValid
  /\ Program!ChildHasArguments /\ Program!NothingLeaks /\ Program!NoStrayChild
  /\ Signal!GroupInSession /\ Signal!EndedByUnblocked
  /\ Scheduler!OneProcessor

\* The power goes when every other processor is halted, and one processor at
\* most prints a panic message; a sleep is as long as it was asked to be and
\* tells what was left of it.
StopsRight ==
  /\ RunLevel!CountIsHalted /\ RunLevel!DownAlone /\ RunLevel!OnePrints
  /\ LongEnough /\ RemainIsRest

\* A return value is claimed once and before its structure is used again; the
\* first session cannot be signalled from another one; a signal of an event
\* releases one waiter, and a wait does not give up early.
StepsRight ==
  [][ /\ Waiting!ClaimedOnce /\ Waiting!RecycledWhenClaimed /\ Signal!FirstSessionSafe
      /\ TakenOnce /\ NoEarlyTimeout ]_vars

\* With the scheduling and the interrupts the kernel has, a wait for a child
\* that has stopped returns; a task does not stay blocked on an event that is
\* signaled, and a wait with a time limit returns; the tasks that were sent
\* SIGKILL end, orphans get an owner, and no task that can run is starved.
WaitsEnd ==
  /\ Waiting!WaitReturns /\ NoLostSignal /\ TimedWaitReturns
  /\ Signal!KillEnds /\ Waiting!OrphansAdopted
  /\ (part = "sched" => Scheduler!NoStarvation)
=============================================================================
