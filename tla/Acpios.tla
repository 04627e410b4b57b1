------------------------------- MODULE Acpios -------------------------------
(***************************************************************************)
(* The operating system layer of ACPICA (acpios/osdancy.c): the queues of  *)
(* deferred functions and the task that runs them, semaphores, and the     *)
(* handshake of acpios_shutdown and acpios_reset with that task.           *)
(*                                                                         *)
(* The task is bound to the boot processor and runs a function with task   *)
(* switching disabled, so nothing else runs there until the function has   *)
(* returned, whatever it waits for.  In each round it looks at one queue   *)
(* after the other, each under its own lock, then at the status, and then  *)
(* it does what it found: functions may be queued at any time between.     *)
(***************************************************************************)
EXTENDS Naturals, SequencesExt

CONSTANTS
  Tasks,      \* tasks that use ACPICA
  Limit,      \* the 31 functions a queue can hold
  MaxUnits,   \* of the semaphore, all of which are there at first
  Cpus,       \* the number of processors
  MaxCalls    \* bound on the functions

Types == 0 .. 1    \* notify handlers, and the others

VARIABLES
  queue,    \* acpios_task_array: numbers of the functions
  events,   \* acpios_events
  running,  \* the function that runs: its number, or 0
  place,    \* where the task of the queues is
  begun,    \* history: how many functions had been queued when the round began
  units,    \* of the semaphore
  held,     \* units each task, and "function", has
  pc,       \* where each task is
  status,   \* acpios_shutdown_status
  power,    \* "on", or what was done
  calls,    \* history: functions queued so far
  done,     \* history: functions that have run, in order
  types     \* history: the type of each function

vars == <<queue, events, running, place, begun, units, held, pc, status, power, calls, done, types>>
Users == Tasks \cup {"function"}

TypeOK ==
  /\ queue \in [Types -> Seq(1 .. MaxCalls)] /\ \A t \in Types : Len(queue[t]) <= Limit
  /\ events \in 0 .. 2 * Limit + 1
  /\ running \in 0 .. MaxCalls
  /\ place \in {"notify", "other", "status", "prepare", "finish", "reset", "run"}
  /\ begun \in 0 .. calls
  /\ units \in 0 .. MaxUnits
  /\ held \in [Users -> 0 .. MaxUnits]
  /\ pc \in [Tasks -> {"work", "wait", "complete", "shutdown", "returned"}]
  /\ status \in 0 .. 3 /\ power \in {"on", "prepared", "off", "reset"}
  /\ calls \in 0 .. MaxCalls

Init ==
  /\ queue = [t \in Types |-> <<>>] /\ events = 0
  /\ running = 0 /\ place = "notify" /\ begun = 0
  /\ units = MaxUnits /\ held = [u \in Users |-> 0]
  /\ pc = [t \in Tasks |-> "work"]
  /\ status = 0 /\ power = "on"
  /\ calls = 0 /\ done = <<>> /\ types = <<>>

\* A task can run: on another processor, or on this one when the task of
\* the queues does not have it.
CanRun == power \in {"on", "prepared"} /\ (Cpus > 1 \/ place # "run")

Goes(t, here, there) == pc[t] = here /\ pc' = [pc EXCEPT ![t] = there]

-----------------------------------------------------------------------------
(* AcpiOsExecute and AcpiOsWaitEventsComplete. *)

Uncounted == 0

\* A function is counted before it is in the queue.
Counted == 1

RoomOneMore(q) == Len(q) <= Limit

\* The last entry of the array is never used.
Room(q) == Len(q) < Limit

\* A function is queued, under the lock of its queue, or there is no room.
Execute(t, type) ==
  /\ CanRun /\ pc[t] = "work" /\ calls < MaxCalls
  /\ IF Room(queue[type])
     THEN /\ queue' = [queue EXCEPT ![type] = Append(@, calls + 1)]
          /\ events' = events + Counted
          /\ calls' = calls + 1
          /\ types' = Append(types, type)
     ELSE UNCHANGED <<queue, events, calls, types>>
  /\ UNCHANGED <<running, place, begun, units, held, pc, status, power, done>>

\* The wait for everything that was queued; ACPICA holds nothing then.
WaitEvents(t) ==
  /\ CanRun /\ held[t] = 0 /\ Goes(t, "work", "complete")
  /\ UNCHANGED <<queue, events, running, place, begun, units, held, status, power, calls, done, types>>

EventsComplete(t) ==
  /\ CanRun /\ events = 0 /\ Goes(t, "complete", "work")
  /\ UNCHANGED <<queue, events, running, place, begun, units, held, status, power, calls, done, types>>

-----------------------------------------------------------------------------
(* acpios_task. *)

\* The round starts again.
NewRound == place' = "notify" /\ begun' = calls

ScanLast == IF place = "notify" THEN 1 ELSE 0

\* The queue that is looked at: that of the notify handlers first.
Scan == IF place = "notify" THEN 0 ELSE 1

NextLast(q) == Len(q)

\* Which function of it is taken.
NextOf(q) == 1

\* Under the lock of the queue the first function is taken and the others move
\* up; the next queue is looked at when there is none.
Take ==
  /\ place \in {"notify", "other"}
  /\ IF queue[Scan] # <<>>
     THEN /\ running' = queue[Scan][NextOf(queue[Scan])]
          /\ queue' = [queue EXCEPT ![Scan] = RemoveAt(@, NextOf(@))]
          /\ place' = "run"
     ELSE /\ place' = IF place = "notify" THEN "other" ELSE "status"
          /\ UNCHANGED <<queue, running>>
  /\ UNCHANGED <<events, begun, units, held, pc, status, power, calls, done, types>>

\* The function may need a unit of the semaphore, for as long as it runs.
FunctionWait ==
  /\ place = "run" /\ held["function"] = 0 /\ units >= 1
  /\ units' = units - 1 /\ held' = [held EXCEPT !["function"] = 1]
  /\ UNCHANGED <<queue, events, running, place, begun, pc, status, power, calls, done, types>>

\* It returns.
Return ==
  /\ place = "run" /\ held["function"] = 1
  /\ units' = units + 1 /\ held' = [held EXCEPT !["function"] = 0]
  /\ events' = events - 1
  /\ done' = Append(done, running)
  /\ running' = 0 /\ NewRound
  /\ UNCHANGED <<queue, pc, status, power, calls, types>>

\* Both queues were empty, each when it was looked at: the status is read. The
\* task sleeps if there is nothing to do.
ReadStatus ==
  /\ place = "status"
  /\ \/ status = 0 /\ NewRound
     \/ status = 1 /\ place' = "prepare" /\ UNCHANGED begun
     \/ status = 2 /\ place' = "finish" /\ UNCHANGED begun
     \/ status = 3 /\ place' = "reset" /\ UNCHANGED begun
  /\ UNCHANGED <<queue, events, running, units, held, pc, status, power, calls, done, types>>

\* acpios_shutdown_prepare, acpios_shutdown_finish, acpios_reset_finish, which do
\* not look at the queues again.
Off ==
  /\ power \in {"on", "prepared"}
  /\ \/ place = "prepare" /\ status' = 2 /\ power' = "prepared" /\ NewRound
     \/ place = "finish" /\ power' = "off" /\ UNCHANGED <<place, begun, status>>
     \/ place = "reset" /\ power' = "reset" /\ UNCHANGED <<place, begun, status>>
  /\ UNCHANGED <<queue, events, running, units, held, pc, calls, done, types>>

-----------------------------------------------------------------------------
(* Semaphores, the units a task waits for at once given as n. *)

WaitSemaphore(t) ==
  /\ CanRun /\ held[t] = 0 /\ Goes(t, "work", "wait")
  /\ UNCHANGED <<queue, events, running, place, begun, units, held, status, power, calls, done, types>>

EnoughAny(n) == TRUE

Enough(n) == units >= n

\* The units are there.
GetUnits(t, n) ==
  /\ CanRun /\ Enough(n) /\ Goes(t, "wait", "work")
  /\ units' = IF units >= n THEN units - n ELSE 0
  /\ held' = [held EXCEPT ![t] = n]
  /\ UNCHANGED <<queue, events, running, place, begun, status, power, calls, done, types>>

\* AE_TIME.
TimeOut(t) ==
  /\ CanRun /\ Goes(t, "wait", "work")
  /\ UNCHANGED <<queue, events, running, place, begun, units, held, status, power, calls, done, types>>

FitsLess(n) == units + n < MaxUnits

Fits(n) == units + n <= MaxUnits

\* AcpiOsSignalSemaphore: what was taken, or AE_LIMIT beyond the maximum.
Signal(t) ==
  /\ CanRun /\ pc[t] = "work" /\ held[t] > 0
  /\ units' = IF Fits(held[t]) THEN units + held[t] ELSE units
  /\ held' = [held EXCEPT ![t] = 0]
  /\ UNCHANGED <<queue, events, running, place, begun, pc, status, power, calls, done, types>>

-----------------------------------------------------------------------------
(* acpios_shutdown and acpios_reset. *)

Shutdown(t, s) ==
  /\ CanRun /\ status = 0 /\ held[t] = 0 /\ Goes(t, "work", "shutdown")
  /\ status' = s
  /\ UNCHANGED <<queue, events, running, place, begun, units, held, power, calls, done, types>>

Next ==
  \/ \E t \in Tasks :
       \/ \E type \in Types : Execute(t, type)
       \/ WaitEvents(t) \/ EventsComplete(t)
       \/ WaitSemaphore(t) \/ TimeOut(t) \/ Signal(t)
       \/ \E n \in 1 .. MaxUnits : GetUnits(t, n)
       \/ \E s \in {1, 3} : Shutdown(t, s)
  \/ Take \/ FunctionWait \/ Return \/ ReadStatus \/ Off

\* The task of the queues runs again and again, and so do the others while
\* a processor is left; a holder of units gives them back.
Fairness ==
  /\ WF_vars(Take) /\ SF_vars(FunctionWait) /\ WF_vars(Return) /\ WF_vars(ReadStatus) /\ WF_vars(Off)
  /\ \A t \in Tasks : SF_vars(EventsComplete(t)) /\ SF_vars(Signal(t))

Spec == Init /\ [][Next]_vars /\ Fairness

-----------------------------------------------------------------------------
(* Properties. *)

\* AcpiOsWaitSemaphore: units are neither lost nor made.
UnitsKept ==
  LET of[us \in SUBSET Users] ==
        IF us = {} THEN 0 ELSE LET u == CHOOSE u \in us : TRUE IN held[u] + of[us \ {u}]
  IN units + of[Users] = MaxUnits

\* AcpiOsWaitEventsComplete: nothing is queued and nothing runs when it
\* returns, since a function is counted from before it is in the queue
\* until after it has returned.
CompleteIsComplete ==
  \A t \in Tasks : EventsComplete(t) => running = 0 /\ \A type \in Types : queue[type] = <<>>

\* acpios_task: functions of one type run in the order they were queued.
InOrder ==
  \A i, j \in DOMAIN done : i < j /\ types[done[i]] = types[done[j]] => done[i] < done[j]

\* acpios_task: another function runs only when no notify handler was waiting
\* at the beginning of the round; one that was queued in between, after its
\* queue was looked at, is late.
NotifyFirst ==
  running = 0 /\ running' # 0 /\ types[running'] = 1 =>
    \A i \in DOMAIN queue[0] : queue[0][i] > begun

\* acpios_shutdown and acpios_reset: what was queued before the last round has
\* run when the power goes; what was queued in it never runs.
GoesLast ==
  power' # power /\ power' \in {"off", "reset"} =>
    \A t \in Types : \A i \in DOMAIN queue[t] : queue[t][i] > begun

\* acpios_task: a function that is queued runs, unless the power goes first;
\* with one processor it needs that no task is stopped in between with a unit of
\* the semaphore.
FunctionsRun ==
  \A n \in 1 .. MaxCalls :
    calls >= n ~> (power \in {"off", "reset"} \/ \E i \in DOMAIN done : done[i] = n)

\* acpios_shutdown: the power goes.
PowerGoes == (status # 0) ~> (power \in {"off", "reset"})
=============================================================================
