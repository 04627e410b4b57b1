------------------------------- MODULE Sched -------------------------------
(***************************************************************************)
(* The scheduler: yield of sched/sched.c on several processors.            *)
(*                                                                         *)
(* The tasks are numbered in the order of the circular task list.  Every   *)
(* scan adds one to the state word of the tasks it passes; among the       *)
(* runnable tasks of the best priority the one with the largest state word *)
(* is entered and its word cleared.  Every Period-th call first tries the  *)
(* runnable task with the largest state word of all, whatever its          *)
(* priority.  A scan is one step: polls of the event functions and of the  *)
(* active words are not interleaved within it (TaskSwitch does that).  The *)
(* attempt to switch is a step of its own, so that the other processors    *)
(* can take, stop or block the chosen task before it.                      *)
(***************************************************************************)
EXTENDS Naturals, FiniteSets

CONSTANTS
  Tasks,      \* the number of tasks in the list
  Cpus,       \* the processors, 1 .. Cpus; the bootstrap processor is 1
  Priority,   \* task -> 0 (kernel) .. 3 (low)
  Uniproc,    \* the tasks that only the bootstrap processor may run
  Sleepers,   \* the tasks that may wait
  Mortal,     \* the tasks that may exit
  Period,     \* calls between two looks at starved tasks (32 in the code)
  MaxState,   \* bound: state words are counted up to this value
  NONE        \* the NULL of next

Task == 1 .. Tasks
Cpu == 1 .. Cpus

VARIABLES
  cur,       \* processor -> the task it runs
  pc,        \* processor -> where it is in yield
  next,      \* processor -> the task it is about to switch to
  runnable,  \* processor -> the local variable current_runnable
  search,    \* processor -> the local variable search_task
  count,     \* the static counter of yield, modulo Period
  state,     \* task -> sched.state
  blocked,   \* the tasks whose event function returns non-zero
  stopped    \* the tasks that have exited

vars == <<cur, pc, next, runnable, search, count, state, blocked, stopped>>

TypeOK ==
  /\ cur \in [Cpu -> Task]
  /\ pc \in [Cpu -> {"task", "starved", "search", "switch"}]
  /\ next \in [Cpu -> Task \cup {NONE}]
  /\ runnable \in [Cpu -> BOOLEAN]
  /\ search \in [Cpu -> 1 .. 9]
  /\ count \in 0 .. Period - 1
  /\ state \in [Task -> 0 .. MaxState]
  /\ blocked \in SUBSET Task
  /\ stopped \in SUBSET Task

Init ==
  /\ cur = [c \in Cpu |-> c]
  /\ pc = [c \in Cpu |-> "task"]
  /\ next = [c \in Cpu |-> NONE]
  /\ runnable = [c \in Cpu |-> TRUE]
  /\ search = [c \in Cpu |-> 1]
  /\ count = 0
  /\ state = [t \in Task |-> 0]
  /\ blocked = {}
  /\ stopped = {}

-----------------------------------------------------------------------------
Active(t) == \E c \in Cpu : cur[c] = t

\* task_check_event of another task returns 0.
Ready(t) == ~Active(t) /\ t \notin blocked

\* task_switch accepts the task on this processor.
Enterable(c, t) == Ready(t) /\ t \notin stopped /\ (t \in Uniproc => c = 1)

\* The place of a task in a walk that starts after the current task.
Distance(c, t) == (t + Tasks - cur[c]) % Tasks

Others(c) == Task \ {cur[c]}

\* The first task of the walk with the largest state word.
Starving(c, S, words) ==
  CHOOSE t \in S : \A u \in S :
    words[t] > words[u] \/ (words[t] = words[u] /\ Distance(c, t) <= Distance(c, u))

\* Mutant: the most starved task is taken among those of the best priority.
StarvedBest(c) ==
  {t \in Others(c) : Ready(t) /\ \A u \in Others(c) : Ready(u) => Priority[t] <= Priority[u]}

\* The tasks that the starvation search considers; a stopped one is among them.
Starved(c) == {t \in Others(c) : Ready(t)}

\* task_check_event(NULL) returns 0: the current task need not wait.
Runnable(t) == t \notin blocked

Goto(c, p) == pc' = [pc EXCEPT ![c] = p]

(***************************************************************************)
(* yield is called by a task that waits, by one that is preempted, or by   *)
(* an interrupt handler.  A call from a handler inside yield finds         *)
(* sched.lock taken and returns, so it is no step.                         *)
(***************************************************************************)
Yield(c) ==
  /\ pc[c] = "task"
  /\ count' = (count + 1) % Period
  /\ runnable' = [runnable EXCEPT ![c] = Runnable(cur[c])]
  /\ search' = [search EXCEPT ![c] = 1]
  /\ IF count' = 0 /\ Starved(c) # {}
       THEN LET t == Starving(c, Starved(c), state) IN
              /\ next' = [next EXCEPT ![c] = t]
              /\ state' = [state EXCEPT ![t] = 0]
              /\ Goto(c, "starved")
       ELSE Goto(c, "search") /\ UNCHANGED <<next, state>>
  /\ UNCHANGED <<cur, blocked, stopped>>

\* Leave yield on the task t; the words next, runnable and search are dead.
Leave(c, t) ==
  /\ cur' = [cur EXCEPT ![c] = t]
  /\ next' = [next EXCEPT ![c] = NONE]
  /\ runnable' = [runnable EXCEPT ![c] = TRUE]
  /\ search' = [search EXCEPT ![c] = 1]
  /\ Goto(c, "task")

\* task_switch of the starved task, and the normal search if it fails.
StarvedSwitch(c) ==
  /\ pc[c] = "starved"
  /\ IF Enterable(c, next[c])
       THEN Leave(c, next[c])
       ELSE /\ Goto(c, "search")
            /\ next' = [next EXCEPT ![c] = NONE]
            /\ UNCHANGED <<cur, runnable, search>>
  /\ UNCHANGED <<count, state, blocked, stopped>>

\* Mutant: a state word of 32 bits that is one longer than its type.
BumpBeyond(n) == n + 1

\* cpu_add32(&next->sched.state, 1), counted up to the bound.
Bump(n) == IF n < MaxState THEN n + 1 ELSE n

\* The state words after the walk has passed the tasks in S.
Passed(S) ==
  [t \in Task |->
    IF t \notin S THEN state[t]
    ELSE IF t \in stopped THEN 0
    ELSE IF t \in Uniproc THEN Bump(0)
    ELSE Bump(state[t])]

\* Mutant: the walk does not enter pinned tasks on the spot.
PinnedNever(c) == {t \in Others(c) : Enterable(c, t) /\ FALSE}

\* A task for one processor that the walk enters on the spot.
Pinned(c) == {t \in Others(c) \cap Uniproc : Enterable(c, t)}

SearchPinned(c) ==
  /\ pc[c] = "search"
  /\ \E u \in Pinned(c) :
       /\ \A v \in Pinned(c) : Distance(c, u) <= Distance(c, v)
       /\ state' = [Passed({t \in Others(c) : Distance(c, t) < Distance(c, u)})
                      EXCEPT ![u] = 0]
       /\ Leave(c, u)
  /\ UNCHANGED <<count, blocked, stopped>>

\* The candidates of the best priority that has any.
Candidates(c) == {t \in Others(c) : Ready(t) /\ t \notin stopped}

Best(c) ==
  {t \in Candidates(c) : \A u \in Candidates(c) : Priority[t] <= Priority[u]}

\* The breaks that keep a current task of better priority.
KeepsCurrent(c) ==
  /\ runnable[c]
  /\ \A t \in Best(c) : Priority[cur[c]] < Priority[t]

(***************************************************************************)
(* One turn of the outer loop without a pinned task: it passes every other *)
(* task, and then keeps the current task, chooses another one, or leaves   *)
(* the loop.  A current task that waits is left in task_idle until the     *)
(* next interrupt, and calls yield again.                                  *)
(***************************************************************************)
Search(c) ==
  /\ pc[c] = "search"
  /\ Pinned(c) = {}
  /\ LET words == Passed(Others(c)) IN
       IF Best(c) = {} \/ KeepsCurrent(c)
         THEN state' = words /\ Leave(c, cur[c])
         ELSE LET t == Starving(c, Best(c), words) IN
                /\ state' = [words EXCEPT ![t] = 0]
                /\ next' = [next EXCEPT ![c] = t]
                /\ search' = [search EXCEPT ![c] = @ + 1]
                /\ Goto(c, "switch")
                /\ UNCHANGED <<cur, runnable>>
  /\ UNCHANGED <<count, blocked, stopped>>

\* task_switch of the chosen task; there are at most four attempts.
Switch(c) ==
  /\ pc[c] = "switch"
  /\ IF Enterable(c, next[c]) THEN Leave(c, next[c])
     ELSE IF search[c] + 1 < 8
       THEN /\ search' = [search EXCEPT ![c] = @ + 1]
            /\ next' = [next EXCEPT ![c] = NONE]
            /\ Goto(c, "search")
            /\ UNCHANGED <<cur, runnable>>
     ELSE Leave(c, cur[c])
  /\ UNCHANGED <<count, state, blocked, stopped>>

-----------------------------------------------------------------------------
\* A task sets an event function that is not satisfied.
Block(c) ==
  /\ pc[c] = "task"
  /\ cur[c] \in Sleepers \ stopped
  /\ blocked' = blocked \cup {cur[c]}
  /\ UNCHANGED <<cur, pc, next, runnable, search, count, state, stopped>>

\* What a task waits for happens.
Occur(t) ==
  /\ t \in blocked
  /\ blocked' = blocked \ {t}
  /\ UNCHANGED <<cur, pc, next, runnable, search, count, state, stopped>>

\* task_exit: the task calls yield until it is switched out.
Exit(c) ==
  /\ pc[c] = "task"
  /\ cur[c] \in Mortal
  /\ cur[c] \notin stopped \cup blocked
  /\ stopped' = stopped \cup {cur[c]}
  /\ UNCHANGED <<cur, pc, next, runnable, search, count, state, blocked>>

InYield(c) ==
  Yield(c) \/ StarvedSwitch(c) \/ SearchPinned(c) \/ Search(c) \/ Switch(c)

Next ==
  \/ \E c \in Cpu : InYield(c) \/ Block(c) \/ Exit(c)
  \/ \E t \in Task : Occur(t)

\* Timer interrupts make every processor call yield again and again.
Spec == Init /\ [][Next]_vars /\ \A c \in Cpu : WF_vars(InYield(c))

-----------------------------------------------------------------------------
(***************************************************************************)
(* A task runs on one processor at a time, although two processors may     *)
(* have chosen it before either enters it (task_switch).                   *)
(***************************************************************************)
OneProcessor == \A c, d \in Cpu : cur[c] = cur[d] => c = d

(***************************************************************************)
(* No starvation: a task that stays runnable is entered again and again,   *)
(* whatever its priority, although the search prefers better priorities,   *)
(* starved picks may be stopped, pinned or taken by another processor, and *)
(* a switch may fail after the state word was cleared (yield).             *)
(***************************************************************************)
EnteredAgain(t) == []<>(Active(t) \/ t \in blocked \/ t \in stopped)

NoStarvation == \A t \in Task \ Uniproc : EnteredAgain(t)

(***************************************************************************)
(* The same for the tasks that are pinned to the bootstrap processor.  It  *)
(* holds when no other processor calls yield: with one that does, the      *)
(* bootstrap processor's calls may all be those that look for starved      *)
(* tasks, while the other one keeps the pinned task's state word at 0.     *)
(***************************************************************************)
PinnedRuns == \A t \in Uniproc : EnteredAgain(t)

(***************************************************************************)
(* A processor does not sit on a task that waits: if another task that it  *)
(* may run stays runnable, the processor leaves the waiting task, even if  *)
(* all four attempts of each search go to a task it may not run (yield).   *)
(***************************************************************************)
LeavesWaiting ==
  \A c \in Cpu, t \in Task : \A u \in Task \ Uniproc :
    []<>~(cur[c] = t /\ t \in blocked /\ Ready(u) /\ u \notin stopped)
=============================================================================
