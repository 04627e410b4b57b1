------------------------------ MODULE TaskWait ------------------------------
(***************************************************************************)
(* The list of tasks: creation, exit, waiting for descendants, and the     *)
(* caretaker that recycles structures (base/task.c).                       *)
(*                                                                         *)
(* The list is circular and changes only under task_lock; the code between *)
(* spin_enter and spin_leave is one step here.  But a waiting task walks   *)
(* the list without the lock, while the caretaker moves structures to the  *)
(* pool and task_create puts them back at the end of the list.             *)
(***************************************************************************)
EXTENDS Naturals, FiniteSets

CONSTANTS
  Struct,    \* the task structures there is memory for
  TaskHead,      \* task_head, the structure of the task with ID 1
  MaxId,     \* bound on the IDs that task_create_id returns
  Waiters,   \* bound: the structures whose tasks wait
  Creators,  \* bound: the structures whose tasks create tasks
  Requests,  \* the waits that are tried: sets of IDs (*id, id_group)
  NONE       \* NULL

VARIABLES
  place,     \* struct -> "none" (no memory yet), "list", "out" or "pool"
  next,      \* struct -> its next pointer
  tail,      \* task_tail
  pool,      \* task_pool_head
  lastId,    \* task_id of task_create_id
  id,        \* struct -> its id, 0 if it has no task
  idOwner,   \* struct -> its id_owner
  owner,     \* struct -> its owner pointer
  stopped,   \* struct -> its stopped word
  detached,  \* struct -> its detached word
  news,      \* struct -> descendant.data[0] # descendant.data[1]
  pc,        \* struct -> where its task is
  walk,      \* struct -> t of task_wait_descendant_shared
  want,      \* struct -> the IDs that its task waits for
  try,       \* struct -> mode_trywait
  found,     \* struct -> out_id
  state,     \* struct -> descendant_state
  care,      \* the caretaker: [pc, t, t0, t1, t2] of task_caretaker
  claimed    \* the IDs whose return value a wait has returned

list == <<place, next, tail, pool>>
ids == <<lastId, id, idOwner, owner>>
waiting == <<walk, want, try, found, state>>
vars == <<list, ids, stopped, detached, news, pc, waiting, care, claimed>>

Pointer == Struct \cup {NONE}
Asleep == [pc |-> "sleep", t |-> NONE, t0 |-> NONE, t1 |-> NONE, t2 |-> NONE]

TypeOK ==
  /\ place \in [Struct -> {"none", "list", "out", "pool"}]
  /\ next \in [Struct -> Pointer]
  /\ tail \in Struct /\ pool \in Pointer
  /\ lastId \in 1 .. MaxId
  /\ id \in [Struct -> 0 .. MaxId] /\ idOwner \in [Struct -> 0 .. MaxId]
  /\ owner \in [Struct -> Pointer]
  /\ stopped \in [Struct -> {0, 1}] /\ detached \in [Struct -> {0, 1}]
  /\ news \in [Struct -> BOOLEAN]
  /\ pc \in [Struct -> {"run", "exit", "gone", "look", "step", "wait"}]
  /\ walk \in [Struct -> Pointer] /\ want \in [Struct -> SUBSET (1 .. MaxId)]
  /\ try \in [Struct -> BOOLEAN]
  /\ found \in [Struct -> 0 .. MaxId] /\ state \in [Struct -> {0, 1}]
  /\ care \in [pc : {"sleep", "visit", "test", "unlink", "pool"},
               t : Pointer, t0 : Pointer, t1 : Pointer, t2 : Pointer]
  /\ care.pc = "visit" => care.t # NONE
  /\ claimed \in SUBSET (1 .. MaxId)

\* task_init: the first task is the only element of the list.
Init ==
  /\ place = [x \in Struct |-> IF x = TaskHead THEN "list" ELSE "none"]
  /\ next = [x \in Struct |-> IF x = TaskHead THEN TaskHead ELSE NONE]
  /\ tail = TaskHead /\ pool = NONE
  /\ lastId = 1
  /\ id = [x \in Struct |-> IF x = TaskHead THEN 1 ELSE 0]
  /\ idOwner = [x \in Struct |-> 0] /\ owner = [x \in Struct |-> NONE]
  /\ stopped = [x \in Struct |-> 0] /\ detached = [x \in Struct |-> 0]
  /\ news = [x \in Struct |-> FALSE]
  /\ pc = [x \in Struct |-> IF x = TaskHead THEN "run" ELSE "gone"]
  /\ walk = [x \in Struct |-> NONE] /\ want = [x \in Struct |-> {}]
  /\ try = [x \in Struct |-> FALSE]
  /\ found = [x \in Struct |-> 0] /\ state = [x \in Struct |-> 0]
  /\ care = Asleep
  /\ claimed = {}

-----------------------------------------------------------------------------
(***************************************************************************)
(* task_create: a structure of the pool, or a new one, becomes the last    *)
(* element of the list.  task_pool_head is tested without the lock, so a   *)
(* new structure may be taken although the pool is not empty any more.     *)
(***************************************************************************)
Append(y) ==
  /\ next' = [next EXCEPT ![y] = TaskHead, ![tail] = y]
  /\ tail' = y
  /\ place' = [place EXCEPT ![y] = "list"]

Create(x, y, d) ==
  /\ pc[x] = "run" /\ x \in Creators
  /\ lastId < MaxId
  /\ \/ y = pool /\ pool' = next[y]
     \/ place[y] = "none" /\ UNCHANGED pool
  /\ Append(y)
  /\ lastId' = lastId + 1
  /\ id' = [id EXCEPT ![y] = lastId + 1]
  /\ idOwner' = [idOwner EXCEPT ![y] = id[x]]
  /\ owner' = [owner EXCEPT ![y] = x]
  /\ detached' = [detached EXCEPT ![y] = d]
  /\ pc' = [pc EXCEPT ![y] = "run"]
  /\ UNCHANGED <<stopped, news, waiting, care, claimed>>

\* task_exit: stopped is set, then the owner's counter is incremented.
Exit(x) ==
  /\ pc[x] = "run" /\ x # TaskHead
  /\ stopped' = [stopped EXCEPT ![x] = 1]
  /\ pc' = [pc EXCEPT ![x] = "exit"]
  /\ UNCHANGED <<list, ids, detached, news, waiting, care, claimed>>

\* An interrupt switches the task, and task_switch never runs it again.
ExitPreempted(x) ==
  /\ pc[x] = "exit"
  /\ pc' = [pc EXCEPT ![x] = "gone"]
  /\ UNCHANGED <<list, ids, stopped, detached, news, waiting, care, claimed>>

ExitNotify(x) ==
  /\ pc[x] = "exit"
  /\ news' = [news EXCEPT ![owner[x]] = TRUE]
  /\ pc' = [pc EXCEPT ![x] = "gone"]
  /\ UNCHANGED <<list, ids, stopped, detached, waiting, care, claimed>>

-----------------------------------------------------------------------------
\* The beginning of the outer loop of task_wait_descendant_shared.
Begin(x) ==
  /\ walk' = [walk EXCEPT ![x] = TaskHead]
  /\ state' = [state EXCEPT ![x] = 0]
  /\ news' = [news EXCEPT ![x] = FALSE]
  /\ pc' = [pc EXCEPT ![x] = "look"]

Wait(x, set, mode) ==
  /\ pc[x] = "run" /\ x \in Waiters
  /\ Begin(x)
  /\ want' = [want EXCEPT ![x] = set]
  /\ try' = [try EXCEPT ![x] = mode]
  /\ UNCHANGED <<list, ids, stopped, detached, found, care, claimed>>

\* valid_candidate: the owner is the current task, and the ID is wanted.
Candidate(x, t) == owner[t] = x /\ id[t] \in want[x]

\* Mutant: a task that is claimed already is claimed again.
ClaimableTwice(x, t) == Candidate(x, t) /\ stopped[t] = 1

\* spin_trylock(&t->detached) succeeds.
Claimable(x, t) == Candidate(x, t) /\ stopped[t] = 1 /\ detached[t] = 0

(***************************************************************************)
(* One turn of the inner loop.  The quick test of the owner and the tests  *)
(* under task_lock are one step: either decides at one moment.             *)
(***************************************************************************)
Look(x) ==
  LET t == walk[x] IN
  /\ pc[x] = "look"
  /\ pc' = [pc EXCEPT ![x] = "step"]
  /\ \/ /\ Claimable(x, t)
        /\ detached' = [detached EXCEPT ![t] = 1]
        /\ found' = [found EXCEPT ![x] = id[t]]
        /\ state' = [state EXCEPT ![x] = 1]
        /\ claimed' = claimed \cup {id[t]}
     \/ /\ ~Claimable(x, t)
        /\ state' = [state EXCEPT ![x] =
             IF Candidate(x, t) /\ stopped[t] = 0 THEN 1 ELSE @]
        /\ UNCHANGED <<detached, found, claimed>>
  /\ UNCHANGED <<list, ids, stopped, news, walk, want, try, care>>

\* t = task_read_next(t), and the condition of the inner loop.
Step(x) ==
  LET t == next[walk[x]] IN
  /\ pc[x] = "step"
  /\ found[x] = 0 /\ t \notin {NONE, TaskHead}
  /\ walk' = [walk EXCEPT ![x] = t]
  /\ pc' = [pc EXCEPT ![x] = "look"]
  /\ UNCHANGED <<list, ids, stopped, detached, news, want, try, found, state,
                 care, claimed>>

Return(x) ==
  /\ pc' = [pc EXCEPT ![x] = "run"]
  /\ walk' = [walk EXCEPT ![x] = NONE]
  /\ want' = [want EXCEPT ![x] = {}]
  /\ try' = [try EXCEPT ![x] = FALSE]
  /\ found' = [found EXCEPT ![x] = 0]
  /\ state' = [state EXCEPT ![x] = 0]

\* The wait is over: a task was claimed.
ReturnFound(x) ==
  /\ pc[x] = "step" /\ found[x] # 0
  /\ Return(x)
  /\ UNCHANGED <<list, ids, stopped, detached, news, care, claimed>>

\* The walk ended in NULL, the end of the pool: start again.
Restart(x) ==
  /\ pc[x] = "step" /\ found[x] = 0 /\ next[walk[x]] = NONE
  /\ Begin(x)
  /\ UNCHANGED <<list, ids, stopped, detached, want, try, found, care, claimed>>

AtHead(x) == pc[x] = "step" /\ found[x] = 0 /\ next[walk[x]] = TaskHead

\* The walk is complete, and there is no descendant: DE_EMPTY.
ReturnEmpty(x) ==
  /\ AtHead(x) /\ state[x] = 0
  /\ Return(x)
  /\ UNCHANGED <<list, ids, stopped, detached, news, care, claimed>>

\* task_trywait_descendant does not wait: DE_RETRY.
ReturnRetry(x) ==
  /\ AtHead(x) /\ state[x] = 1 /\ try[x]
  /\ Return(x)
  /\ UNCHANGED <<list, ids, stopped, detached, news, care, claimed>>

Sleep(x) ==
  /\ AtHead(x) /\ state[x] = 1 /\ ~try[x]
  /\ pc' = [pc EXCEPT ![x] = "wait"]
  /\ UNCHANGED <<list, ids, stopped, detached, news, waiting, care, claimed>>

\* task_signaled: a signal may have been sent at any time.  DE_INTERRUPT.
ReturnInterrupt(x) ==
  /\ AtHead(x) /\ state[x] = 1 /\ ~try[x]
  /\ Return(x)
  /\ UNCHANGED <<list, ids, stopped, detached, news, care, claimed>>

Wake(x) ==
  /\ pc[x] = "wait"
  /\ Begin(x)
  /\ UNCHANGED <<list, ids, stopped, detached, want, try, found, care, claimed>>

\* task_wait_descendant_func returns 0 because an exit was counted ...
WakeNews(x) == news[x] /\ Wake(x)

\* Mutant: the wait has no time limit.
WakeTimeoutNever(x) == FALSE /\ Wake(x)

\* ... or because 2000 ticks have passed.
WakeTimeout(x) == Wake(x)

-----------------------------------------------------------------------------
\* task_caretaker: a pass over the list begins after task_sleep.
CarePass ==
  /\ care.pc = "sleep"
  /\ care' = [care EXCEPT !.pc = "visit", !.t = TaskHead]
  /\ UNCHANGED <<list, ids, stopped, detached, news, pc, waiting, claimed>>

\* Mutant: only a structure without a task counts as a missing owner.
OwnerGoneUnused(t) == owner[t] # NONE /\ id[owner[t]] = 0

\* The task that was the owner does not exist any more.
OwnerGone(t) == owner[t] # NONE /\ id[owner[t]] # idOwner[t]

\* The next structure is noted, and a missing owner replaced by the first task.
CareVisit ==
  LET t == care.t IN
  /\ care.pc = "visit"
  /\ care' = [care EXCEPT !.pc = "test", !.t0 = t, !.t1 = next[t]]
  /\ \/ /\ OwnerGone(t)
        /\ idOwner' = [idOwner EXCEPT ![t] = 1]
        /\ owner' = [owner EXCEPT ![t] = TaskHead]
     \/ /\ ~OwnerGone(t)
        /\ UNCHANGED <<idOwner, owner>>
  /\ UNCHANGED <<list, lastId, id, stopped, detached, news, pc, waiting,
                 claimed>>

\* Mutant: the end of the list is not tested.
CareGoOn(t) == [Asleep EXCEPT !.pc = "visit", !.t = t]

\* The loop continues with t, or the pass is over.
CareGo(t) ==
  IF t = NONE THEN Asleep ELSE [Asleep EXCEPT !.pc = "visit", !.t = t]

\* Mutant: a stopped task is recycled before its return value is claimed.
DisposableUnclaimed(t1) == stopped[t1] = 1 /\ pc[t1] = "gone"

\* detached, stopped, and spin_trylock(&t1->active) succeeds.
Disposable(t1) == detached[t1] = 1 /\ stopped[t1] = 1 /\ pc[t1] = "gone"

CareTest ==
  LET t == IF next[care.t0] = TaskHead THEN NONE ELSE next[care.t0] IN
  /\ care.pc = "test"
  /\ care' = IF Disposable(care.t1)
             THEN [care EXCEPT !.pc = "unlink", !.t = t, !.t2 = next[care.t1]]
             ELSE CareGo(t)
  /\ UNCHANGED <<list, ids, stopped, detached, news, pc, waiting, claimed>>

\* Mutant: the list may have grown since the pointers were read.
AssumptionStale == care.t1 # TaskHead /\ care.t2 # NONE

\* The assumptions that the caretaker tests again under task_lock.
Assumption ==
  /\ care.t1 # TaskHead /\ care.t2 # NONE
  /\ next[care.t0] = care.t1
  /\ next[care.t1] = care.t2
  /\ care.t0 # care.t1 /\ care.t0 # care.t2 /\ care.t1 # care.t2

CareUnlink ==
  LET t1 == care.t1 IN
  /\ care.pc = "unlink"
  /\ Assumption
  /\ tail' = IF t1 = tail THEN care.t0 ELSE tail
  /\ next' = [next EXCEPT ![care.t0] = care.t2]
  /\ place' = [place EXCEPT ![t1] = "out"]
  /\ id' = [id EXCEPT ![t1] = 0]
  /\ idOwner' = [idOwner EXCEPT ![t1] = 0]
  /\ owner' = [owner EXCEPT ![t1] = NONE]
  /\ detached' = [detached EXCEPT ![t1] = 0]
  /\ stopped' = [stopped EXCEPT ![t1] = 0]
  /\ care' = [care EXCEPT !.pc = "pool"]
  /\ UNCHANGED <<pool, lastId, news, pc, waiting, claimed>>

CareError ==
  /\ care.pc = "unlink"
  /\ ~Assumption
  /\ care' = CareGo(care.t)
  /\ UNCHANGED <<list, ids, stopped, detached, news, pc, waiting, claimed>>

\* The structure is cleared and becomes the first of the pool; the loop goes on with t2.
CarePool ==
  /\ care.pc = "pool"
  /\ next' = [next EXCEPT ![care.t1] = pool]
  /\ pool' = care.t1
  /\ place' = [place EXCEPT ![care.t1] = "pool"]
  /\ news' = [news EXCEPT ![care.t1] = FALSE]
  /\ care' = CareGo(care.t2)
  /\ UNCHANGED <<tail, ids, stopped, detached, pc, waiting, claimed>>

-----------------------------------------------------------------------------
WaitStep(x) ==
  \/ Look(x) \/ Step(x) \/ Restart(x)
  \/ Sleep(x) \/ WakeNews(x) \/ WakeTimeout(x)
  \/ ReturnFound(x) \/ ReturnEmpty(x) \/ ReturnRetry(x) \/ ReturnInterrupt(x)

ExitStep(x) == ExitPreempted(x) \/ ExitNotify(x)

CareStep ==
  \/ CarePass \/ CareVisit \/ CareTest \/ CareUnlink \/ CareError \/ CarePool

Next ==
  \/ CareStep
  \/ \E x \in Struct :
       \/ WaitStep(x) \/ Exit(x) \/ ExitStep(x)
       \/ \E set \in Requests, mode \in BOOLEAN : Wait(x, set, mode)
       \/ \E y \in Struct, d \in {0, 1} : Create(x, y, d)

\* Tasks inside a function and the caretaker are scheduled again and again.
Spec ==
  /\ Init /\ [][Next]_vars
  /\ WF_vars(CareStep)
  /\ \A x \in Struct : WF_vars(WaitStep(x)) /\ WF_vars(ExitStep(x))

-----------------------------------------------------------------------------
\* A set of structures that following next does not leave.
Closed(S) == \A x \in S : next[x] \in S \cup {NONE}

\* What is reached from h by following next: it is in every such set with h.
Reached(h) == {x \in Struct : \A S \in SUBSET Struct : h \in S /\ Closed(S) => x \in S}

InList == {x \in Struct : place[x] = "list"}
InPool == {x \in Struct : place[x] = "pool"}

(***************************************************************************)
(* Whenever task_lock is free the circular list is valid: it holds exactly *)
(* the structures in use and closes at the tail; the pool holds exactly    *)
(* the recycled ones and ends in NULL (task_create, task_caretaker; the    *)
(* comment of task_foreach relies on it).                                  *)
(***************************************************************************)
ListValid ==
  /\ Reached(TaskHead) = InList
  /\ next[tail] = TaskHead
  /\ \A x, y \in InList : next[x] = next[y] => x = y
  /\ pool # NONE => Reached(pool) = InPool
  /\ pool = NONE => InPool = {}

(***************************************************************************)
(* The return value of a task is claimed at most once, whoever walks the   *)
(* list at the same time (task_wait_descendant_shared).                    *)
(***************************************************************************)
ClaimedOnce ==
  \A x \in Struct : found[x] = 0 /\ found'[x] # 0 => found'[x] \notin claimed

(***************************************************************************)
(* A task that was not created detached is not recycled before its return  *)
(* value was claimed (task_caretaker).                                     *)
(***************************************************************************)
RecycledWhenClaimed ==
  \A x \in Struct : id[x] # 0 /\ id'[x] = 0 => detached[x] = 1

(***************************************************************************)
(* Orphans do not stay: a task whose owner is gone gets the first task as  *)
(* its owner, or is recycled (task_caretaker).                             *)
(***************************************************************************)
Orphans == {x \in Struct : OwnerGone(x) /\ owner[x] \notin {TaskHead, NONE}}

OrphansAdopted == Orphans # {} ~> Orphans = {}

(***************************************************************************)
(* A task that waits while one of its children has stopped returns from    *)
(* its wait, although structures are moved to the pool and back under its  *)
(* walk (task_wait_descendant_shared).                                     *)
(***************************************************************************)
WaitReturns ==
  \A x \in Waiters :
    pc[x] \in {"look", "step", "wait"} /\ (\E y \in Struct : Claimable(x, y)) ~> pc[x] = "run"
=============================================================================
