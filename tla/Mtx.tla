-------------------------------- MODULE Mtx --------------------------------
(***************************************************************************)
(* The sleeping mutex of the kernel: base/mtx.c.                           *)
(*                                                                         *)
(* Mutexes live in a fixed array of slots; a handle is a pointer to one.   *)
(* A task that does not get the lock word sets the slot's yield flag and   *)
(* waits for an event function that reads the lock word; an unlock that    *)
(* saw the yield flag calls the scheduler.  The flag is read and cleared   *)
(* without a lock, so it can be lost: only the polling of the lock word    *)
(* makes a waiter continue.                                                *)
(***************************************************************************)
EXTENDS Naturals, FiniteSets, TLAPS

CONSTANTS
  Task,    \* the tasks
  Mutex,   \* the variables of type mtx_t
  Slots,   \* BASE_MTX_COUNT
  NONE     \* the NULL of a handle or of an argument

ASSUME SlotsAssumption == Slots \in Nat \ {0}
ASSUME NoneAssumption == NONE \notin Mutex /\ NONE \notin 0 .. Slots - 1

Slot == 0 .. Slots - 1

VARIABLES
  init,     \* slot -> its init word
  lock,     \* slot -> its lock word
  yield,    \* slot -> its yield word
  handle,   \* mutex -> the slot it points to
  live,     \* the mutexes between mtx_init and mtx_destroy
  pc,       \* task -> where it is
  arg,      \* task -> the mutex its call is about
  hint      \* task -> the local variable yield of mtx_unlock

vars == <<init, lock, yield, handle, live, pc, arg, hint>>

\* Inside mtx_lock, and from the acquisition to the release.
Wanting == {"try", "flag", "wait"}
Holding == {"held", "clear", "unlock"}

Pc == Wanting \cup Holding \cup {"idle", "resched"}

TypeOK ==
  /\ init \in [Slot -> {0, 1}]
  /\ lock \in [Slot -> {0, 1}]
  /\ yield \in [Slot -> {0, 1}]
  /\ handle \in [Mutex -> Slot \cup {NONE}]
  /\ live \in SUBSET Mutex
  /\ pc \in [Task -> Pc]
  /\ arg \in [Task -> Mutex \cup {NONE}]
  /\ hint \in [Task -> {0, 1}]

Init ==
  /\ init = [s \in Slot |-> 0]
  /\ lock = [s \in Slot |-> 0]
  /\ yield = [s \in Slot |-> 0]
  /\ handle = [m \in Mutex |-> NONE]
  /\ live = {}
  /\ pc = [t \in Task |-> "idle"]
  /\ arg = [t \in Task |-> NONE]
  /\ hint = [t \in Task |-> 0]

-----------------------------------------------------------------------------
\* The slot that this_mtx is for the task's call.
This(t) == handle[arg[t]]

Goto(t, p) == pc' = [pc EXCEPT ![t] = p] /\ UNCHANGED arg

Call(t, p, m) == pc' = [pc EXCEPT ![t] = p] /\ arg' = [arg EXCEPT ![t] = m]

Return(t) == Call(t, "idle", NONE)

\* Mutant: mtx_init looks at the lock word instead of the init word.
UnusedUnlocked(s) == lock[s] = 0 /\ \A r \in Slot : r < s => lock[r] = 1

\* The first slot that is not in use.
Unused(s) == init[s] = 0 /\ \A r \in Slot : r < s => init[r] = 1

(***************************************************************************)
(* mtx_init takes the first unused slot while it owns base_mtx_lock.  With *)
(* no unused slot it returns thrd_error and changes nothing.               *)
(***************************************************************************)
MtxInit(t, m, s) ==
  /\ pc[t] = "idle"
  /\ m \notin live
  /\ Unused(s)
  /\ init' = [init EXCEPT ![s] = 1]
  /\ yield' = [yield EXCEPT ![s] = 0]
  /\ lock' = [lock EXCEPT ![s] = 0]
  /\ handle' = [handle EXCEPT ![m] = s]
  /\ live' = live \cup {m}
  /\ UNCHANGED <<pc, arg, hint>>

(***************************************************************************)
(* mtx_destroy.  The callers (fat_io_delete, fat_io_create) destroy a      *)
(* mutex that no task uses any more; the handle keeps its old value.       *)
(***************************************************************************)
MtxDestroy(t, m) ==
  /\ pc[t] = "idle"
  /\ m \in live
  /\ \A u \in Task : arg[u] # m
  /\ init' = [init EXCEPT ![handle[m]] = 0]
  /\ live' = live \ {m}
  /\ UNCHANGED <<lock, yield, handle, pc, arg, hint>>

MtxLock(t, m) ==
  /\ pc[t] = "idle"
  /\ m \in live
  /\ Call(t, "try", m)
  /\ UNCHANGED <<init, lock, yield, handle, live, hint>>

\* Mutant: spin_trylock always succeeds.
FreeAlways(s) == s \in Slot

\* The compare-and-exchange of spin_trylock finds 0.
Free(s) == lock[s] = 0

\* The condition of the loop in mtx_lock.
SpinTrylock(t) ==
  /\ pc[t] = "try"
  /\ \/ /\ Free(This(t))
        /\ lock' = [lock EXCEPT ![This(t)] = 1]
        /\ Goto(t, "held")
     \/ /\ ~Free(This(t))
        /\ Goto(t, "flag")
        /\ UNCHANGED lock
  /\ UNCHANGED <<init, yield, handle, live, hint>>

\* Mutant: the flag counts waiters.
RaiseYieldCount(s) == yield' = [yield EXCEPT ![s] = @ + 1]

RaiseYield(s) == yield' = [yield EXCEPT ![s] = 1]

\* this_mtx->yield = 1, then task_write_event and task_yield.
SetYield(t) ==
  /\ pc[t] = "flag"
  /\ RaiseYield(This(t))
  /\ Goto(t, "wait")
  /\ UNCHANGED <<init, lock, handle, live, hint>>

\* Mutant: the event function relies on the yield flag.
PollFlagged(s) == lock[s] = 0 /\ yield[s] = 1

\* base_mtx_lock_func returns 0.
Poll(s) == lock[s] = 0

\* The scheduler or task_read_event finds that base_mtx_lock_func returns 0.
Wake(t) ==
  /\ pc[t] = "wait"
  /\ Poll(This(t))
  /\ Goto(t, "try")
  /\ UNCHANGED <<init, lock, yield, handle, live, hint>>

\* mtx_trylock; if the lock word is set it returns thrd_busy.
MtxTrylock(t, m) ==
  /\ pc[t] = "idle"
  /\ m \in live
  /\ Free(handle[m])
  /\ lock' = [lock EXCEPT ![handle[m]] = 1]
  /\ Call(t, "held", m)
  /\ UNCHANGED <<init, yield, handle, live, hint>>

\* mtx_unlock: read the yield flag, clear it, release, and maybe yield.
MtxUnlock(t) ==
  /\ pc[t] = "held"
  /\ hint' = [hint EXCEPT ![t] = yield[This(t)]]
  /\ Goto(t, "clear")
  /\ UNCHANGED <<init, lock, yield, handle, live>>

ClearYield(t) ==
  /\ pc[t] = "clear"
  /\ yield' = [yield EXCEPT ![This(t)] = 0]
  /\ Goto(t, "unlock")
  /\ UNCHANGED <<init, lock, handle, live, hint>>

\* Mutant: the release is forgotten.
ReleaseForgotten(s) == s \in Slot /\ UNCHANGED lock

Release(s) == lock' = [lock EXCEPT ![s] = 0]

SpinUnlock(t) ==
  /\ pc[t] = "unlock"
  /\ Release(This(t))
  /\ Call(t, IF hint[t] = 1 THEN "resched" ELSE "idle", NONE)
  /\ hint' = [hint EXCEPT ![t] = 0]
  /\ UNCHANGED <<init, yield, handle, live>>

TaskYield(t) ==
  /\ pc[t] = "resched"
  /\ Return(t)
  /\ UNCHANGED <<init, lock, yield, handle, live, hint>>

-----------------------------------------------------------------------------
\* A task that is inside one of the functions, or in its critical section.
Step(t) ==
  \/ SpinTrylock(t) \/ SetYield(t) \/ Wake(t)
  \/ MtxUnlock(t) \/ ClearYield(t) \/ SpinUnlock(t) \/ TaskYield(t)

Request(t) ==
  \E m \in Mutex :
    \/ \E s \in Slot : MtxInit(t, m, s)
    \/ MtxDestroy(t, m) \/ MtxLock(t, m) \/ MtxTrylock(t, m)

Next == \E t \in Task : Step(t) \/ Request(t)

\* A runnable task is eventually scheduled, and critical sections end.
Spec == Init /\ [][Next]_vars /\ \A t \in Task : WF_vars(Step(t))

-----------------------------------------------------------------------------
(***************************************************************************)
(* At most one task is between the acquisition and the release of a mutex, *)
(* whatever was in the slot before (mtx_lock, mtx_trylock, mtx_unlock).    *)
(***************************************************************************)
MutualExclusion ==
  \A t, u \in Task :
    pc[t] \in Holding /\ pc[u] \in Holding /\ arg[t] = arg[u] => t = u

(***************************************************************************)
(* Two live mutexes never share a slot, although slots are freed without a *)
(* lock and reused (mtx_init, mtx_destroy).                                *)
(***************************************************************************)
SlotsDistinct ==
  \A m, n \in live : handle[m] = handle[n] => m = n

(***************************************************************************)
(* A set lock word of a live mutex always has a task that will clear it:   *)
(* a slot is never handed out locked, and no acquisition is forgotten      *)
(* (mtx_init, mtx_unlock).                                                 *)
(***************************************************************************)
LockHasHolder ==
  \A m \in live : lock[handle[m]] = 1 =>
    \E t \in Task : pc[t] \in Holding /\ arg[t] = m

(***************************************************************************)
(* A mutex that some task waits for is eventually acquired, even when the  *)
(* yield flag was cleared by an unlock that had not seen it (mtx_unlock    *)
(* reads and clears the flag in two steps).                                *)
(***************************************************************************)
Wanted(m) == \E t \in Task : pc[t] \in Wanting /\ arg[t] = m
Held(m) == \E t \in Task : pc[t] \in Holding /\ arg[t] = m

WantedIsHeld == \A m \in Mutex : Wanted(m) ~> Held(m)

(***************************************************************************)
(* Why this works: a live mutex owns an initialised slot of its own, calls *)
(* are about live mutexes, and a holder's lock word is set.                *)
(***************************************************************************)
LiveInit == \A m \in live : handle[m] \in Slot /\ init[handle[m]] = 1

CallsLive ==
  \A t \in Task : IF pc[t] \in Wanting \cup Holding THEN arg[t] \in live
                                                    ELSE arg[t] = NONE

HolderLocks == \A t \in Task : pc[t] \in Holding => lock[This(t)] = 1

Safe ==
  /\ LiveInit
  /\ CallsLive
  /\ HolderLocks
  /\ SlotsDistinct
  /\ MutualExclusion
  /\ LockHasHolder

(***************************************************************************)
(* The module implements MtxSpec: the step that acquires is the successful *)
(* compare-and-exchange, the step that releases the clearing of the word.  *)
(***************************************************************************)
Holders == [m \in Mutex |-> {t \in Task : pc[t] \in Holding /\ arg[t] = m}]

Abstract == INSTANCE MtxSpec WITH
  Mtx <- Mutex, live <- live, holders <- Holders

ImplementsMtxSpec == Abstract!Spec

-----------------------------------------------------------------------------
(***************************************************************************)
(* Proofs, for any number of tasks, mutexes and slots: mutual exclusion,   *)
(* and the implementation of MtxSpec.  Safe is the inductive invariant.    *)
(* MutualExclusion alone is not inductive: it also has to be known that    *)
(* the lock word of a holder is set (HolderLocks), and that mtx_init,      *)
(* which clears a lock word, cannot be working on the slot of a live mutex *)
(* (LiveInit, SlotsDistinct).                                              *)
(***************************************************************************)
USE DEF Pc, Wanting, Holding, Slot, Free, Unused, Release, RaiseYield, Poll

\* The inductive invariant holds at the beginning.
LEMMA InitSafe == Init => TypeOK /\ Safe
BY SlotsAssumption
   DEF Init, TypeOK, Safe, LiveInit, CallsLive, HolderLocks, SlotsDistinct,
       MutualExclusion, LockHasHolder

\* Every step keeps the types of the variables.
LEMMA NextTypeOK == TypeOK /\ Safe /\ [Next]_vars => TypeOK'
<1> SUFFICES ASSUME TypeOK, Safe, [Next]_vars PROVE TypeOK'
  OBVIOUS
<1> USE NoneAssumption DEF TypeOK
<1>1. CASE UNCHANGED vars
  BY <1>1 DEF vars
<1>2. ASSUME NEW t \in Task, Step(t)
      PROVE  TypeOK'
  <2>1. CASE SpinTrylock(t) \/ SetYield(t) \/ Wake(t)
    BY <2>1 DEF SpinTrylock, SetYield, Wake, Goto
  <2>2. CASE MtxUnlock(t) \/ ClearYield(t)
    BY <2>2 DEF MtxUnlock, ClearYield, Goto, Safe, LiveInit, CallsLive, This
  <2>3. CASE SpinUnlock(t) \/ TaskYield(t)
    BY <2>3 DEF SpinUnlock, TaskYield, Return, Call
  <2> QED BY <1>2, <2>1, <2>2, <2>3 DEF Step
<1>3. ASSUME NEW t \in Task, Request(t)
      PROVE  TypeOK'
  BY <1>3 DEF Request, MtxInit, MtxDestroy, MtxLock, MtxTrylock, Call
<1> QED BY <1>1, <1>2, <1>3 DEF Next

(***************************************************************************)
(* A step that leaves the slots alone and neither begins nor ends a        *)
(* critical section keeps the invariant.                                   *)
(***************************************************************************)
LEMMA QuietStep ==
  ASSUME Safe, NEW t \in Task, NEW p \in Pc,
         pc[t] \in Holding <=> p \in Holding,
         pc[t] \in Wanting <=> p \in Wanting,
         pc \in [Task -> Pc], Goto(t, p),
         UNCHANGED <<init, lock, handle, live>>
  PROVE  Safe'
<1> USE DEF Goto, Safe
<1>1. LiveInit' /\ SlotsDistinct'
  BY DEF LiveInit, SlotsDistinct
<1>2. CallsLive'
  BY DEF CallsLive
<1>3. HolderLocks'
  BY DEF HolderLocks, This
<1>4. MutualExclusion' /\ LockHasHolder'
  BY DEF MutualExclusion, LockHasHolder
<1> QED BY <1>1, <1>2, <1>3, <1>4

\* Every step keeps the slots distinct and every lock held by one task.
LEMMA NextSafe == TypeOK /\ Safe /\ [Next]_vars => Safe'
<1> SUFFICES ASSUME TypeOK, Safe, [Next]_vars PROVE Safe'
  OBVIOUS
<1> USE NoneAssumption DEF TypeOK, Safe
<1>1. CASE UNCHANGED vars
  BY <1>1 DEF vars, LiveInit, CallsLive, HolderLocks, SlotsDistinct,
     MutualExclusion, LockHasHolder, This
<1>2. ASSUME NEW t \in Task, NEW m \in Mutex, NEW s \in Slot, MtxInit(t, m, s)
      PROVE  Safe'
  <2>1. \A n \in live : n # m /\ handle[n] # s
    BY <1>2 DEF MtxInit, LiveInit
  <2>2. \A u \in Task : arg[u] # m
    BY <1>2 DEF MtxInit, CallsLive
  <2>3. LiveInit' /\ SlotsDistinct'
    BY <1>2, <2>1 DEF MtxInit, LiveInit, SlotsDistinct
  <2>4. CallsLive' /\ MutualExclusion'
    BY <1>2 DEF MtxInit, CallsLive, MutualExclusion
  <2>5. HolderLocks'
    BY <1>2, <2>1, <2>2 DEF MtxInit, HolderLocks, CallsLive, This
  <2>6. LockHasHolder'
    BY <1>2, <2>1 DEF MtxInit, LockHasHolder
  <2> QED BY <2>3, <2>4, <2>5, <2>6
<1>3. ASSUME NEW t \in Task, NEW m \in Mutex, MtxDestroy(t, m)
      PROVE  Safe'
  <2>1. LiveInit' /\ SlotsDistinct'
    BY <1>3 DEF MtxDestroy, LiveInit, SlotsDistinct
  <2>2. CallsLive' /\ MutualExclusion' /\ LockHasHolder'
    BY <1>3 DEF MtxDestroy, CallsLive, MutualExclusion, LockHasHolder
  <2>3. HolderLocks'
    BY <1>3 DEF MtxDestroy, HolderLocks, This
  <2> QED BY <2>1, <2>2, <2>3
<1>4. ASSUME NEW t \in Task, NEW m \in Mutex, MtxLock(t, m)
      PROVE  Safe'
  BY <1>4 DEF MtxLock, Call, LiveInit, CallsLive, HolderLocks, SlotsDistinct,
     MutualExclusion, LockHasHolder, This
<1>5. ASSUME NEW t \in Task, NEW m \in live, lock[handle[m]] = 0,
             pc[t] \notin Holding,
             lock' = [lock EXCEPT ![handle[m]] = 1],
             pc' = [pc EXCEPT ![t] = "held"],
             arg' = [arg EXCEPT ![t] = m],
             UNCHANGED <<init, handle, live>>
      PROVE  Safe'
  <2>1. \A u \in Task : pc[u] \in Holding => arg[u] # m
    BY <1>5 DEF HolderLocks, This
  <2>2. LiveInit' /\ SlotsDistinct' /\ CallsLive'
    BY <1>5 DEF LiveInit, SlotsDistinct, CallsLive
  <2>3. HolderLocks'
    BY <1>5 DEF HolderLocks, This, LiveInit, CallsLive
  <2>4. MutualExclusion'
    BY <1>5, <2>1 DEF MutualExclusion
  <2>5. LockHasHolder'
    BY <1>5, <2>1 DEF LockHasHolder, SlotsDistinct
  <2> QED BY <2>2, <2>3, <2>4, <2>5
<1>6. ASSUME NEW t \in Task, NEW m \in Mutex, MtxTrylock(t, m)
      PROVE  Safe'
  BY <1>5, <1>6 DEF MtxTrylock, Call
<1>7. ASSUME NEW t \in Task, SpinTrylock(t)
      PROVE  Safe'
  <2>1. CASE lock[This(t)] = 0
    <3>1. arg[t] \in live /\ arg' = [arg EXCEPT ![t] = arg[t]]
      BY <1>7 DEF SpinTrylock, Goto, CallsLive
    <3>2. /\ lock[handle[arg[t]]] = 0 /\ pc[t] \notin Holding
          /\ lock' = [lock EXCEPT ![handle[arg[t]]] = 1]
          /\ pc' = [pc EXCEPT ![t] = "held"]
          /\ UNCHANGED <<init, handle, live>>
      BY <1>7, <2>1 DEF SpinTrylock, Goto, This
    <3> QED BY ONLY <1>5, <3>1, <3>2, t \in Task
  <2>2. CASE lock[This(t)] # 0
    BY <1>7, <2>2, QuietStep DEF SpinTrylock
  <2> QED BY <2>1, <2>2
<1>8. ASSUME NEW t \in Task, SetYield(t) \/ Wake(t) \/ MtxUnlock(t) \/ ClearYield(t)
      PROVE  Safe'
  BY <1>8, QuietStep DEF SetYield, Wake, MtxUnlock, ClearYield
<1>9. ASSUME NEW t \in Task, SpinUnlock(t)
      PROVE  Safe'
  <2>1. \A u \in Task : pc[u] \in Holding /\ arg[u] = arg[t] => u = t
    BY <1>9 DEF SpinUnlock, MutualExclusion
  <2>2. LiveInit' /\ SlotsDistinct' /\ CallsLive' /\ MutualExclusion'
    BY <1>9 DEF SpinUnlock, Call, LiveInit, SlotsDistinct, CallsLive,
       MutualExclusion
  <2>3. HolderLocks'
    BY <1>9, <2>1 DEF SpinUnlock, Call, HolderLocks, This, LiveInit, CallsLive,
       SlotsDistinct
  <2>4. LockHasHolder'
    BY <1>9 DEF SpinUnlock, Call, LockHasHolder, This, LiveInit, CallsLive,
       SlotsDistinct
  <2> QED BY <2>2, <2>3, <2>4
<1>10. ASSUME NEW t \in Task, TaskYield(t)
       PROVE  Safe'
  BY <1>10 DEF TaskYield, Return, Call, LiveInit, CallsLive, HolderLocks,
     SlotsDistinct, MutualExclusion, LockHasHolder, This
<1> QED
  BY <1>1, <1>2, <1>3, <1>4, <1>6, <1>7, <1>8, <1>9, <1>10
     DEF Next, Step, Request

(***************************************************************************)
(* The lock words, handles and threads of base/mtx.c keep their types.     *)
(***************************************************************************)
THEOREM TypeCorrect == Spec => []TypeOK
<1>1. TypeOK /\ Safe /\ [Next]_vars => TypeOK' /\ Safe'
  BY NextTypeOK, NextSafe
<1> QED BY InitSafe, <1>1, PTL DEF Spec

\* The inductive invariant holds in every reachable state.
THEOREM Invariance == Spec => [](TypeOK /\ Safe)
<1>1. TypeOK /\ Safe /\ [Next]_vars => TypeOK' /\ Safe'
  BY NextTypeOK, NextSafe
<1> QED BY InitSafe, <1>1, PTL DEF Spec

(***************************************************************************)
(* At most one task is inside a critical section of a mutex (mtx_lock,     *)
(* mtx_trylock, mtx_unlock), for any number of tasks and slots.            *)
(***************************************************************************)
THEOREM MutualExclusionHolds == Spec => []MutualExclusion
<1>1. Safe => MutualExclusion
  BY DEF Safe
<1> QED BY Invariance, <1>1, PTL

(***************************************************************************)
(* Live mutexes never share a slot of base_mtx_array (mtx_init,            *)
(* mtx_destroy).                                                           *)
(***************************************************************************)
THEOREM SlotsAreDistinct == Spec => []SlotsDistinct
<1>1. Safe => SlotsDistinct
  BY DEF Safe
<1> QED BY Invariance, <1>1, PTL

\* A lock word that is set has a task that will clear it (mtx_unlock).
THEOREM LocksHaveHolders == Spec => []LockHasHolder
<1>1. Safe => LockHasHolder
  BY DEF Safe
<1> QED BY Invariance, <1>1, PTL

-----------------------------------------------------------------------------
\* A step that neither begins nor ends a critical section.
LEMMA SameHolders ==
  ASSUME \A t \in Task, m \in Mutex :
           (pc[t] \in Holding /\ arg[t] = m) <=> (pc'[t] \in Holding /\ arg'[t] = m)
  PROVE  Holders' = Holders
BY DEF Holders

\* An initial state is one of the abstract mutex: nothing is held.
LEMMA InitRefines == Init => Abstract!Init
BY DEF Init, Abstract!Init, Holders

\* Taking a lock word is acquiring the abstract mutex.
LEMMA AcquireRefines ==
  ASSUME TypeOK, Safe, NEW t \in Task, NEW m \in live, lock[handle[m]] = 0,
         pc[t] \notin Holding,
         pc' = [pc EXCEPT ![t] = "held"], arg' = [arg EXCEPT ![t] = m],
         UNCHANGED live
  PROVE  Abstract!Acquire(t, m)
<1> USE DEF TypeOK
<1>1. m \in Mutex
  OBVIOUS
<1>2. \A u \in Task : ~(pc[u] \in Holding /\ arg[u] = m)
  BY DEF Safe, HolderLocks, This
<1>3. Holders[m] = {}
  BY <1>1, <1>2 DEF Holders
<1>4. \A n \in Mutex : Holders'[n] = IF n = m THEN {t} ELSE Holders[n]
  <2> TAKE n \in Mutex
  <2>1. CASE n = m
    BY <1>1, <1>2, <2>1 DEF Holders
  <2>2. CASE n # m
    BY <2>2 DEF Holders
  <2> QED BY <2>1, <2>2
<1>5. Holders' = [Holders EXCEPT ![m] = {t}]
  BY <1>4 DEF Holders
<1> QED BY <1>1, <1>3, <1>5 DEF Abstract!Acquire

\* Clearing a lock word is releasing the abstract mutex.
LEMMA ReleaseRefines ==
  ASSUME TypeOK, Safe, NEW t \in Task, SpinUnlock(t)
  PROVE  Abstract!Release(t, arg[t])
<1> DEFINE m == arg[t]
<1> USE NoneAssumption DEF TypeOK, SpinUnlock, Call
<1>1. m \in Mutex
  BY DEF Safe, CallsLive
<1>2. \A u \in Task : (pc[u] \in Holding /\ arg[u] = m) <=> u = t
  BY DEF Safe, MutualExclusion
<1>3. Holders[m] = {t}
  BY <1>1, <1>2 DEF Holders
<1>4. \A n \in Mutex : Holders'[n] = IF n = m THEN {} ELSE Holders[n]
  <2> TAKE n \in Mutex
  <2>1. CASE n = m
    BY <1>1, <1>2, <2>1 DEF Holders
  <2>2. CASE n # m
    BY <1>2, <2>2 DEF Holders
  <2> QED BY <2>1, <2>2
<1>5. Holders' = [Holders EXCEPT ![m] = {}]
  BY ONLY <1>4 DEF Holders
<1> QED BY <1>1, <1>3, <1>5 DEF Abstract!Release

\* Every step is a step of the abstract mutex, or leaves it as it is.
LEMMA NextRefines ==
  TypeOK /\ Safe /\ [Next]_vars => [Abstract!Next]_<<live, Holders>>
<1> SUFFICES ASSUME TypeOK, Safe, [Next]_vars
             PROVE  Abstract!Next \/ UNCHANGED <<live, Holders>>
  OBVIOUS
<1> USE NoneAssumption DEF TypeOK
<1>1. CASE UNCHANGED vars
  BY <1>1, SameHolders DEF vars
<1>2. ASSUME NEW t \in Task, NEW m \in Mutex, NEW s \in Slot, MtxInit(t, m, s)
      PROVE  Abstract!Create(m)
  BY <1>2, SameHolders DEF MtxInit, Abstract!Create
<1>3. ASSUME NEW t \in Task, NEW m \in Mutex, MtxDestroy(t, m)
      PROVE  Abstract!Destroy(m)
  <2>1. Holders[m] = {}
    BY <1>3 DEF MtxDestroy, Holders
  <2> QED BY <1>3, <2>1, SameHolders DEF MtxDestroy, Abstract!Destroy
<1>4. ASSUME NEW t \in Task, NEW m \in Mutex, MtxLock(t, m)
      PROVE  UNCHANGED <<live, Holders>>
  BY <1>4, SameHolders DEF MtxLock, Call
<1>5. ASSUME NEW t \in Task, NEW m \in Mutex, MtxTrylock(t, m)
      PROVE  Abstract!Acquire(t, m)
  BY <1>5, AcquireRefines DEF MtxTrylock, Call
<1>6. ASSUME NEW t \in Task, SpinTrylock(t)
      PROVE  (arg[t] \in Mutex /\ Abstract!Acquire(t, arg[t])) \/ UNCHANGED <<live, Holders>>
  <2>1. CASE lock[This(t)] = 0
    <3>1. arg[t] \in live /\ arg' = [arg EXCEPT ![t] = arg[t]]
      BY <1>6 DEF SpinTrylock, Goto, Safe, CallsLive
    <3>2. /\ lock[handle[arg[t]]] = 0 /\ pc[t] \notin Holding
          /\ pc' = [pc EXCEPT ![t] = "held"]
          /\ UNCHANGED live
      BY <1>6, <2>1 DEF SpinTrylock, Goto, This
    <3> QED BY <3>1, <3>2, AcquireRefines
  <2>2. CASE lock[This(t)] # 0
    BY <1>6, <2>2, SameHolders DEF SpinTrylock, Goto
  <2> QED BY <2>1, <2>2
<1>7. ASSUME NEW t \in Task,
             SetYield(t) \/ Wake(t) \/ MtxUnlock(t) \/ ClearYield(t) \/ TaskYield(t)
      PROVE  UNCHANGED <<live, Holders>>
  BY <1>7, SameHolders
     DEF SetYield, Wake, MtxUnlock, ClearYield, TaskYield, Goto, Return, Call
<1>8. ASSUME NEW t \in Task, SpinUnlock(t)
      PROVE  arg[t] \in Mutex /\ Abstract!Release(t, arg[t])
  BY <1>8, ReleaseRefines DEF SpinUnlock, Safe, CallsLive
<1> QED
  BY <1>1, <1>2, <1>3, <1>4, <1>5, <1>6, <1>7, <1>8
     DEF Next, Step, Request, Abstract!Next

(***************************************************************************)
(* base/mtx.c implements MtxSpec: the steps of mtx_lock and mtx_unlock     *)
(* that acquire and release are single atomic steps on the lock word.      *)
(***************************************************************************)
THEOREM Refinement == Spec => ImplementsMtxSpec
<1>1. Init => Abstract!Init
  BY InitRefines
<1>2. TypeOK /\ Safe /\ [Next]_vars => [Abstract!Next]_<<live, Holders>>
  BY NextRefines
<1> QED BY <1>1, <1>2, Invariance, PTL DEF Spec, ImplementsMtxSpec, Abstract!Spec

=============================================================================
