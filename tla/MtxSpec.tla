------------------------------ MODULE MtxSpec ------------------------------
(***************************************************************************)
(* What base/mtx.c promises to the rest of the kernel: a mutex that is     *)
(* live is held by at most one task at a time, and only a live mutex is    *)
(* held.                                                                   *)
(***************************************************************************)
CONSTANTS Task, Mtx

VARIABLES
  live,     \* the mutexes between mtx_init and mtx_destroy
  holders   \* mutex -> the set of tasks that hold it

Init == live = {} /\ holders = [m \in Mtx |-> {}]

Create(m) == m \notin live /\ live' = live \cup {m} /\ UNCHANGED holders

Destroy(m) ==
  /\ m \in live
  /\ holders[m] = {}
  /\ live' = live \ {m}
  /\ UNCHANGED holders

Acquire(t, m) ==
  /\ m \in live
  /\ holders[m] = {}
  /\ holders' = [holders EXCEPT ![m] = {t}]
  /\ UNCHANGED live

Release(t, m) ==
  /\ holders[m] = {t}
  /\ holders' = [holders EXCEPT ![m] = {}]
  /\ UNCHANGED live

Next ==
  \E m \in Mtx :
    \/ Create(m) \/ Destroy(m)
    \/ \E t \in Task : Acquire(t, m) \/ Release(t, m)

Spec == Init /\ [][Next]_<<live, holders>>

=============================================================================
