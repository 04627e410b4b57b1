------------------------------ MODULE Signals ------------------------------
(***************************************************************************)
(* Signals, process groups and sessions: kill_internal (syscall/kill.c),   *)
(* ret_user_handler (base/ret_user.c), task_signaled (base/task.c), the    *)
(* system calls sigprocmask and ppoll (syscall/syscall.c) and the          *)
(* attributes of a new task (syscall/spawn.c).  A signal is a bit of the   *)
(* task; there are no handlers, so a signal that is not blocked ends the   *)
(* task on its way back to user mode.                                      *)
(*                                                                         *)
(* task_foreach holds task_lock and is one step.  ret_user_handler reads   *)
(* the bits first and takes one of them later.                             *)
(***************************************************************************)
EXTENDS Integers, FiniteSets, FiniteSetsExt

CONSTANTS
  MaxId,    \* bound: task ids, from 1 (which is init)
  Sigs,     \* bound: the signals that are sent, numbers below 32
  Masks,    \* bound: the masks that are set, sets of signals
  MaxKills  \* bound on the calls of kill_internal

SIGKILL == 9

Ids == 1 .. MaxId

VARIABLES
  state,    \* id -> "none", "new" ..., "user", "poll", "kernel", "ret", "exited"
  group,    \* id -> id_group
  session,  \* id -> id_session
  pending,  \* id -> asm_data3
  mask,     \* id -> sig.mask
  saved,    \* id -> the mask that ppoll restores
  status,   \* id -> the signal that has ended it, or 0
  fatal,    \* history: an unblocked signal was pending when the bits were read
  early,    \* history: the sessions that began when their number was a group already
  kills     \* calls so far

ids == <<group, session>>
vars == <<state, ids, pending, mask, saved, status, fatal, early, kills>>

TypeOK ==
  /\ state \in [Ids -> {"none", "new", "sid", "group", "user", "poll", "kernel", "ret", "exited"}]
  /\ group \in [Ids -> Nat] /\ session \in [Ids -> Nat]
  /\ pending \in [Ids -> SUBSET Sigs] /\ mask \in [Ids -> SUBSET Sigs] /\ saved \in [Ids -> SUBSET Sigs]
  /\ status \in [Ids -> Sigs \cup {0}] /\ fatal \in [Ids -> BOOLEAN] /\ kills \in 0 .. MaxKills
  /\ early \in SUBSET Ids

Init ==
  /\ state = [i \in Ids |-> IF i = 1 THEN "user" ELSE "none"]
  /\ group = [i \in Ids |-> 1] /\ session = [i \in Ids |-> 1]
  /\ pending = [i \in Ids |-> {}] /\ mask = [i \in Ids |-> {}] /\ saved = [i \in Ids |-> {}]
  /\ status = [i \in Ids |-> 0] /\ fatal = [i \in Ids |-> FALSE] /\ early = {} /\ kills = 0

Live == {i \in Ids : state[i] \notin {"none", "exited"}}

\* Tasks with a program: cmd.line starts with a slash.
Programs == {i \in Ids : state[i] \in {"user", "poll", "kernel", "ret"}}

\* Mutant: every signal can be blocked.
UnblockableNone == {}

\* SIGSTOP is treated alike, but the two cannot be told apart without handlers.
Unblockable == {SIGKILL}

\* task_signaled, and the test of ret_user_handler.
Signaled(i) == pending[i] \ (mask[i] \ Unblockable) # {}

-----------------------------------------------------------------------------
\* Mutant: a task of the first session may be signalled by anyone.
AllowedAny(i, j) == j # 1 /\ j \in Programs

\* Task i may signal task j.
Allowed(i, j) == j # 1 /\ (session[j] = 1 => session[i] = 1) /\ j \in Programs

\* The tasks kill_internal(pid, sig) of task i reaches.
Targets(i, pid) ==
  {j \in Live : /\ Allowed(i, j)
                /\ pid > 0 => j = pid
                /\ pid = 0 => group[j] = group[i]
                /\ pid < -1 => group[j] = -pid}

Kill(i, pid, sig) ==
  /\ state[i] = "user" /\ kills < MaxKills /\ kills' = kills + 1
  /\ pending' = [j \in Ids |-> IF j \in Targets(i, pid) THEN pending[j] \cup {sig} ELSE pending[j]]
  /\ state' = [state EXCEPT ![i] = "kernel"]
  /\ UNCHANGED <<ids, mask, saved, status, fatal, early>>

\* sigprocmask: how = SIG_BLOCK, SIG_UNBLOCK or SIG_SETMASK.
SigProcMask(i, how, set) ==
  /\ state[i] = "user"
  /\ mask' = [mask EXCEPT ![i] =
       CASE how = "block"   -> mask[i] \cup (set \ Unblockable)
         [] how = "unblock" -> mask[i] \ set
         [] how = "set"     -> set \ Unblockable]
  /\ state' = [state EXCEPT ![i] = "kernel"]
  /\ UNCHANGED <<ids, pending, saved, status, fatal, early, kills>>

\* ppoll sets its mask for the time of file_poll.
PPoll(i, set) ==
  /\ state[i] = "user"
  /\ saved' = [saved EXCEPT ![i] = mask[i]]
  /\ mask' = [mask EXCEPT ![i] = set \ Unblockable]
  /\ state' = [state EXCEPT ![i] = "poll"]
  /\ UNCHANGED <<ids, pending, status, fatal, early, kills>>

\* file_poll looks at task_signaled between its waits.
Interrupts(i) == Signaled(i)

PPollEnds(i) ==
  /\ state[i] = "poll"
  /\ mask' = [mask EXCEPT ![i] = saved[i]]
  /\ state' = [state EXCEPT ![i] = "kernel"]
  /\ UNCHANGED <<ids, pending, saved, status, fatal, early, kills>>

\* A descriptor is ready or the time is over.
PPollReady(i) == PPollEnds(i)
PPollInterrupted(i) == Interrupts(i) /\ PPollEnds(i)

-----------------------------------------------------------------------------
\* Mutant: signals that are blocked end the task too.
DiesAny(i) == pending[i] # {}

\* ret_user_handler finds a signal that is not blocked.
Dies(i) == Signaled(i)

\* The task goes back to user mode; trap.asm calls the handler if a bit is set.
RetUser(i) ==
  /\ state[i] = "kernel"
  /\ state' = [state EXCEPT ![i] = IF Dies(i) THEN "ret" ELSE "user"]
  /\ fatal' = [fatal EXCEPT ![i] = Signaled(i)]
  /\ UNCHANGED <<ids, pending, mask, saved, status, early, kills>>

\* An interrupt in user mode takes the same way.
Interrupt(i) ==
  /\ state[i] = "user"
  /\ state' = [state EXCEPT ![i] = "kernel"]
  /\ UNCHANGED <<ids, pending, mask, saved, status, fatal, early, kills>>

\* Mutant: the number of the bit is taken for the signal.
LowestBit(i) == Min(pending[i]) - 1

Lowest(i) == Min(pending[i])

\* The lowest bit is taken, blocked or not, and is the exit status.
Take(i) ==
  LET sig == Lowest(i) IN
  /\ state[i] = "ret"
  /\ pending' = [pending EXCEPT ![i] = @ \ {sig}]
  /\ status' = [status EXCEPT ![i] = sig]
  /\ state' = [state EXCEPT ![i] = "exited"]
  /\ UNCHANGED <<ids, mask, saved, fatal, early, kills>>

-----------------------------------------------------------------------------
\* task_create: the new task inherits the ids and the mask.
Create(i) ==
  /\ state[i] = "user"
  /\ \E j \in Ids :
       /\ state[j] = "none" /\ \A k \in 1 .. (j - 1) : state[k] # "none"
       /\ state' = [state EXCEPT ![j] = "new"]
       /\ group' = [group EXCEPT ![j] = group[i]]
       /\ session' = [session EXCEPT ![j] = session[i]]
       /\ mask' = [mask EXCEPT ![j] = mask[i]]
  /\ UNCHANGED <<pending, saved, status, fatal, early, kills>>

\* __DANCY_SPAWN_SETSID, if it is set.
SetSid(j) ==
  /\ state[j] = "new" /\ state' = [state EXCEPT ![j] = "sid"]
  /\ \/ /\ group' = [group EXCEPT ![j] = j] /\ session' = [session EXCEPT ![j] = j]
        /\ early' = IF \E k \in Live \ {j} : group[k] = j THEN early \cup {j} ELSE early
     \/ UNCHANGED <<ids, early>>
  /\ UNCHANGED <<pending, mask, saved, status, fatal, kills>>

\* Mutant: any group may be joined.
MayJoinAny(j, g) == session[j] # j \/ group[j] = g

\* func_setpgroup: no member of the group is of another session, and a leader stays.
MayJoin(j, g) ==
  /\ \A k \in Live \ {j} : group[k] = g => session[k] = session[j]
  /\ session[j] = j => group[j] = g

\* The numbers that are asked for: 0 is the task's own, the last one stands for
\* those no task will have.
Numbers == 1 .. (MaxId + 1)

\* __DANCY_SPAWN_SETPGROUP, if it is set, for any number, also one that no task
\* has. The error of a task behind this one in the list comes when the group is
\* set already; the new task exits then.
SetPgroup(j) ==
  /\ state[j] = "sid"
  /\ \/ \E g \in Numbers :
          \/ /\ MayJoin(j, g)
             /\ group' = [group EXCEPT ![j] = g] /\ state' = [state EXCEPT ![j] = "group"]
          \/ /\ ~MayJoin(j, g) /\ state' = [state EXCEPT ![j] = "exited"]
             /\ UNCHANGED group \/ (session[j] # j /\ group' = [group EXCEPT ![j] = g])
     \/ state' = [state EXCEPT ![j] = "group"] /\ UNCHANGED group
  /\ UNCHANGED <<session, pending, mask, saved, status, fatal, early, kills>>

\* __DANCY_SPAWN_SETSIGMASK, if it is set, and the program is loaded.
Start(j) ==
  /\ state[j] = "group" /\ state' = [state EXCEPT ![j] = "user"]
  /\ \/ \E set \in Masks : mask' = [mask EXCEPT ![j] = set \ Unblockable]
     \/ UNCHANGED mask
  /\ UNCHANGED <<ids, pending, saved, status, fatal, early, kills>>

\* A task that was interrupted or is in the kernel goes on.
Leave(i) == Interrupt(i) \/ RetUser(i) \/ Take(i) \/ PPollInterrupted(i)

Pids == Ids \cup {0} \cup {-g : g \in Ids}

Next ==
  \E i \in Ids :
    \/ \E pid \in Pids, sig \in Sigs : Kill(i, pid, sig)
    \/ \E how \in {"block", "unblock", "set"}, set \in Masks : SigProcMask(i, how, set)
    \/ \E set \in Masks : PPoll(i, set)
    \/ PPollReady(i) \/ PPollInterrupted(i)
    \/ RetUser(i) \/ Interrupt(i) \/ Take(i)
    \/ Create(i) \/ SetSid(i) \/ SetPgroup(i) \/ Start(i)

\* Interrupts come to every task; a task in the kernel leaves it.
Fairness ==
  \A i \in Ids : WF_vars(Interrupt(i)) /\ WF_vars(RetUser(i)) /\ WF_vars(Take(i)) /\ WF_vars(PPollInterrupted(i))

Spec == Init /\ [][Next]_vars /\ Fairness

-----------------------------------------------------------------------------
(***************************************************************************)
(* A process group is within one session: what the check of func_setpgroup *)
(* is for.  The exceptions are groups whose number was taken before the    *)
(* task with that number began its session: func_setsid (spawn.c:38) does  *)
(* not look whether others are in the group.                               *)
(***************************************************************************)
GroupInSession ==
  \A i, j \in Live : group[i] = group[j] => session[i] = session[j] \/ group[i] \in early

(***************************************************************************)
(* A task ends by a signal only if one that it does not block was pending  *)
(* when the handler read the bits, and there is a bit for it to take.      *)
(***************************************************************************)
EndedByUnblocked ==
  \A i \in Ids :
    /\ state[i] = "ret" => pending[i] # {}
    /\ status[i] # 0 => fatal[i]

(***************************************************************************)
(* The first task and, from other sessions, the first session cannot be    *)
(* signalled, whatever groups the tasks have joined.                       *)
(***************************************************************************)
FirstSessionSafe ==
  \A i \in Ids : pending'[i] # pending[i] /\ session[i] = 1 /\ state[i] # "ret" =>
       i # 1 /\ \E k \in Ids : state[k] = "user" /\ state'[k] = "kernel" /\ session[k] = 1

(***************************************************************************)
(* No mask keeps a task alive: the tasks that were sent SIGKILL end, also  *)
(* those that wait in ppoll with every signal blocked.                     *)
(***************************************************************************)
Doomed == {i \in Ids : SIGKILL \in pending[i] /\ state[i] # "exited"}

KillEnds == Doomed # {} ~> Doomed = {}
=============================================================================
