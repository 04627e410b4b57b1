------------------------------- MODULE Spawn -------------------------------
(***************************************************************************)
(* Spawning a program: dancy_syscall_spawn (syscall/syscall.c), spawn_task *)
(* and new_task (syscall/spawn.c), arg_create and arg_copy (syscall/arg.c).*)
(* The new task works on a structure on its parent's stack, with file      *)
(* actions, arguments and a node that the parent has allocated; it unlocks *)
(* the structure when it is done with all of it, and the parent returns.   *)
(*                                                                         *)
(* One parent spawns again and again.  A signal may come to it at any      *)
(* time; it ends the parent when it returns to user mode.                  *)
(***************************************************************************)
EXTENDS Naturals, Sequences, FiniteSets

CONSTANT MaxSpawns  \* bound on the calls

\* What the new task does before it unlocks, in order.
Work == <<"attributes", "actions", "pg_create", "load", "arg_copy", "cmdline", "close">>
Errors == {"DE_ACCESS", "DE_ARGUMENT", "DE_MEMORY", "DE_COFF"}

VARIABLES
  pc,       \* where the parent is
  frame,    \* the structure on the parent's stack exists
  lock,     \* ta.lock is held for the new task
  retval,   \* ta.retval
  arg,      \* the number of allocated argument states
  actions,  \* the number of allocated file actions
  node,     \* the references to the program's node
  child,    \* where the new task is: a step of Work, or a state
  stray,    \* children that exited without a program and were not waited for
  missed,   \* history: those that the wait did not find
  signaled, \* an unmasked signal is pending for the parent
  id,       \* what the parent returns to user mode: 0 or the child
  count     \* calls so far

owned == <<arg, actions, node>>
vars == <<pc, frame, lock, retval, owned, child, stray, missed, signaled, id, count>>

Working == {Work[i] : i \in DOMAIN Work}

TypeOK ==
  /\ pc \in {"user", "args", "options", "create", "spin", "reap", "fail", "dead"}
  /\ frame \in BOOLEAN /\ lock \in BOOLEAN /\ signaled \in BOOLEAN
  /\ retval \in Errors \cup {"ok", "DE_UNEXPECTED"}
  /\ arg \in 0 .. 1 /\ actions \in 0 .. 1 /\ node \in 0 .. 1
  /\ child \in Working \cup {"none", "program", "exiting", "exited"}
  /\ stray \in Nat /\ missed \in Nat /\ id \in 0 .. 1 /\ count \in 0 .. MaxSpawns

Init ==
  /\ pc = "user" /\ frame = FALSE /\ lock = FALSE /\ retval = "ok"
  /\ arg = 0 /\ actions = 0 /\ node = 0 /\ child = "none"
  /\ stray = 0 /\ missed = 0 /\ signaled = FALSE /\ id = 0 /\ count = 0

Goes(here, there) == pc = here /\ pc' = there

-----------------------------------------------------------------------------
(* dancy_syscall_spawn and spawn_task, in the parent. *)

\* The path is opened.
Call ==
  /\ Goes("user", "args") /\ ~signaled /\ count < MaxSpawns
  /\ child \in {"none", "program"}
  /\ node' = 1 /\ count' = count + 1 /\ child' = "none" /\ id' = 0
  /\ UNCHANGED <<frame, lock, retval, arg, actions, stray, missed, signaled>>

\* arg_create.
ArgCreate ==
  /\ Goes("args", "options") /\ arg' = arg + 1
  /\ frame' = TRUE /\ lock' = TRUE /\ retval' = "DE_UNEXPECTED"
  /\ UNCHANGED <<actions, node, child, stray, missed, signaled, id, count>>

\* No regular file, or no arguments: the node is released.
ArgFails ==
  /\ Goes("args", "user") /\ node' = node - 1
  /\ UNCHANGED <<frame, lock, retval, arg, actions, child, stray, missed, signaled, id, count>>

\* handle_options, with or without file actions.
Options ==
  /\ Goes("options", "create")
  /\ actions' \in {actions, actions + 1}
  /\ UNCHANGED <<frame, lock, retval, arg, node, child, stray, missed, signaled, id, count>>

\* Mutant: what handle_options has allocated is left.
ReleasedNever == actions

\* release_actions.
Released == 0

\* handle_options or task_create fails.
OptionsFail ==
  /\ pc \in {"options", "create"} /\ pc' = "fail"
  /\ actions' = Released
  /\ frame' = FALSE
  /\ UNCHANGED <<lock, retval, arg, node, child, stray, missed, signaled, id, count>>

\* task_create.
Create ==
  /\ Goes("create", "spin") /\ child' = Work[1]
  /\ UNCHANGED <<frame, lock, retval, owned, stray, missed, signaled, id, count>>

\* Mutant: the parent does not wait for the new task.
MayReturnAlways == TRUE

\* spin_trylock(&ta.lock) succeeds.
MayReturn == ~lock

\* The new task is done with the structure.
Spun ==
  /\ MayReturn
  /\ pc = "spin" /\ pc' = IF retval = "ok" THEN "user" ELSE "reap"
  /\ actions' = Released
  /\ frame' = (retval # "ok")
  /\ node' = IF retval = "ok" THEN node - 1 ELSE node
  /\ id' = IF retval = "ok" THEN 1 ELSE 0
  /\ UNCHANGED <<lock, retval, arg, child, stray, missed, signaled, count>>

\* Mutant: the wait for the failed child does not wait.
InterruptedAny == TRUE

Interrupted == signaled

\* task_wait_descendant takes the child that failed, is interrupted, or returns
\* DE_EMPTY: it walks the list without the lock, and when the structure it is at
\* is moved it may come to the end without the child (task.c:1021). spawn_task
\* does not look at the result.
Reap ==
  /\ Goes("reap", "fail") /\ frame' = FALSE
  /\ \/ /\ child = "exited" /\ child' = "none" /\ UNCHANGED <<stray, missed>>
     \/ /\ child # "exited" /\ Interrupted
        /\ stray' = stray + 1 /\ UNCHANGED <<child, missed>>
     \/ stray' = stray + 1 /\ missed' = missed + 1 /\ child' = "none"
  /\ UNCHANGED <<lock, retval, owned, signaled, id, count>>

\* Mutant: the arguments are left to a new task that has failed.
ArgAfterFail == arg

\* arg_delete of the caller after an error.
ArgAfter == arg - 1

Fail ==
  /\ Goes("fail", "user")
  /\ arg' = ArgAfter /\ node' = node - 1
  /\ UNCHANGED <<frame, lock, retval, actions, child, stray, missed, signaled, id, count>>

Signal ==
  /\ pc # "dead" /\ signaled' = TRUE
  /\ UNCHANGED <<pc, frame, lock, retval, owned, child, stray, missed, id, count>>

\* ret_user_handler: the parent exits, its children get another owner.
Dies ==
  /\ Goes("user", "dead") /\ signaled
  /\ stray' = 0 /\ missed' = 0
  /\ UNCHANGED <<frame, lock, retval, owned, child, signaled, id, count>>

-----------------------------------------------------------------------------
(* new_task, in the child. *)

Step(i) ==
  /\ child = Work[i] /\ i < Len(Work)
  /\ child' = Work[i + 1]
  /\ arg' = IF Work[i] = "cmdline" THEN arg - 1 ELSE arg
  /\ UNCHANGED <<pc, frame, lock, retval, actions, node, stray, missed, signaled, id, count>>

\* Mutant: an error path forgets to unlock.
UnlockedOnSuccess(r) == r # "ok"

\* The lock after spin_unlock(&ta->lock), whatever the result is.
Unlocked(r) == FALSE

\* A step fails: the parent is told, and the child returns to task_exit.
StepFails(i) ==
  /\ child = Work[i] /\ Work[i] # "close"
  /\ child' = "exiting"
  /\ retval' \in Errors /\ lock' = Unlocked(retval')
  /\ UNCHANGED <<pc, frame, owned, stray, missed, signaled, id, count>>

\* task_exit of a new task that has failed.
Exit ==
  /\ child = "exiting" /\ child' = "exited"
  /\ UNCHANGED <<pc, frame, lock, retval, owned, stray, missed, signaled, id, count>>

\* The descriptors are closed, the structure is unlocked, the program starts.
Start ==
  /\ child = "close" /\ child' = "program"
  /\ retval' = "ok" /\ lock' = Unlocked("ok")
  /\ UNCHANGED <<pc, frame, owned, stray, missed, signaled, id, count>>

Next ==
  \/ Call \/ ArgCreate \/ ArgFails \/ Options \/ OptionsFail \/ Create
  \/ Spun \/ Reap \/ Fail \/ Signal \/ Dies
  \/ \E i \in DOMAIN Work : Step(i) \/ StepFails(i)
  \/ Exit \/ Start
  \/ count = MaxSpawns /\ pc = "user" /\ UNCHANGED vars
  \/ pc = "dead" /\ UNCHANGED vars

Fairness ==
  /\ WF_vars(Spun) /\ WF_vars(Start) /\ WF_vars(Exit) /\ WF_vars(Reap)
  /\ \A i \in DOMAIN Work : WF_vars(Step(i))

Spec == Init /\ [][Next]_vars /\ Fairness

-----------------------------------------------------------------------------
(***************************************************************************)
(* The new task works only on memory that exists: the structure on its     *)
(* parent's stack, the arguments and the node are there until it unlocks.  *)
(***************************************************************************)
ChildHasArguments ==
  child \in Working =>
    /\ frame /\ node = 1
    /\ arg = IF child = "close" THEN 0 ELSE 1

(***************************************************************************)
(* "The new task calls arg_delete(arg_state) if there are no errors": back *)
(* in user mode, the arguments, actions and node are released, each once,  *)
(* however far the new task came.                                          *)
(***************************************************************************)
NothingLeaks == pc \in {"user", "dead"} => arg = 0 /\ actions = 0 /\ node = 0

(***************************************************************************)
(* A program that goes on never finds a child it was not told of: if the   *)
(* wait for a failed child is interrupted, the signal ends the caller too. *)
(* The exceptions are children whose wait did not find them (task.c:1021). *)
(***************************************************************************)
NoStrayChild == pc = "user" /\ ~signaled => stray = missed

(***************************************************************************)
(* The parent returns: it does not wait for a task that is gone.           *)
(***************************************************************************)
Returns == pc = "spin" ~> pc \in {"user", "dead", "fail"}

=============================================================================
