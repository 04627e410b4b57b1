----------------------------- MODULE TaskSwitch -----------------------------
(***************************************************************************)
(* The ownership protocol of task structures on a multiprocessor:          *)
(* base/task.c and base/a64/task.asm.                                      *)
(*                                                                         *)
(* A task structure is an 8 KiB block that holds the task's kernel stack.  *)
(* Its "active" word is a spin lock: whoever runs on the stack, is about   *)
(* to switch to it, polls its event function, initialises it or recycles   *)
(* it must own that word.  No other lock protects the stack.               *)
(*                                                                         *)
(* A processor c executes the thread cur[c], one step at a time.  A thread *)
(* that has been switched out keeps its pc, so everything that a function  *)
(* keeps on the kernel stack is indexed by the task, not by the processor. *)
(***************************************************************************)
EXTENDS Naturals, FiniteSets

CONSTANTS
  Task,        \* the task structures there is memory for (task_struct_limit)
  Cpu,         \* the processors
  Bsp,         \* the bootstrap processor (its TSS is task_uniproc_tss)
  BootTask,    \* BootTask[c]: the structure on whose stack c enters the kernel
  Caretaker,   \* the task that runs task_caretaker
  NONE,        \* no task structure (NULL)
  MaxDisable,  \* bound on the nesting of task_switch_disable
  Waiters,     \* bound: the tasks that wait for events
  Pinners,     \* bound: the tasks that call task_switch_disable
  Nesters      \* bound: the tasks that are interrupted inside an operation

ASSUME BootAssumption ==
  /\ Bsp \in Cpu
  /\ BootTask \in [Cpu -> Task]
  /\ \A c, d \in Cpu : BootTask[c] = BootTask[d] => c = d
  /\ Caretaker \in Task
  /\ \A c \in Cpu : BootTask[c] # Caretaker
  /\ NONE \notin Task

ASSUME BoundAssumption ==
  /\ MaxDisable \in Nat
  /\ Waiters \subseteq Task
  /\ Pinners \subseteq Task
  /\ Nesters \subseteq Task

\* The task with ID 1.  It never leaves task_exit.
Head == BootTask[Bsp]

VARIABLES
  cur,       \* processor -> the task on whose stack it executes
  prev,      \* processor -> the task it has just left, in task_switch_asm
  active,    \* task -> its active word
  stopped,   \* task -> its stopped word
  detached,  \* task -> its detached word
  uniproc,   \* task -> its uniproc word
  event,     \* task -> its event.func
  disable,   \* task -> asm_data1 / 2, the depth of task_switch_disable
  place,     \* task -> where the structure is: "none", "list" or "pool"
  ctx,       \* task -> what its sp and fstate describe
  pc,        \* task -> where the thread is
  nxt,       \* task -> the other structure its current operation is about
  outer      \* task -> the operation that an interrupt handler interrupts

vars == <<cur, prev, active, stopped, detached, uniproc, event, disable,
          place, ctx, pc, nxt, outer>>

(***************************************************************************)
(* The places of a thread.  From "cli" to "load" interrupts are disabled,  *)
(* and "check" is the part of task_check_event with interrupts disabled.   *)
(***************************************************************************)
IntsOff == {"cli", "locked", "asm", "load", "check"}
Pc == IntsOff \cup {"run", "entry", "create", "recycle"}

\* The thread owns active[nxt[t]] at these places.
Owning == {"locked", "asm", "load", "check", "create", "recycle"}

\* An operation that an interrupt can find the thread in, and its argument.
Idle == [pc |-> "run", nxt |-> NONE]
Operation == {Idle} \cup [pc : {"entry", "create", "recycle"}, nxt : Task]

\* ctx: "saved"  sp and fstate are what the thread needs to continue,
\*      "live"   the thread runs, the structure's sp and fstate are old,
\*      "none"   the structure has no thread.
Ctx == {"saved", "live", "none"}

\* event.func: task_null_func, some event function, or the zero (NULL) that
\* memset leaves in a structure that is being recycled or created.
Func == {"null", "func", "zero"}

BootTasks == {BootTask[c] : c \in Cpu}

TypeOK ==
  /\ cur \in [Cpu -> Task]
  /\ prev \in [Cpu -> Task \cup {NONE}]
  /\ active \in [Task -> {0, 1}]
  /\ stopped \in [Task -> {0, 1}]
  /\ detached \in [Task -> {0, 1}]
  /\ uniproc \in [Task -> {0, 1}]
  /\ event \in [Task -> Func]
  /\ disable \in [Task -> Nat]
  /\ place \in [Task -> {"none", "list", "pool"}]
  /\ ctx \in [Task -> Ctx]
  /\ pc \in [Task -> Pc]
  /\ nxt \in [Task -> Task \cup {NONE}]
  /\ outer \in [Task -> Operation]

(***************************************************************************)
(* task_init and task_init_ap have run: every processor executes its boot  *)
(* task, and the first task has created the caretaker.                     *)
(***************************************************************************)
Init ==
  /\ cur = BootTask
  /\ prev = [c \in Cpu |-> NONE]
  /\ active = [t \in Task |-> IF t \in BootTasks THEN 1 ELSE 0]
  /\ stopped = [t \in Task |-> 0]
  /\ detached = [t \in Task |->
       IF t \in (BootTasks \ {Head}) \cup {Caretaker} THEN 1 ELSE 0]
  /\ uniproc = [t \in Task |-> 0]
  /\ event = [t \in Task |->
       IF t \in BootTasks \cup {Caretaker} THEN "null" ELSE "zero"]
  /\ disable = [t \in Task |-> 0]
  /\ place = [t \in Task |->
       IF t \in BootTasks \cup {Caretaker} THEN "list" ELSE "none"]
  /\ ctx = [t \in Task |-> CASE t \in BootTasks -> "live"
                             [] t = Caretaker -> "saved"
                             [] OTHER -> "none"]
  /\ pc = [t \in Task |-> "run"]
  /\ nxt = [t \in Task |-> NONE]
  /\ outer = [t \in Task |-> Idle]

-----------------------------------------------------------------------------
\* The thread of processor c is at p, and the processor is not inside the
\* last instructions of task_switch_asm.
At(c, p) == prev[c] = NONE /\ pc[cur[c]] = p

Goto(c, p) == pc' = [pc EXCEPT ![cur[c]] = p] /\ UNCHANGED nxt

\* The thread begins an operation on x at p.
Begin(c, p, x) ==
  /\ pc' = [pc EXCEPT ![cur[c]] = p]
  /\ nxt' = [nxt EXCEPT ![cur[c]] = x]

\* The operation is over: its argument is forgotten.
Return(c) == Begin(c, "run", NONE)

\* Mutant: the wrong active word is cleared (rax for rcx in the assembly).
DropCurrent(c) == active' = [active EXCEPT ![cur[c]] = 0] /\ Return(c)

\* The thread gives up the structure it owns, and returns.
Drop(c) ==
  /\ active' = [active EXCEPT ![nxt[cur[c]]] = 0]
  /\ Return(c)

(***************************************************************************)
(* task_switch(n): the first test, done without any protection.            *)
(***************************************************************************)
SwitchEntry(c, n) ==
  /\ At(c, "run")
  /\ place[n] # "none"
  /\ active[n] = 0
  /\ stopped[n] = 0
  /\ Begin(c, "entry", n)
  /\ UNCHANGED <<cur, prev, active, stopped, detached, uniproc, event,
                 disable, place, ctx, outer>>

(***************************************************************************)
(* An interrupt is taken: before task_switch disables interrupts, or while *)
(* task_create or the caretaker owns another structure.  The handler ends  *)
(* in event_yield or task_yield, which call task_switch themselves; when   *)
(* that is over the interrupted operation continues with what it knew.     *)
(***************************************************************************)
Interrupt(c) ==
  LET t == cur[c] IN
  /\ prev[c] = NONE
  /\ t \in Nesters
  /\ pc[t] \in {"entry", "create", "recycle"}
  /\ outer[t] = Idle
  /\ outer' = [outer EXCEPT ![t] = [pc |-> pc[t], nxt |-> nxt[t]]]
  /\ Return(c)
  /\ UNCHANGED <<cur, prev, active, stopped, detached, uniproc, event,
                 disable, place, ctx>>

InterruptReturn(c) ==
  LET t == cur[c] IN
  /\ At(c, "run")
  /\ outer[t] # Idle
  /\ Begin(c, outer[t].pc, outer[t].nxt)
  /\ outer' = [outer EXCEPT ![t] = Idle]
  /\ UNCHANGED <<cur, prev, active, stopped, detached, uniproc, event,
                 disable, place, ctx>>

\* Interrupts are disabled; a uniproc task is skipped on other processors.
SwitchCli(c) ==
  LET n == nxt[cur[c]] IN
  /\ At(c, "entry")
  /\ \/ uniproc[n] = 1 /\ c # Bsp /\ Return(c)
     \/ ~(uniproc[n] = 1 /\ c # Bsp) /\ Goto(c, "cli")
  /\ UNCHANGED <<cur, prev, active, stopped, detached, uniproc, event,
                 disable, place, ctx, outer>>

\* spin_trylock(&next->active)
SwitchTrylock(c) ==
  LET n == nxt[cur[c]] IN
  /\ At(c, "cli")
  /\ \/ /\ active[n] = 0
        /\ active' = [active EXCEPT ![n] = 1]
        /\ Goto(c, "locked")
     \/ /\ active[n] = 1
        /\ Return(c)
        /\ UNCHANGED active
  /\ UNCHANGED <<cur, prev, stopped, detached, uniproc, event, disable,
                 place, ctx, outer>>

\* Mutant: stopped is only tested before the lock.
RefuseRunsStopped(c, n) == uniproc[n] = 1 /\ c # Bsp

\* Mutant: uniproc is only tested before the lock.
RefuseIgnoresUniproc(c, n) == stopped[n] = 1

\* The tests that were made without protection are repeated.
Refuse(c, n) == stopped[n] = 1 \/ (uniproc[n] = 1 /\ c # Bsp)

(***************************************************************************)
(* The tests made while next->active is owned.  What the event function    *)
(* returns depends on the rest of the system: both outcomes are possible.  *)
(***************************************************************************)
SwitchTest(c) ==
  LET n == nxt[cur[c]] IN
  /\ At(c, "locked")
  /\ \/ /\ Refuse(c, n) \/ event[n] # "null"
        /\ Drop(c)
        /\ UNCHANGED event
     \/ /\ ~Refuse(c, n)
        /\ event' = [event EXCEPT ![n] = "null"]
        /\ Goto(c, "asm")
        /\ UNCHANGED active
  /\ UNCHANGED <<cur, prev, stopped, detached, uniproc, disable, place, ctx,
                 outer>>

\* Mutant: one call of task_switch_disable is not enough.
SwitchingDisabledTwice(t) == disable[t] > 1

\* asm_data1 >= 2
SwitchingDisabled(t) == disable[t] > 0

\* task_switch_asm: refuse if switching is disabled, else save the context.
SwitchSave(c) ==
  LET t == cur[c] IN
  /\ At(c, "asm")
  /\ \/ /\ SwitchingDisabled(t)
        /\ Drop(c)
        /\ UNCHANGED ctx
     \/ /\ ~SwitchingDisabled(t)
        /\ ctx' = [ctx EXCEPT ![t] = "saved"]
        /\ Goto(c, "load")
        /\ UNCHANGED active
  /\ UNCHANGED <<cur, prev, stopped, detached, uniproc, event, disable,
                 place, outer>>

\* rsp = next->sp: from here on the processor is on the next task's stack.
SwitchLoad(c) ==
  LET t == cur[c]
      n == nxt[t]
  IN
  /\ At(c, "load")
  /\ cur' = [cur EXCEPT ![c] = n]
  /\ prev' = [prev EXCEPT ![c] = t]
  /\ ctx' = [ctx EXCEPT ![n] = "live"]
  /\ Return(c)
  /\ UNCHANGED <<active, stopped, detached, uniproc, event, disable, place,
                 outer>>

\* The last step of task_switch_asm clears the previous task's active word.
SwitchClearPrev(c) ==
  /\ prev[c] # NONE
  /\ active' = [active EXCEPT ![prev[c]] = 0]
  /\ prev' = [prev EXCEPT ![c] = NONE]
  /\ UNCHANGED <<cur, stopped, detached, uniproc, event, disable, place, ctx,
                 pc, nxt, outer>>

-----------------------------------------------------------------------------
(***************************************************************************)
(* task_check_event(x) from the scheduler: poll another task's event       *)
(* function while owning its active word.  The test of event.func before   *)
(* that is unprotected, so the function may have been reset meanwhile.     *)
(***************************************************************************)
CheckEvent(c, x) ==
  /\ At(c, "run")
  /\ place[x] # "none"
  /\ active[x] = 0
  /\ active' = [active EXCEPT ![x] = 1]
  /\ Begin(c, "check", x)
  /\ UNCHANGED <<cur, prev, stopped, detached, uniproc, event, disable,
                 place, ctx, outer>>

CheckEventDone(c) ==
  /\ At(c, "check")
  /\ Drop(c)
  /\ UNCHANGED <<cur, prev, stopped, detached, uniproc, event, disable,
                 place, ctx, outer>>

(***************************************************************************)
(* The functions below are called by the thread itself, not by an          *)
(* interrupt handler, and not after it has been stopped.                   *)
(***************************************************************************)
Calls(c) == At(c, "run") /\ outer[cur[c]] = Idle /\ stopped[cur[c]] = 0

\* task_write_event, and task_read_event when the event function returns 0.
WriteEvent(c) ==
  /\ Calls(c)
  /\ cur[c] \in Waiters
  /\ event' = [event EXCEPT ![cur[c]] = "func"]
  /\ UNCHANGED <<cur, prev, active, stopped, detached, uniproc, disable,
                 place, ctx, pc, nxt, outer>>

ReadEvent(c) ==
  /\ Calls(c)
  /\ event[cur[c]] = "func"
  /\ event' = [event EXCEPT ![cur[c]] = "null"]
  /\ UNCHANGED <<cur, prev, active, stopped, detached, uniproc, disable,
                 place, ctx, pc, nxt, outer>>

SwitchDisable(c) ==
  /\ Calls(c)
  /\ cur[c] \in Pinners
  /\ disable[cur[c]] < MaxDisable
  /\ disable' = [disable EXCEPT ![cur[c]] = @ + 1]
  /\ UNCHANGED <<cur, prev, active, stopped, detached, uniproc, event, place,
                 ctx, pc, nxt, outer>>

\* Mutant: an unbalanced call is not noticed.
SwitchEnableUnbalanced(c) ==
  /\ Calls(c)
  /\ disable' = [disable EXCEPT ![cur[c]] = @ - 1]
  /\ UNCHANGED <<cur, prev, active, stopped, detached, uniproc, event, place,
                 ctx, pc, nxt, outer>>

SwitchEnable(c) ==
  /\ Calls(c)
  /\ disable[cur[c]] > 0
  /\ disable' = [disable EXCEPT ![cur[c]] = @ - 1]
  /\ UNCHANGED <<cur, prev, active, stopped, detached, uniproc, event, place,
                 ctx, pc, nxt, outer>>

-----------------------------------------------------------------------------
\* Mutant: the structure is put on the list without its active word set.
LockNewUnlocked(x) == active' = [active EXCEPT ![x] = 0]

\* A structure of the pool is locked already, a new one is locked at once.
LockNew(x) == active' = [active EXCEPT ![x] = 1]

(***************************************************************************)
(* task_create: the structure comes from the pool or from the page         *)
(* allocator and is put on the list, visible to every processor, before it *)
(* is initialised; its active word is set all the time.                    *)
(***************************************************************************)
Create(c, x) ==
  /\ Calls(c)
  /\ place[x] \in {"pool", "none"}
  /\ place' = [place EXCEPT ![x] = "list"]
  /\ LockNew(x)
  /\ Begin(c, "create", x)
  /\ UNCHANGED <<cur, prev, stopped, detached, uniproc, event, disable, ctx,
                 outer>>

\* The rest of task_create: the type, task_create_asm, then the unlock.
CreateDone(c, d, u) ==
  LET x == nxt[cur[c]] IN
  /\ At(c, "create")
  /\ detached' = [detached EXCEPT ![x] = d]
  /\ uniproc' = [uniproc EXCEPT ![x] = u]
  /\ event' = [event EXCEPT ![x] = "null"]
  /\ ctx' = [ctx EXCEPT ![x] = "saved"]
  /\ Drop(c)
  /\ UNCHANGED <<cur, prev, stopped, disable, place, outer>>

(***************************************************************************)
(* task_exit: the task is marked stopped while it still runs on its stack; *)
(* from then on it only calls task_yield.                                  *)
(***************************************************************************)
Exit(c) ==
  /\ Calls(c)
  /\ cur[c] \notin {Head, Caretaker}
  /\ event[cur[c]] = "null"
  /\ disable[cur[c]] = 0
  /\ stopped' = [stopped EXCEPT ![cur[c]] = 1]
  /\ UNCHANGED <<cur, prev, active, detached, uniproc, event, disable, place,
                 ctx, pc, nxt, outer>>

\* task_wait_descendant: the owner claims the return value of x, once.
Reap(c, x) ==
  /\ Calls(c)
  /\ x # cur[c]
  /\ place[x] = "list"
  /\ stopped[x] = 1
  /\ detached[x] = 0
  /\ detached' = [detached EXCEPT ![x] = 1]
  /\ UNCHANGED <<cur, prev, active, stopped, uniproc, event, disable, place,
                 ctx, pc, nxt, outer>>

\* Mutant: the caretaker does not wait for the processor to leave the stack.
RecyclableRunning(x) ==
  place[x] = "list" /\ detached[x] = 1 /\ stopped[x] = 1

\* The tests of the caretaker up to spin_trylock(&t1->active).
Recyclable(x) ==
  place[x] = "list" /\ detached[x] = 1 /\ stopped[x] = 1 /\ active[x] = 0

(***************************************************************************)
(* task_caretaker: own the structure, then take it from the list, clear it *)
(* and put it into the pool with its active word still set.                *)
(***************************************************************************)
Recycle(c, x) ==
  /\ Calls(c)
  /\ cur[c] = Caretaker
  /\ Recyclable(x)
  /\ active' = [active EXCEPT ![x] = 1]
  /\ Begin(c, "recycle", x)
  /\ UNCHANGED <<cur, prev, stopped, detached, uniproc, event, disable,
                 place, ctx, outer>>

\* An assumption about the list does not hold any more: try again later.
RecycleError(c) ==
  /\ At(c, "recycle")
  /\ Drop(c)
  /\ UNCHANGED <<cur, prev, stopped, detached, uniproc, event, disable,
                 place, ctx, outer>>

RecycleDone(c) ==
  LET x == nxt[cur[c]] IN
  /\ At(c, "recycle")
  /\ place' = [place EXCEPT ![x] = "pool"]
  /\ ctx' = [ctx EXCEPT ![x] = "none"]
  /\ stopped' = [stopped EXCEPT ![x] = 0]
  /\ detached' = [detached EXCEPT ![x] = 0]
  /\ uniproc' = [uniproc EXCEPT ![x] = 0]
  /\ event' = [event EXCEPT ![x] = "zero"]
  /\ disable' = [disable EXCEPT ![x] = 0]
  /\ outer' = [outer EXCEPT ![x] = Idle]
  /\ Return(c)
  /\ UNCHANGED <<cur, prev, active>>

-----------------------------------------------------------------------------
SwitchStep(c) ==
  \/ \E n \in Task : SwitchEntry(c, n)
  \/ Interrupt(c) \/ InterruptReturn(c)
  \/ SwitchCli(c) \/ SwitchTrylock(c) \/ SwitchTest(c)
  \/ SwitchSave(c) \/ SwitchLoad(c) \/ SwitchClearPrev(c)

EventStep(c) ==
  \/ \E x \in Task : CheckEvent(c, x)
  \/ CheckEventDone(c) \/ WriteEvent(c) \/ ReadEvent(c)
  \/ SwitchDisable(c) \/ SwitchEnable(c)

LifeStep(c) ==
  \/ \E x \in Task : Create(c, x) \/ Reap(c, x) \/ Recycle(c, x)
  \/ \E d, u \in {0, 1} : CreateDone(c, d, u)
  \/ Exit(c) \/ RecycleError(c) \/ RecycleDone(c)

Next == \E c \in Cpu : SwitchStep(c) \/ EventStep(c) \/ LifeStep(c)

Spec == Init /\ [][Next]_vars

-----------------------------------------------------------------------------
(***************************************************************************)
(* Two processors never execute on the same kernel stack, not even while   *)
(* one of them is still leaving it (task_switch, task_switch_asm).         *)
(***************************************************************************)
StackExclusive ==
  \A c, d \in Cpu : c # d => /\ cur[c] # cur[d]
                             /\ prev[c] # cur[d]

(***************************************************************************)
(* The caretaker never clears or reuses a structure whose stack some       *)
(* processor is on, although a task is marked stopped and can be reaped    *)
(* while it still runs (task_exit, task_caretaker).                        *)
(***************************************************************************)
PoolNotRunning ==
  \A x \in Task : place[x] = "pool" =>
    \A c \in Cpu : cur[c] # x /\ prev[c] # x

(***************************************************************************)
(* A processor only switches to a task whose context is completely saved:  *)
(* not to a task that another processor is still leaving, and not to one   *)
(* that is on the list but not yet initialised (task_switch_asm,           *)
(* task_create).                                                           *)
(***************************************************************************)
LoadsSavedContext ==
  [][\A c \in Cpu : cur'[c] # cur[c] => ctx[cur'[c]] = "saved"]_vars

\* A stopped task that has left its processor never runs again (task_switch).
StoppedStaysOut ==
  [][\A c \in Cpu : cur'[c] # cur[c] => stopped[cur'[c]] = 0]_vars

(***************************************************************************)
(* A uniproc task only ever runs on the bootstrap processor, even if the   *)
(* structure was recycled between the two tests of task_switch.            *)
(***************************************************************************)
UniprocOnBsp == \A c \in Cpu : uniproc[cur[c]] = 1 => c = Bsp

(***************************************************************************)
(* A thread that has called task_switch_disable stays on its processor,    *)
(* whatever interrupt handlers call task_switch meanwhile.                 *)
(***************************************************************************)
DisabledStays ==
  [][\A c \in Cpu : disable[cur[c]] > 0 => cur'[c] = cur[c]]_vars

(***************************************************************************)
(* Nobody calls the event function of a structure that memset has cleared: *)
(* the list shows structures before task_create has set event.func.        *)
(***************************************************************************)
NoNullEventCall ==
  \A t \in Task : pc[t] \in {"locked", "check"} => event[nxt[t]] # "zero"

-----------------------------------------------------------------------------
(***************************************************************************)
(* Why this works: every active word has at most one owner, and an owner   *)
(* only gives up a structure that is fit to run.                           *)
(***************************************************************************)
\* The thread t owns the active word of x, besides that of its own stack.
Holds(t, x) ==
  \/ pc[t] \in Owning /\ nxt[t] = x
  \/ outer[t].pc \in Owning /\ outer[t].nxt = x

\* x can be switched to: it has a thread, and event.func can be called.
Fit(x) == ctx[x] = "saved" /\ event[x] # "zero"

\* A thread is inside an operation only while a processor executes it.
OperationsOnCpu ==
  \A t \in Task :
    /\ pc[t] # "run" => /\ \E c \in Cpu : cur[c] = t /\ prev[c] = NONE
                        /\ nxt[t] \in Task
                        /\ place[nxt[t]] # "none"
    /\ outer[t] # Idle => place[outer[t].nxt] # "none"

\* A processor owns the structure it is on and the one it is leaving.
CpuOwns ==
  \A c \in Cpu :
    /\ active[cur[c]] = 1 /\ place[cur[c]] = "list" /\ event[cur[c]] # "zero"
    /\ prev[c] # NONE => /\ active[prev[c]] = 1
                         /\ place[prev[c]] = "list"
                         /\ Fit(prev[c])

CpuExclusive ==
  \A c, d \in Cpu :
    /\ cur[c] = cur[d] => c = d
    /\ prev[c] # cur[d]
    /\ prev[c] # NONE /\ prev[c] = prev[d] => c = d

\* What a thread owns besides its own stack is on the list, on no processor.
ThreadOwns ==
  \A t, x \in Task : Holds(t, x) =>
    /\ active[x] = 1
    /\ place[x] = "list"
    /\ \A c \in Cpu : cur[c] # x /\ prev[c] # x

ThreadExclusive ==
  /\ \A s, t, x \in Task : Holds(s, x) /\ Holds(t, x) => s = t
  /\ \A t \in Task : pc[t] \in Owning /\ outer[t].pc \in Owning =>
                       nxt[t] # outer[t].nxt

PoolOwned == \A x \in Task : place[x] = "pool" => active[x] = 1

\* What nobody owns, or what is owned to be switched to, is fit to run.
FreeIsFit ==
  /\ \A x \in Task : place[x] = "list" /\ active[x] = 0 => Fit(x)
  /\ \A t \in Task :
       /\ pc[t] \in Owning \ {"create"} => Fit(nxt[t])
       /\ outer[t].pc = "recycle" => Fit(outer[t].nxt)

\* What the tests of task_switch have established is still true later.
SwitchTests ==
  \A t \in Task :
    /\ pc[t] \in {"asm", "load"} =>
         stopped[nxt[t]] = 0 /\ (uniproc[nxt[t]] = 1 => cur[Bsp] = t)
    /\ pc[t] = "load" => disable[t] = 0 /\ ctx[t] = "saved"

Ownership ==
  /\ OperationsOnCpu
  /\ CpuOwns
  /\ CpuExclusive
  /\ ThreadOwns
  /\ ThreadExclusive
  /\ PoolOwned
  /\ FreeIsFit
  /\ SwitchTests
  /\ UniprocOnBsp

=============================================================================
