-------------------------- MODULE TaskSwitchProofs --------------------------
(***************************************************************************)
(* Proofs about the ownership protocol of base/task.c and a64/task.asm,    *)
(* for any number of processors, tasks and nested disable calls.           *)
(*                                                                         *)
(* Ownership (in TaskSwitch) is the inductive invariant.  That no two      *)
(* processors share a stack is not inductive by itself: a thread that      *)
(* called spin_trylock on an active word must be its only owner until it   *)
(* switches, against the other processors, the creator and the caretaker.  *)
(* Each lemma below is one step of a thread.                               *)
(***************************************************************************)
EXTENDS TaskSwitch, TLAPS
USE DEF Pc, IntsOff, Owning, Idle, Operation, Ctx, Func

\* An operation that owns nothing is given up.
LEMMA ReturnStep ==
  ASSUME TypeOK, Ownership, NEW c \in Cpu,
         prev[c] = NONE, pc[cur[c]] \notin Owning, Return(c),
         UNCHANGED <<cur, prev, active, stopped, detached, uniproc, event,
                     disable, place, ctx, outer>>
  PROVE  TypeOK' /\ Ownership'
<1>1. TypeOK'
  BY DEF Begin, Return, Ownership, TypeOK
<1>2. OperationsOnCpu'
  BY DEF Begin, Return, Ownership, TypeOK, OperationsOnCpu
<1>3. ThreadOwns'
  BY DEF Begin, Return, Ownership, Holds, ThreadOwns
<1>4. ThreadExclusive'
  BY DEF Begin, Return, Ownership, Holds, ThreadExclusive
<1>5. FreeIsFit'
  BY DEF Begin, Return, Ownership, Fit, FreeIsFit
<1>6. SwitchTests'
  BY DEF Begin, Return, Ownership, SwitchTests
<1>7. CpuOwns' /\ CpuExclusive' /\ PoolOwned' /\ UniprocOnBsp'
  BY DEF Begin, Return, Ownership, Fit, CpuOwns, CpuExclusive, PoolOwned,
         UniprocOnBsp
<1> QED BY <1>1, <1>2, <1>3, <1>4, <1>5, <1>6, <1>7 DEF Ownership

\* An operation gives up the structure it owns, which is fit to run.
LEMMA DropStep ==
  ASSUME TypeOK, Ownership, NEW c \in Cpu,
         prev[c] = NONE, pc[cur[c]] \in Owning \ {"create"}, Drop(c),
         UNCHANGED <<cur, prev, stopped, detached, uniproc, event,
                     disable, place, ctx, outer>>
  PROVE  TypeOK' /\ Ownership'
<1>1. TypeOK'
  BY DEF Begin, Return, Drop, Ownership, TypeOK
<1>2. OperationsOnCpu'
  BY DEF Begin, Return, Drop, Ownership, TypeOK, OperationsOnCpu
<1>3. CpuOwns'
  BY DEF Begin, Return, Drop, Ownership, ThreadOwns, TypeOK, Holds, Fit,
         CpuOwns
<1>4. ThreadOwns'
  BY DEF Begin, Return, Drop, Ownership, ThreadExclusive, TypeOK, Holds,
         ThreadOwns
<1>5. ThreadExclusive'
  BY DEF Begin, Return, Drop, Ownership, TypeOK, Holds, ThreadExclusive
<1>6. PoolOwned'
  BY DEF Begin, Return, Drop, Ownership, ThreadOwns, TypeOK, Holds, PoolOwned
<1>7. FreeIsFit'
  BY DEF Begin, Return, Drop, Ownership, TypeOK, Fit, FreeIsFit
<1>8. SwitchTests'
  BY DEF Begin, Return, Drop, Ownership, TypeOK, SwitchTests
<1>9. CpuExclusive' /\ UniprocOnBsp'
  BY DEF Begin, Return, Drop, Ownership, CpuExclusive, UniprocOnBsp
<1> QED BY <1>1, <1>2, <1>3, <1>4, <1>5, <1>6, <1>7, <1>8, <1>9 DEF Ownership

\* task_switch has disabled interrupts.
LEMMA CliStep ==
  ASSUME TypeOK, Ownership, NEW c \in Cpu, At(c, "entry"), Goto(c, "cli"),
         UNCHANGED <<cur, prev, active, stopped, detached, uniproc, event,
                     disable, place, ctx, outer>>
  PROVE  TypeOK' /\ Ownership'
<1>1. TypeOK'
  BY DEF At, Goto, Ownership, TypeOK
<1>2. OperationsOnCpu'
  BY DEF At, Goto, Ownership, OperationsOnCpu
<1>3. ThreadOwns'
  BY DEF At, Goto, Ownership, Holds, ThreadOwns
<1>4. ThreadExclusive'
  BY DEF At, Goto, Ownership, Holds, ThreadExclusive
<1>5. FreeIsFit'
  BY DEF At, Goto, Ownership, Fit, FreeIsFit
<1>6. SwitchTests'
  BY DEF At, Goto, Ownership, SwitchTests
<1>7. CpuOwns' /\ CpuExclusive' /\ PoolOwned' /\ UniprocOnBsp'
  BY DEF At, Goto, Ownership, Fit, CpuOwns, CpuExclusive, PoolOwned,
         UniprocOnBsp
<1> QED BY <1>1, <1>2, <1>3, <1>4, <1>5, <1>6, <1>7 DEF Ownership

\* task_switch has acquired next->active.
LEMMA TrylockStep ==
  ASSUME TypeOK, Ownership, NEW c \in Cpu,
         At(c, "cli"), active[nxt[cur[c]]] = 0, Goto(c, "locked"),
         active' = [active EXCEPT ![nxt[cur[c]]] = 1],
         UNCHANGED <<cur, prev, stopped, detached, uniproc, event,
                     disable, place, ctx, outer>>
  PROVE  TypeOK' /\ Ownership'
<1>1. TypeOK'
  BY DEF At, Goto, Ownership, TypeOK
<1>2. OperationsOnCpu'
  BY DEF At, Goto, Ownership, OperationsOnCpu
<1>3. CpuOwns'
  BY DEF At, Goto, Ownership, Fit, CpuOwns
<1>4. ThreadOwns'
  BY BootAssumption DEF At, Goto, Ownership, PoolOwned, CpuOwns,
         OperationsOnCpu, TypeOK, Holds, ThreadOwns
<1>5. ThreadExclusive'
  BY DEF At, Goto, Ownership, ThreadOwns, OperationsOnCpu, Holds,
         ThreadExclusive
<1>6. PoolOwned'
  BY DEF At, Goto, Ownership, PoolOwned
<1>7. FreeIsFit'
  BY DEF At, Goto, Ownership, PoolOwned, OperationsOnCpu, TypeOK, Fit,
         FreeIsFit
<1>8. SwitchTests'
  BY DEF At, Goto, Ownership, SwitchTests
<1>9. CpuExclusive' /\ UniprocOnBsp'
  BY DEF At, Goto, Ownership, CpuExclusive, UniprocOnBsp
<1> QED BY <1>1, <1>2, <1>3, <1>4, <1>5, <1>6, <1>7, <1>8, <1>9 DEF Ownership

\* task_switch has tested the structure it owns.
LEMMA TestStep ==
  ASSUME TypeOK, Ownership, NEW c \in Cpu,
         At(c, "locked"), stopped[nxt[cur[c]]] = 0,
         uniproc[nxt[cur[c]]] = 1 => c = Bsp,
         event' = [event EXCEPT ![nxt[cur[c]]] = "null"], Goto(c, "asm"),
         UNCHANGED <<cur, prev, active, stopped, detached, uniproc,
                     disable, place, ctx, outer>>
  PROVE  TypeOK' /\ Ownership'
<1>1. TypeOK'
  BY DEF At, Goto, Ownership, TypeOK
<1>2. OperationsOnCpu'
  BY DEF At, Goto, Ownership, OperationsOnCpu
<1>3. CpuOwns'
  BY DEF At, Goto, Ownership, Fit, CpuOwns
<1>4. ThreadOwns'
  BY DEF At, Goto, Ownership, Holds, ThreadOwns
<1>5. ThreadExclusive'
  BY DEF At, Goto, Ownership, Holds, ThreadExclusive
<1>6. FreeIsFit'
  BY DEF At, Goto, Ownership, Fit, FreeIsFit
<1>7. SwitchTests'
  BY DEF At, Goto, Ownership, SwitchTests
<1>8. CpuExclusive' /\ PoolOwned' /\ UniprocOnBsp'
  BY DEF At, Goto, Ownership, CpuExclusive, PoolOwned, UniprocOnBsp
<1> QED BY <1>1, <1>2, <1>3, <1>4, <1>5, <1>6, <1>7, <1>8 DEF Ownership

\* task_switch_asm has saved the context of the thread it leaves.
LEMMA SaveStep ==
  ASSUME TypeOK, Ownership, NEW c \in Cpu, At(c, "asm"), disable[cur[c]] = 0,
         ctx' = [ctx EXCEPT ![cur[c]] = "saved"], Goto(c, "load"),
         UNCHANGED <<cur, prev, active, stopped, detached, uniproc, event,
                     disable, place, outer>>
  PROVE  TypeOK' /\ Ownership'
<1>1. TypeOK'
  BY DEF At, Goto, Ownership, TypeOK
<1>2. OperationsOnCpu'
  BY DEF At, Goto, Ownership, OperationsOnCpu
<1>3. CpuOwns'
  BY DEF At, Goto, Ownership, Fit, CpuOwns
<1>4. ThreadOwns'
  BY DEF At, Goto, Ownership, Holds, ThreadOwns
<1>5. ThreadExclusive'
  BY DEF At, Goto, Ownership, Holds, ThreadExclusive
<1>6. FreeIsFit'
  BY DEF At, Goto, Ownership, Fit, FreeIsFit
<1>7. SwitchTests'
  BY DEF At, Goto, Ownership, TypeOK, SwitchTests
<1>8. CpuExclusive' /\ PoolOwned' /\ UniprocOnBsp'
  BY DEF At, Goto, Ownership, CpuExclusive, PoolOwned, UniprocOnBsp
<1> QED BY <1>1, <1>2, <1>3, <1>4, <1>5, <1>6, <1>7, <1>8 DEF Ownership

\* task_switch is called.
LEMMA SwitchEntryStep ==
  ASSUME TypeOK, Ownership, NEW c \in Cpu, NEW n \in Task, SwitchEntry(c, n)
  PROVE  TypeOK' /\ Ownership'
<1>1. TypeOK'
  BY DEF SwitchEntry, At, Begin, Ownership, TypeOK
<1>2. OperationsOnCpu'
  BY DEF SwitchEntry, At, Begin, Ownership, TypeOK, OperationsOnCpu
<1>3. ThreadOwns'
  BY DEF SwitchEntry, At, Begin, Ownership, Holds, ThreadOwns
<1>4. ThreadExclusive'
  BY DEF SwitchEntry, At, Begin, Ownership, Holds, ThreadExclusive
<1>5. FreeIsFit'
  BY DEF SwitchEntry, At, Begin, Ownership, Fit, FreeIsFit
<1>6. SwitchTests'
  BY DEF SwitchEntry, At, Begin, Ownership, SwitchTests
<1>7. CpuOwns' /\ CpuExclusive' /\ PoolOwned' /\ UniprocOnBsp'
  BY DEF SwitchEntry, At, Begin, Ownership, Fit, CpuOwns, CpuExclusive,
         PoolOwned, UniprocOnBsp
<1> QED BY <1>1, <1>2, <1>3, <1>4, <1>5, <1>6, <1>7 DEF Ownership

\* An interrupt handler begins inside an operation.
LEMMA InterruptStep ==
  ASSUME TypeOK, Ownership, NEW c \in Cpu, Interrupt(c)
  PROVE  TypeOK' /\ Ownership'
<1>1. TypeOK'
  BY DEF Interrupt, Begin, Return, Ownership, OperationsOnCpu, TypeOK
<1>2. OperationsOnCpu'
  BY DEF Interrupt, Begin, Return, Ownership, TypeOK, OperationsOnCpu
<1>3. ThreadOwns'
  BY DEF Interrupt, Begin, Return, Ownership, TypeOK, Holds, ThreadOwns
<1>4. ThreadExclusive'
  BY DEF Interrupt, Begin, Return, Ownership, TypeOK, Holds, ThreadExclusive
<1>5. FreeIsFit'
  BY DEF Interrupt, Begin, Return, Ownership, TypeOK, Fit, FreeIsFit
<1>6. SwitchTests'
  BY DEF Interrupt, Begin, Return, Ownership, SwitchTests
<1>7. CpuOwns' /\ CpuExclusive' /\ PoolOwned' /\ UniprocOnBsp'
  BY DEF Interrupt, Begin, Return, Ownership, Fit, CpuOwns, CpuExclusive,
         PoolOwned, UniprocOnBsp
<1> QED BY <1>1, <1>2, <1>3, <1>4, <1>5, <1>6, <1>7 DEF Ownership

\* The interrupted operation continues.
LEMMA InterruptReturnStep ==
  ASSUME TypeOK, Ownership, NEW c \in Cpu, InterruptReturn(c)
  PROVE  TypeOK' /\ Ownership'
<1>0. outer[cur[c]].pc \in {"entry", "create", "recycle"}
  BY DEF InterruptReturn, TypeOK
<1>1. TypeOK'
  BY DEF InterruptReturn, At, Begin, Ownership, TypeOK
<1>2. OperationsOnCpu'
  BY DEF InterruptReturn, At, Begin, Ownership, TypeOK, OperationsOnCpu
<1>3. ThreadOwns'
  BY DEF InterruptReturn, At, Begin, Ownership, TypeOK, Holds, ThreadOwns
<1>4. ThreadExclusive'
  BY DEF InterruptReturn, At, Begin, Ownership, TypeOK, Holds, ThreadExclusive
<1>5. FreeIsFit'
  BY DEF InterruptReturn, At, Begin, Ownership, TypeOK, Fit, FreeIsFit
<1>6. SwitchTests'
  BY <1>0 DEF InterruptReturn, At, Begin, Ownership, TypeOK, SwitchTests
<1>7. CpuOwns' /\ CpuExclusive' /\ PoolOwned' /\ UniprocOnBsp'
  BY DEF InterruptReturn, At, Begin, Ownership, Fit, CpuOwns, CpuExclusive,
         PoolOwned, UniprocOnBsp
<1> QED BY <1>1, <1>2, <1>3, <1>4, <1>5, <1>6, <1>7 DEF Ownership

\* task_switch_asm has loaded the next stack pointer.
LEMMA SwitchLoadStep ==
  ASSUME TypeOK, Ownership, NEW c \in Cpu, SwitchLoad(c)
  PROVE  TypeOK' /\ Ownership'
<1>1. TypeOK'
  BY DEF SwitchLoad, At, Begin, Return, Ownership, OperationsOnCpu, TypeOK
<1>2. OperationsOnCpu'
  BY DEF SwitchLoad, At, Begin, Return, Ownership, TypeOK, OperationsOnCpu
<1>3. CpuOwns'
  BY DEF SwitchLoad, At, Begin, Return, Ownership, SwitchTests, FreeIsFit,
         ThreadOwns, OperationsOnCpu, TypeOK, Holds, Fit, CpuOwns
<1>4. CpuExclusive'
  BY DEF SwitchLoad, At, Begin, Return, Ownership, ThreadOwns,
         OperationsOnCpu, TypeOK, Holds, CpuExclusive
<1>5. ThreadOwns'
  BY DEF SwitchLoad, At, Begin, Return, Ownership, ThreadExclusive, TypeOK,
         Holds, ThreadOwns
<1>6. ThreadExclusive'
  BY DEF SwitchLoad, At, Begin, Return, Ownership, TypeOK, Holds,
         ThreadExclusive
<1>7. FreeIsFit'
  BY DEF SwitchLoad, At, Begin, Return, Ownership, ThreadExclusive,
         ThreadOwns, TypeOK, Holds, Fit, FreeIsFit
<1>8. SwitchTests'
  BY BootAssumption DEF SwitchLoad, At, Begin, Return, Ownership,
         UniprocOnBsp, ThreadOwns, OperationsOnCpu, TypeOK, Holds, SwitchTests
<1>9. UniprocOnBsp'
  BY BootAssumption DEF SwitchLoad, At, Begin, Return, Ownership, SwitchTests,
         CpuExclusive, TypeOK, UniprocOnBsp
<1>10. PoolOwned'
  BY DEF SwitchLoad, At, Begin, Return, Ownership, PoolOwned
<1> QED BY <1>1, <1>2, <1>3, <1>4, <1>5, <1>6, <1>7, <1>8, <1>9, <1>10 DEF Ownership

\* task_switch_asm has cleared the active word of the task it left.
LEMMA SwitchClearPrevStep ==
  ASSUME TypeOK, Ownership, NEW c \in Cpu, SwitchClearPrev(c)
  PROVE  TypeOK' /\ Ownership'
<1>1. TypeOK'
  BY DEF SwitchClearPrev, Ownership, TypeOK
<1>2. OperationsOnCpu'
  BY DEF SwitchClearPrev, Ownership, OperationsOnCpu
<1>3. CpuOwns'
  BY DEF SwitchClearPrev, Ownership, CpuExclusive, TypeOK, Fit, CpuOwns
<1>4. CpuExclusive'
  BY BootAssumption DEF SwitchClearPrev, Ownership, TypeOK, CpuExclusive
<1>5. ThreadOwns'
  BY BootAssumption DEF SwitchClearPrev, Ownership, Holds, ThreadOwns
<1>6. PoolOwned'
  BY DEF SwitchClearPrev, Ownership, CpuOwns, PoolOwned
<1>7. FreeIsFit'
  BY DEF SwitchClearPrev, Ownership, CpuOwns, Fit, FreeIsFit
<1>8. ThreadExclusive' /\ SwitchTests' /\ UniprocOnBsp'
  BY DEF SwitchClearPrev, Ownership, Holds, ThreadExclusive, SwitchTests,
         UniprocOnBsp
<1> QED BY <1>1, <1>2, <1>3, <1>4, <1>5, <1>6, <1>7, <1>8 DEF Ownership

\* task_check_event has acquired the structure.
LEMMA CheckEventStep ==
  ASSUME TypeOK, Ownership, NEW c \in Cpu, NEW x \in Task, CheckEvent(c, x)
  PROVE  TypeOK' /\ Ownership'
<1>1. TypeOK'
  BY DEF CheckEvent, At, Begin, Ownership, TypeOK
<1>2. OperationsOnCpu'
  BY DEF CheckEvent, At, Begin, Ownership, TypeOK, OperationsOnCpu
<1>3. CpuOwns'
  BY DEF CheckEvent, At, Begin, Ownership, Fit, CpuOwns
<1>4. ThreadOwns'
  BY BootAssumption DEF CheckEvent, At, Begin, Ownership, PoolOwned, CpuOwns,
         TypeOK, Holds, ThreadOwns
<1>5. ThreadExclusive'
  BY DEF CheckEvent, At, Begin, Ownership, ThreadOwns, TypeOK, Holds,
         ThreadExclusive
<1>6. PoolOwned'
  BY DEF CheckEvent, At, Begin, Ownership, PoolOwned
<1>7. FreeIsFit'
  BY DEF CheckEvent, At, Begin, Ownership, PoolOwned, TypeOK, Fit, FreeIsFit
<1>8. SwitchTests'
  BY DEF CheckEvent, At, Begin, Ownership, SwitchTests
<1>9. CpuExclusive' /\ UniprocOnBsp'
  BY DEF CheckEvent, At, Begin, Ownership, CpuExclusive, UniprocOnBsp
<1> QED BY <1>1, <1>2, <1>3, <1>4, <1>5, <1>6, <1>7, <1>8, <1>9 DEF Ownership

\* task_write_event.
LEMMA WriteEventStep ==
  ASSUME TypeOK, Ownership, NEW c \in Cpu, WriteEvent(c)
  PROVE  TypeOK' /\ Ownership'
<1>1. TypeOK'
  BY DEF WriteEvent, Calls, At, Ownership, TypeOK
<1>2. CpuOwns'
  BY DEF WriteEvent, Calls, At, Ownership, Fit, CpuOwns
<1>3. FreeIsFit'
  BY DEF WriteEvent, Calls, At, Ownership, Fit, FreeIsFit
<1>4. /\ OperationsOnCpu'
     /\ CpuExclusive'
     /\ ThreadOwns'
     /\ ThreadExclusive'
     /\ PoolOwned'
     /\ SwitchTests'
     /\ UniprocOnBsp'
  BY DEF WriteEvent, Calls, At, Ownership, Holds, OperationsOnCpu,
         CpuExclusive, ThreadOwns, ThreadExclusive, PoolOwned, SwitchTests,
         UniprocOnBsp
<1> QED BY <1>1, <1>2, <1>3, <1>4 DEF Ownership

\* task_read_event.
LEMMA ReadEventStep ==
  ASSUME TypeOK, Ownership, NEW c \in Cpu, ReadEvent(c)
  PROVE  TypeOK' /\ Ownership'
<1>1. TypeOK'
  BY DEF ReadEvent, Calls, At, Ownership, TypeOK
<1>2. CpuOwns'
  BY DEF ReadEvent, Calls, At, Ownership, Fit, CpuOwns
<1>3. FreeIsFit'
  BY DEF ReadEvent, Calls, At, Ownership, Fit, FreeIsFit
<1>4. /\ OperationsOnCpu'
     /\ CpuExclusive'
     /\ ThreadOwns'
     /\ ThreadExclusive'
     /\ PoolOwned'
     /\ SwitchTests'
     /\ UniprocOnBsp'
  BY DEF ReadEvent, Calls, At, Ownership, Holds, OperationsOnCpu,
         CpuExclusive, ThreadOwns, ThreadExclusive, PoolOwned, SwitchTests,
         UniprocOnBsp
<1> QED BY <1>1, <1>2, <1>3, <1>4 DEF Ownership

\* task_switch_disable.
LEMMA SwitchDisableStep ==
  ASSUME TypeOK, Ownership, NEW c \in Cpu, SwitchDisable(c)
  PROVE  TypeOK' /\ Ownership'
<1>1. TypeOK'
  BY DEF SwitchDisable, Calls, At, Ownership, TypeOK
<1>2. SwitchTests'
  BY DEF SwitchDisable, Calls, At, Ownership, SwitchTests
<1>3. /\ OperationsOnCpu'
     /\ CpuOwns'
     /\ CpuExclusive'
     /\ ThreadOwns'
     /\ ThreadExclusive'
     /\ PoolOwned'
     /\ FreeIsFit'
     /\ UniprocOnBsp'
  BY DEF SwitchDisable, Calls, At, Ownership, Holds, Fit, OperationsOnCpu,
         CpuOwns, CpuExclusive, ThreadOwns, ThreadExclusive, PoolOwned,
         FreeIsFit, UniprocOnBsp
<1> QED BY <1>1, <1>2, <1>3 DEF Ownership

\* task_switch_enable.
LEMMA SwitchEnableStep ==
  ASSUME TypeOK, Ownership, NEW c \in Cpu, SwitchEnable(c)
  PROVE  TypeOK' /\ Ownership'
<1>1. TypeOK'
  BY DEF SwitchEnable, Calls, At, Ownership, TypeOK
<1>2. SwitchTests'
  BY DEF SwitchEnable, Calls, At, Ownership, SwitchTests
<1>3. /\ OperationsOnCpu'
     /\ CpuOwns'
     /\ CpuExclusive'
     /\ ThreadOwns'
     /\ ThreadExclusive'
     /\ PoolOwned'
     /\ FreeIsFit'
     /\ UniprocOnBsp'
  BY DEF SwitchEnable, Calls, At, Ownership, Holds, Fit, OperationsOnCpu,
         CpuOwns, CpuExclusive, ThreadOwns, ThreadExclusive, PoolOwned,
         FreeIsFit, UniprocOnBsp
<1> QED BY <1>1, <1>2, <1>3 DEF Ownership

\* task_create has put the structure on the list.
LEMMA CreateStep ==
  ASSUME TypeOK, Ownership, NEW c \in Cpu, NEW x \in Task, Create(c, x)
  PROVE  TypeOK' /\ Ownership'
<1>1. TypeOK'
  BY DEF Create, LockNew, Calls, At, Begin, Ownership, TypeOK
<1>2. OperationsOnCpu'
  BY DEF Create, LockNew, Calls, At, Begin, Ownership, TypeOK, OperationsOnCpu
<1>3. CpuOwns'
  BY DEF Create, LockNew, Calls, At, Begin, Ownership, Fit, CpuOwns
<1>4. ThreadOwns'
  BY BootAssumption DEF Create, LockNew, Calls, At, Begin, Ownership,
         CpuOwns, TypeOK,
         Holds, ThreadOwns
<1>5. ThreadExclusive'
  BY DEF Create, LockNew, Calls, At, Begin, Ownership, ThreadOwns, TypeOK,
         Holds,
         ThreadExclusive
<1>6. PoolOwned'
  BY DEF Create, LockNew, Calls, At, Begin, Ownership, PoolOwned
<1>7. FreeIsFit'
  BY DEF Create, LockNew, Calls, At, Begin, Ownership, TypeOK, Fit, FreeIsFit
<1>8. SwitchTests'
  BY DEF Create, LockNew, Calls, At, Begin, Ownership, SwitchTests
<1>9. CpuExclusive' /\ UniprocOnBsp'
  BY DEF Create, LockNew, Calls, At, Begin, Ownership, CpuExclusive,
         UniprocOnBsp
<1> QED BY <1>1, <1>2, <1>3, <1>4, <1>5, <1>6, <1>7, <1>8, <1>9 DEF Ownership

\* task_create has initialised the structure.
LEMMA CreateDoneStep ==
  ASSUME TypeOK, Ownership, NEW c \in Cpu,
         NEW d \in {0, 1}, NEW u \in {0, 1}, CreateDone(c, d, u)
  PROVE  TypeOK' /\ Ownership'
<1>1. TypeOK'
  BY DEF CreateDone, At, Begin, Return, Drop, Ownership, TypeOK
<1>2. OperationsOnCpu'
  BY DEF CreateDone, At, Begin, Return, Drop, Ownership, TypeOK,
         OperationsOnCpu
<1>3. CpuOwns'
  BY DEF CreateDone, At, Begin, Return, Drop, Ownership, ThreadOwns, TypeOK,
         Holds, Fit, CpuOwns
<1>4. ThreadOwns'
  BY DEF CreateDone, At, Begin, Return, Drop, Ownership, ThreadExclusive,
         TypeOK, Holds, ThreadOwns
<1>5. ThreadExclusive'
  BY DEF CreateDone, At, Begin, Return, Drop, Ownership, TypeOK, Holds,
         ThreadExclusive
<1>6. PoolOwned'
  BY DEF CreateDone, At, Begin, Return, Drop, Ownership, ThreadOwns, TypeOK,
         Holds, PoolOwned
<1>7. FreeIsFit'
  BY DEF CreateDone, At, Begin, Return, Drop, Ownership, TypeOK, Fit,
         FreeIsFit
<1>8. SwitchTests'
  BY DEF CreateDone, At, Begin, Return, Drop, Ownership, ThreadExclusive,
         TypeOK, Holds, SwitchTests
<1>9. UniprocOnBsp'
  BY DEF CreateDone, At, Begin, Return, Drop, Ownership, ThreadOwns, TypeOK,
         Holds, UniprocOnBsp
<1>10. CpuExclusive'
  BY DEF CreateDone, At, Begin, Return, Drop, Ownership, CpuExclusive
<1> QED BY <1>1, <1>2, <1>3, <1>4, <1>5, <1>6, <1>7, <1>8, <1>9, <1>10 DEF Ownership

\* task_exit.
LEMMA ExitStep ==
  ASSUME TypeOK, Ownership, NEW c \in Cpu, Exit(c)
  PROVE  TypeOK' /\ Ownership'
<1>1. TypeOK'
  BY DEF Exit, Calls, At, Ownership, TypeOK
<1>2. SwitchTests'
  BY DEF Exit, Calls, At, Ownership, ThreadOwns, TypeOK, Holds, SwitchTests
<1>3. /\ OperationsOnCpu'
     /\ CpuOwns'
     /\ CpuExclusive'
     /\ ThreadOwns'
     /\ ThreadExclusive'
     /\ PoolOwned'
     /\ FreeIsFit'
     /\ UniprocOnBsp'
  BY DEF Exit, Calls, At, Ownership, Holds, Fit, OperationsOnCpu, CpuOwns,
         CpuExclusive, ThreadOwns, ThreadExclusive, PoolOwned, FreeIsFit,
         UniprocOnBsp
<1> QED BY <1>1, <1>2, <1>3 DEF Ownership

\* task_wait_descendant.
LEMMA ReapStep ==
  ASSUME TypeOK, Ownership, NEW c \in Cpu, NEW x \in Task, Reap(c, x)
  PROVE  TypeOK' /\ Ownership'
<1>1. TypeOK'
  BY DEF Reap, Calls, At, Ownership, TypeOK
<1>2. /\ OperationsOnCpu'
     /\ CpuOwns'
     /\ CpuExclusive'
     /\ ThreadOwns'
     /\ ThreadExclusive'
     /\ PoolOwned'
     /\ FreeIsFit'
     /\ SwitchTests'
     /\ UniprocOnBsp'
  BY DEF Reap, Calls, At, Ownership, Holds, Fit, OperationsOnCpu, CpuOwns,
         CpuExclusive, ThreadOwns, ThreadExclusive, PoolOwned, FreeIsFit,
         SwitchTests, UniprocOnBsp
<1> QED BY <1>1, <1>2 DEF Ownership

\* task_caretaker has acquired the structure.
LEMMA RecycleStep ==
  ASSUME TypeOK, Ownership, NEW c \in Cpu, NEW x \in Task, Recycle(c, x)
  PROVE  TypeOK' /\ Ownership'
<1>1. TypeOK'
  BY DEF Recycle, Recyclable, Calls, At, Begin, Ownership, TypeOK
<1>2. OperationsOnCpu'
  BY DEF Recycle, Recyclable, Calls, At, Begin, Ownership, TypeOK,
         OperationsOnCpu
<1>3. CpuOwns'
  BY DEF Recycle, Recyclable, Calls, At, Begin, Ownership, Fit, CpuOwns
<1>4. ThreadOwns'
  BY BootAssumption DEF Recycle, Recyclable, Calls, At, Begin, Ownership,
         CpuOwns, TypeOK,
         Holds, ThreadOwns
<1>5. ThreadExclusive'
  BY DEF Recycle, Recyclable, Calls, At, Begin, Ownership, ThreadOwns,
         TypeOK, Holds,
         ThreadExclusive
<1>6. PoolOwned'
  BY DEF Recycle, Recyclable, Calls, At, Begin, Ownership, PoolOwned
<1>7. FreeIsFit'
  BY DEF Recycle, Recyclable, Calls, At, Begin, Ownership, TypeOK, Fit,
         FreeIsFit
<1>8. SwitchTests'
  BY DEF Recycle, Recyclable, Calls, At, Begin, Ownership, SwitchTests
<1>9. CpuExclusive' /\ UniprocOnBsp'
  BY DEF Recycle, Recyclable, Calls, At, Begin, Ownership, CpuExclusive,
         UniprocOnBsp
<1> QED BY <1>1, <1>2, <1>3, <1>4, <1>5, <1>6, <1>7, <1>8, <1>9 DEF Ownership

\* task_caretaker has moved the structure to the pool.
LEMMA RecycleDoneStep ==
  ASSUME TypeOK, Ownership, NEW c \in Cpu, RecycleDone(c)
  PROVE  TypeOK' /\ Ownership'
<1>1. TypeOK'
  BY DEF RecycleDone, At, Begin, Return, Ownership, TypeOK
<1>2. OperationsOnCpu'
  BY DEF RecycleDone, At, Begin, Return, Ownership, TypeOK, OperationsOnCpu
<1>3. CpuOwns'
  BY DEF RecycleDone, At, Begin, Return, Ownership, ThreadOwns, TypeOK, Holds,
         Fit, CpuOwns
<1>4. ThreadOwns'
  BY DEF RecycleDone, At, Begin, Return, Ownership, ThreadExclusive, TypeOK,
         Holds, ThreadOwns
<1>5. ThreadExclusive'
  BY DEF RecycleDone, At, Begin, Return, Ownership, TypeOK, Holds,
         ThreadExclusive
<1>6. PoolOwned'
  BY DEF RecycleDone, At, Begin, Return, Ownership, ThreadOwns, TypeOK, Holds,
         PoolOwned
<1>7. FreeIsFit'
  BY DEF RecycleDone, At, Begin, Return, Ownership, ThreadExclusive, TypeOK,
         Holds, Fit, FreeIsFit
<1>8. SwitchTests'
  BY DEF RecycleDone, At, Begin, Return, Ownership, ThreadOwns,
         OperationsOnCpu, TypeOK, Holds, SwitchTests
<1>9. UniprocOnBsp'
  BY DEF RecycleDone, At, Begin, Return, Ownership, UniprocOnBsp
<1>10. CpuExclusive'
  BY DEF RecycleDone, At, Begin, Return, Ownership, CpuExclusive
<1> QED BY <1>1, <1>2, <1>3, <1>4, <1>5, <1>6, <1>7, <1>8, <1>9, <1>10 DEF Ownership

-----------------------------------------------------------------------------
\* The inductive invariant holds at the beginning.
LEMMA InitOwnership == Init => TypeOK /\ Ownership
<1> SUFFICES ASSUME Init PROVE TypeOK /\ Ownership
  OBVIOUS
<1> USE BootAssumption DEF Init, BootTasks, Head
<1>1. TypeOK
  BY DEF TypeOK
<1>2. OperationsOnCpu /\ ThreadOwns /\ ThreadExclusive /\ PoolOwned
  BY DEF OperationsOnCpu, ThreadOwns, ThreadExclusive, PoolOwned, Holds
<1>3. CpuOwns /\ CpuExclusive /\ UniprocOnBsp
  BY DEF CpuOwns, CpuExclusive, UniprocOnBsp
<1>4. FreeIsFit /\ SwitchTests
  BY DEF FreeIsFit, SwitchTests, Fit
<1> QED BY <1>1, <1>2, <1>3, <1>4 DEF Ownership

\* Every step keeps the ownership of the active words.
LEMMA NextOwnership ==
  TypeOK /\ Ownership /\ [Next]_vars => TypeOK' /\ Ownership'
<1> SUFFICES ASSUME TypeOK, Ownership, [Next]_vars
             PROVE  TypeOK' /\ Ownership'
  OBVIOUS
<1>1. CASE UNCHANGED vars
  BY <1>1 DEF vars, TypeOK, Ownership, OperationsOnCpu, CpuOwns, CpuExclusive,
     ThreadOwns, ThreadExclusive, PoolOwned, FreeIsFit, SwitchTests,
     UniprocOnBsp, Holds, Fit
<1>2. ASSUME NEW c \in Cpu, SwitchStep(c)
      PROVE  TypeOK' /\ Ownership'
  <2>1. CASE SwitchCli(c)
    BY <2>1, ReturnStep, CliStep DEF SwitchCli, At
  <2>2. CASE SwitchTrylock(c)
    BY <2>2, ReturnStep, TrylockStep DEF SwitchTrylock, At
  <2>3. CASE SwitchTest(c)
    <3>1. uniproc[nxt[cur[c]]] \in {0, 1} /\ stopped[nxt[cur[c]]] \in {0, 1}
      BY <2>3 DEF SwitchTest, At, TypeOK, Ownership, OperationsOnCpu
    <3>2. prev[c] = NONE /\ pc[cur[c]] \in Owning \ {"create"}
      BY <2>3 DEF SwitchTest, At
    <3>3. CASE Drop(c) /\ UNCHANGED event
      BY <2>3, <3>2, <3>3, DropStep DEF SwitchTest
    <3>4. CASE ~(Drop(c) /\ UNCHANGED event)
      BY <2>3, <3>1, <3>4, TestStep DEF SwitchTest, Refuse
    <3> QED BY <3>3, <3>4
  <2>4. CASE SwitchSave(c)
    <3>1. prev[c] = NONE /\ pc[cur[c]] \in Owning \ {"create"}
      BY <2>4 DEF SwitchSave, At
    <3>2. CASE disable[cur[c]] > 0
      BY <2>4, <3>1, <3>2, DropStep DEF SwitchSave, SwitchingDisabled
    <3>3. CASE disable[cur[c]] = 0
      BY <2>4, <3>3, SaveStep DEF SwitchSave, SwitchingDisabled
    <3> QED BY <3>2, <3>3 DEF TypeOK
  <2> QED
    BY <1>2, <2>1, <2>2, <2>3, <2>4, SwitchEntryStep, InterruptStep,
       InterruptReturnStep, SwitchLoadStep, SwitchClearPrevStep DEF SwitchStep
<1>3. ASSUME NEW c \in Cpu, EventStep(c)
      PROVE  TypeOK' /\ Ownership'
  <2>1. CASE CheckEventDone(c)
    BY <2>1, DropStep DEF CheckEventDone, At
  <2> QED
    BY <1>3, <2>1, CheckEventStep, WriteEventStep, ReadEventStep,
       SwitchDisableStep, SwitchEnableStep DEF EventStep
<1>4. ASSUME NEW c \in Cpu, LifeStep(c)
      PROVE  TypeOK' /\ Ownership'
  <2>1. CASE RecycleError(c)
    BY <2>1, DropStep DEF RecycleError, At
  <2> QED
    BY <1>4, <2>1, CreateStep, CreateDoneStep, ExitStep, ReapStep, RecycleStep,
       RecycleDoneStep DEF LifeStep
<1> QED BY <1>1, <1>2, <1>3, <1>4 DEF Next

(***************************************************************************)
(* The variables of the model keep their types (struct task).              *)
(***************************************************************************)
THEOREM TypeCorrect == Spec => []TypeOK
BY InitOwnership, NextOwnership, PTL DEF Spec

\* Every active word has at most one owner, in every reachable state.
THEOREM OwnershipInvariant == Spec => [](TypeOK /\ Ownership)
BY InitOwnership, NextOwnership, PTL DEF Spec

(***************************************************************************)
(* Two processors never execute on the same kernel stack (task_switch,     *)
(* task_switch_asm).                                                       *)
(***************************************************************************)
THEOREM StacksExclusive == Spec => []StackExclusive
<1>1. Ownership => StackExclusive
  BY DEF Ownership, CpuExclusive, StackExclusive
<1> QED BY OwnershipInvariant, <1>1, PTL

(***************************************************************************)
(* A structure in the pool is on no processor (task_exit, task_caretaker). *)
(***************************************************************************)
THEOREM PoolIsIdle == Spec => []PoolNotRunning
<1>1. TypeOK /\ Ownership => PoolNotRunning
  BY BootAssumption DEF TypeOK, Ownership, CpuOwns, PoolNotRunning
<1> QED BY OwnershipInvariant, <1>1, PTL

\* A uniproc task only runs on the bootstrap processor (task_switch).
THEOREM UniprocStays == Spec => []UniprocOnBsp
<1>1. Ownership => UniprocOnBsp
  BY DEF Ownership
<1> QED BY OwnershipInvariant, <1>1, PTL

\* No cleared event function is called (task_create, task_check_event).
THEOREM EventCallsValid == Spec => []NoNullEventCall
<1>1. Ownership => NoNullEventCall
  BY DEF Ownership, FreeIsFit, Fit, NoNullEventCall
<1> QED BY OwnershipInvariant, <1>1, PTL

(***************************************************************************)
(* What a processor may switch to: the facts about cur' of every step.     *)
(***************************************************************************)
LEMMA SwitchTarget ==
  ASSUME TypeOK, Ownership, [Next]_vars, NEW d \in Cpu, cur'[d] # cur[d]
  PROVE  /\ ctx[cur'[d]] = "saved"
         /\ stopped[cur'[d]] = 0
         /\ disable[cur[d]] = 0
<1>1. PICK c \in Cpu : SwitchLoad(c)
  BY DEF Next, SwitchStep, EventStep, LifeStep, vars, SwitchEntry, Interrupt,
     InterruptReturn, SwitchCli, SwitchTrylock, SwitchTest, SwitchSave,
     SwitchClearPrev, CheckEvent, CheckEventDone, WriteEvent, ReadEvent,
     SwitchDisable, SwitchEnable, Create, CreateDone, Exit, Reap, Recycle,
     RecycleError, RecycleDone
<1>2. d = c /\ cur'[d] = nxt[cur[c]] /\ pc[cur[c]] = "load"
  BY <1>1 DEF SwitchLoad, At, TypeOK
<1> QED BY <1>2 DEF TypeOK, Ownership, FreeIsFit, Fit, SwitchTests

(***************************************************************************)
(* A processor only switches to a completely saved context                 *)
(* (task_switch_asm, task_create).                                         *)
(***************************************************************************)
THEOREM SavedContexts == Spec => LoadsSavedContext
<1>1. TypeOK /\ Ownership /\ [Next]_vars =>
        [\A c \in Cpu : cur'[c] # cur[c] => ctx[cur'[c]] = "saved"]_vars
  BY SwitchTarget
<1> QED BY OwnershipInvariant, <1>1, PTL DEF Spec, LoadsSavedContext

\* A stopped task that has left its processor never runs again (task_switch).
THEOREM StoppedOut == Spec => StoppedStaysOut
<1>1. TypeOK /\ Ownership /\ [Next]_vars =>
        [\A c \in Cpu : cur'[c] # cur[c] => stopped[cur'[c]] = 0]_vars
  BY SwitchTarget
<1> QED BY OwnershipInvariant, <1>1, PTL DEF Spec, StoppedStaysOut

\* task_switch_disable keeps a thread on its processor (task_switch_asm).
THEOREM DisabledPinned == Spec => DisabledStays
<1>1. TypeOK /\ Ownership /\ [Next]_vars =>
        [\A c \in Cpu : disable[cur[c]] > 0 => cur'[c] = cur[c]]_vars
  BY SwitchTarget
<1> QED BY OwnershipInvariant, <1>1, PTL DEF Spec, DisabledStays

=============================================================================
