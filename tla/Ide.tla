-------------------------------- MODULE Ide --------------------------------
(***************************************************************************)
(* The IDE controller driver (kernel/pci/ide_ctrl.c): one channel with two *)
(* devices behind one DMA buffer, one mutex and one interrupt line. First  *)
(* the channel is deployed; then tasks read and write. A transfer goes     *)
(* through the buffer in units, each with one retry of a single sector.    *)
(*                                                                         *)
(* A device takes a command and finishes it with an interrupt, or hangs.   *)
(* The answer may come after the five seconds of event_wait, and the drive *)
(* may report an error in its status register, which the code drops.       *)
(***************************************************************************)
EXTENDS Integers, Sequences, FiniteSets

CONSTANTS Tasks,
          Kind,      \* what is connected as device 0 and 1: "ata", "packet", "none"
          Ident,     \* the sector counts each device reports
          Unit,      \* sectors in a transfer (127)
          Limit28,   \* sectors of a 28-bit address (2^28)
          Slack,     \* 2^28 - 0x0FFFFF00
          Requests   \* records d, lba, n, wr

Dev == 0..1
Live == 5
Off == 6

VARIABLES phase,     \* deployment: the next step, Live or Off
          typ, ident,\* ide_devices
          pc,        \* of each task: idle, want, run
          req,       \* what each task asked for
          job,       \* the transfer of the task that holds the mutex
          buf,       \* the DMA buffer, sector by sector; <<>> before it is allocated
          sel,       \* the device that the device register selects
          dev,       \* what each device is doing
          bm,        \* the status of the bus master: interrupt, error, started
          event, irq,
          excuse,    \* history: why the interrupt bit may say nothing of the command
          disk       \* each sector holds a mark of the data for it

vars == <<phase, typ, ident, pc, req, job, buf, sel, dev, bm, event, irq, excuse, disk>>
deployVars == <<phase, typ, ident>>

NoJob == [step |-> "none", t |-> 0, d |-> 0, lba |-> 0, done |-> 0, count |-> 0,
          again |-> FALSE, mem |-> <<>>, odd |-> {}]  \* odd: history, see DoneAsReported
NoReq == [d |-> 0, lba |-> 0, n |-> 0, wr |-> FALSE]
Idle == [st |-> "idle", lba |-> 0, count |-> 0, wr |-> FALSE, short |-> TRUE]
Flush == [st |-> "busy", lba |-> 0, count |-> 0, wr |-> TRUE, short |-> TRUE]
Zero == <<"zero">>
Old(d, l) == <<"old", d, l>>
New(t, d, l) == <<t, d, l>>

\* get_sector_count
SectorCount(d) ==
    IF Ident[d].big /\ Ident[d].s48 > Ident[d].s28 THEN Ident[d].s48 ELSE Ident[d].s28

-----------------------------------------------------------------------------
(* deploy_channel *)

\* The identifying registers after a reset. A device that stays busy, and one
\* that is not there, may leave anything.
Probe(i) ==
    /\ phase = i
    /\ \/ \E k \in (IF Kind[i] = "none" THEN {"ata", "packet", "other"} ELSE {Kind[i]}) :
            typ' = [typ EXCEPT ![i] = k]
       \/ UNCHANGED typ
    /\ phase' = i + 1
    /\ UNCHANGED ident

\* Mutant: a device that fails to identify itself keeps its type.
IdentifyFailKeeps(i) == UNCHANGED typ /\ UNCHANGED ident

\* A device that does not answer in time, or with an error, is unknown.
IdentifyFail(i) == typ' = [typ EXCEPT ![i] = "unknown"] /\ UNCHANGED ident

\* The IDENTIFY command; an absent device has a status of zero.
Identify(i) ==
    /\ phase = i + 2
    /\ \/ IdentifyFail(i) /\ phase' = i + 3
       \/ /\ typ[i] # "unknown" /\ Kind[i] # "none"
          /\ ident' = [ident EXCEPT ![i] = TRUE]
          /\ phase' = i + 3 /\ UNCHANGED typ
       \/ /\ typ[i] # "unknown" /\ Kind[i] # "none"   \* no memory
          /\ typ' = [typ EXCEPT ![i] = "unknown"] /\ phase' = Off /\ UNCHANGED ident

\* The event, the mutex and the interrupt handler, when there is a device.
Install ==
    /\ phase = 4
    /\ \/ phase' = IF \E i \in Dev : typ[i] # "unknown" THEN Live ELSE Off
       \/ \E i \in Dev : typ[i] # "unknown" /\ phase' = Off
    /\ UNCHANGED <<typ, ident>>

Deploy ==
    /\ \/ \E i \in Dev : Probe(i) \/ Identify(i)
       \/ Install
    /\ UNCHANGED <<pc, req, job, buf, sel, dev, bm, event, irq, excuse, disk>>

\* init_channels mounts the devices of type zero.
Mounted(d) == phase = Live /\ typ[d] = "ata"

-----------------------------------------------------------------------------
(* read_write_common *)

\* An offset or a size that is not a multiple of 512 returns at once.
Call(t) ==
    /\ pc[t] = "idle"
    /\ \E q \in Requests :
         /\ Mounted(q.d)
         /\ pc' = [pc EXCEPT ![t] = "want"] /\ req' = [req EXCEPT ![t] = q]
    /\ UNCHANGED <<deployVars, job, buf, sel, dev, bm, event, irq, excuse, disk>>

Return(t) == pc' = [pc EXCEPT ![t] = "idle"] /\ req' = [req EXCEPT ![t] = NoReq]

\* The mutex, and the buffer the first time.
Lock(t) ==
    /\ pc[t] = "want" /\ job = NoJob
    /\ \/ /\ pc' = [pc EXCEPT ![t] = "run"]
          /\ job' = [NoJob EXCEPT !.step = "unit", !.t = t, !.d = req[t].d, !.lba = req[t].lba]
          /\ buf' = IF buf = <<>> THEN [i \in 1..Unit |-> Zero] ELSE buf
          /\ UNCHANGED req
       \/ /\ buf = <<>>                            \* no memory
          /\ Return(t)
          /\ UNCHANGED <<job, buf>>
    /\ UNCHANGED <<deployVars, sel, dev, bm, event, irq, excuse, disk>>

Q == req[job.t]
Least(S) == CHOOSE x \in S : \A y \in S : x <= y

\* The call reports job.done sectors.
Finish == Return(job.t) /\ job' = NoJob

\* Mutant: the size of the buffer is not looked at.
UnitSizeWhole == Least({Q.n - job.done, SectorCount(job.d) - job.lba})

\* Sectors of the next unit: not past the end of the device.
UnitSize == Least({Unit, Q.n - job.done, SectorCount(job.d) - job.lba})

NextUnit ==
    /\ job.step = "unit"
    /\ \/ /\ job.done >= Q.n \/ job.lba >= SectorCount(job.d)
          /\ Finish
          /\ UNCHANGED buf
       \/ /\ job.done < Q.n /\ job.lba < SectorCount(job.d)
          /\ job' = [job EXCEPT !.step = "reset", !.count = UnitSize, !.again = FALSE]
          /\ buf' = IF Q.wr THEN [i \in 1..Unit |->
                                    IF i <= UnitSize THEN New(job.t, job.d, job.lba + i - 1)
                                    ELSE buf[i]]
                    ELSE buf
          /\ UNCHANGED <<pc, req>>
    /\ UNCHANGED <<deployVars, sel, dev, bm, event, irq, excuse, disk>>

-----------------------------------------------------------------------------
(* ata_read_write *)

\* Mutant: a retry that fails is tried again.
FailedForever ==
    /\ job' = [job EXCEPT !.step = "reset", !.count = 1]
    /\ UNCHANGED <<pc, req>>

\* A failed unit is tried again with one sector; a failed retry ends the call.
Failed ==
    IF job.again THEN Finish
    ELSE /\ job' = [job EXCEPT !.step = "reset", !.count = 1, !.again = TRUE]
         /\ UNCHANGED <<pc, req>>

\* The bus master is stopped and its status cleared.
Reset ==
    /\ job.step = "reset"
    /\ bm' = [int |-> FALSE, err |-> FALSE, started |-> FALSE]
    /\ job' = [job EXCEPT !.step = "ready"]
    /\ UNCHANGED <<deployVars, pc, req, buf, sel, dev, event, irq, excuse, disk>>

Free(d) == dev[d].st = "idle"
GivesUp(d) == dev[d].st \in {"hung", "busy"}

\* wait_status, for the device that is selected, three times.
Ready ==
    /\ job.step = "ready"
    /\ \/ /\ Free(sel)
          /\ job' = [job EXCEPT !.step = "select"]
          /\ buf' = IF Q.wr THEN buf
                    ELSE [i \in 1..Unit |-> IF i <= job.count THEN Zero ELSE buf[i]]
          /\ UNCHANGED <<pc, req>>
       \/ GivesUp(sel) /\ Failed /\ UNCHANGED buf
    /\ UNCHANGED <<deployVars, sel, dev, bm, event, irq, excuse, disk>>

Select ==
    /\ job.step = "select"
    /\ sel' = job.d
    /\ job' = [job EXCEPT !.step = "issue"]
    /\ UNCHANGED <<deployVars, pc, req, buf, dev, bm, event, irq, excuse, disk>>

\* Mutant: 28-bit addresses are used for every sector they can name.
ShortNear(lba, d) == lba < Limit28

\* The 28-bit mode is preferred.
Short(lba, d) == lba <= Limit28 - Slack \/ SectorCount(d) <= Limit28 - 1

\* Mutant: the high part of a long address is lost.
AddressLow(lba, d) == lba % Limit28
Address(lba, d) == IF Short(lba, d) THEN lba % Limit28 ELSE lba

Issue ==
    /\ job.step = "issue"
    /\ \/ /\ Free(sel)
          /\ event' = FALSE
          /\ dev' = [dev EXCEPT ![sel] = [st |-> "busy", lba |-> Address(job.lba, job.d),
                                          count |-> job.count, wr |-> Q.wr,
                                          short |-> Short(job.lba, job.d)]]
          /\ bm' = [bm EXCEPT !.started = TRUE]
          /\ excuse' = bm.int
          /\ job' = [job EXCEPT !.step = "wait"]
          /\ UNCHANGED <<pc, req>>
       \/ GivesUp(sel) /\ Failed /\ UNCHANGED <<dev, bm, event, excuse>>
    /\ UNCHANGED <<deployVars, buf, sel, irq, disk>>

\* Mutant: the error bit is ignored.
SucceededAny == bm.int

\* The error and interrupt bits of the bus master; the status register of the
\* drive is read and dropped.
Succeeded == bm.int /\ ~bm.err

\* The interrupt or the time limit. The bus master is stopped, its status is
\* read, and a write is followed by a flush, which interrupts as well and may
\* take longer than the driver waits; a busy device does not take it.
Wake ==
    /\ job.step = "wait"
    /\ event \/ GivesUp(job.d) \/ (Free(job.d) /\ ~irq)
    /\ \/ /\ ~Q.wr \/ ~Free(job.d)
          /\ bm' = [bm EXCEPT !.started = FALSE]
          /\ UNCHANGED <<irq, dev>>
       \/ /\ Q.wr /\ Free(job.d)
          /\ bm' = [bm EXCEPT !.started = FALSE, !.int = TRUE] /\ irq' = TRUE
          /\ UNCHANGED dev
       \/ /\ Q.wr /\ Free(job.d)
          /\ bm' = [bm EXCEPT !.started = FALSE]
          /\ dev' = [dev EXCEPT ![job.d] = Flush]
          /\ UNCHANGED irq
    /\ job' = [job EXCEPT !.step = IF Succeeded THEN "good" ELSE "bad"]
    /\ UNCHANGED <<deployVars, pc, req, buf, sel, event, excuse, disk>>

Good ==
    /\ job.step = "good"
    /\ job' = [job EXCEPT !.step = "unit",
                          !.lba = @ + job.count, !.done = @ + job.count,
                          !.mem = IF Q.wr THEN @ ELSE @ \o SubSeq(buf, 1, job.count),
                          !.odd = IF excuse THEN @ \cup (job.done + 1)..(job.done + job.count)
                                  ELSE @]
    /\ UNCHANGED <<deployVars, pc, req, buf, sel, dev, bm, event, irq, excuse, disk>>

Bad ==
    /\ job.step = "bad"
    /\ Failed
    /\ UNCHANGED <<deployVars, buf, sel, dev, bm, event, irq, excuse, disk>>

-----------------------------------------------------------------------------
(* The devices, the bus master and the interrupt (external) *)

\* A command is finished. The data moves only while the bus master runs; an
\* error of the transfer sets its error bit, one of the drive does not.
Done(d) ==
    /\ dev[d].st = "busy"
    /\ dev' = [dev EXCEPT ![d] = Idle]
    /\ \E how \in {"ok", "dma", "drive"} :
         LET moved == how = "ok" /\ bm.started
             c == dev[d]
         IN  /\ bm' = [bm EXCEPT !.int = TRUE, !.err = @ \/ how = "dma"]
             /\ excuse' = (excuse \/ (how = "drive" /\ bm.started))
             /\ buf' = IF moved /\ ~c.wr
                         THEN [i \in 1..Unit |-> IF i <= c.count THEN disk[d][c.lba + i - 1]
                                                 ELSE buf[i]]
                         ELSE buf
             /\ disk' = IF moved /\ c.wr
                          THEN [disk EXCEPT ![d] = [l \in DOMAIN @ |->
                                   IF l >= c.lba /\ l < c.lba + c.count
                                     THEN buf[l - c.lba + 1] ELSE @[l]]]
                          ELSE disk
    /\ irq' = TRUE
    /\ UNCHANGED <<deployVars, pc, req, job, sel, event>>

Hang(d) ==
    /\ dev[d].st = "busy"
    /\ dev' = [dev EXCEPT ![d].st = "hung"]
    /\ UNCHANGED <<deployVars, pc, req, job, buf, sel, bm, event, irq, excuse, disk>>

\* ide_irq_func
IrqFunc == event' = (event \/ bm.int)

Irq ==
    /\ irq
    /\ irq' = FALSE
    /\ IrqFunc
    /\ UNCHANGED <<deployVars, pc, req, job, buf, sel, dev, bm, excuse, disk>>

-----------------------------------------------------------------------------
Init ==
    /\ phase = 0 /\ typ = [d \in Dev |-> "unknown"] /\ ident = [d \in Dev |-> FALSE]
    /\ pc = [t \in Tasks |-> "idle"]
    /\ req = [t \in Tasks |-> NoReq]
    /\ job = NoJob /\ buf = <<>> /\ sel = 0
    /\ dev = [d \in Dev |-> Idle]
    /\ bm = [int |-> FALSE, err |-> FALSE, started |-> FALSE]
    /\ event = FALSE /\ irq = FALSE /\ excuse = FALSE
    /\ disk = [d \in Dev |-> [l \in 0..(SectorCount(d) - 1) |-> Old(d, l)]]

Step == NextUnit \/ Reset \/ Ready \/ Select \/ Issue \/ Wake \/ Good \/ Bad

Next ==
    \/ Deploy
    \/ \E t \in Tasks : Call(t) \/ Lock(t)
    \/ Step
    \/ \E d \in Dev : Done(d) \/ Hang(d)
    \/ Irq

Spec == Init /\ [][Next]_vars

\* The driver goes on while it can, interrupts are delivered, and mtx_lock is
\* granted in the end; devices may hang.
FairSpec ==
    /\ Spec
    /\ WF_vars(Step) /\ WF_vars(Irq)
    /\ \A d \in Dev : WF_vars(Done(d) \/ Hang(d))
    /\ \A t \in Tasks : SF_vars(Lock(t))

-----------------------------------------------------------------------------
(* Properties *)

TypeOK ==
    /\ phase \in 0..Off
    /\ \A d \in Dev : dev[d].st \in {"idle", "busy", "hung"}
    /\ job # NoJob => job.count \in 0..Unit /\ Len(job.mem) \in 0..job.done
    /\ buf = <<>> \/ Len(buf) = Unit

\* A device that is mounted is a disk that has identified itself.
MountedIdentified == \A d \in Dev : Mounted(d) => ident[d] /\ Kind[d] = "ata"

\* A sector of a disk is only ever given data that was meant for it: through
\* units, retries, both devices of the channel and every task.
DataInPlace ==
    \A d \in Dev : \A l \in DOMAIN disk[d] :
        disk[d][l] = Old(d, l) \/ \E t \in Tasks : disk[d][l] = New(t, d, l)

\* What a call reports was done: a read returns the data of its sectors, and
\* what a write reports is on the disk, also when a unit failed and was tried
\* again and when the device ends before the request. Two things the driver
\* does not look at are set apart (odd, excuse): the interrupt bit was set
\* before the command was issued, by an earlier one whose time was over
\* (ide_ctrl.c:235), and the drive ended it with an error in its status
\* register (ide_ctrl.c:229). Such a unit is reported although it may not have
\* been moved.
DoneAsReported ==
    job # NoJob /\ job' = NoJob =>
        \A i \in (1..job.done) \ job.odd :
            LET l == Q.lba + i - 1
            IN  IF Q.wr THEN disk[Q.d][l] = New(job.t, Q.d, l)
                ELSE Len(job.mem) = job.done /\ job.mem[i] = disk[Q.d][l]

\* A command is alone on the channel, also when an earlier one is late, is that
\* of the unit while its driver waits for it and moves data only then, and has
\* addresses that it can hold.
CommandFits ==
    \A d \in Dev : dev[d].st = "busy" =>
        /\ d = sel
        /\ bm.started => /\ job.step = "wait" /\ job.d = d
                         /\ dev[d].lba = job.lba /\ dev[d].count = job.count /\ dev[d].wr = Q.wr
        /\ dev[d].short => dev[d].lba + dev[d].count <= Limit28
        /\ dev[d].lba + dev[d].count <= SectorCount(d)

\* Every call returns, also when a device hangs.
CallReturns == \A t \in Tasks : pc[t] # "idle" ~> pc[t] = "idle"
=============================================================================
