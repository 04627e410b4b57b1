-------------------------------- MODULE Ahci --------------------------------
(***************************************************************************)
(* The AHCI driver (pci/ahci.c): the start of a port, and reading and      *)
(* writing through its command slots.                                      *)
(*                                                                         *)
(* One port and its lock: requests follow each other.  The controller      *)
(* (external) runs commands in the order they were issued, moves their     *)
(* data through the one buffer of the port when it runs them, may be late, *)
(* and stops when a command fails.                                         *)
(***************************************************************************)
EXTENDS Naturals, Sequences, SequencesExt

CONSTANTS
  Slots,     \* number of command slots
  Sectors,   \* sectors of the disk
  Unit,      \* sectors of a command (0xFE00 / 512)
  MaxReq,    \* bound: requests
  MaxBlocks, \* bound: sectors of a request
  MaxLate    \* bound: commands that are late

Slot == 0 .. Slots - 1
Sector == 0 .. Sectors - 1

VARIABLES
  pc,      \* where the driver is
  st, cr,  \* the command list is started; it runs
  fre, fr, \* the same of received FIS
  based,   \* the base addresses are set
  op,      \* the request: write, first sector, sectors; its data is its number
  nreq,    \* number of the request
  done,    \* transfer_size, in sectors
  unit,    \* sectors of the command
  single,  \* the command is the repetition with one sector
  slot,    \* slot of the command
  table,   \* per slot: what the command header and table say
  ci,      \* command issue register: sequence of slots in the order issued
  tfes,    \* task file error bit of the port's interrupt status
  io,      \* buffer_io: what each of its sectors has
  got,     \* history: the user's buffer of a read
  disk,    \* what each sector has
  result,  \* of the last request
  clean,   \* history: no command of an earlier request was pending when it began
  late     \* commands that were late

regs == <<st, cr, fre, fr, based>>
request == <<op, nreq, done, unit, single>>
vars == <<pc, regs, request, slot, table, ci, tfes, io, got, disk, result, clean, late>>

NoOp == [write |-> FALSE, lba |-> 0, n |-> 0]
Ops == [write : BOOLEAN, lba : 0 .. Sectors, n : 0 .. MaxBlocks]
Value == 0 .. MaxReq

TypeOK ==
  /\ pc \in {"boot", "stop_cr", "stop_fr", "base", "start", "idle", "unit", "slot", "busy", "issue", "wait", "copy", "off"}
  /\ st \in BOOLEAN /\ cr \in BOOLEAN /\ fre \in BOOLEAN /\ fr \in BOOLEAN /\ based \in BOOLEAN
  /\ op \in Ops /\ nreq \in 0 .. MaxReq /\ done \in 0 .. MaxBlocks /\ unit \in 0 .. Unit
  /\ single \in BOOLEAN /\ slot \in Slot
  /\ \A i \in DOMAIN ci : ci[i] \in Slot /\ table[ci[i]].lba + table[ci[i]].n <= Sectors
  /\ io \in [0 .. Unit - 1 -> Value] /\ disk \in [Sector -> Value]
  /\ result \in {"none", "ok", "error", "DE_ALIGNMENT"}

Init ==
  /\ pc = "boot"
  /\ st \in BOOLEAN /\ cr = st /\ fre \in BOOLEAN /\ fr = fre /\ based = FALSE
  /\ op = NoOp /\ nreq = 0 /\ done = 0 /\ unit = 0 /\ single = FALSE
  /\ slot = 0 /\ table = [s \in Slot |-> NoOp] /\ ci = <<>> /\ tfes = FALSE
  /\ io = [i \in 0 .. Unit - 1 |-> 0] /\ got = [i \in 0 .. MaxBlocks - 1 |-> 0]
  /\ disk = [b \in Sector |-> 0] /\ result = "none" /\ clean = TRUE /\ late = 0

-----------------------------------------------------------------------------
(* ahci_init_0: the port is stopped, gets its memory, and is started.       *)

\* The handler, the registers, the hand-over by the firmware and the number of
\* ports; each may end the driver.
Boot ==
  /\ pc = "boot" /\ pc' \in {"stop_cr", "off"}
  /\ UNCHANGED <<regs, request, slot, table, ci, tfes, io, got, disk, result, clean, late>>

\* The command list is told to stop, and must stop in time.
StopCommands ==
  /\ pc = "stop_cr"
  /\ \/ ~st /\ ~cr /\ pc' = "stop_fr" /\ UNCHANGED st
     \/ (st \/ cr) /\ st' = FALSE /\ UNCHANGED pc
     \/ cr /\ ~st /\ pc' = "off" /\ UNCHANGED st
  /\ UNCHANGED <<cr, fre, fr, based, request, slot, table, ci, tfes, io, got, disk, result, clean, late>>

StopFis ==
  /\ pc = "stop_fr"
  /\ \/ ~fre /\ ~fr /\ pc' = "base" /\ UNCHANGED fre
     \/ (fre \/ fr) /\ fre' = FALSE /\ UNCHANGED pc
     \/ fr /\ ~fre /\ pc' = "off" /\ UNCHANGED fre
  /\ UNCHANGED <<st, cr, fr, based, request, slot, table, ci, tfes, io, got, disk, result, clean, late>>

\* A disk is there, and memory is: the addresses are set.  "Just to be sure"
\* the driver looks at the registers again.
SetBase ==
  /\ pc = "base"
  /\ \/ pc' = "off" /\ UNCHANGED based
     \/ ~(st \/ cr \/ fre \/ fr) /\ based' = TRUE /\ pc' = "start"
  /\ UNCHANGED <<st, cr, fre, fr, request, slot, table, ci, tfes, io, got, disk, result, clean, late>>

\* FRE, then ST.
StartPort ==
  /\ pc = "start"
  /\ \/ ~fre /\ fre' = TRUE /\ UNCHANGED <<pc, st>>
     \/ fre /\ ~st /\ st' = TRUE /\ UNCHANGED <<pc, fre>>
  /\ UNCHANGED <<cr, fr, based, request, slot, table, ci, tfes, io, got, disk, result, clean, late>>

\* ahci_identify: one command like a read of one sector, request number zero;
\* without an answer, or when the disk is too small, there is no drive.
Identify ==
  /\ pc = "start" /\ fre /\ st
  /\ op' = [NoOp EXCEPT !.n = 1] /\ unit' = 1 /\ single' = TRUE /\ pc' = "slot"
  /\ UNCHANGED <<regs, nreq, done, slot, table, ci, tfes, io, got, disk, result, clean, late>>

Identified ==
  /\ pc = "copy" /\ nreq = 0 /\ pc' \in {"idle", "off"}
  /\ UNCHANGED <<regs, request, slot, table, ci, tfes, io, got, disk, result, clean, late>>

\* The controller follows its bits (external).
Follow ==
  /\ cr # st \/ fr # fre
  /\ \/ cr' = st /\ UNCHANGED fr
     \/ fr' = fre /\ UNCHANGED cr
  /\ ~(tfes /\ cr')
  /\ UNCHANGED <<pc, st, fre, based, request, slot, table, ci, tfes, io, got, disk, result, clean, late>>

-----------------------------------------------------------------------------
(* read_write_locked.                                                       *)

\* n_read, n_write; offset and size may not be aligned.
Request ==
  /\ pc = "idle" /\ nreq < MaxReq /\ nreq' = nreq + 1
  /\ \E o \in Ops : op' = o
  /\ \/ pc' = "unit" /\ result' = "none"
     \/ pc' = pc /\ result' = "DE_ALIGNMENT"
  /\ done' = 0 /\ single' = FALSE /\ unit' = 0 /\ clean' = (ci = <<>>)
  /\ got' = [i \in 0 .. MaxBlocks - 1 |-> 0]
  /\ UNCHANGED <<regs, slot, table, ci, tfes, io, disk, late>>

Least(a, b) == IF a < b THEN a ELSE b

UnitSectorsBeyond == Least(op.n - done, Unit)

\* Sectors of the next command.
UnitSectors ==
  IF op.lba + done >= Sectors THEN 0
  ELSE Least(Least(op.n - done, Unit), Sectors - (op.lba + done))

\* A write copies its data into the buffer of the port.
Filled(n) == [i \in DOMAIN io |-> IF op.write /\ i < n THEN nreq ELSE io[i]]

NextUnit ==
  /\ pc = "unit"
  /\ IF done >= op.n \/ UnitSectors = 0
     THEN result' = "ok" /\ pc' = "idle" /\ UNCHANGED <<unit, io>>
     ELSE unit' = UnitSectors /\ io' = Filled(UnitSectors) /\ pc' = "slot" /\ UNCHANGED result
  /\ single' = FALSE
  /\ UNCHANGED <<regs, op, nreq, done, slot, table, ci, tfes, got, disk, clean, late>>

FailedGoesOn == pc' = "copy" /\ UNCHANGED <<unit, single, result>>

\* The command failed: once more with one sector, then the request fails.
Failed ==
  IF single THEN pc' = (IF nreq = 0 THEN "off" ELSE "idle") /\ result' = "error" /\ UNCHANGED <<unit, single>>
            ELSE pc' = "slot" /\ single' = TRUE /\ unit' = 1 /\ UNCHANGED result

InUseNot == {}

\* ahci_get_slot: neither active nor issued.
InUse == {ci[i] : i \in DOMAIN ci}

\* What the command header, the command FIS and the region descriptor say.
Command == [write |-> op.write, lba |-> op.lba + done, n |-> unit]

GetSlot ==
  /\ pc = "slot"
  /\ LET free == Slot \ InUse IN
     IF free = {} THEN Failed /\ UNCHANGED <<slot, table, tfes>>
     ELSE LET s == CHOOSE x \in free : \A y \in free : x <= y IN
          /\ slot' = s /\ tfes' = FALSE
          /\ table' = [table EXCEPT ![s] = Command]
          /\ pc' = "busy" /\ UNCHANGED <<unit, single, result>>
  /\ UNCHANGED <<regs, op, nreq, done, ci, io, got, disk, clean, late>>

\* The task file is busy while the controller runs a command; for too long, or
\* not.
Busy ==
  /\ pc = "busy"
  /\ \/ (ci = <<>> \/ ~cr) /\ pc' = "issue" /\ UNCHANGED <<unit, single, result>>
     \/ ci # <<>> /\ cr /\ Failed
  /\ UNCHANGED <<regs, op, nreq, done, slot, table, ci, tfes, io, got, disk, clean, late>>

Issue ==
  /\ pc = "issue" /\ ci' = Append(ci, slot) /\ pc' = "wait"
  /\ UNCHANGED <<regs, request, slot, table, tfes, io, got, disk, result, clean, late>>

\* The wait: an error, the end, or the time limit.
WaitError ==
  /\ pc = "wait" /\ tfes /\ Failed /\ tfes' = FALSE
  /\ UNCHANGED <<regs, op, nreq, done, slot, table, ci, io, got, disk, clean, late>>

WaitDone ==
  /\ pc = "wait" /\ ~tfes /\ slot \notin InUse
  /\ pc' = "copy"
  /\ UNCHANGED <<regs, request, slot, table, ci, tfes, io, got, disk, result, clean, late>>

WaitTimeoutNever == FALSE

WaitTimeout ==
  /\ pc = "wait" /\ ~tfes /\ slot \in InUse
  /\ late < MaxLate \/ ~cr
  /\ late' = (IF cr THEN late + 1 ELSE late)
  /\ Failed
  /\ UNCHANGED <<regs, op, nreq, done, slot, table, ci, tfes, io, got, disk, clean>>

\* A read copies its data out of the buffer.
CopyOut ==
  /\ pc = "copy" /\ nreq > 0
  /\ got' = IF op.write THEN got
            ELSE [i \in DOMAIN got |-> IF i >= done /\ i < done + unit THEN io[i - done] ELSE got[i]]
  /\ done' = done + unit /\ pc' = "unit"
  /\ UNCHANGED <<regs, op, nreq, unit, single, slot, table, ci, tfes, io, disk, result, clean, late>>

-----------------------------------------------------------------------------
(* The controller runs the oldest command (external).                       *)

RunCommand ==
  /\ cr /\ ci # <<>>
  /\ LET t == table[Head(ci)] IN
     \/ /\ disk' = IF t.write THEN [b \in Sector |-> IF b >= t.lba /\ b < t.lba + t.n THEN io[b - t.lba] ELSE disk[b]]
                   ELSE disk
        /\ io' = IF t.write THEN io
                 ELSE [i \in DOMAIN io |-> IF i < t.n THEN disk[t.lba + i] ELSE io[i]]
        /\ ci' = Tail(ci) /\ UNCHANGED <<tfes, cr, late>>
     \/ \* a failure stops the command list, and the command stays issued
        /\ late < MaxLate /\ late' = late + 1
        /\ tfes' = TRUE /\ cr' = FALSE /\ UNCHANGED <<disk, io, ci>>
  /\ UNCHANGED <<pc, st, fre, fr, based, request, slot, table, got, result, clean>>

Driver ==
  NextUnit \/ GetSlot \/ Busy \/ Issue \/ WaitError \/ WaitDone \/ WaitTimeout \/ CopyOut

Next ==
  \/ Boot \/ StopCommands \/ StopFis \/ SetBase \/ StartPort \/ Identify \/ Identified \/ Follow
  \/ Request \/ Driver \/ RunCommand

Spec ==
  /\ Init /\ [][Next]_vars
  /\ WF_vars(Driver)
  /\ WF_vars(RunCommand)

-----------------------------------------------------------------------------
(* A request that returns zero did what it says, up to the end of the disk: *)
(* the sectors have its data, or the user has theirs, although commands     *)
(* time out and are repeated with one sector.  It holds for requests that   *)
(* begin when no command of a request that failed is still pending: such a  *)
(* command would move its data through the same buffer.                     *)
SuccessIsReal ==
  (result = "ok" /\ clean) =>
    /\ done = op.n \/ op.lba + done >= Sectors
    /\ \A i \in 0 .. done - 1 : IF op.write THEN disk[op.lba + i] = nreq ELSE got[i] = disk[op.lba + i]

(* The header and table of a command that the controller may still read are *)
(* not written: a command that timed out keeps its slot.                    *)
TablesKept == \A i \in DOMAIN ci : table'[ci[i]] = table[ci[i]]

(* A request ends, also when the controller never answers again.            *)
RequestEnds == (pc = "unit") ~> (pc = "idle")
=============================================================================
