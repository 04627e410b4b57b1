------------------------------- MODULE Floppy -------------------------------
(***************************************************************************)
(* The floppy driver (misc/floppy.c): two drives behind one controller,    *)
(* the task that turns their motors off, and disks that are changed.       *)
(*                                                                         *)
(* A call holds floppy_mtx to its end, so calls follow each other; the     *)
(* motor task runs between any two steps.  Time passes while the driver    *)
(* waits for an interrupt or is idle, in units of 2500 ticks; the age of a *)
(* motor is the time since it was last asked for, up to the limit.  Reads  *)
(* and writes go the same way, and are one kind of call.                   *)
(***************************************************************************)
EXTENDS Naturals, Sequences, SequencesExt

CONSTANTS
  Disks,     \* the disks there are: records [rate, spt, bpb]
  Spt,       \* table_default: sectors per track, the rate being the index
  Cylinders, \* of every disk
  MaxReq,    \* bound: calls
  MaxSectors,\* bound: sectors of a call
  Retries,   \* times a transfer is repeated (5)
  MaxBad     \* bound: disks put in or taken out, commands that fail or time out

Drive == 0 .. 1
Heads == 2
Limit == 2   \* wait_irq6, and the motor task
Period == 1  \* of the motor task
NoDisk == [rate |-> 0, spt |-> 0, bpb |-> FALSE]
NoTable == [rate |-> 0, spt |-> 0]
NoCall == [kind |-> "none", d |-> 0, lba |-> 0, n |-> 0]

VARIABLES
  phase,   \* idle, prepare, step, load, high, wait or unit
  plan,    \* what is left to do before the outcome of a transfer is known
  call,    \* the call
  nreq,    \* number of calls
  try,     \* prepare_transfer: which table, and which of its two reads
  first,   \* r_directive
  retry,   \* retry_count
  size,    \* sectors of the command
  done,    \* transfer_size, in sectors
  got,     \* history: per sector of the call the disk and sector moved
  result,  \* of the last call
  fstate,  \* floppy_state
  dsel, motor,  \* fdc0_dor_value: the drive and the motors
  hw,      \* motors as the digital output register has them
  loaded,  \* fdc0_reset: the value read before it is written
  rate,    \* rate that the controller is configured for
  table,   \* per drive: the geometry in use
  changed, \* per drive: media_changed
  used,    \* per drive: the 0x1000 bit of type
  debut,   \* prepare_transfer: the drive is used for the first time
  age,     \* per drive: timer_ticks - motor_ticks
  wait,    \* time spent in wait_irq6
  nap,     \* time until the motor task runs
  disk,    \* per drive: the disk
  line,    \* per drive: disk change line
  told,    \* history, per drive: the disk the callers know of
  swaps, bad

driver == <<phase, plan, call, nreq, try, first, retry, size, done, got, result, fstate>>
fdc == <<dsel, motor, hw, loaded, rate>>
drive == <<table, changed, used, debut, told>>
world == <<disk, line, swaps>>
vars == <<driver, fdc, drive, age, wait, nap, world, bad>>

Errors == {"DE_ADDRESS_MARK", "DE_MEDIA_CHANGED", "DE_BLOCK_READ"}

TypeOK ==
  /\ phase \in {"idle", "prepare", "step", "load", "high", "wait", "unit"}
  /\ try \in 0 .. 2 * Len(Spt) /\ retry \in 0 .. Retries /\ first \in Errors \cup {"none"}
  /\ (phase # "idle" /\ plan # <<>> /\ Last(plan) = "rw") => done + size <= call.n
  /\ result \in Errors \cup {"none", "ok", "DE_UNEXPECTED"} /\ fstate \in 1 .. 2
  /\ dsel \in Drive /\ motor \subseteq Drive /\ hw \subseteq Drive /\ loaded \subseteq Drive
  /\ rate \in 0 .. Len(Spt)
  /\ \A d \in Drive : age[d] \in 0 .. Limit /\ disk[d] \in Disks \cup {NoDisk} /\ (changed[d] \/ table[d].spt > 0)
  /\ wait \in 0 .. Limit /\ nap \in 0 .. Period

\* floppy_init has run: the controller answered and both drives are there.
Init ==
  /\ phase = "idle" /\ plan = <<>> /\ call = NoCall /\ nreq = 0 /\ try = 0 /\ first = "none"
  /\ retry = 0 /\ size = 0 /\ done = 0 /\ got = <<>> /\ result = "none" /\ fstate = 1
  /\ dsel = 0 /\ motor = {} /\ hw = {} /\ loaded = {} /\ rate = 0
  /\ table = [d \in Drive |-> NoTable] /\ changed = [d \in Drive |-> TRUE]
  /\ used = [d \in Drive |-> FALSE] /\ debut = FALSE /\ told = [d \in Drive |-> NoDisk]
  /\ age = [d \in Drive |-> Limit] /\ wait = 0 /\ nap = 0
  /\ \E k \in Disks : disk = [d \in Drive |-> IF d = 0 THEN k ELSE NoDisk]
  /\ line = [d \in Drive |-> TRUE] /\ swaps = 0 /\ bad = 0

-----------------------------------------------------------------------------
(* The motors.                                                              *)

StartMotorOnce(d) ==
  /\ age' = IF d \in motor THEN age ELSE [age EXCEPT ![d] = 0]
  /\ motor' = motor \cup {d} /\ dsel' = d
  /\ hw' = IF motor' # motor \/ dsel' # dsel THEN motor' ELSE hw
  /\ rate' = IF dsel' # dsel THEN table[d].rate ELSE rate

StartMotorKeepsRate(d) ==
  /\ age' = [age EXCEPT ![d] = 0] /\ motor' = motor \cup {d} /\ dsel' = d
  /\ hw' = IF motor' # motor \/ dsel' # dsel THEN motor' ELSE hw
  /\ rate' = rate

\* start_motor_and_select; a newly selected drive needs fdc0_configure.
StartMotor(d) ==
  /\ age' = [age EXCEPT ![d] = 0] /\ motor' = motor \cup {d} /\ dsel' = d
  /\ hw' = IF motor' # motor \/ dsel' # dsel THEN motor' ELSE hw
  /\ rate' = IF dsel' # dsel THEN table[d].rate ELSE rate

\* floppy_task.
MotorTask ==
  /\ nap = 0 /\ nap' = Period
  /\ motor' = {d \in motor : age[d] < Limit}
  /\ hw' = IF motor' # motor THEN motor' ELSE hw
  /\ UNCHANGED <<driver, dsel, loaded, rate, drive, age, wait, world, bad>>

Tick ==
  /\ \/ phase = "wait" /\ wait < Limit /\ wait' = wait + 1
     \/ phase = "idle" /\ UNCHANGED wait /\ \E d \in Drive : age[d] < Limit
  /\ nap' = IF nap = 0 THEN 0 ELSE nap - 1
  /\ age' = [d \in Drive |-> IF age[d] < Limit THEN age[d] + 1 ELSE Limit]
  /\ UNCHANGED <<driver, fdc, drive, world, bad>>

-----------------------------------------------------------------------------
(* The calls.                                                               *)

Return(r) == phase' = "idle" /\ result' = r /\ plan' = <<>>

\* floppy_read, floppy_write, floppy_test (n_sync) and n_stat, which asks the
\* drive only when the disk is known to have changed.
Call ==
  /\ phase = "idle" /\ nreq < MaxReq /\ nreq' = nreq + 1
  /\ \E d \in Drive, k \in {"rw", "test", "stat"}, l \in {0, 2}, n \in {1, MaxSectors} :
       /\ call' = [kind |-> k, d |-> d, lba |-> l, n |-> n]
       /\ k \in {"test", "stat"} => l = 0 /\ n = 1
       /\ IF k = "stat" /\ ~changed[d] THEN Return("ok")
          ELSE phase' = "prepare" /\ result' = "none" /\ plan' = <<>>
  /\ done' = 0 /\ size' = 0 /\ got' = <<>> /\ try' = 0 /\ first' = "none" /\ retry' = 0
  /\ UNCHANGED <<fstate, fdc, drive, age, wait, nap, world, bad>>

\* One round of the loop of prepare_transfer, and its second read.
Attempt == <<"reset", "recal", "seek", "seek", "probe">>

MediaChangedStale(d) == changed[d]

\* fdc0_media_changed; the drive shows its line while the motor runs.
MediaChanged(d) == changed[d] \/ (line[d] /\ d \in hw)

\* prepare_transfer up to its loop.
Prepare ==
  /\ phase = "prepare"
  /\ StartMotor(call.d)
  /\ LET d == call.d
         c == changed[d] \/ line[d]
     IN  IF fstate = 1 \/ c
         THEN /\ phase' = "step" /\ plan' = Attempt /\ try' = 1 /\ UNCHANGED result
              /\ changed' = [changed EXCEPT ![d] = @ \/ (fstate # 1 /\ c)]
              /\ debut' = ~used[d] /\ used' = [used EXCEPT ![d] = TRUE]
         ELSE /\ UNCHANGED <<try, changed, used, debut>>
              /\ IF call.kind \in {"test", "stat"} THEN Return("ok")
                 ELSE phase' = "unit" /\ UNCHANGED <<plan, result>>
  /\ UNCHANGED <<call, nreq, first, retry, size, done, got, fstate, loaded, table, told, wait, nap, world, bad>>

Table(t) == [rate |-> (t + 1) \div 2, spt |-> Spt[(t + 1) \div 2]]

\* fdc0_reset: the register is zeroed, then written with fdc0_dor_value, which
\* is read without the lock.  A round of the loop sets the table before.
ResetLow ==
  /\ phase = "step" /\ Head(plan) = "reset" /\ phase' = "load" /\ hw' = {}
  /\ table' = IF try > 0 THEN [table EXCEPT ![call.d] = Table(try)] ELSE table
  /\ UNCHANGED <<plan, call, nreq, try, first, retry, size, done, got, result, fstate, dsel, motor, loaded, rate, changed, used, debut, told, age, wait, nap, world, bad>>

ResetLoad ==
  /\ phase = "load" /\ phase' = "high" /\ loaded' = motor
  /\ UNCHANGED <<plan, call, nreq, try, first, retry, size, done, got, result, fstate, dsel, motor, hw, rate, drive, age, wait, nap, world, bad>>

ResetHigh ==
  /\ phase = "high" /\ phase' = "wait" /\ wait' = 0 /\ hw' = loaded
  /\ UNCHANGED <<plan, call, nreq, try, first, retry, size, done, got, result, fstate, dsel, motor, loaded, rate, drive, age, nap, world, bad>>

\* fdc0_recalibrate and fdc0_seek give their command.
Move ==
  /\ phase = "step" /\ Head(plan) \in {"recal", "seek"} /\ phase' = "wait" /\ wait' = 0
  /\ StartMotor(dsel)
  /\ UNCHANGED <<plan, call, nreq, try, first, retry, size, done, got, result, fstate, loaded, drive, nap, world, bad>>

\* The wait for one of those is over, in time or not.  After a reset the
\* controller is configured; a seek with a disk in clears the line.
MoveEnds ==
  /\ phase = "wait" /\ Head(plan) \in {"reset", "recal", "seek"}
  /\ \/ UNCHANGED bad
     \/ wait = Limit /\ swaps + bad < MaxBad /\ bad' = bad + 1
  /\ rate' = IF Head(plan) = "reset" THEN table[dsel].rate ELSE rate
  /\ line' = IF Head(plan) = "seek" /\ disk[dsel] # NoDisk /\ bad' = bad THEN [line EXCEPT ![dsel] = FALSE] ELSE line
  /\ plan' = Tail(plan) /\ phase' = "step"
  /\ UNCHANGED <<call, nreq, try, first, retry, size, done, got, result, fstate, dsel, motor, hw, loaded, drive, age, wait, nap, disk, swaps>>

-----------------------------------------------------------------------------
(* The outcome of a transfer.                                               *)

\* read_bios_parameter_block: the disk may say another geometry.
Identified(d) == [table[d] EXCEPT !.spt = IF disk[d].bpb THEN disk[d].spt ELSE @]

\* A read of prepare_transfer worked.  The first use of a drive goes on with
\* its transfer; later the callers are told that the disk changed.
ProbeWorked ==
  /\ table' = [table EXCEPT ![call.d] = Identified(call.d)]
  /\ told' = [told EXCEPT ![call.d] = disk[call.d]]
  /\ fstate' = 2 /\ try' = 0
  /\ \/ ~debut /\ Return("DE_MEDIA_CHANGED")
     \/ debut /\ call.kind \in {"test", "stat"} /\ Return("ok")
     \/ debut /\ call.kind \notin {"test", "stat"} /\ phase' = "unit" /\ plan' = <<>> /\ UNCHANGED result
  /\ UNCHANGED <<changed, first, retry, size, done, got>>

ProbeFailedKeeps(r, c) ==
  /\ IF try < 2 * Len(Spt)
     THEN /\ try' = try + 1 /\ phase' = "step" /\ changed' = c
          /\ plan' = (IF try % 2 = 1 THEN <<"probe">> ELSE Attempt)
          /\ first' = (IF first = "none" THEN r ELSE first)
          /\ UNCHANGED <<table, result>>
     ELSE /\ changed' = c /\ UNCHANGED <<try, first, table>> /\ Return(first)
  /\ UNCHANGED <<told, fstate, retry, size, done, got>>

\* The second read, the next table, or the end: the drive has no table then.
ProbeFailed(r, c) ==
  /\ IF try < 2 * Len(Spt)
     THEN /\ try' = try + 1 /\ phase' = "step" /\ changed' = c
          /\ plan' = (IF try % 2 = 1 THEN <<"probe">> ELSE Attempt)
          /\ first' = (IF first = "none" THEN r ELSE first)
          /\ UNCHANGED <<table, result>>
     ELSE /\ changed' = [c EXCEPT ![call.d] = TRUE]
          /\ table' = [table EXCEPT ![call.d] = NoTable]
          /\ UNCHANGED <<try, first>> /\ Return(first)
  /\ UNCHANGED <<told, fstate, retry, size, done, got>>

\* do_transfer: a failed command is repeated with one sector, and after the
\* third failure the controller is reset.
TransferFailed(r, c) ==
  /\ changed' = c
  /\ IF r = "DE_MEDIA_CHANGED" \/ retry = 0 THEN Return(r) /\ UNCHANGED <<retry, size>>
     ELSE /\ retry' = retry - 1 /\ size' = 1 /\ phase' = "step" /\ UNCHANGED result
          /\ plan' = (IF retry = 2 THEN <<"reset", "rw">> ELSE <<"rw">>)
  /\ UNCHANGED <<table, told, try, first, fstate, done, got>>

Failure(r, c) == IF Head(plan) = "probe" THEN ProbeFailed(r, c) ELSE TransferFailed(r, c)

ChsPerCylinder(l) ==
  LET spt == table[call.d].spt IN
  [c |-> l \div (Heads * spt), h |-> (l % (Heads * spt)) \div spt, s |-> (l % (Heads * spt)) + 1]

\* Cylinder, head and sector of a block.
Chs(l) ==
  LET spt == table[call.d].spt IN
  [c |-> l \div (Heads * spt), h |-> (l % (Heads * spt)) \div spt, s |-> (l % spt) + 1]

UnitSizeTrack(left) == left

\* A command stays on its track and within the call.
UnitSize(left) == IF left > call.n - done THEN call.n - done ELSE left

\* do_transfer: the next command, or the end of the call or of the disk.
NextUnit ==
  /\ phase = "unit"
  /\ LET a == Chs(call.lba + done)
         left == table[call.d].spt - (a.s - 1)
     IN  IF done = call.n \/ a.c >= Cylinders
         THEN Return("ok") /\ UNCHANGED <<size, retry>>
         ELSE /\ size' = UnitSize(left)
              /\ retry' = Retries - 1 /\ phase' = "step" /\ plan' = <<"rw">> /\ UNCHANGED result
  /\ UNCHANGED <<call, nreq, try, first, done, got, fstate, fdc, drive, age, wait, nap, world, bad>>

\* fdc0_read and fdc0_write look at the line, then start the motor and give the
\* command.  Before the first read of a round media_changed is cleared.
Command ==
  /\ phase = "step" /\ Head(plan) \in {"probe", "rw"}
  /\ LET d == call.d
         fresh == Head(plan) = "probe" /\ try % 2 = 1
         is == IF fresh THEN line[d] /\ d \in hw ELSE MediaChanged(d)
         c == [changed EXCEPT ![d] = is]
     IN  \/ is /\ Failure("DE_MEDIA_CHANGED", c) /\ UNCHANGED <<age, motor, dsel, hw, rate, wait>>
         \/ /\ ~is /\ StartMotor(dsel) /\ phase' = "wait" /\ wait' = 0 /\ changed' = c
            /\ UNCHANGED <<plan, try, first, retry, size, done, got, result, fstate, table, told>>
  /\ UNCHANGED <<call, nreq, used, debut, loaded, nap, world, bad>>

\* What the controller can move: the disk is in, of this rate, and has the
\* sectors on the track.
Readable(a, n) ==
  /\ disk[dsel].rate = rate /\ disk[dsel] # NoDisk /\ dsel \in hw
  /\ a.s + n - 1 <= disk[dsel].spt

\* Sectors of the disk that are moved.
Moved(a, n) == [i \in 1 .. n |-> <<disk[dsel], (a.c * Heads + a.h) * disk[dsel].spt + a.s - 1 + i - 1>>]

\* The interrupt came and the status is good.
CommandWorks ==
  /\ phase = "wait" /\ Head(plan) \in {"probe", "rw"}
  /\ IF Head(plan) = "probe"
     THEN Readable([c |-> 0, h |-> 0, s |-> 1], 2) /\ ProbeWorked
     ELSE LET a == Chs(call.lba + done) IN
          /\ Readable(a, size)
          /\ got' = got \o Moved(a, size) /\ done' = done + size /\ phase' = "unit" /\ plan' = <<>>
          /\ UNCHANGED <<try, first, retry, size, result, fstate, table, changed, told>>
  /\ UNCHANGED <<call, nreq, fdc, used, debut, age, wait, nap, world, bad>>

\* The status says why not, or there is none: the disk cannot be read, or the
\* command fails, or nothing comes in time.
CommandFails ==
  /\ phase = "wait" /\ Head(plan) \in {"probe", "rw"}
  /\ LET a == IF Head(plan) = "probe" THEN [c |-> 0, h |-> 0, s |-> 1] ELSE Chs(call.lba + done)
         n == IF Head(plan) = "probe" THEN 2 ELSE size
     IN  \/ ~Readable(a, n) /\ UNCHANGED bad /\ Failure("DE_ADDRESS_MARK", changed)
         \/ /\ swaps + bad < MaxBad /\ bad' = bad + 1 /\ wait \in {0, Limit}
            /\ Failure("DE_BLOCK_READ", changed)
  /\ UNCHANGED <<call, nreq, fdc, used, debut, age, wait, nap, world>>

\* Someone takes a disk out, or puts another one in, but not within a command,
\* and not between those of a call when the last one took as long as the motors
\* run: with the motor off the line is not seen.
Swap ==
  /\ swaps + bad < MaxBad /\ swaps' = swaps + 1
  /\ \E d \in Drive, k \in Disks \cup {NoDisk} :
       /\ k # disk[d] /\ (k = NoDisk \/ phase = "idle" \/ (phase = "unit" /\ (d = call.d => age[d] < Limit))) /\ \A e \in Drive : disk[e] # k \/ k = NoDisk
       /\ disk' = [disk EXCEPT ![d] = k]
       /\ line' = [line EXCEPT ![d] = TRUE]
  /\ UNCHANGED <<driver, fdc, drive, age, wait, nap, bad>>

Driver ==
  \/ Prepare \/ ResetLow \/ ResetLoad \/ ResetHigh \/ Move \/ MoveEnds \/ NextUnit \/ Command
  \/ CommandWorks \/ CommandFails

Next == Call \/ Driver \/ MotorTask \/ Tick \/ Swap

Spec == Init /\ [][Next]_vars

-----------------------------------------------------------------------------
(* A call that returns zero moved the sectors it was asked for, in order,   *)
(* up to the end of the disk, and all of them belong to the disk that the   *)
(* callers were last told about: no disk that was changed is used with the  *)
(* geometry, or the caches, of the one before (prepare_transfer,            *)
(* fdc0_media_changed, do_transfer).                                        *)
CountedIsDisk ==
  (phase = "idle" /\ result = "ok" /\ call.kind = "rw") =>
    /\ done = call.n \/ call.lba + done >= Cylinders * Heads * told[call.d].spt
    /\ got = [i \in 1 .. done |-> <<told[call.d], call.lba + i - 1>>]

(* While a data command runs and has not timed out, the motor of its drive  *)
(* is on, although the motor task runs beside it and the reset of the       *)
(* controller writes the register without the lock.                         *)
MotorRuns ==
  (phase = "wait" /\ Head(plan) \in {"probe", "rw"} /\ wait < Limit) => call.d \in hw /\ dsel = call.d

(* A data command is given to a controller that is configured for the table *)
(* of its drive, also after the other drive was used in between.            *)
Configured ==
  (phase = "wait" /\ Head(plan) \in {"probe", "rw"}) => rate = table[call.d].rate

(* fdc0_media_changed is called with the motor running: the comment there   *)
(* leaves this to its callers.                                              *)
LineReadWithMotor ==
  (phase = "step" /\ Head(plan) \in {"probe", "rw"}) => call.d \in hw
=============================================================================
