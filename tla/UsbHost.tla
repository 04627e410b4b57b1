------------------------------ MODULE UsbHost -------------------------------
(***************************************************************************)
(* USB and input devices: the xHCI controller's rings (module Xhci),       *)
(* ports, devices and their drivers (Usb), the nodes of mass storage       *)
(* (UsbStorage), the PS/2 keyboard (Ps2), and, in this module, the         *)
(* bulk-only transport (usb/usb_msc.c) the reading of descriptors          *)
(* (usb/usb.c), the USB keyboard (usb/boot_kbd.c) and mice (ps2/mouse.c,   *)
(* misc/mouse.c).                                                          *)
(***************************************************************************)
EXTENDS Integers, FiniteSets, Sequences, TLC, Functions, SequencesExt

CONSTANTS
  Parts,      \* the parts that move
  NoDevice,   \* no device
  Sectors,    \* blocks of the disk
  Unit,       \* blocks of a command (0x1000 / disk_block_size)
  MaxBlocks,  \* bound: blocks of a request
  MaxLost,    \* bound: transfers that fail in a request
  Buffer,     \* size of the buffer
  Lengths,    \* lengths of descriptors a device answers with
  DevLen,     \* length of the device descriptor (18)
  ConfLen,    \* length of the configuration descriptor itself (9)
  MaxConf,    \* bound: bNumConfigurations
  MaxString,  \* bound: the largest string index
  MaxDesc,    \* bound: descriptors that are parsed
  KeySlots,   \* keys of a report, and repeat entries
  UsbKeySet,  \* the keys of this keyboard
  Devs,       \* nodes of each kind, 0..N
  MouseRoom,  \* places of a pipe (1023)
  PortSize,   \* PS2_BUFFER_SIZE
  Inputs,     \* bound on the packets and keys that are sent, together
  Switches    \* values of console_switch_data

VARIABLES
  part,  \* the part that moves
  bulkPc,                 \* where write_cbw is
  op,                     \* the request: write, first block, blocks
  done,                   \* transfer_size, in blocks
  bulkAgain,              \* the transfer was repeated
  bulkResult,             \* what the request returned
  bulkThere,              \* the device is the one of the node
  phase,                  \* the device's phase
  bulkCmd,                \* the command it has: write, first block, blocks
  moved,                  \* blocks of its command the device moved
  short,                  \* history: blocks that were counted, and that the device
                          \* said it has not moved
  disk,                   \* history: blocks that were written by this request
  bulkBuf,                \* history: which block of the disk each block of the buffer has
  bulkLost,               \* transfers that failed
  parsePc,                \* where n_read or start_driver_0 is
  parseSize,              \* *size
  top,                    \* history: the end of the last transfer into the buffer
  parseLeft,              \* configurations or strings that are left
  strings,                \* max_string_index
  parseResult,            \* what n_read returned
  seq,                    \* the descriptors that were parsed
  drv,                    \* driver->descriptor: device, configuration, interface, endpoints
  started,                \* interfaces (indices in seq) that start_driver_1 was called with
  kbdPc,                  \* where the driver is
  report,                 \* report_a, of the last iteration
  kbdKeys,                \* modifiers and locks
  repeat,                 \* state->repeat
  kbdIdle,                \* state->idle[1]
  kbdDown,                \* history: keys a reader of the events believes to be down
  pressed,                \* history: the last key that came into a report
  pipe,                   \* kind and node: packets or keys; live is history: who had
                          \* the node open when it was written still has it open
  open,                   \* kind and node: a program has it open
  console,                \* console_switch_data
  mousePort,              \* kind: bytes in ps2_buffer
  mouseEvent,             \* kind: its event is signaled
  mousePc, mouseDev,      \* of the task: where it is, and the node that is cleared
  mouseReady, mode,       \* mse_ready, and whether packets have four bytes
  mouseState, mouseData,  \* of ps2_mse_handler
  mouseKey,               \* the key to be written
  sent,                   \* source: number of packets and keys sent
  last,                   \* source and node: the number that was read last
  mouseLost,              \* bytes were lost, or the mouse was set up within a packet
  \* of Xhci
  ring, serial, high, xhciCmd, req, late, er, erw, err, erdp, flags, xhciIrq,
  taken,
  \* of Usb
  usbPort, usbEvents, usbIrq, usbSync, usbPc, locks, slot, cache, pages,
  usbDev, usbPorts, usbNodes, made, ref, reach, missed, failed,
  \* of UsbStorage
  plugged, storagePc, array, storageCount, storageLive, storageHeld, users,
  mntLock, storageK, temp, mnt,
  \* of Ps2
  ps2Buf, ps2Event, ps2Pc, ps2Cmd, ps2Left, ps2Ready, probe, kbdState,
  ps2Keys, led, ps2On, scanning, sending, ps2Down, nkeys, nplugs, nresend,
  ps2Lost, due, wrong

\* What a part that stands still has.
Still == /\ part # "ps2" /\ part # "plug" => ps2On
         /\ part # "mouse" => console = 0

Transfers == INSTANCE Xhci
  WITH Entries <- 3, Events <- 2, MaxCmd <- 1, MaxTrb <- 4,
       Codes <- {"success", "short"}, MaxStages <- 3, SlotId <- 1,
       MaxSlots <- 2, cmd <- xhciCmd, irq <- xhciIrq
Commands == INSTANCE Xhci
  WITH Entries <- 2, Events <- 3, MaxCmd <- 5, MaxTrb <- 1,
       Codes <- {"success"}, MaxStages <- 1, SlotId <- 1, MaxSlots <- 2,
       cmd <- xhciCmd, irq <- xhciIrq
Handling == INSTANCE Xhci
  WITH Entries <- 2, Events <- 3, MaxCmd <- 1, MaxTrb <- 2,
       Codes <- {"success"}, MaxStages <- 2, SlotId <- 2, MaxSlots <- 2,
       cmd <- xhciCmd, irq <- xhciIrq
Ports == INSTANCE Usb
  WITH PortTasks <- {"p1", "p2"}, Drivers <- {"d1"}, Users <- {"u1"},
       MaxPlug <- 2, MaxNode <- 2, CacheMax <- 2, Faults <- TRUE, port <- usbPort,
       events <- usbEvents, irq <- usbIrq, sync <- usbSync,
       pc <- usbPc, dev <- usbDev, ports <- usbPorts, nodes <- usbNodes
Settling == INSTANCE Usb
  WITH PortTasks <- {"p1", "p2"}, Drivers <- {"d1"}, Users <- {},
       MaxPlug <- 2, MaxNode <- 2, CacheMax <- 2, Faults <- TRUE,
       port <- usbPort, events <- usbEvents, irq <- usbIrq, sync <- usbSync,
       pc <- usbPc, dev <- usbDev, ports <- usbPorts, nodes <- usbNodes
Drives == INSTANCE UsbStorage
  WITH Dev <- {"d1", "d2", "d3"}, Slots <- 2, MaxUsers <- 0,
       None <- NoDevice, pc <- storagePc, count <- storageCount,
       live <- storageLive, held <- storageHeld, k <- storageK
Ending == INSTANCE UsbStorage
  WITH Dev <- {"d1", "d2"}, Slots <- 1, MaxUsers <- 1, None <- NoDevice,
       pc <- storagePc, count <- storageCount, live <- storageLive,
       held <- storageHeld, k <- storageK
Ps2Keyboard == INSTANCE Ps2
  WITH Size <- 5, KeySet <- {"rctrl", "capslock", "pause"}, Late <- TRUE,
       MaxKeys <- 2, MaxPlugs <- 0, MaxResend <- 1, buf <- ps2Buf,
       event <- ps2Event, pc <- ps2Pc, cmd <- ps2Cmd, left <- ps2Left,
       ready <- ps2Ready, keys <- ps2Keys, on <- ps2On, down <- ps2Down,
       lost <- ps2Lost
Ps2Plugs == INSTANCE Ps2
  WITH Size <- 5, KeySet <- {"capslock"}, Late <- FALSE, MaxKeys <- 1,
       MaxPlugs <- 1, MaxResend <- 1, buf <- ps2Buf, event <- ps2Event,
       pc <- ps2Pc, cmd <- ps2Cmd, left <- ps2Left, ready <- ps2Ready,
       keys <- ps2Keys, on <- ps2On, down <- ps2Down, lost <- ps2Lost
-----------------------------------------------------------------------------
(***************************************************************************)
(* Reading and writing USB mass storage (usb/usb_msc.c): read_write_locked *)
(* splits a request into SCSI commands, and write_cbw carries each of them *)
(* over the bulk-only transport: a command wrapper, data, and a status,    *)
(* with one retry of the last two after the endpoint was cleared.          *)
(*                                                                         *)
(* The device (external) is in one of three phases; it takes no command    *)
(* before the status of the one before has gone, so that the tag, which is *)
(* always zero, would tell nothing.  A transfer may fail with or without   *)
(* having happened, and may be short.                                      *)
(***************************************************************************)

bulkVars == <<bulkPc, op, done, bulkAgain, bulkResult, bulkThere, phase, bulkCmd, moved, short, disk, bulkBuf, bulkLost>>

Junk == Sectors            \* something in the buffer that is no block
NoCmd == [write |-> FALSE, lba |-> 0, n |-> 0]
Ops == [write : BOOLEAN, lba : 0 .. Sectors, n : 0 .. MaxBlocks]

BulkTypeOK ==
  /\ bulkPc \in {"idle", "unit", "cbw", "data", "csw"}
  /\ op \in Ops /\ done \in 0 .. MaxBlocks /\ bulkAgain \in BOOLEAN
  /\ bulkResult \in {"none", "ok", "error", "DE_ALIGNMENT", "DE_MEDIA_CHANGED"}
  /\ bulkThere \in BOOLEAN /\ moved \in 0 .. Unit /\ short \subseteq 0 .. MaxBlocks - 1 /\ bulkLost \in 0 .. MaxLost
  /\ phase \in {"idle", "data", "status"}
  /\ disk \subseteq 0 .. Sectors - 1
  /\ bulkCmd \in Ops /\ bulkCmd.n <= Unit

BulkInit ==
  /\ bulkPc = "idle" /\ op = NoCmd /\ done = 0 /\ bulkAgain = FALSE /\ bulkResult = "none"
  /\ bulkThere = TRUE /\ phase = "idle" /\ bulkCmd = NoCmd /\ moved = 0 /\ short = {}
  /\ disk = {} /\ bulkBuf = [i \in 0 .. MaxBlocks - 1 |-> Junk] /\ bulkLost = 0

\* n_read, n_write: a new request.
Request ==
  /\ bulkPc = "idle"
  /\ \E o \in Ops :
       op' = o /\ disk' = {} /\ short' = {} /\ bulkBuf' = [i \in 0 .. MaxBlocks - 1 |-> Junk]
  /\ done' = 0 /\ bulkLost' = 0
  /\ \/ bulkPc' = "unit" /\ bulkResult' = "none"
     \/ bulkPc' = bulkPc /\ bulkResult' = "DE_ALIGNMENT"    \* the offset or the size
  /\ UNCHANGED <<bulkAgain, bulkThere, phase, bulkCmd, moved>>

Return(r) ==
  /\ bulkResult' = r /\ bulkPc' = "idle"
  /\ UNCHANGED <<op, done, bulkThere, bulkCmd, bulkLost>>

Least(a, b) == IF a < b THEN a ELSE b

UnitBlocksBeyond == Least(op.n - done, Unit)

UnitBlocksWhole == IF op.lba + done >= Sectors THEN 0 ELSE Least(Unit, Sectors - (op.lba + done))

UnitBlocksStops == IF op.lba + done + Unit > Sectors THEN 0 ELSE Least(op.n - done, Unit)

\* The blocks of the next command: not more than a unit, than is left, and
\* than the disk has.
UnitBlocks ==
  IF op.lba + done >= Sectors THEN 0
  ELSE Least(Least(op.n - done, Unit), Sectors - (op.lba + done))

NextUnit ==
  /\ bulkPc = "unit"
  /\ \/ /\ (done >= op.n \/ UnitBlocks = 0) /\ Return("ok")
        /\ UNCHANGED <<bulkAgain, phase, moved, short, disk, bulkBuf>>
     \/ /\ done < op.n /\ UnitBlocks > 0
        /\ bulkPc' = "cbw"
        /\ UNCHANGED <<op, done, bulkAgain, bulkResult, bulkThere, phase, bulkCmd, moved, short, disk, bulkBuf, bulkLost>>

\* The device goes away, or is replaced.
BulkGone ==
  /\ bulkThere /\ bulkThere' = FALSE
  /\ UNCHANGED <<bulkPc, op, done, bulkAgain, bulkResult, phase, bulkCmd, moved, short, disk, bulkBuf, bulkLost>>

-----------------------------------------------------------------------------
(* Transfers.  What the device does, and whether the host hears of it.      *)

Fails == bulkLost < MaxLost

\* scsi_read, scsi_write.
Command == [write |-> op.write, lba |-> op.lba + done, n |-> UnitBlocks]

\* The command wrapper.
Cbw ==
  /\ bulkPc = "cbw" /\ bulkThere
  /\ \/ \* the device takes it, and the host goes on
        /\ phase = "idle"
        /\ phase' = "data" /\ bulkCmd' = Command /\ moved' = 0
        /\ bulkPc' = "data" /\ bulkAgain' = FALSE
        /\ UNCHANGED <<op, done, bulkResult, bulkThere, short, disk, bulkBuf, bulkLost>>
     \/ \* the device takes it, and the host does not hear of it
        /\ phase = "idle" /\ Fails
        /\ phase' = "data" /\ bulkCmd' = Command /\ moved' = 0
        /\ bulkLost' = bulkLost + 1 /\ bulkResult' = "error" /\ bulkPc' = "idle"
        /\ UNCHANGED <<op, done, bulkAgain, bulkThere, short, disk, bulkBuf>>
     \/ \* the device does not take it: it still has an earlier command
        /\ phase # "idle" \/ Fails
        /\ Return("error")
        /\ UNCHANGED <<bulkAgain, phase, moved, short, disk, bulkBuf>>

CbwGone ==
  /\ bulkPc = "cbw" /\ ~bulkThere /\ Return("DE_MEDIA_CHANGED")
  /\ UNCHANGED <<bulkAgain, phase, moved, short, disk, bulkBuf>>

\* What the device makes of the data: some of its blocks, or all of them.
Moved ==
  \E n \in 0 .. bulkCmd.n :
    /\ moved' = n
    /\ disk' = IF bulkCmd.write THEN disk \cup (bulkCmd.lba .. bulkCmd.lba + n - 1) ELSE disk
    /\ bulkBuf' = IF bulkCmd.write THEN bulkBuf
                ELSE [i \in DOMAIN bulkBuf |-> IF i >= done /\ i < done + n THEN bulkCmd.lba + (i - done) ELSE bulkBuf[i]]

\* The status in the place of data.
JunkRead == bulkBuf' = [bulkBuf EXCEPT ![done] = Junk] /\ UNCHANGED <<disk, moved>>

\* A failure is repeated once, after the endpoint was cleared.
Repeat(next) ==
  /\ Fails
  /\ bulkLost' = bulkLost + 1
  /\ IF bulkAgain THEN bulkPc' = "idle" /\ bulkResult' = "error" /\ UNCHANGED bulkAgain
              ELSE bulkPc' = next /\ bulkAgain' = TRUE /\ UNCHANGED bulkResult
  /\ UNCHANGED <<op, done, bulkThere, bulkCmd>>

Goes(next) ==
  /\ bulkPc' = next /\ bulkAgain' = FALSE
  /\ UNCHANGED <<op, done, bulkResult, bulkThere, bulkCmd, bulkLost>>

Data ==
  /\ bulkPc = "data"
  /\ \/ phase = "data" /\ phase' = "status" /\ Moved /\ Goes("csw")
     \/ phase = "data" /\ phase' = "status" /\ Moved /\ Repeat("data")                       \* not heard of
     \/ phase = "data" /\ phase' = "status" /\ UNCHANGED <<moved, disk, bulkBuf>> /\ Repeat("data")     \* a stall
     \/ phase = "data" /\ UNCHANGED <<phase, moved, disk, bulkBuf>> /\ Repeat("data")
     \/ phase = "status" /\ ~op.write /\ phase' = "idle" /\ JunkRead /\ Goes("csw")
     \/ phase = "status" /\ ~op.write /\ phase' = "idle" /\ JunkRead /\ Repeat("data")
     \/ /\ phase = "idle" \/ (phase = "status" /\ op.write)
        /\ UNCHANGED <<phase, moved, disk, bulkBuf>>
        /\ IF bulkAgain THEN Return("error") /\ UNCHANGED bulkAgain
           ELSE bulkAgain' = TRUE /\ UNCHANGED <<bulkPc, op, done, bulkResult, bulkThere, bulkCmd, bulkLost>>
  /\ UNCHANGED short

CswOkUnit ==
  /\ done' = done + Unit
  /\ bulkPc' = "unit" /\ bulkAgain' = FALSE
  /\ UNCHANGED <<op, bulkResult, bulkThere, bulkCmd, bulkLost>>

\* The status: of the right form, and zero; the unit counts. The residue is
\* not looked at, nor was the size of the data.
CswOk ==
  /\ done' = done + bulkCmd.n
  /\ bulkPc' = "unit" /\ bulkAgain' = FALSE
  /\ UNCHANGED <<op, bulkResult, bulkThere, bulkCmd, bulkLost>>

\* csw[12] is not zero, whatever the transfer was.
CswFailed == Return("error") /\ UNCHANGED bulkAgain

\* The device was asked for its status; blocks it has not moved are in the
\* residue.
Csw ==
  /\ bulkPc = "csw"
  /\ \/ phase = "status" /\ phase' = "idle" /\ CswOk
     \/ phase = "status" /\ phase' = "idle" /\ CswFailed
     \/ phase = "status" /\ phase' = "idle" /\ Repeat("csw")
     \/ phase = "status" /\ phase' = phase /\ Repeat("csw")
     \/ /\ phase # "status" /\ phase' = phase
        /\ IF bulkAgain THEN Return("error") /\ UNCHANGED bulkAgain
           ELSE bulkAgain' = TRUE /\ UNCHANGED <<bulkPc, op, done, bulkResult, bulkThere, bulkCmd, bulkLost>>
  /\ short' = IF done' = done THEN short ELSE short \cup (done + moved .. done + bulkCmd.n - 1)
  /\ UNCHANGED <<moved, disk, bulkBuf>>

BulkNext == Request \/ NextUnit \/ BulkGone \/ Cbw \/ CbwGone \/ Data \/ Csw

-----------------------------------------------------------------------------
(* A block that read_write_locked counts was really transferred: it is on   *)
(* the disk, or the buffer has it and not the status of a command or what   *)
(* an earlier command left. The exception is a block of which the device    *)
(* itself says, in the residue, that it was not: write_cbw takes a short    *)
(* data phase for a whole one, and with it the zeros it has put into the    *)
(* buffer.                                                                  *)
CountedIsDone ==
  \A i \in (0 .. done - 1) \ short :
    IF op.write THEN op.lba + i \in disk ELSE bulkBuf[i] = op.lba + i

(* A request writes only blocks it names, and only of the disk.             *)
WritesItsBlocks ==
  disk \subseteq (op.lba .. op.lba + op.n - 1) \cap (0 .. Sectors - 1)

(* A request that returns zero transferred everything up to the end of the  *)
(* disk; a shorter count without an error is the end.                       *)
ShortOnlyAtEnd ==
  bulkResult = "ok" => (done = op.n \/ op.lba + done >= Sectors)
-----------------------------------------------------------------------------
(***************************************************************************)
(* How the descriptors of a USB device are read into a buffer (n_read and  *)
(* descriptor of usb/usb_node.c) and how drivers are started from them     *)
(* (start_driver_0 and start_driver_1 of usb/usb_task.c).                  *)
(*                                                                         *)
(* The device may answer with any lengths.  Sizes are in small units; a    *)
(* descriptor of the second part is its type and what is looked at.        *)
(***************************************************************************)

\* Descriptors as the second part sees them: an interface has its number of
\* endpoints and its alternate setting, an endpoint its number.
Descriptors ==
  {[type |-> t, alt |-> 0, eps |-> 0, ep |-> 0] : t \in {"device", "configuration", "hid", "other"}}
    \cup [type : {"interface"}, alt : 0 .. 1, eps : 0 .. 1, ep : {0}]
    \cup [type : {"endpoint"}, alt : {0}, eps : {0}, ep : 0 .. 2]

reading == <<parseSize, top, parseLeft, strings, parseResult>>
parsing == <<seq, drv, started>>
parseVars == <<parsePc, reading, parsing>>

NoDrv == [device |-> FALSE, conf |-> FALSE, interface |-> 0, eps |-> {}]

ParseTypeOK ==
  /\ parsePc \in {"device", "config", "total", "zero", "string", "copy", "parse", "over"}
  /\ parseSize \in 0 .. Buffer /\ top \in Nat
  /\ parseResult \in {"ok", "DE_BUFFER", "error"}
  /\ drv.eps \subseteq 1 .. 2 /\ drv.interface \in 0 .. Len(seq)

ParseInit ==
  /\ parsePc = "device" /\ parseSize = 0 /\ top = 0 /\ parseLeft = 0 /\ strings = 0 /\ parseResult = "ok"
  /\ seq = <<>> /\ drv = NoDrv /\ started = {}

-----------------------------------------------------------------------------
(* Reading. *)

\* A program gets the error; usb_attach_device_task goes on with what there is.
Fail(r) ==
  /\ parseResult' = r /\ parsePc' \in {"over", "copy"}
  /\ UNCHANGED <<parseSize, parseLeft, strings>>

Done(next) == parsePc' = next /\ parseResult' = "ok"

\* descriptor() that does not look at the longer length.
DescriptorUnchecked(want, n) ==
  IF parseSize + want > Buffer THEN "DE_BUFFER" ELSE "ok"

\* descriptor(): want is wLength, the answer begins with its own length n.
\* When that is longer it is asked for again, if it fits.
Descriptor(want, n) ==
  IF parseSize + want > Buffer THEN "DE_BUFFER"
  ELSE IF n > want /\ parseSize + n > Buffer THEN "DE_BUFFER"
  ELSE "ok"

\* The end of what was transferred, and of what *size becomes.
Longer(want, n) == IF n > want THEN n ELSE want

Get(want, n, next) ==
  \/ /\ Descriptor(want, n) = "ok"
     /\ parseSize' = parseSize + Longer(want, n) /\ top' = parseSize + Longer(want, n)
     /\ next
  \/ /\ Descriptor(want, n) = "DE_BUFFER"
     /\ top' = IF parseSize + want > Buffer THEN top ELSE parseSize + want
     /\ Fail("DE_BUFFER")
  \/ UNCHANGED top /\ Fail("error")

\* The device descriptor, which has the number of configurations and the
\* largest string index.
ReadDevice ==
  /\ parsePc = "device"
  /\ \E n \in Lengths, c \in 0 .. MaxConf, s \in 0 .. MaxString :
       Get(DevLen, n, parseLeft' = c /\ strings' = s /\ Done("config"))
  /\ UNCHANGED parsing

\* A configuration descriptor is read twice: for wTotalLength and then whole.
ReadConfig ==
  /\ parsePc = "config"
  /\ \/ /\ parseLeft > 0
        /\ \E n \in Lengths :
             \/ /\ Descriptor(ConfLen, n) = "ok"
                /\ top' = parseSize + Longer(ConfLen, n)
                /\ Done("total") /\ UNCHANGED <<parseSize, parseLeft, strings>>
             \/ /\ Descriptor(ConfLen, n) = "DE_BUFFER"
                /\ top' = IF parseSize + ConfLen > Buffer THEN top ELSE parseSize + ConfLen
                /\ Fail("DE_BUFFER")
             \/ UNCHANGED top /\ Fail("error")
     \/ /\ parseLeft = 0
        /\ Done(IF strings = 0 THEN "copy" ELSE "zero")
        /\ UNCHANGED <<parseSize, top, parseLeft, strings>>
  /\ UNCHANGED parsing

ReadTotal ==
  /\ parsePc = "total"
  /\ \E total \in Lengths \cup {0}, n \in Lengths :
       Get(total, n, parseLeft' = parseLeft - 1 /\ UNCHANGED strings /\ Done("config"))
  /\ UNCHANGED parsing

\* String zero: an error of the device makes an empty one.
ReadZero ==
  /\ parsePc = "zero"
  /\ \E n \in Lengths :
       \/ /\ Descriptor(2, n) = "ok"
          /\ parseSize' = parseSize + Longer(2, n) /\ top' = parseSize + Longer(2, n)
          /\ parseLeft' = strings /\ UNCHANGED strings /\ Done("string")
       \/ /\ Descriptor(2, n) = "DE_BUFFER"
          /\ top' = IF parseSize + 2 > Buffer THEN top ELSE parseSize + 2
          /\ Fail("DE_BUFFER")
       \/ /\ parseSize + 2 <= Buffer
          /\ parseSize' = parseSize + 2 /\ top' = parseSize + 2
          /\ parseLeft' = strings /\ UNCHANGED strings /\ Done("string")
  /\ UNCHANGED parsing

\* A string, or a question mark in its place, which takes 4.
ReadString ==
  /\ parsePc = "string"
  /\ \/ parseLeft = 0 /\ Done("copy") /\ UNCHANGED <<parseSize, top, parseLeft, strings>>
     \/ parseLeft > 0 /\ parseSize + 4 > Buffer /\ UNCHANGED top /\ Fail("DE_BUFFER")
     \/ /\ parseLeft > 0 /\ parseSize + 4 <= Buffer
        /\ \/ /\ parseSize' = parseSize + 4 /\ top' = parseSize + 4
              /\ parseLeft' = parseLeft - 1 /\ UNCHANGED strings /\ Done("string")
           \/ \E n \in Lengths :
                Get(2, n, parseLeft' = parseLeft - 1 /\ UNCHANGED strings /\ Done("string"))
  /\ UNCHANGED parsing

\* usb_attach_device_task: the descriptors are copied with an alignment,
\* and the buffer is freed.
Copy ==
  /\ parsePc = "copy" /\ Done("parse")
  /\ parseSize' = 0 /\ top' = 0 /\ parseLeft' = 0 /\ strings' = 0
  /\ UNCHANGED parsing

-----------------------------------------------------------------------------
(* Parsing: start_driver_0, one descriptor at a time. *)

\* start_driver_1: the number of endpoints must be what was announced.
StartsAny == drv.interface # 0

Starts == drv.interface # 0 /\ Cardinality(drv.eps) = seq[drv.interface].eps

ParseStart == started' = started \cup (IF Starts THEN {drv.interface} ELSE {})

\* Endpoints of the interface before stay.
ForgetInterface(d) == [d EXCEPT !.interface = 0]

Forget(d) == [d EXCEPT !.interface = 0, !.eps = {}]

InConf == drv.device /\ drv.conf

\* An interface ends the one before it; alternate settings, and interfaces
\* without endpoints, are passed over.
ParseInterface(d) ==
  /\ d.type = "interface" /\ InConf
  /\ ParseStart
  /\ drv' = IF d.alt # 0 \/ d.eps = 0 THEN Forget(drv)
            ELSE [Forget(drv) EXCEPT !.interface = Len(seq) + 1]
  /\ UNCHANGED parsePc

\* Only the first configuration is used.
ParseConfiguration(d) ==
  /\ d.type = "configuration" /\ drv.device
  /\ ParseStart
  /\ drv' = [Forget(drv) EXCEPT !.conf = TRUE]
  /\ parsePc' = IF drv.conf THEN "over" ELSE parsePc

ParseDevice(d) ==
  /\ d.type = "device"
  /\ IF drv.device THEN parsePc' = "over" /\ UNCHANGED drv
     ELSE drv' = [drv EXCEPT !.device = TRUE] /\ UNCHANGED parsePc
  /\ UNCHANGED started

\* Endpoint zero is taken as well.
ParseEndpointZero(d) ==
  /\ d.type = "endpoint" /\ InConf /\ drv.interface # 0
  /\ drv' = [drv EXCEPT !.eps = @ \cup {d.ep}]
  /\ UNCHANGED <<parsePc, started>>

ParseEndpoint(d) ==
  /\ d.type = "endpoint" /\ InConf /\ drv.interface # 0
  /\ drv' = IF d.ep = 0 THEN drv ELSE [drv EXCEPT !.eps = @ \cup {d.ep}]
  /\ UNCHANGED <<parsePc, started>>

\* Everything else is passed over.
ParseOther(d) ==
  /\ \/ d.type \in {"hid", "other"}
     \/ d.type = "interface" /\ ~InConf
     \/ d.type = "configuration" /\ ~drv.device
     \/ d.type = "endpoint" /\ ~(InConf /\ drv.interface # 0)
  /\ UNCHANGED <<parsePc, drv, started>>

Parse ==
  /\ parsePc = "parse" /\ Len(seq) < MaxDesc
  /\ \E d \in Descriptors :
       /\ seq' = Append(seq, d)
       /\ \/ ParseInterface(d) \/ ParseConfiguration(d) \/ ParseDevice(d)
          \/ ParseEndpoint(d) \/ ParseOther(d)
  /\ UNCHANGED reading

\* A length below 2 ends the list.
ParseEnd ==
  /\ parsePc = "parse"
  /\ ParseStart /\ drv' = NoDrv
  /\ parsePc' = "over"
  /\ UNCHANGED <<reading, seq>>

ParseNext ==
  ReadDevice \/ ReadConfig \/ ReadTotal \/ ReadZero \/ ReadString \/ Copy \/ Parse \/ ParseEnd

-----------------------------------------------------------------------------
(* Properties. *)

\* n_read: whatever lengths the device answers with, nothing is transferred
\* beyond the buffer, and *size is never more than what was transferred.
InBuffer == top <= Buffer /\ parseSize <= Buffer

\* The interfaces a driver is to be started for: those of the first
\* configuration that have endpoints, are no alternate settings and have
\* exactly as many endpoints before the next interface as they announce.
First(P(_)) ==
  LET s == {i \in 1 .. Len(seq) : P(seq[i])} IN
  IF s = {} THEN Len(seq) + 1 ELSE CHOOSE i \in s : \A j \in s : i <= j

Reference ==
  LET device == First(LAMBDA d : d.type = "device")
      confs == {i \in 1 .. Len(seq) : seq[i].type = "configuration" /\ i > device}
      conf == IF confs = {} THEN Len(seq) + 1 ELSE CHOOSE i \in confs : \A j \in confs : i <= j
      Ends(i) == {j \in i + 1 .. Len(seq) : seq[j].type \in {"interface", "configuration"}}
      End(i) == IF Ends(i) = {} THEN Len(seq) + 1 ELSE CHOOSE j \in Ends(i) : \A k \in Ends(i) : j <= k
      Eps(i) == {seq[j].ep : j \in {j \in i + 1 .. End(i) - 1 : seq[j].type = "endpoint"}} \ {0}
      second == {i \in confs : i > conf} \cup {i \in 1 .. Len(seq) : i > device /\ seq[i].type = "device"}
  IN {i \in 1 .. Len(seq) :
        /\ seq[i].type = "interface" /\ i > conf /\ \A j \in second : i < j
        /\ seq[i].alt = 0 /\ seq[i].eps > 0
        /\ Cardinality(Eps(i)) = seq[i].eps}

\* start_driver_0: when the list has come to its end, drivers were started
\* for exactly these interfaces.
RightDrivers ==
  parsePc = "over" /\ parseResult = "ok" /\ ~(\E i, j \in 1 .. Len(seq) : i < j /\ seq[i].type = "device" /\ seq[j].type = "device")
    => started = Reference
-----------------------------------------------------------------------------
(***************************************************************************)
(* The USB keyboard with the boot protocol (usb/boot_kbd.c): keys are      *)
(* pressed and released when they come into and leave the reports of the   *)
(* device, and a key that is held down is repeated.  usb_hid_driver starts *)
(* the driver.                                                             *)
(*                                                                         *)
(* One iteration of the driver is one step: the driver is a task of its    *)
(* own, and what it keeps nobody else uses.                                *)
(***************************************************************************)

Slots == 1 .. KeySlots

keyVars == <<kbdPc, report, kbdKeys, repeat, kbdIdle, kbdDown, pressed>>

None == "none"          \* 0 in a report or an entry
Rollover == "rollover"  \* 1 in all places: too many keys are down

Plain == UsbKeySet \ Ps2Keyboard!Mods

\* What the device (external) sends: every key once, in some place, or that
\* it cannot tell.
Reports ==
  LET Places == [Slots -> Plain \cup {None}]
  IN { [mods |-> m, code |-> c] : m \in SUBSET (UsbKeySet \cap Ps2Keyboard!Mods),
         c \in {p \in Places : \A i, j \in Slots : i # j /\ p[i] # None => p[i] # p[j]}
               \cup {[i \in Slots |-> Rollover]} }

NoReport == [mods |-> {}, code |-> [i \in Slots |-> None]]
NoEntry == [code |-> None, stop |-> FALSE, old |-> FALSE]

KeysOf(r) == {r.code[i] : i \in Slots} \cap Plain

KeyTypeOK ==
  /\ kbdPc \in {"probe", "run", "exit"}
  /\ report \in [mods : SUBSET Ps2Keyboard!Mods, code : [Slots -> Plain \cup {None, Rollover}]]
  /\ kbdKeys \in Ps2Keyboard!KeyState /\ kbdIdle \in {20, 500}
  /\ repeat \in [Slots -> [code : Plain \cup {None}, stop : BOOLEAN, old : BOOLEAN]]
  /\ kbdDown \subseteq Ps2Keyboard!Keys /\ pressed \in Plain \cup {None}

KeyInit ==
  /\ kbdPc = "probe" /\ report = NoReport /\ kbdKeys = Ps2Keyboard!KeyStart
  /\ repeat = [i \in Slots |-> NoEntry] /\ kbdIdle = 500
  /\ kbdDown = {} /\ pressed = None

-----------------------------------------------------------------------------
(* Starting: usb_configure_endpoints, the report descriptor, the boot       *)
(* protocol and set_idle; any of them may fail.                             *)

KeyBegins ==
  /\ kbdPc = "probe" /\ kbdPc' \in {"run", "exit"}
  /\ UNCHANGED <<report, kbdKeys, repeat, kbdIdle, kbdDown, pressed>>

-----------------------------------------------------------------------------
(* process_keycode for a sequence of keys, each with whether it is released. *)

\* What has been done so far: modifiers and locks, and what a reader knows.
Act(t, k) ==
  LET s == Ps2Keyboard!Switch(t.kbdKeys, k.key, k.release)
      w == Ps2Keyboard!Written(s, k.key, k.release)
  IN [kbdKeys |-> s,
      kbdDown |-> IF w = <<>> THEN t.kbdDown ELSE IF k.release THEN t.kbdDown \ {k.key} ELSE t.kbdDown \cup {k.key}]

-----------------------------------------------------------------------------
(* process_repeat.                                                          *)

ReleasedNever(e, k) == e

\* A key is released.
Released(e, k) == [i \in Slots |-> IF e[i].code = k THEN NoEntry ELSE e[i]]

FirstOf(S) == CHOOSE i \in S : \A j \in S : i <= j

HeldRuns(e, k) ==
  LET mine == {i \in Slots : e[i].code = k}
      free == {i \in Slots : e[i].code = None}
  IN IF mine # {} \/ free = {} THEN e
     ELSE [e EXCEPT ![FirstOf(free)] = [code |-> k, stop |-> FALSE, old |-> FALSE]]

\* A key is in the report: the entries before its own are stopped; a key
\* without an entry stops all of them and takes the first that is free.
Held(e, k) ==
  LET mine == {i \in Slots : e[i].code = k}
      stopped == [i \in Slots |-> [e[i] EXCEPT !.stop = TRUE]]
      free == {i \in Slots : e[i].code = None}
  IN IF mine # {} THEN [i \in Slots |-> IF i < FirstOf(mine) THEN stopped[i] ELSE e[i]]
     ELSE IF free = {} THEN stopped
     ELSE [stopped EXCEPT ![FirstOf(free)] = [code |-> k, stop |-> FALSE, old |-> FALSE]]

\* The first entry that runs and is older than 500 ms.
Repeats(e) == {i \in Slots : e[i].code # None /\ ~e[i].stop /\ e[i].old}

-----------------------------------------------------------------------------
(* The driver.                                                              *)

KeyInOrder(S) == SetToSeq(S)

GoneUnchecked(r, other) == SelectSeq(r.code, LAMBDA k : k # None /\ k \notin KeysOf(other))

\* The keys of places 2 to 7 of one report that the other has not.
KeyGone(r, other) == SelectSeq(r.code, LAMBDA k : k \in Plain /\ k \notin KeysOf(other))

ChangesSkip(new) ==
  [i \in DOMAIN KeyGone(report, new) |-> [key |-> KeyGone(report, new)[i], release |-> TRUE]]
     \o [i \in DOMAIN KeyGone(new, report) |-> [key |-> KeyGone(new, report)[i], release |-> FALSE]]

Changes(new) ==
  LET mods == KeyInOrder((new.mods \ report.mods) \cup (report.mods \ new.mods))
  IN [i \in DOMAIN mods |-> [key |-> mods[i], release |-> mods[i] \in report.mods]]
     \o [i \in DOMAIN KeyGone(report, new) |-> [key |-> KeyGone(report, new)[i], release |-> TRUE]]
     \o [i \in DOMAIN KeyGone(new, report) |-> [key |-> KeyGone(new, report)[i], release |-> FALSE]]

\* A report: changes are processed, then the entries, then a key is repeated.
Report(new) ==
  /\ kbdPc = "run" /\ report' = new
  /\ LET t == FoldLeft(LAMBDA a, k : Act(a, k), [kbdKeys |-> kbdKeys, kbdDown |-> kbdDown], Changes(new))
         cleared == FoldLeft(LAMBDA e, k : Released(e, k), repeat, KeyGone(report, new))
         held == FoldLeft(LAMBDA e, k : Held(e, k), cleared, SelectSeq(new.code, LAMBDA k : k \in Plain))
         again == Repeats(held)
         u == IF again = {} THEN t ELSE Act(t, [key |-> held[FirstOf(again)].code, release |-> FALSE])
     IN /\ kbdKeys' = u.kbdKeys /\ kbdDown' = u.kbdDown /\ repeat' = held
        /\ kbdIdle' = IF \E i \in Slots : held[i].code # None THEN 20 ELSE 500
  /\ pressed' = LET g == KeyGone(new, report) IN IF g = <<>> THEN pressed ELSE Last(g)
  /\ UNCHANGED kbdPc

\* Half a second passes for an entry.
Age(i) ==
  /\ repeat[i].code # None /\ ~repeat[i].old
  /\ repeat' = [repeat EXCEPT ![i].old = TRUE]
  /\ UNCHANGED <<kbdPc, report, kbdKeys, kbdIdle, kbdDown, pressed>>

\* read_report fails: the device is gone.
Exit ==
  /\ kbdPc = "run" /\ kbdPc' = "exit"
  /\ UNCHANGED <<report, kbdKeys, repeat, kbdIdle, kbdDown, pressed>>

KeyNext ==
  \/ KeyBegins \/ Exit
  \/ \E new \in Reports : Report(new)
  \/ \E i \in Slots : Age(i)

-----------------------------------------------------------------------------
(* What a reader of the events believes to be down is what the last report  *)
(* said, whatever keys moved between the places of the report, except keys  *)
(* that the kernel keeps for itself.                                        *)
DownIsReported ==
  kbdDown \ Ps2Keyboard!Special = (KeysOf(report) \cup report.mods) \ Ps2Keyboard!Special

(* A key is repeated only while it is held, and only one key is: not the    *)
(* one of a stale entry, and not two at the same time.                      *)
RepeatsOneHeld ==
  /\ \A i \in Slots : repeat[i].code # None => repeat[i].code \in KeysOf(report)
  /\ \A i, j \in Slots : (i # j /\ repeat[i].code # None) => repeat[i].code # repeat[j].code
  /\ Cardinality({i \in Slots : repeat[i].code # None /\ ~repeat[i].stop}) <= 1

(* A key that repeats is the last one that was pressed.                     *)
RepeatsLast ==
  \A i \in Slots : (repeat[i].code # None /\ ~repeat[i].stop) => repeat[i].code = pressed
-----------------------------------------------------------------------------
(***************************************************************************)
(* The PS/2 task with both of its ports (ps2/8042.c), the packets of the   *)
(* mouse (ps2/mouse.c), and the nodes of mice and keyboards that programs  *)
(* open (misc/mouse.c, misc/keyboard.c). Each node has a pipe; what is     *)
(* written goes to the pipe of the current console. One task serves both   *)
(* ports and waits while a pipe is full; the driver of a USB keyboard is   *)
(* another one, which writes to the same pipes.                            *)
(***************************************************************************)

Kinds == {"kbd", "mse"}
Sources == Kinds \cup {"usb"}
KindOf(f) == IF f = "usb" THEN "kbd" ELSE f

mouseVars == <<pipe, open, console, mousePort, mouseEvent, mousePc, mouseDev, mouseReady, mode, mouseState, mouseData, mouseKey, sent, last, mouseLost>>
mouseNodes == <<pipe, open, last>>
mouse == <<mouseReady, mode, mouseState, mouseData>>
mousePorts == <<mousePort, mouseEvent, sent>>

-----------------------------------------------------------------------------
(* The nodes *)

\* Mutant: a node reads the pipe of the first one.
PipeOfFirst(d) == 0
\* get_pipe_nodes of a node: its own pipe.
PipeOf(d) == d

\* get_pipe_nodes without a node: a console without a node of its own writes to
\* the first one.
Target == IF (console - 1) \in Devs THEN console - 1 ELSE 0

\* Mutant: the pipe takes a packet when it is full.
HasRoomAny(k) == TRUE
HasRoom(k) == Len(pipe[k][Target]) < MouseRoom

NoKey == [from |-> "kbd", n |-> 0, live |-> FALSE]

Write(k, x) ==
    pipe' = [pipe EXCEPT ![k][Target] = Append(@, [x EXCEPT !.live = open[k][Target]])]

Open(k, d) ==
    /\ ~open[k][d]
    /\ open' = [open EXCEPT ![k][d] = TRUE]
    /\ UNCHANGED <<pipe, last, console, mousePorts, mousePc, mouseDev, mouse, mouseKey, mouseLost>>

Close(k, d) ==
    /\ open[k][d]
    /\ open' = [open EXCEPT ![k][d] = FALSE]
    /\ pipe' = [pipe EXCEPT ![k][d] = [x \in 1..Len(@) |-> [@[x] EXCEPT !.live = FALSE]]]
    /\ UNCHANGED <<last, console, mousePorts, mousePc, mouseDev, mouse, mouseKey, mouseLost>>

Read(k, d) ==
    /\ open[k][d] /\ pipe[k][PipeOf(d)] # <<>>
    /\ LET x == Head(pipe[k][PipeOf(d)]) IN last' = [last EXCEPT ![x.from][PipeOf(d)] = x.n]
    /\ pipe' = [pipe EXCEPT ![k][PipeOf(d)] = Tail(@)]
    /\ UNCHANGED <<open, console, mousePorts, mousePc, mouseDev, mouse, mouseKey, mouseLost>>

SwitchConsole(v) ==
    /\ console # v /\ console' = v
    /\ UNCHANGED <<mouseNodes, mousePorts, mousePc, mouseDev, mouse, mouseKey, mouseLost>>

-----------------------------------------------------------------------------
(* dancy_kbd_clear and dancy_mse_clear, before and after the bytes *)

Of(p) == IF p \in {"kclear", "kread", "kend", "kendread"} THEN "kbd" ELSE "mse"
Clearing == {"kclear", "kend", "mclear", "mend"}
ClearRead(p) == CASE p = "kclear" -> "kread" [] p = "kend" -> "kendread"
                  [] p = "mclear" -> "mread" [] p = "mend" -> "mendread"
ClearOf(p) == CHOOSE q \in Clearing : ClearRead(q) = p
AfterClear(p) == CASE p = "kclear" -> "kbytes" [] p = "mclear" -> "mbytes" [] OTHER -> "idle"

\* Mutant: a node is cleared although a program has it open.
UnusedAny(k, d) == TRUE
Unused(k, d) == ~open[k][d]

Skip(p) ==
    IF mouseDev + 1 \in Devs THEN mouseDev' = mouseDev + 1 /\ mousePc' = p ELSE mouseDev' = 0 /\ mousePc' = AfterClear(p)

ClearLook ==
    /\ mousePc \in Clearing
    /\ IF Unused(Of(mousePc), mouseDev) THEN mousePc' = ClearRead(mousePc) /\ mouseDev' = mouseDev ELSE Skip(mousePc)
    /\ UNCHANGED <<mouseNodes, console, mousePorts, mouse, mouseKey, mouseLost>>

ClearTake ==
    /\ \E p \in Clearing : mousePc = ClearRead(p)
    /\ IF pipe[Of(mousePc)][mouseDev] = <<>>
         THEN Skip(ClearOf(mousePc)) /\ UNCHANGED pipe
         ELSE /\ pipe' = [pipe EXCEPT ![Of(mousePc)][mouseDev] = Tail(@)]
              /\ mousePc' = ClearOf(mousePc) /\ UNCHANGED mouseDev
    /\ UNCHANGED <<open, last, console, mousePorts, mouse, mouseKey, mouseLost>>

-----------------------------------------------------------------------------
(* ps2_task *)

\* The first signaled event is taken; events are reset by the wait.
Serve ==
    /\ mousePc = "idle"
    /\ \/ mouseEvent["kbd"] /\ mousePc' = "kclear" /\ mouseEvent' = [mouseEvent EXCEPT !["kbd"] = FALSE]
          /\ UNCHANGED mousePort
       \/ ~mouseEvent["kbd"] /\ mouseEvent["mse"] /\ mouseEvent' = [mouseEvent EXCEPT !["mse"] = FALSE]
          /\ IF mouseReady THEN mousePc' = "mclear" /\ UNCHANGED mousePort
             ELSE mousePc' = "idle" /\ mousePort' = [mousePort EXCEPT !["mse"] = <<>>]
    /\ UNCHANGED <<mouseNodes, console, sent, mouseDev, mouse, mouseKey, mouseLost>>

\* Nothing came for a while: a mouse that is ready is asked for its number, one
\* that is not is set up. Bytes that come meanwhile are thrown away.
Probe ==
    /\ mousePc = "idle" /\ ~mouseEvent["kbd"] /\ ~mouseEvent["mse"]
    /\ mouseReady' \in BOOLEAN /\ mode' \in IF mouseReady THEN {mode} ELSE BOOLEAN
    /\ mouseLost' = (mouseLost \/ (mouseState # 0 /\ ~mouseReady))
    /\ UNCHANGED <<mouseNodes, console, mousePorts, mousePc, mouseDev, mouseState, mouseData, mouseKey>>

\* Mutant: the byte stays in the port.
GotKeeps(k) == UNCHANGED mousePort
Got(k) == mousePort' = [mousePort EXCEPT ![k] = Tail(@)]

KeyByte ==
    /\ mousePc = "kbytes"
    /\ IF mousePort["kbd"] = <<>> THEN mousePc' = "kend" /\ UNCHANGED <<mousePort, mouseKey>>
       ELSE Got("kbd") /\ mouseKey' = [from |-> "kbd", n |-> Head(mousePort["kbd"]), live |-> FALSE] /\ mousePc' = "kwrite"
    /\ UNCHANGED <<mouseNodes, console, mouseEvent, sent, mouseDev, mouse, mouseLost>>

\* Mutant: a byte within a packet starts a new one.
NextStateBytes(b) ==
    IF mouseState = 0 THEN (IF b.sync THEN 1 ELSE 0)
    ELSE IF b.sync /\ b.at > 0 THEN 1 ELSE IF mouseState = 2 /\ ~mode THEN 4 ELSE mouseState + 1

\* Where the packet is after a byte; the first byte is known by its bit 3.
NextState(b) ==
    IF mouseState = 0 THEN (IF b.sync THEN 1 ELSE 0)
    ELSE IF mouseState = 2 /\ ~mode THEN 4 ELSE mouseState + 1

MouseByte ==
    /\ mousePc = "mbytes"
    /\ IF mousePort["mse"] = <<>> THEN mousePc' = "mend" /\ UNCHANGED <<mousePort, mouseState, mouseData>>
       ELSE LET b == Head(mousePort["mse"])
            IN  /\ Got("mse") /\ mouseState' = NextState(b)
                /\ mouseData' = IF NextState(b) = 0 THEN mouseData
                           ELSE IF NextState(b) = 1 THEN <<b>> ELSE Append(mouseData, b)
                /\ mousePc' = IF NextState(b) = 4 THEN "mwrite" ELSE "mbytes"
    /\ UNCHANGED <<mouseNodes, console, mouseEvent, sent, mouseDev, mouseReady, mode, mouseKey, mouseLost>>

MoreInput == sent["kbd"] + sent["mse"] + sent["usb"] < Inputs

\* Both handlers try again, after a yield, until the pipe has room.
KeyWrite ==
    /\ mousePc = "kwrite" /\ HasRoom("kbd")
    /\ Write("kbd", mouseKey) /\ mousePc' = "kbytes" /\ mouseKey' = NoKey
    /\ UNCHANGED <<open, last, console, mousePorts, mouseDev, mouse, mouseLost>>

\* process_keycode of boot_kbd.c, which tries again like the others.
UsbKeyWrite ==
    /\ MoreInput /\ sent' = [sent EXCEPT !["usb"] = @ + 1]
    /\ HasRoom("kbd") /\ Write("kbd", [from |-> "usb", n |-> sent["usb"] + 1, live |-> FALSE])
    /\ UNCHANGED <<open, last, console, mousePort, mouseEvent, mousePc, mouseDev, mouse, mouseKey, mouseLost>>

MouseWrite ==
    /\ mousePc = "mwrite" /\ HasRoom("mse")
    /\ Write("mse", [from |-> "mse", n |-> mouseData[1].n, live |-> FALSE, bytes |-> mouseData])
    /\ mouseState' = 0 /\ mouseData' = <<>> /\ mousePc' = "mbytes"
    /\ UNCHANGED <<open, last, console, mousePorts, mouseDev, mouseReady, mode, mouseKey, mouseLost>>

-----------------------------------------------------------------------------
(* The devices (external) and ps2_irq_func *)

\* The oldest bytes are overwritten when the port is full.
Store(k, s) ==
    LET all == mousePort[k] \o s
        n == IF Len(all) > PortSize - 1 THEN Len(all) - (PortSize - 1) ELSE 0
    IN  /\ mousePort' = [mousePort EXCEPT ![k] = SubSeq(all, n + 1, Len(all))]
        /\ mouseEvent' = [mouseEvent EXCEPT ![k] = TRUE]
        /\ mouseLost' = (mouseLost \/ n > 0)

SendKey ==
    /\ MoreInput /\ sent' = [sent EXCEPT !["kbd"] = @ + 1]
    /\ Store("kbd", <<sent["kbd"] + 1>>)
    /\ UNCHANGED <<mouseNodes, console, mousePc, mouseDev, mouse, mouseKey>>

\* Bit 3 of the bytes that follow the first one may be set as well.
SendPacket(bit) ==
    /\ mouseReady /\ MoreInput /\ sent' = [sent EXCEPT !["mse"] = @ + 1]
    /\ Store("mse", [x \in 1..(IF mode THEN 4 ELSE 3) |->
                        [n |-> sent["mse"] + 1, at |-> x - 1, sync |-> x = 1 \/ bit]])
    /\ UNCHANGED <<mouseNodes, console, mousePc, mouseDev, mouse, mouseKey>>

MouseInit ==
    /\ pipe = [k \in Kinds |-> [d \in Devs |-> <<>>]]
    /\ open = [k \in Kinds |-> [d \in Devs |-> FALSE]]
    /\ last = [f \in Sources |-> [d \in Devs |-> 0]]
    /\ console \in Switches
    /\ mousePort = [k \in Kinds |-> <<>>] /\ mouseEvent = [k \in Kinds |-> FALSE]
    /\ sent = [f \in Sources |-> 0]
    /\ mousePc = "idle" /\ mouseDev = 0 /\ mouseReady = FALSE /\ mode = FALSE /\ mouseState = 0 /\ mouseData = <<>>
    /\ mouseKey = NoKey /\ mouseLost = FALSE

Task == Serve \/ Probe \/ ClearLook \/ ClearTake \/ KeyByte \/ KeyWrite \/ MouseByte \/ MouseWrite

MouseNext ==
    \/ Task \/ SendKey \/ UsbKeyWrite \/ (\E bit \in BOOLEAN : SendPacket(bit))
    \/ \E k \in Kinds, d \in Devs : Open(k, d) \/ Close(k, d) \/ Read(k, d)
    \/ \E v \in Switches : SwitchConsole(v)

-----------------------------------------------------------------------------
(* Properties *)

MouseTypeOK ==
    /\ \A k \in Kinds, d \in Devs : Len(pipe[k][d]) <= MouseRoom /\ open[k][d] \in BOOLEAN
    /\ mouseDev \in Devs /\ mouseState \in 0..4 /\ (mouseState = 4) = (mousePc = "mwrite")

\* A packet that reaches a node is one the mouse sent, byte for byte, unless
\* bytes were overwritten or the mouse was set up again within a packet: state
\* and data are kept then, and the next packets are put together wrongly.
Whole ==
    ~mouseLost => \A d \in Devs : \A x \in 1..Len(pipe["mse"][d]) :
                LET s == pipe["mse"][d][x].bytes
                IN  \A y \in 1..Len(s) : s[y].n = s[1].n /\ s[y].at = y - 1

\* What a node's programs read comes in the order in which each device sent it,
\* and nothing is read twice.
MouseInOrder ==
    \A f \in Sources, d \in Devs :
        LET s == <<[n |-> last[f][d]]>> \o SelectSeq(pipe[KindOf(f)][d], LAMBDA x : x.from = f)
        IN  \A x \in 1..(Len(s) - 1) : s[x].n <= s[x + 1].n /\ (f # "mse" => s[x].n < s[x + 1].n)

\* What was written while a program had the node open is not thrown away as long
\* as it stays open: the clearing looks first and reads later, but its own task
\* writes nothing between. The exception are the keys of a USB keyboard: the node
\* may be opened and one of them written after the look (keyboard.c 157 to 162).
OwnKept ==
    \A k \in Kinds, d \in Devs :
         last' = last /\ Len(pipe'[k][d]) < Len(pipe[k][d])
             => ~Head(pipe[k][d]).live \/ Head(pipe[k][d]).from = "usb"
-----------------------------------------------------------------------------
(***************************************************************************)
(* The parts share no variable, so a property of one of them holds when    *)
(* they run together if it holds when the others stand still. A behaviour  *)
(* therefore moves one part, chosen at the start.                          *)
(***************************************************************************)
xhciVars ==
  <<ring, serial, high, xhciCmd, req, late, er, erw, err, erdp, flags,
    xhciIrq, taken>>
usbVars ==
  <<usbPort, usbEvents, usbIrq, usbSync, usbPc, locks, slot, cache, pages,
    usbDev, usbPorts, usbNodes, made, ref, reach, missed, failed>>
storageVars ==
  <<plugged, storagePc, array, storageCount, storageLive, storageHeld, users,
    mntLock, storageK, temp, mnt>>
ps2Vars ==
  <<ps2Buf, ps2Event, ps2Pc, ps2Cmd, ps2Left, ps2Ready, probe, kbdState,
    ps2Keys, led, ps2On, scanning, sending, ps2Down, nkeys, nplugs, nresend,
    ps2Lost, due, wrong>>
vars ==
  <<part, xhciVars, usbVars, storageVars, bulkVars, parseVars, keyVars,
    ps2Vars, mouseVars>>

XhciMoves ==
  /\ part = "xhci"
  /\ UNCHANGED <<part, usbVars, storageVars, bulkVars, parseVars, keyVars,
                  ps2Vars, mouseVars>>
CommandMoves ==
  /\ part = "command"
  /\ UNCHANGED <<part, usbVars, storageVars, bulkVars, parseVars, keyVars,
                  ps2Vars, mouseVars>>
HandleMoves ==
  /\ part = "handle"
  /\ UNCHANGED <<part, usbVars, storageVars, bulkVars, parseVars, keyVars,
                  ps2Vars, mouseVars>>
UsbMoves ==
  /\ part = "usb"
  /\ UNCHANGED <<part, xhciVars, storageVars, bulkVars, parseVars, keyVars,
                  ps2Vars, mouseVars>>
SettleMoves ==
  /\ part = "settle"
  /\ UNCHANGED <<part, xhciVars, storageVars, bulkVars, parseVars, keyVars,
                  ps2Vars, mouseVars>>
StorageMoves ==
  /\ part = "storage"
  /\ UNCHANGED <<part, xhciVars, usbVars, bulkVars, parseVars, keyVars,
                  ps2Vars, mouseVars>>
EndingMoves ==
  /\ part = "ending"
  /\ UNCHANGED <<part, xhciVars, usbVars, bulkVars, parseVars, keyVars,
                  ps2Vars, mouseVars>>
BulkMoves ==
  /\ part = "bulk"
  /\ UNCHANGED <<part, xhciVars, usbVars, storageVars, parseVars, keyVars,
                  ps2Vars, mouseVars>>
ParseMoves ==
  /\ part = "parse"
  /\ UNCHANGED <<part, xhciVars, usbVars, storageVars, bulkVars, keyVars,
                  ps2Vars, mouseVars>>
KbdMoves ==
  /\ part = "kbd"
  /\ UNCHANGED <<part, xhciVars, usbVars, storageVars, bulkVars, parseVars,
                  ps2Vars, mouseVars>>
Ps2Moves ==
  /\ part = "ps2"
  /\ UNCHANGED <<part, xhciVars, usbVars, storageVars, bulkVars, parseVars,
                  keyVars, mouseVars>>
PlugMoves ==
  /\ part = "plug"
  /\ UNCHANGED <<part, xhciVars, usbVars, storageVars, bulkVars, parseVars,
                  keyVars, mouseVars>>
MouseMoves ==
  /\ part = "mouse"
  /\ UNCHANGED <<part, xhciVars, usbVars, storageVars, bulkVars, parseVars,
                  keyVars, ps2Vars>>

Init ==
  /\ part \in Parts
  /\ (part \notin {"command", "handle"} => Transfers!Init)
  /\ (part = "command" => Commands!Init)
  /\ (part = "handle" => Handling!Init)
  /\ (part \notin {"settle"} => Ports!Init)
  /\ (part = "settle" => Settling!Init)
  /\ (part \notin {"ending"} => Drives!Init)
  /\ (part = "ending" => Ending!Init) /\ BulkInit /\ ParseInit /\ KeyInit
  /\ (part \notin {"plug"} => Ps2Keyboard!Init)
  /\ (part = "plug" => Ps2Plugs!Init) /\ MouseInit
  /\ Still

Next ==
  \/ XhciMoves /\ Transfers!Next
  \/ CommandMoves /\ Commands!Next
  \/ HandleMoves /\ Handling!Next
  \/ UsbMoves /\ Ports!Next
  \/ SettleMoves /\ Settling!Next
  \/ StorageMoves /\ Drives!Next
  \/ EndingMoves /\ Ending!Next
  \/ BulkMoves /\ BulkNext
  \/ ParseMoves /\ ParseNext
  \/ KbdMoves /\ KeyNext
  \/ Ps2Moves /\ Ps2Keyboard!Next
  \/ PlugMoves /\ Ps2Plugs!Next
  \/ MouseMoves /\ MouseNext

Spec ==
  /\ Init /\ [][Next]_vars
  /\ WF_xhciVars(part = "handle" /\ Handling!Irq)
  /\ WF_usbVars(part = "settle" /\ Settling!Handler)
  /\ \A p \in {"p1", "p2"} : SF_usbVars(part = "settle" /\ Settling!PortTask(p))
  /\ WF_usbVars(part = "settle" /\ Settling!Holds("d1"))
  /\ \A d \in {"d1", "d2"} : WF_storageVars(part = "ending" /\ Ending!Driver(d))

-----------------------------------------------------------------------------
TypeOK ==
  CASE part = "xhci" -> Transfers!TypeOK [] part = "command" -> Commands!TypeOK
    [] part = "handle" -> Handling!TypeOK
    [] part = "usb" -> Ports!TypeOK [] part = "settle" -> Settling!TypeOK
    [] part = "storage" -> Drives!TypeOK [] part = "ending" -> Ending!TypeOK
    [] part = "bulk" -> BulkTypeOK [] part = "parse" -> ParseTypeOK [] part = "kbd" -> KeyTypeOK
    [] part = "ps2" -> Ps2Keyboard!TypeOK [] part = "plug" -> Ps2Plugs!TypeOK
    [] OTHER -> MouseTypeOK

\* A transfer, a command and a call reach the device, the answer and the node
\* they are for, through wrapped rings, time limits, devices that are changed
\* and places that are used again; counts are the references there are; what
\* the transport counts was moved, or the device told that it was not; drivers
\* are started for exactly the interfaces that the descriptors have; keys and the
\* movements of mice reach the reader whole, in order and once, whatever comes
\* between their bytes. RequestsOwn, CountedIsDone, Whole: with the exceptions
\* that each names.
UsbRight ==
  /\ TypeOK
  /\ part = "xhci" => Transfers!RequestsOwn /\ Transfers!EventsInOrder
  /\ part = "command" => Commands!CommandsOwn /\ Commands!EventsInOrder
  /\ part = "usb" => Ports!NodesCounted /\ Ports!ReachesOwn /\ Ports!PagesKept
  /\ part = "settle" => Settling!NodesCounted /\ Settling!PagesKept
  /\ part = "storage" => Drives!CountIsReferences /\ Drives!DriveIsCurrent
  /\ part = "ending" => Ending!CountIsReferences /\ Ending!DriveIsCurrent
  /\ part = "bulk" => CountedIsDone /\ WritesItsBlocks /\ ShortOnlyAtEnd
  /\ part = "parse" => InBuffer /\ RightDrivers
  /\ part = "kbd" => DownIsReported /\ RepeatsOneHeld /\ RepeatsLast
  /\ part = "ps2" => Ps2Keyboard!BytesSignalled /\ Ps2Keyboard!DecodesKeys /\ Ps2Keyboard!ModifiersHeld
  /\ part = "plug" => Ps2Plugs!BytesSignalled /\ Ps2Plugs!DecodesKeys
  /\ part = "mouse" => Whole /\ MouseInOrder

\* The controller runs what was written to a ring in order and each once; a
\* mouse keeps its own packets.
RunInOrder ==
  [][ /\ part \in {"xhci", "command", "handle"} => Transfers!RunInOrder
      /\ part = "mouse" => OwnKept ]_vars

\* An event that was posted is handled; a device that stays is attached in the
\* end and the node of one that is gone goes, with the exceptions that
\* Usb!Settles names; the driver task of a storage device ends.
Settles == Handling!EventsHandled /\ Settling!Settles /\ Ending!DriverEnds
=============================================================================
