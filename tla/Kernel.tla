------------------------------ MODULE Kernel --------------------------------
(***************************************************************************)
(* The kernel's memory and devices of the main board: page tables and      *)
(* regions of programs (module Pg), interrupts (Irq), the services ACPICA  *)
(* asks for (Acpios), the serial port (Serial), kernel messages (Kmsg),    *)
(* and PCI devices (Pci), and, in this module, the network card            *)
(* (network/e1000.c), the kernel heap (base/heap.c) and physical pages     *)
(* (base/mm.c).                                                            *)
(***************************************************************************)
EXTENDS Integers, FiniteSets, Sequences, TLC, FiniteSetsExt, SequencesExt

CONSTANTS
  Parts,           \* the parts that move
  Frames,          \* physical pages of the page tables
  AcpiTasks,       \* tasks that use ACPICA
  QueueLimit,      \* functions a queue can hold (31)
  SemaphoreUnits,  \* of the semaphore of ACPICA
  Processors,      \* their number
  FunctionCount,   \* bound on the functions that are queued
  RingSize,        \* descriptors of the receive ring (512)
  NetFrames,       \* bound on the frames that arrive
  NetReaders,      \* tasks that read the node
  Allocators,
  HeapSize,        \* from kernel->heap_addr to kernel->stack_array_addr
  HeapPage,        \* 0x1000
  PerPage,         \* entries of the map in a page (1024)
  Sizes,           \* bound: the sizes that are allocated
  Alignments,      \* bound: the alignments, powers of two
  MaxBlocks,       \* bound on the blocks that are in use
  MaxStatic,       \* bound on the static pages
  PageSize,        \* 4096
  BitsPerByte,     \* bits of a byte of the bitmap (8)
  Bytes,           \* mm_bitmap_size
  BitmapPages,     \* the page frames of the bitmap itself
  MinBase,         \* no memory below it is used (0x10000)
  MemoryMaps,      \* bound: memory maps, sequences of [base, type]
  HeapChunks,      \* bound: the chunks mm_init gets from the heap, top down: sets of frames
  Limit,           \* type of memory -> the number of frames it is limited to
  Orders           \* bound: the orders that are allocated

VARIABLES
  part,  \* the part that moves
  stage,           \* of network_e1000_init
  mac,             \* where the address comes from: "none", "eeprom", "registers"
  desc,            \* descriptor: 0 is cleared, else the frame in its buffer
  good,            \* descriptor: done, without errors, and of a fair size
  rdh, rdt,        \* head and tail of the ring in the controller
  rxHead,          \* rx_head
  netPc, cur,      \* of e1000_task: where it is, and the descriptor i
  rxFrame,         \* rx_frame: the descriptor handed over, or -1
  event0, event1,  \* rx_event[0] and rx_event[1] are signaled
  netReader,       \* of each reader: "idle" or "wait"
  came,            \* number of frames that came
  usable,          \* the good ones
  netGot,          \* frames that were read
  mapAt,           \* heap_map
  mapSize,         \* heap_map_size, in pages
  heapMap,         \* the entries: [a |-> address, used |-> used_bit]
  pgMtx,           \* the task that holds pg_mtx, or NoTask
  seen,            \* heap_map_addr of heap_alloc_static_page
  heapBlocks,      \* history: the blocks in use, <<address, size>>
  static,          \* history: the static pages
  narrow,          \* history: the map grew into the block that was about to be used
  framesFree,      \* the frames whose bit is clear
  framesUsed,      \* mm_bitmap_used
  bitmap,          \* the frames of the bitmap
  framesMap,       \* the memory map of the boot loader
  owned,           \* history: the blocks in use, <<first frame, order>>
  failed,          \* the last call returned 0: <<type, order>>, or <<>>
  \* of Pg
  pageFree, pageLost, space, alt, memory, cr3, cpu, pageState, pagePc, goal,
  todo, pageType, checked,
  \* of Irq
  list, mtx, edgePc, entry, line, request, inService, pos, edgeRunning,
  installs,
  \* of Acpios
  queue, events, acpiRunning, place, begun, units, held, acpiPc, status, power,
  acpiCalls, done, types,
  \* of Serial
  serialBase, serialStart, serialEnd, event, rx, arrived, irq, thr, wire,
  baud, termios, serialPc, arg, drain, ready, serialTaken, accepted,
  serialLost, late, looked,
  \* of Kmsg
  buffer, kmsgState, counter, kmsgLock, left, findI, kmsgPc, offset,
  kmsgStart, at, kmsgGot, texts, kmsgTaken,
  \* of Pci
  pciLock, port, acc, pciI, pciJ, step, next, pciHandler, cmd, msi, sent,
  pciCalls, pciGot

PageTypes == {{"noexec"}, {"readonly", "arctic"}, {"blocked", "readonly"}}
\* Twenty frames in bytes of two bits, and two memory maps.
Area(base, type) == [base |-> base, type |-> type]
OneMap == <<Area(0, "reserved"), Area(10, "other"), Area(13, "reserved"), Area(23, "end")>>
SomeMaps == {OneMap, <<Area(9, "reserved"), Area(20, "other"), Area(21, "reserved"), Area(23, "end")>>}
\* What a part that stands still has.
Still == part # "frames" => framesMap = OneMap
ChunksOfHeap == <<16 .. 19, 12 .. 15>>
Limits == "normal" :> 20 @@ "low" :> 8

\* There are descriptors, and no more frames or functions than the bounds say.
ASSUME RingAssumption == RingSize \in Nat \ {0} /\ NetFrames \in Nat
ASSUME QueueAssumption == QueueLimit \in Nat /\ FunctionCount \in Nat /\ SemaphoreUnits \in Nat

Paging == INSTANCE Pg
  WITH MaxPage <- 3, PerTable <- 2, Stack <- {3}, Types <- PageTypes,
       Frames <- Frames, free <- pageFree, lost <- pageLost,
       state <- pageState, pc <- pagePc, type <- pageType
EdgeLine == INSTANCE Irq
  WITH Drivers <- {"d1", "d2"}, Edge <- TRUE, MaxInstalls <- 3, pc <- edgePc,
       running <- edgeRunning
LevelLine == INSTANCE Irq
  WITH Drivers <- {"d1", "d2"}, Edge <- FALSE, MaxInstalls <- 3,
       pc <- edgePc, running <- edgeRunning
Services == INSTANCE Acpios
  WITH Tasks <- AcpiTasks, Limit <- QueueLimit, MaxUnits <- SemaphoreUnits,
       Cpus <- Processors, MaxCalls <- FunctionCount, running <- acpiRunning,
       pc <- acpiPc, calls <- acpiCalls
Port == INSTANCE Serial
  WITH Tasks <- {"t1", "t2"}, Size <- 3, Bytes <- 3, Out <- 1, Speeds <- {1},
       base <- serialBase, start <- serialStart,
       end <- serialEnd, pc <- serialPc, taken <- serialTaken,
       lost <- serialLost
Messages == INSTANCE Kmsg
  WITH Readers <- {"r1", "r2"}, Size <- 7, MaxText <- 2, Window <- 2,
       MaxBuffer <- 4, MaxRecords <- 3, state <- kmsgState, lock <- kmsgLock,
       pc <- kmsgPc, start <- kmsgStart, got <- kmsgGot, taken <- kmsgTaken
Catch == INSTANCE Kmsg
  WITH Readers <- {"r1"}, Size <- 7, MaxText <- 2, Window <- 2,
       MaxBuffer <- 4, MaxRecords <- 3, state <- kmsgState, lock <- kmsgLock,
       pc <- kmsgPc, start <- kmsgStart, got <- kmsgGot, taken <- kmsgTaken
Bus == INSTANCE Pci
  WITH Devices <- 1 .. 4, Class <- <<1, 2, 1, 2>>, Drivers <- <<1, 2>>,
       Ecam <- {3}, Msi <- {1, 3, 4}, Tasks <- {7}, Entries <- 2,
       lock <- pciLock, i <- pciI, j <- pciJ, handler <- pciHandler,
       calls <- pciCalls, got <- pciGot
-----------------------------------------------------------------------------
(***************************************************************************)
(* The network driver (kernel/network/e1000.c and net_node.c): setting the *)
(* controller up, the task that takes frames from the receive ring and     *)
(* hands them over one at a time, and the tasks that read them from the    *)
(* node. Sections of the spin lock are one step. The controller (external) *)
(* fills the descriptor at its head as long as that is not the tail.       *)
(***************************************************************************)

netVars == <<stage, mac, desc, good, rdh, rdt, rxHead, netPc, cur, rxFrame, event0, event1,
          netReader, came, usable, netGot>>
init == <<stage, mac>>
controller == <<desc, good, rdh, came, usable>>
worker == <<rdt, rxHead, netPc, cur>>
hand == <<rxFrame, event0, event1>>

Descs == 0..(RingSize - 1)
Stages == <<"probe", "handler", "reset", "buffers", "address", "receive", "task",
            "unmask", "register", "calls", "done">>
After(s) == Stages[(CHOOSE k \in 1..Len(Stages) : Stages[k] = s) + 1]

-----------------------------------------------------------------------------
(* network_e1000_init and e1000_init *)

\* A descriptor without a buffer holds -1.
Buffers == [d \in Descs |-> 0]
NoBuffers == [d \in Descs |-> -1]

\* The steps that may fail leave the device as it is.
InitFails ==
    /\ stage \in {"probe", "handler", "buffers", "address", "task", "register"}
    /\ stage' = "failed"
    /\ UNCHANGED <<mac, controller, worker, hand, netReader, netGot>>

\* Mutant: receiving is switched on before the buffers are there.
StepAfterEarly(s) ==
    IF s = "reset" THEN "receive" ELSE IF s = "receive" THEN "buffers"
    ELSE IF s = "buffers" THEN "address" ELSE IF s = "address" THEN "task" ELSE After(s)
StepAfter(s) == After(s)

InitStep ==
    /\ stage \notin {"done", "failed"}
    /\ stage' = StepAfter(stage)
    /\ desc' = CASE stage = "buffers" -> Buffers
                 [] OTHER -> desc
    /\ IF stage = "receive" THEN rdh' = 0 /\ rdt' = RingSize - 1 ELSE UNCHANGED <<rdh, rdt>>
    /\ mac' \in IF stage = "address" THEN {"eeprom", "registers"} ELSE {mac}
    /\ netPc' = IF stage = "task" THEN "look" ELSE netPc
    /\ UNCHANGED <<good, came, usable, rxHead, cur, hand, netReader, netGot>>

\* A failure behind the receive registers leaves the controller running.
Receiving == rdt # rdh

-----------------------------------------------------------------------------
(* The controller (external) *)

Come(ok) ==
    /\ Receiving /\ came < NetFrames
    /\ came' = came + 1
    /\ desc' = [desc EXCEPT ![rdh] = came + 1]
    /\ good' = [good EXCEPT ![rdh] = ok]
    /\ usable' = IF ok THEN Append(usable, came + 1) ELSE usable
    /\ rdh' = (rdh + 1) % RingSize
    /\ UNCHANGED <<init, worker, hand, netReader, netGot>>

-----------------------------------------------------------------------------
(* e1000_task *)

\* Mutant: the index of the next descriptor does not wrap at the end.
AdvanceOn(k) == IF k + 1 > RingSize THEN 0 ELSE k + 1
Advance(k) == IF k + 1 > RingSize - 1 THEN 0 ELSE k + 1

TakeDescriptor ==
    /\ netPc = "look" /\ rdh # rxHead
    /\ cur' = rxHead /\ rxHead' = Advance(rxHead)
    /\ netPc' = IF good[rxHead] THEN "put" ELSE "clear"
    /\ UNCHANGED <<init, controller, rdt, hand, netReader, netGot>>

\* Mutant: the frame is put over the one that was not read yet.
FreeAny == TRUE
HandFree == rxFrame = -1

\* e1000_rx_frame: a section of the lock, then the reader is told.
Put ==
    /\ netPc = "put"
    /\ rxFrame' = IF HandFree THEN cur ELSE rxFrame
    /\ event1' = TRUE
    /\ netPc' = IF HandFree THEN "wait" ELSE "retry"
    /\ UNCHANGED <<init, controller, rdt, rxHead, cur, event0, netReader, netGot>>

\* Mutant: the buffer is given back without waiting for the reader.
WaitOverAny == TRUE
WaitOver == event0

\* event_wait without a time limit.
Wait ==
    /\ netPc \in {"wait", "retry"} /\ WaitOver
    /\ event0' = FALSE
    /\ netPc' = IF netPc = "wait" THEN "clear" ELSE "put"
    /\ UNCHANGED <<init, controller, rdt, rxHead, cur, rxFrame, event1, netReader, netGot>>

\* Mutant: the tail moves past the descriptor, to the head of the driver.
TailRegAhead == rxHead
TailReg == cur

\* The buffer and the descriptor are cleared, then the tail moves.
Clear ==
    /\ netPc = "clear"
    /\ desc' = [desc EXCEPT ![cur] = 0] /\ good' = [good EXCEPT ![cur] = FALSE]
    /\ rdt' = TailReg
    /\ netPc' = "look"
    /\ UNCHANGED <<init, rdh, came, usable, rxHead, cur, hand, netReader, netGot>>

-----------------------------------------------------------------------------
(* n_read, called by file_read until it gets a frame *)

\* Mutant: the driver's task is not told that its frame was read.
ToldNot == event0
Told == TRUE

ReadFrame(t) ==
    /\ stage = "done" /\ netReader[t] = "idle" /\ rxFrame # -1
    /\ netGot' = Append(netGot, desc[rxFrame])
    /\ rxFrame' = -1 /\ event0' = Told
    /\ UNCHANGED <<init, controller, worker, event1, netReader>>

ReadRetry(t) ==
    /\ stage = "done" /\ netReader[t] = "idle" /\ rxFrame = -1
    /\ netReader' = [netReader EXCEPT ![t] = "wait"]
    /\ UNCHANGED <<init, controller, worker, hand, netGot>>

\* event_wait for 500 milliseconds; one waiter takes the signal.
Wake(t) ==
    /\ netReader[t] = "wait"
    /\ netReader' = [netReader EXCEPT ![t] = "idle"]
    /\ event1' \in {FALSE, event1}
    /\ UNCHANGED <<init, controller, worker, rxFrame, event0, netGot>>

NetInit ==
    /\ stage = "probe" /\ mac = "none"
    /\ desc = NoBuffers /\ good = [d \in Descs |-> FALSE] /\ rdh = 0 /\ rdt = 0
    /\ rxHead = 0 /\ netPc = "none" /\ cur = 0
    /\ rxFrame = -1 /\ event0 = FALSE /\ event1 = FALSE
    /\ netReader = [t \in NetReaders |-> "idle"]
    /\ came = 0 /\ usable = <<>> /\ netGot = <<>>

NetNext ==
    \/ InitStep \/ InitFails
    \/ \E ok \in BOOLEAN : Come(ok)
    \/ TakeDescriptor \/ Put \/ Wait \/ Clear
    \/ \E t \in NetReaders : ReadFrame(t) \/ ReadRetry(t) \/ Wake(t)

-----------------------------------------------------------------------------
(* Properties *)

NetTypeOK ==
    /\ \A d \in Descs : desc[d] \in -1..NetFrames
    /\ rdh \in Descs /\ rdt \in Descs /\ rxHead \in Descs /\ cur \in Descs
    /\ rxFrame \in Descs \cup {-1}
    /\ netPc \in {"none", "look", "put", "wait", "retry", "clear"}

\* The frames that were read are the usable frames that came, in order and each
\* once: no reader copies a buffer that was cleared or filled again, whichever
\* of the readers comes first and however often the ring wraps.
InOrder == netGot = SubSeq(usable, 1, Len(netGot))

\* The controller never fills a descriptor that holds a frame the driver has not
\* cleared, or one without a buffer (the ring is full before it reaches one).
FillsFree == came' # came => desc[rdh] = 0

\* A full ring is told from an empty one: when the head is at the driver's head,
\* every descriptor but the one in work is clear.
EmptyIsEmpty == rdh = rxHead => \A d \in Descs : desc[d] > 0 => d = cur

\* The driver never meets its own frame still waiting: the retry of
\* e1000_rx_frame is not needed, because each wait is ended by one read.
NoRetry == netPc # "retry"

\* Every usable frame is read in the end, if the controller could be set up.
AllRead == stage = "done" ~> (stage = "done" /\ Len(netGot) = Len(usable))
-----------------------------------------------------------------------------
(***************************************************************************)
(* The kernel's heap (base/heap.c).  heap_map, at the bottom of the heap,  *)
(* is a sorted array of block starts, each free or used; the end of the    *)
(* heap is its last entry.  Memory is taken from the top; the map grows,   *)
(* and moves when a static page is taken below it, into the lowest block.  *)
(*                                                                         *)
(* heap_mtx makes every call one step, except that heap_alloc_static_page  *)
(* reads heap_map before it locks.  Its callers hold pg_mtx (base/pg.c).   *)
(* Addresses are in units of the smallest alignment (16 bytes).            *)
(***************************************************************************)

heapVars == <<mapAt, mapSize, heapMap, pgMtx, seen, heapBlocks, static, narrow>>

NoTask == "none"
Free(a) == [a |-> a, used |-> FALSE]
Used(a) == [a |-> a, used |-> TRUE]

HeapTypeOK ==
  /\ mapAt \in 0 .. HeapSize /\ mapSize \in Nat
  /\ heapMap \in Seq([a : 0 .. HeapSize, used : BOOLEAN])
  /\ pgMtx \in Allocators \cup {NoTask} /\ seen \in [Allocators -> 0 .. HeapSize]
  /\ heapBlocks \subseteq (0 .. HeapSize) \X Sizes /\ static \subseteq 0 .. HeapSize
  /\ narrow \in BOOLEAN

HeapInit ==
  /\ mapAt = 0 /\ mapSize = 1
  /\ heapMap = <<Free(HeapPage), Free(HeapSize)>>
  /\ pgMtx = NoTask /\ seen = [t \in Allocators |-> 0]
  /\ heapBlocks = {} /\ static = {} /\ narrow = FALSE

-----------------------------------------------------------------------------
\* Where a block goes that is taken from the end of the i-th one.
Address(i, align, size) ==
  LET e == heapMap[i + 1].a IN (e - size) - ((e - size) % align)

\* The free blocks that are large enough.
Fitting(align, size) ==
  {i \in 1 .. (Len(heapMap) - 1) :
     /\ ~heapMap[i].used
     /\ size <= heapMap[i + 1].a - heapMap[i].a
     /\ size + ((heapMap[i + 1].a - size) % align) <= heapMap[i + 1].a - heapMap[i].a}

\* Mutant: the map is taken for full only after it has overflowed.
MapFullLate == Len(heapMap) > mapSize * PerPage

MapFull == Len(heapMap) >= mapSize * PerPage

\* Mutant: the page is taken although the lowest block may be smaller.
LowestHasPageAny == ~heapMap[1].used

\* The lowest block is free and keeps something when a page is taken from it.
LowestHasPage == ~heapMap[1].used /\ heapMap[2].a - heapMap[1].a >= 2 * HeapPage

\* heap_aligned_alloc.
Alloc(align, size) ==
  LET i == Max(Fitting(align, size))
      a == Address(i, align, size)
      m == IF MapFull THEN [heapMap EXCEPT ![1].a = mapAt + (mapSize + 1) * HeapPage] ELSE heapMap
  IN
  /\ Cardinality(heapBlocks) < MaxBlocks
  /\ Fitting(align, size) # {}
  /\ MapFull => LowestHasPage
  /\ mapSize' = IF MapFull THEN mapSize + 1 ELSE mapSize
  /\ heapMap' = IF a = heapMap[i].a THEN [m EXCEPT ![i] = Used(a)]
                            ELSE InsertAt(m, i + 1, Used(a))
  /\ heapBlocks' = heapBlocks \cup {<<a, size>>}
  /\ narrow' = (narrow \/ (MapFull /\ a <= m[1].a))
  /\ UNCHANGED <<mapAt, pgMtx, seen, static>>

\* Mutant: free blocks are not joined.
JoinedNext(m) == m

\* The map without the entries between two free blocks.
Joined(m) ==
  LET Kept(i) == i = 1 \/ i = Len(m) \/ m[i].used \/ m[i - 1].used
      keep    == SelectSeq([i \in 1 .. Len(m) |-> i], Kept)
  IN  [k \in 1 .. Len(keep) |-> m[keep[k]]]

\* free.
FreeBlock(b) ==
  /\ b \in heapBlocks
  /\ heapMap' = Joined([i \in DOMAIN heapMap |-> IF heapMap[i] = Used(b[1]) /\ i < Len(heapMap) THEN Free(b[1]) ELSE heapMap[i]])
  /\ heapBlocks' = heapBlocks \ {b}
  /\ UNCHANGED <<mapAt, mapSize, pgMtx, seen, static, narrow>>

-----------------------------------------------------------------------------
\* Mutant: pg_mtx is not held.
MayEnterAlways(t) == pgMtx # t

\* pg_map_kernel locks pg_mtx and needs a page for a table.
MayEnter(t) == pgMtx = NoTask

\* heap_alloc_static_page, before it locks heap_mtx.
StaticRead(t) ==
  /\ MayEnter(t) /\ seen[t] = 0 /\ Cardinality(static) < MaxStatic
  /\ pgMtx' = t
  /\ seen' = [seen EXCEPT ![t] = mapAt + HeapPage]
  /\ UNCHANGED <<mapAt, mapSize, heapMap, heapBlocks, static, narrow>>

\* The rest: the map moves up by a page, and the page it leaves is returned.
StaticPage(t) ==
  /\ seen[t] # 0
  /\ IF LowestHasPage
       THEN /\ mapAt' = seen[t]
            /\ heapMap' = [heapMap EXCEPT ![1].a = seen[t] + mapSize * HeapPage]
            /\ static' = static \cup {mapAt}
       ELSE UNCHANGED <<mapAt, heapMap, static>>
  /\ pgMtx' = NoTask
  /\ seen' = [seen EXCEPT ![t] = 0]
  /\ UNCHANGED <<mapSize, heapBlocks, narrow>>

HeapNext ==
  \/ \E align \in Alignments, size \in Sizes : Alloc(align, size)
  \/ \E b \in heapBlocks : FreeBlock(b)
  \/ \E t \in Allocators : StaticRead(t) \/ StaticPage(t)

-----------------------------------------------------------------------------
\* What is in use: blocks, static pages and the map, as <<address, size>>.
InUse == heapBlocks \cup {<<p, HeapPage>> : p \in static} \cup {<<mapAt, mapSize * HeapPage>>}

(***************************************************************************)
(* No two pieces of memory in use overlap: blocks, static pages and the    *)
(* map, which is cleared or overwritten otherwise.  The map, when it is    *)
(* full, checks that the lowest block keeps a page, but not that the block *)
(* it is about to hand out lies in what is kept: that case is set apart.   *)
(***************************************************************************)
Disjoint ==
  ~narrow =>
    /\ \A x \in InUse : x[1] + x[2] <= HeapSize
    /\ \A x, y \in InUse : x # y => x[1] + x[2] <= y[1] \/ y[1] + y[2] <= x[1]
    /\ Cardinality(InUse) = Cardinality(heapBlocks) + Cardinality(static) + 1

(***************************************************************************)
(* The map is exact: its used entries are the blocks in use, sorted, each  *)
(* with its room before the next entry, and free blocks are joined, so     *)
(* that a heap nobody uses is one block again.                             *)
(***************************************************************************)
MapExact ==
  ~narrow =>
    /\ {heapMap[i].a : i \in {j \in DOMAIN heapMap : heapMap[j].used}} = {b[1] : b \in heapBlocks}
    /\ \A i \in 1 .. (Len(heapMap) - 1) : heapMap[i].a < heapMap[i + 1].a
    /\ \A b \in heapBlocks, i \in 1 .. (Len(heapMap) - 1) : heapMap[i].a = b[1] => b[2] <= heapMap[i + 1].a - b[1]
    /\ \A i \in 2 .. (Len(heapMap) - 1) : heapMap[i].used \/ heapMap[i - 1].used
    /\ heapMap[1].a = mapAt + mapSize * HeapPage \/ heapMap[1].used
    /\ heapMap[Len(heapMap)] = Free(HeapSize)

(***************************************************************************)
(* The array of entries never outgrows the pages it has.                   *)
(***************************************************************************)
EntriesFit == Len(heapMap) <= mapSize * PerPage
-----------------------------------------------------------------------------
(***************************************************************************)
(* The physical memory manager (base/mm.c): a bitmap of page frames, made  *)
(* from the memory map of the boot loader and from the heap, in which      *)
(* aligned blocks of 2^order frames are searched from the top down.        *)
(* mm_bitmap_used counts the bytes at the top of the bitmap that have been *)
(* found full, so that a search does not look at them again.               *)
(*                                                                         *)
(* Every function holds mm_mtx and is one step.                            *)
(***************************************************************************)

Frame == 0 .. (BitsPerByte * Bytes - 1)
Count(order) == 2^order
Block(f, n) == f .. (f + n - 1)

mmVars == <<framesFree, framesUsed, bitmap, framesMap, owned, failed>>

MmTypeOK ==
  /\ framesFree \subseteq Frame /\ framesUsed \in 0 .. Bytes /\ bitmap \subseteq Frame
  /\ framesMap \in MemoryMaps
  /\ owned \subseteq Frame \X Orders
  /\ failed \in ((DOMAIN Limit \cup {"page"}) \X Orders) \cup {<<>>}

-----------------------------------------------------------------------------
(* mm_init *)

\* The first whole page of an area.
FirstFrame(base) == (Max({base, MinBase}) + PageSize - 1) \div PageSize

\* mm_array: the frames of the areas the kernel may use, two or more each.
Areas(m) ==
  LET area(i) == FirstFrame(m[i].base) .. ((m[i + 1].base \div PageSize) - 1)
  IN  {area(i) : i \in {j \in 1 .. (Len(m) - 1) :
                          m[j].type = "reserved" /\ Cardinality(area(j)) >= 2}}

\* The bitmap is put at the start of the highest area that is larger.
BitmapOf(m) ==
  LET large == {a \in Areas(m) : Cardinality(a) > BitmapPages}
      a == CHOOSE x \in large : \A y \in large : Min(x) >= Min(y)
  IN  Block(Min(a), BitmapPages)

\* The last chunk goes back to the heap.
FromHeap == UNION {HeapChunks[i] : i \in 1 .. (Len(HeapChunks) - 1)}

MmInit ==
  /\ framesMap \in MemoryMaps
  /\ \E a \in Areas(framesMap) : Cardinality(a) > BitmapPages \* else DE_MEMORY
  /\ bitmap = BitmapOf(framesMap)
  /\ framesFree = ((UNION Areas(framesMap)) \ bitmap) \cup FromHeap
  /\ framesUsed = 0 /\ owned = {} /\ failed = <<>>

-----------------------------------------------------------------------------
FullByte(i) == \A f \in Block(i * BitsPerByte, BitsPerByte) : f \notin framesFree

\* Mutant: every full byte of the bitmap is counted.
SkippedOn == framesUsed + Cardinality({i \in 0 .. (Bytes - 1) : FullByte(i)})

\* mm_bitmap_used after the full bytes below those already known were skipped.
Skipped == Min({Bytes} \cup {u \in framesUsed .. (Bytes - 1) : ~FullByte(Bytes - 1 - u)})

\* Mutant: the limit of a type of memory includes the frame after it.
SearchEndLate(type) == Min({(Bytes - Skipped) * BitsPerByte, Limit[type] + 1})

\* The search starts below the full bytes and the limit of the type.
SearchEnd(type) == Min({(Bytes - Skipped) * BitsPerByte, Limit[type]})

\* Mutant: the last frame of a block is not tested.
CandidatesShort(end, n) ==
  {f \in 1 .. end - 1 : f % n = 0 /\ f \in framesFree /\ Block(f, n - 1) \subseteq framesFree}

\* The aligned free blocks that a search from end downwards meets; 0 is no frame.
Candidates(end, n) ==
  {f \in 1 .. end - 1 : f % n = 0 /\ Block(f, n) \subseteq framesFree}

TakeBlock(end, order, call) ==
  LET blocks == Candidates(end, Count(order)) IN
  /\ framesUsed' = Skipped
  /\ IF blocks = {}
       THEN failed' = call /\ UNCHANGED <<framesFree, owned>>
       ELSE /\ framesFree' = framesFree \ Block(Max(blocks), Count(order))
            /\ owned' = owned \cup {<<Max(blocks), order>>}
            /\ failed' = <<>>
  /\ UNCHANGED <<bitmap, framesMap>>

\* mm_alloc_page and mm_alloc_pages.
AllocPage == 0 \in Orders /\ TakeBlock((Bytes - Skipped) * BitsPerByte, 0, <<"page", 0>>)
AllocPages(type, order) == TakeBlock(SearchEnd(type), order, <<type, order>>)

\* Mutant: the count of full bytes is taken from the first frame of the block.
UsedAfterFirst(f, n) == Min({framesUsed, Bytes - (f \div BitsPerByte) - 1})

\* mm_bitmap_used after a block was freed: its last byte is not full.
UsedAfter(f, n) == Min({framesUsed, Bytes - ((f + n - 1) \div BitsPerByte) - 1})

\* mm_free_page and mm_free_pages, by the owner of the block.
FreePages(f, order) ==
  /\ <<f, order>> \in owned
  /\ framesFree' = framesFree \cup Block(f, Count(order))
  /\ framesUsed' = UsedAfter(f, Count(order))
  /\ owned' = owned \ {<<f, order>>}
  /\ failed' = <<>>
  /\ UNCHANGED <<bitmap, framesMap>>

MmNext ==
  \/ AllocPage
  \/ \E type \in DOMAIN Limit, order \in Orders : AllocPages(type, order)
  \/ \E b \in owned : FreePages(b[1], b[2])

-----------------------------------------------------------------------------
\* All frames of a piece of memory that the memory map gives to the kernel.
Given(f) ==
  \E i \in 1 .. (Len(framesMap) - 1) :
    /\ framesMap[i].type = "reserved"
    /\ framesMap[i].base <= f * PageSize /\ (f + 1) * PageSize <= framesMap[i + 1].base

(***************************************************************************)
(* No frame is given out twice, none that still is part of the heap or of  *)
(* the bitmap, and none that is not whole in memory meant for the kernel.  *)
(***************************************************************************)
Exclusive ==
  LET blocks == {Block(b[1], Count(b[2])) : b \in owned}
      kept   == bitmap \cup HeapChunks[Len(HeapChunks)]
  IN  /\ \A x, y \in blocks \cup {framesFree, kept} : x # y => x \cap y = {}
      /\ Cardinality(blocks) = Cardinality(owned)
      /\ \A x \in blocks : \A f \in x : f # 0 /\ (f \in FromHeap \/ (Given(f) /\ f * PageSize >= MinBase))

(***************************************************************************)
(* A call fails only when there is no block: neither the count of full     *)
(* bytes nor the way the search is limited and aligned hides a free one.   *)
(***************************************************************************)
FailsWhenFull ==
  failed # <<>> =>
    ~\E f \in Frame \ {0} :
       /\ f % Count(failed[2]) = 0
       /\ Block(f, Count(failed[2])) \subseteq framesFree
       /\ failed[1] # "page" => f + Count(failed[2]) <= Limit[failed[1]]

(***************************************************************************)
(* A block of a limited type of memory lies below its limit: a device that *)
(* can only address so much never gets more.                               *)
(***************************************************************************)
BelowLimit ==
  \A type \in DOMAIN Limit, order \in Orders :
       AllocPages(type, order) =>
         \A b \in owned' \ owned : b[1] + Count(b[2]) <= Limit[type]
-----------------------------------------------------------------------------
(***************************************************************************)
(* The parts share no variable, so a property of one of them holds when    *)
(* they run together if it holds when the others stand still. A behaviour  *)
(* therefore moves one part, chosen at the start.                          *)
(***************************************************************************)
pageVars ==
  <<pageFree, pageLost, space, alt, memory, cr3, cpu, pageState, pagePc,
    goal, todo, pageType, checked>>
edgeVars ==
  <<list, mtx, edgePc, entry, line, request, inService, pos, edgeRunning,
    installs>>
acpiVars ==
  <<queue, events, acpiRunning, place, begun, units, held, acpiPc, status, power,
    acpiCalls, done, types>>
serialVars ==
  <<serialBase, serialStart, serialEnd, event, rx, arrived, irq, thr, wire,
    baud, termios, serialPc, arg, drain, ready, serialTaken, accepted,
    serialLost, late, looked>>
kmsgVars ==
  <<buffer, kmsgState, counter, kmsgLock, left, findI, kmsgPc, offset,
    kmsgStart, at, kmsgGot, texts, kmsgTaken>>
pciVars ==
  <<pciLock, port, acc, pciI, pciJ, step, next, pciHandler, cmd, msi, sent,
    pciCalls, pciGot>>
vars ==
  <<part, pageVars, edgeVars, acpiVars, serialVars, kmsgVars, pciVars,
    netVars, heapVars, mmVars>>

PageMoves ==
  /\ part = "page"
  /\ UNCHANGED <<part, edgeVars, acpiVars, serialVars, kmsgVars, pciVars,
                  netVars, heapVars, mmVars>>
EdgeMoves ==
  /\ part = "edge"
  /\ UNCHANGED <<part, pageVars, acpiVars, serialVars, kmsgVars, pciVars,
                  netVars, heapVars, mmVars>>
LevelMoves ==
  /\ part = "level"
  /\ UNCHANGED <<part, pageVars, acpiVars, serialVars, kmsgVars, pciVars,
                  netVars, heapVars, mmVars>>
AcpiMoves ==
  /\ part = "acpi"
  /\ UNCHANGED <<part, pageVars, edgeVars, serialVars, kmsgVars, pciVars,
                  netVars, heapVars, mmVars>>
SerialMoves ==
  /\ part = "serial"
  /\ UNCHANGED <<part, pageVars, edgeVars, acpiVars, kmsgVars, pciVars,
                  netVars, heapVars, mmVars>>
KmsgMoves ==
  /\ part = "kmsg"
  /\ UNCHANGED <<part, pageVars, edgeVars, acpiVars, serialVars, pciVars,
                  netVars, heapVars, mmVars>>
CatchMoves ==
  /\ part = "catch"
  /\ UNCHANGED <<part, pageVars, edgeVars, acpiVars, serialVars, pciVars,
                  netVars, heapVars, mmVars>>
PciMoves ==
  /\ part = "pci"
  /\ UNCHANGED <<part, pageVars, edgeVars, acpiVars, serialVars, kmsgVars,
                  netVars, heapVars, mmVars>>
NetMoves ==
  /\ part = "net"
  /\ UNCHANGED <<part, pageVars, edgeVars, acpiVars, serialVars, kmsgVars,
                  pciVars, heapVars, mmVars>>
HeapMoves ==
  /\ part = "heap"
  /\ UNCHANGED <<part, pageVars, edgeVars, acpiVars, serialVars, kmsgVars,
                  pciVars, netVars, mmVars>>
FramesMoves ==
  /\ part = "frames"
  /\ UNCHANGED <<part, pageVars, edgeVars, acpiVars, serialVars, kmsgVars,
                  pciVars, netVars, heapVars>>

Init ==
  /\ part \in Parts
  /\ Paging!Init /\ (part \notin {"level"} => EdgeLine!Init)
  /\ (part = "level" => LevelLine!Init) /\ Services!Init /\ Port!Init
  /\ (part \notin {"catch"} => Messages!Init)
  /\ (part = "catch" => Catch!Init) /\ Bus!Init /\ NetInit /\ HeapInit
  /\ MmInit
  /\ Still

Next ==
  \/ PageMoves /\ Paging!Next
  \/ EdgeMoves /\ EdgeLine!Next
  \/ LevelMoves /\ LevelLine!Next
  \/ AcpiMoves /\ Services!Next
  \/ SerialMoves /\ Port!Next
  \/ KmsgMoves /\ Messages!Next
  \/ CatchMoves /\ Catch!Next
  \/ PciMoves /\ Bus!Next
  \/ NetMoves /\ NetNext
  \/ HeapMoves /\ HeapNext
  \/ FramesMoves /\ MmNext

Spec ==
  /\ Init /\ [][Next]_vars
  /\ WF_edgeVars(part \in {"edge", "level"} /\ EdgeLine!Handler)
  /\ WF_acpiVars(part = "acpi" /\ (Services!Take \/ Services!Return \/ Services!ReadStatus \/ Services!Off))
  /\ SF_acpiVars(part = "acpi" /\ Services!FunctionWait)
  /\ \A t \in AcpiTasks : /\ SF_acpiVars(part = "acpi" /\ Services!EventsComplete(t))
                         /\ SF_acpiVars(part = "acpi" /\ Services!Signal(t))
  /\ WF_kmsgVars(part = "catch" /\ (Catch!WriteChar \/ Catch!End))
  /\ WF_kmsgVars(part = "catch" /\ (Catch!Scan("r1") \/ Catch!Check("r1") \/ Catch!Advance("r1")))
  /\ SF_kmsgVars(part = "catch" /\ (Catch!Call("r1") \/ Catch!Read("r1") \/ Catch!Placeholder("r1")))
  /\ WF_netVars(part = "net" /\ (TakeDescriptor \/ Put \/ Wait \/ Clear))
  /\ \A t \in NetReaders : /\ SF_netVars(part = "net" /\ ReadFrame(t))
                          /\ WF_netVars(part = "net" /\ Wake(t))

-----------------------------------------------------------------------------
\* A block has a power of two of frames. Limits of memory are powers of two, or
\* there is no limit below the end of the bitmap.
ASSUME LimitAssumption ==
  /\ Bytes \in Nat /\ BitsPerByte \in Nat \ {0}
  /\ \A order \in Orders : order \in Nat /\ Count(order) \in Nat \ {0}
  /\ \A type \in DOMAIN Limit :
       /\ type # "page" /\ Limit[type] \in Nat
       /\ \A order \in Orders :
            \/ Limit[type] % Count(order) = 0 \/ Limit[type] <= Count(order)
            \/ Limit[type] >= BitsPerByte * Bytes

\* The bitmap covers the areas of every memory map. The chunks that the heap
\* gives away are not the one it keeps, and none lies in an area.
ASSUME AreaAssumption ==
  /\ PageSize \in Nat \ {0} /\ MinBase \in Nat /\ BitmapPages \in Nat
  /\ HeapChunks \in Seq(SUBSET Frame) /\ Len(HeapChunks) > 0
  /\ FromHeap \cap HeapChunks[Len(HeapChunks)] = {}
  /\ MemoryMaps \subseteq Seq([base : Nat, type : STRING])
  /\ \A m \in MemoryMaps :
       UNION Areas(m) \subseteq Frame \ UNION {HeapChunks[i] : i \in DOMAIN HeapChunks}

TypeOK ==
  /\ part = "page" => Paging!TypeOK
  /\ part \in {"edge", "level"} => EdgeLine!TypeOK
  /\ part = "acpi" => Services!TypeOK
  /\ part = "serial" => Port!TypeOK
  /\ part = "kmsg" => Messages!TypeOK
  /\ part = "catch" => Catch!TypeOK
  /\ part = "pci" => Bus!TypeOK
  /\ part = "net" => NetTypeOK
  /\ part = "heap" => HeapTypeOK
  /\ part = "frames" => MmTypeOK

\* Memory has one owner: no two blocks of the heap, its map and its static
\* pages overlap; no frame is given out twice or is hidden when one is asked
\* for; a frame is in the pool or in one place of one space, what a program has
\* is counted, the register never has the root of a space that is gone, and
\* what a check of user addresses said stays true.
MemoryRight ==
  /\ TypeOK
  /\ part = "heap" => Disjoint /\ MapExact /\ EntriesFit
  /\ part = "frames" => Exclusive /\ FailsWhenFull
  /\ part = "page" =>
       Paging!OneOwner /\ Paging!MemoryCounted /\ Paging!RegisterValid /\ Paging!CheckedStays

\* Interrupts, bytes, frames and messages reach the one they are for, once and
\* in order: a function that was uninstalled does not run; functions of ACPICA
\* run in the order they were queued and no unit of a semaphore is lost; bytes
\* of the serial port and frames of the network are read in order although
\* rings wrap and fill; a read of /dev/kmsg returns one whole record, and only
\* records that are gone are skipped; a message of a PCI device calls the
\* function of its driver.
DevicesRight ==
  /\ part \in {"edge", "level"} => EdgeLine!QuietAfterUninstall /\ EdgeLine!InstalledOnce
  /\ part = "acpi" => Services!UnitsKept /\ Services!InOrder
  /\ part = "serial" => Port!InOrder /\ Port!NoStuckByte /\ Port!WireInOrder /\ Port!EventForByte
  /\ part = "kmsg" => Messages!WholeRecords /\ Messages!NeverUnexpected /\ Messages!SkipsOnlyLost
  /\ part = "pci" => Bus!ReadsOwn /\ Bus!CallsOwn /\ Bus!OwnVector
  /\ part = "net" => InOrder /\ EmptyIsEmpty /\ NoRetry

\* A block of a limited type of memory lies below its limit; a wait for the
\* functions of ACPICA returns when none is left, notify handlers that wait when
\* a round begins go first, what was queued before it runs before the power goes; the
\* network card never fills a descriptor that was not cleared.
StepsRight ==
  [][ /\ part = "frames" => BelowLimit
      /\ part = "acpi" => Services!CompleteIsComplete /\ Services!NotifyFirst /\ Services!GoesLast
      /\ part = "net" => FillsFree ]_vars

\* A device that wants attention is served, functions of ACPICA run and the
\* power goes, a reader of /dev/kmsg gets to the last record, and the frames
\* that came are read.
Answered ==
  /\ EdgeLine!Served
  /\ Services!FunctionsRun /\ Services!PowerGoes
  /\ (part = "catch" /\ counter = 3) ~> (offset["r1"] = 3)
  /\ AllRead
=============================================================================
