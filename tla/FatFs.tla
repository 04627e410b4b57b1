------------------------------- MODULE FatFs --------------------------------
(***************************************************************************)
(* The FAT file system (common/fat.c and vfs/fat_io.c): contents of files  *)
(* (module Fat), directories (FatDir), the table of clusters (FatTable)    *)
(* and the layer of nodes over it (FatIo), and, in this module, mounting,  *)
(* the handles of files and names (fat.c).                                 *)
(***************************************************************************)
EXTENDS Integers, FiniteSets, Sequences, TLC

CONSTANTS
  Parts,      \* the parts that move
  NoOne,      \* no task
  Boots,      \* the boot sectors tried, records of the fields below
  Devices,    \* the devices tried: block_size and block_total
  IntMax,     \* INT_MAX; the other limits follow
  FileSizes,  \* sizes of the file that is open
  DirSize,    \* bytes of the fixed root directory
  Sector,     \* fs_bytes_per_sector
  Times,      \* times of the clock, records of year .. sec
  Modes,      \* mode strings, sequences of characters
  Letters,    \* letters, digits and other characters of names
  Bad,        \* a character that no path may contain
  Base, Ext,  \* 8 and 3
  Reserved,   \* the name of a device (CON, NUL, ...), as characters
  MaxPath     \* bound on the length of a path

VARIABLES
  part,  \* the part that moves
  boot, dev,  \* what is being mounted
  mountPc,    \* "create", "check", "table", "ready", "failed"
  held,       \* memory of the instance
  lay,        \* the layout computed
  handleH,    \* the handle: opened, root directory, offset, eof, mode, size
  out,        \* what the last call was asked and returned
  typed,      \* the path
  \* of Fat
  fatDisk, fatTab, blk, clu, fatLast, fatReady, fatFd, fatOp, file, faults,
  crashes, torn,
  \* of FatIo
  medium, pending, alive, media_changed, instance, open, node, owner, task,
  access, ioGot,
  \* of FatDir
  slot, dirTable, dirFd, dirOp, sound, kept,
  \* of FatTable
  mem, table12Base, dirty, unmarked, missed, table12Disk, table12Free, modified, table12Info,
  table12Ready, table12Tab, early

FloppyVolume == [signature |-> TRUE, bps |-> 512, spc |-> 1, reserved |-> 1, tables |-> 2,
       entries |-> 224, total16 |-> 2880, total32 |-> 0, spf16 |-> 9, spf32 |-> 0,
       version |-> 0, root |-> 0, info |-> 0]
Volume32 == [signature |-> TRUE, bps |-> 512, spc |-> 1, reserved |-> 32, tables |-> 2,
       entries |-> 0, total16 |-> 0, total32 |-> 66599, spf16 |-> 0, spf32 |-> 520,
       version |-> 0, root |-> 2, info |-> 1]
Volume16 == [FloppyVolume EXCEPT !.total16 = 0, !.total32 = 4151, !.spf16 = 17, !.entries = 512]

\* One field of a sound volume replaced.
Vary(b, f, S) == {[b EXCEPT ![f] = v] : v \in S}

SomeBoots ==
  UNION {Vary(b, "bps", {256, 512, 1000, 1024, 4096, 8192})
       \cup Vary(b, "spc", {0, 1, 2, 3, 128}) \cup Vary(b, "reserved", {0, 1, 32})
       \cup Vary(b, "tables", 0..3) \cup Vary(b, "entries", {0, 8, 16, 224, 512})
       \cup Vary(b, "total16", {0, 19, 33, 34, 2880}) \cup Vary(b, "total32", {0, 2880, 4151, 66598, 66599, 66600})
       \cup Vary(b, "spf16", {0, 1, 8, 9, 16, 17, 257}) \cup Vary(b, "spf32", {0, 511, 512, 513, 520})
       \cup Vary(b, "root", {0, 2, 65526, 65527, 65528}) \cup Vary(b, "info", {0, 1, 31, 32})
       \cup Vary(b, "version", {0, 1}) \cup Vary(b, "signature", {FALSE})
       : b \in {FloppyVolume, Volume16, Volume32}}
  \cup {[FloppyVolume EXCEPT !.bps = 1024, !.total16 = t] : t \in {1440, 2880}}

SomeDevices == {[size |-> s, total |-> n] : s \in {512, 1024, 3000},
                      n \in {0, 1440, 2880, 5760, 66600}}

SomeTimes ==
  {[year |-> y, mon |-> m, day |-> d, hour |-> 23, min |-> 59, sec |-> s] :
    y \in {1979, 1980, 2000, 2099, 2100, 2108}, m \in {1, 12, 13}, d \in {31}, s \in {0, 59}}
SomeModes == UNION {[1..n -> {"a", "b", "r", "w", "plus", "x"}] : n \in 1..2}
OneName == {<<"A", "A">>}

\* What a part that stands still has.
Still == /\ part # "mount" => boot = FloppyVolume /\ dev = [size |-> 512, total |-> 2880]
         /\ part \notin {"table12", "table16", "table32"} => table12Info = 4

Contents == INSTANCE Fat
  WITH Name <- {"a", "b"}, Clusters <- 2, ClusterSize <- 2, MaxEnd <- 3,
       InSector <- 4, MaxFaults <- 0, MaxCrashes <- 0, disk <- fatDisk, tab <- fatTab,
       last <- fatLast, ready <- fatReady, fd <- fatFd, op <- fatOp
Gaps == INSTANCE Fat
  WITH Name <- {"a"}, Clusters <- 3, ClusterSize <- 2, MaxEnd <- 7,
       InSector <- 4, MaxFaults <- 0, MaxCrashes <- 0, disk <- fatDisk, tab <- fatTab,
       last <- fatLast, ready <- fatReady, fd <- fatFd, op <- fatOp
Crashes == INSTANCE Fat
  WITH Name <- {"a", "b"}, Clusters <- 2, ClusterSize <- 1, MaxEnd <- 2,
       InSector <- 1, MaxFaults <- 0, MaxCrashes <- 1, disk <- fatDisk, tab <- fatTab,
       last <- fatLast, ready <- fatReady, fd <- fatFd, op <- fatOp
Faults == INSTANCE Fat
  WITH Name <- {"a"}, Clusters <- 3, ClusterSize <- 2, MaxEnd <- 3,
       InSector <- 1, MaxFaults <- 1, MaxCrashes <- 1, disk <- fatDisk, tab <- fatTab,
       last <- fatLast, ready <- fatReady, fd <- fatFd, op <- fatOp
Layer == INSTANCE FatIo
  WITH Task <- {"t1", "t2"}, Name <- {"f", "g"}, Slots <- 3, MaxMedium <- 2,
       NONE <- NoOne, got <- ioGot
FixedRoot == INSTANCE FatDir
  WITH Name <- {"a", "b"}, Clusters <- 2, Slots <- 2, RootSlots <- 2,
       Fixed <- TRUE, Depth <- 2, Handles <- {1},
       table <- dirTable, fd <- dirFd, op <- dirOp
ChainedRoot == INSTANCE FatDir
  WITH Name <- {"a", "b", "c"}, Clusters <- 2, Slots <- 2, RootSlots <- 2,
       Fixed <- FALSE, Depth <- 1, Handles <- {1},
       table <- dirTable, fd <- dirFd, op <- dirOp
Table12 == INSTANCE FatTable
  WITH Type <- 12, D <- 2, Clusters <- 4, Sector <- 4, Window <- 4,
       Values <- {0, 5}, base <- table12Base, disk <- table12Disk,
       free <- table12Free, info <- table12Info, ready <- table12Ready,
       tab <- table12Tab
Table16 == INSTANCE FatTable
  WITH Type <- 16, D <- 2, Clusters <- 3, Sector <- 4, Window <- 4,
       Values <- {0, 9}, base <- table12Base, disk <- table12Disk,
       free <- table12Free, info <- table12Info, ready <- table12Ready,
       tab <- table12Tab
Table32 == INSTANCE FatTable
  WITH Type <- 32, D <- 2, Clusters <- 2, Sector <- 4, Window <- 8,
       Values <- {0, 83}, base <- table12Base, disk <- table12Disk,
       free <- table12Free, info <- table12Info, ready <- table12Ready,
       tab <- table12Tab
-----------------------------------------------------------------------------
(***************************************************************************)
(* Mounting a FAT volume (common/fat.c): fat_create takes its buffers,     *)
(* read_bios_parameter_block checks the first sector and computes the      *)
(* layout, and the table is read. A volume is a choice of the fields that  *)
(* the checks look at. Every size is the real one; the jump instruction    *)
(* and the signature are one flag.                                         *)
(***************************************************************************)

mountVars == <<boot, dev, mountPc, held, lay>>

PowerOf2(n) == n \in {2 ^ i : i \in 0..12}
Fat12Limit == 4085
Fat16Limit == 65525

-----------------------------------------------------------------------------
(* read_bios_parameter_block *)

IoMul == boot.bps \div dev.size
Total == IF boot.total16 # 0 THEN boot.total16 ELSE boot.total32
TableSectors == IF boot.spf16 # 0 THEN boot.spf16 ELSE boot.spf32
DirSectors == (boot.entries * 32) \div boot.bps
Meta == boot.reserved + TableSectors * boot.tables + DirSectors
DataSectors == Total - Meta
ClusterCount == DataSectors \div boot.spc
TableSize == TableSectors * boot.bps
FatType == IF ClusterCount < Fat12Limit THEN 12
           ELSE IF ClusterCount < Fat16Limit THEN 16 ELSE 32

DeviceOk == dev.size \in 1..4096 /\ PowerOf2(dev.size)

\* The fields that must have one of a few values.
FieldsOk ==
    /\ boot.signature
    /\ boot.bps \in 512..4096 /\ PowerOf2(boot.bps) /\ boot.bps >= dev.size
    /\ boot.spc \in 1..128 /\ PowerOf2(boot.spc)
    /\ boot.reserved # 0
    /\ boot.tables \in {1, 2}
    /\ (boot.entries * 32) % boot.bps = 0

\* The two totals agree, and the device is not too small. The number of sectors
\* is divided by the blocks in a sector.
TotalOk ==
    /\ boot.total16 # 0 /\ boot.total32 # 0 => boot.total16 = boot.total32
    /\ dev.total >= Total \div IoMul

\* Mutant: only the size of the table is checked.
SpaceOkAny == TableSectors <= 1073741824 \div boot.bps

\* The tables and the directory leave room for a cluster.
SpaceOk == TableSectors <= 1073741824 \div boot.bps /\ Meta + boot.spc <= Total

TableBytes == CASE FatType = 12 -> ((ClusterCount + 2) * 3 + 1) \div 2
                [] FatType = 16 -> (ClusterCount + 2) * 2
                [] OTHER -> (ClusterCount + 2) * 4

\* Mutant: the table need not hold an entry for every cluster.
TypeOkShort ==
    IF FatType # 32
      THEN boot.entries # 0 /\ TableSize <= 131072
      ELSE /\ boot.entries = 0 /\ boot.total16 = 0 /\ boot.spf16 = 0
           /\ boot.version = 0 /\ boot.root >= 2 /\ boot.root - 2 < ClusterCount
           /\ boot.info # 0 /\ boot.info < boot.reserved

\* What the type demands: a fixed root directory and a table that is read
\* whole, or a root cluster and an information sector.
KindOk ==
    IF FatType # 32
      THEN boot.entries # 0 /\ TableSize <= 131072 /\ TableSize >= TableBytes
      ELSE /\ boot.entries = 0 /\ boot.total16 = 0 /\ boot.spf16 = 0
           /\ boot.version = 0 /\ boot.root >= 2 /\ boot.root - 2 < ClusterCount
           /\ ClusterCount + 2 <= 268435448 /\ TableSize >= TableBytes
           /\ boot.info # 0 /\ boot.info < boot.reserved

Accepted == DeviceOk /\ FieldsOk /\ TotalOk /\ SpaceOk /\ KindOk

-----------------------------------------------------------------------------
(* fat_create and fat_delete *)

\* The memory an instance takes, in the order it is taken.
Buffers == <<"instance", "fd", "block", "path", "cluster", "table", "sectors">>
Taken(n) == {Buffers[i] : i \in 1..n}

\* Mutant: the cluster buffer is not freed.
DeleteKeeps == held' = held \cap {"cluster"}

\* fat_delete frees whatever there is.
Delete == held' = {}

Fail == mountPc' = "failed" /\ Delete /\ UNCHANGED <<boot, dev, lay>>

\* The instance and its three buffers; memory may run out at each.
Create ==
    /\ mountPc = "create"
    /\ \/ /\ mountPc' = "check" /\ held' = Taken(4) /\ UNCHANGED <<boot, dev, lay>>
       \/ Fail

NoLayout == [type |-> 0, first |-> 0, clusters |-> 0, spc |-> 0, sector |-> 0, mul |-> 0,
             tablesize |-> 0, tables |-> 0, last |-> 0]

\* The first sector is read and checked, and the cluster buffer is taken.
Check ==
    /\ mountPc = "check"
    /\ \/ /\ Accepted
          /\ lay' = [type |-> FatType, first |-> Meta, clusters |-> ClusterCount,
                     spc |-> boot.spc, sector |-> boot.bps, mul |-> IoMul,
                     tablesize |-> TableSize, tables |-> boot.tables,
                     last |-> boot.reserved + boot.tables * TableSectors - 1]
          /\ mountPc' = "table" /\ held' = Taken(5)
          /\ UNCHANGED <<boot, dev>>
       \/ Fail

\* read_table_buffer or read_full_table: two more buffers and a read.
ReadTable ==
    /\ mountPc = "table"
    /\ \/ /\ mountPc' = "ready" /\ held' = Taken(7) /\ UNCHANGED <<boot, dev, lay>>
       \/ Fail

Unmount ==
    /\ mountPc = "ready"
    /\ mountPc' = "gone" /\ Delete
    /\ UNCHANGED <<boot, dev, lay>>

MountInit ==
    /\ boot \in Boots /\ dev \in Devices
    /\ mountPc = "create" /\ held = {} /\ lay = NoLayout

MountNext == Create \/ Check \/ ReadTable \/ Unmount

-----------------------------------------------------------------------------
(* Properties *)

MountTypeOK ==
    /\ mountPc \in {"create", "check", "table", "ready", "failed", "gone"}
    /\ held \subseteq Taken(7)
    /\ mountPc \in {"table", "ready"} => lay.type \in {12, 16, 32} /\ lay.clusters > 0

\* A mount that fails, at whichever step, leaves no memory behind.
NothingKept == mountPc \in {"failed", "gone"} => held = {}

\* Every cluster of a mounted volume lies in the sectors the volume says it
\* has, behind the tables and the directory.
ClustersInVolume ==
    mountPc = "ready" =>
        /\ lay.first + lay.clusters * lay.spc <= Total
        /\ lay.clusters >= 1 /\ lay.first > lay.last

\* Every cluster has an entry in the table.
EntryForEach ==
    mountPc = "ready" => CASE lay.type = 12 -> 2 * lay.tablesize >= 3 * (lay.clusters + 2)
                      [] lay.type = 16 -> lay.tablesize >= 2 * (lay.clusters + 2)
                      [] OTHER -> lay.tablesize >= 4 * (lay.clusters + 2)

\* Every sector of a mounted volume is on the device (it need not be when a
\* sector has several blocks).
VolumeOnDevice ==
    mountPc = "ready" => (lay.first + lay.clusters * lay.spc) * lay.mul <= dev.total
-----------------------------------------------------------------------------
(***************************************************************************)
(* A handle of the FAT driver (common/fat.c): the mode string of fat_open, *)
(* fat_seek on integers of a fixed width, reading the fixed root directory *)
(* and the time stamps of a record. An int has the values IntMin .. IntMax *)
(* and an unsigned int 0 .. UintMax; a real one has 32 bits.               *)
(***************************************************************************)

IntMin == -IntMax - 1
UintMax == 2 * IntMax + 1
MaxOffset == UintMax - 1   \* maximum_file_size - 1

handleVars == <<handleH, out>>

None == [op |-> "none"]
Closed == [opened |-> FALSE, root |-> FALSE, offset |-> 0, eof |-> 0, mode |-> {}, size |-> 0]

-----------------------------------------------------------------------------
(* parse_mode *)

Grants == [a |-> {"append", "create", "modify"}, b |-> {}, r |-> {"read"},
           w |-> {"create", "modify", "write"}, plus |-> {"modify"}]

\* Mutant: two of a, r and w may be there.
ModeOkBoth(m) ==
    /\ \A i \in 1..Len(m) : m[i] \in DOMAIN Grants /\ \A j \in 1..(i - 1) : m[j] # m[i]
    /\ \E i \in 1..Len(m) : m[i] \in {"a", "r", "w"}

\* Every character is known and appears once, and one of a, r and w is there.
ModeOk(m) ==
    /\ \A i \in 1..Len(m) : m[i] \in DOMAIN Grants /\ \A j \in 1..(i - 1) : m[j] # m[i]
    /\ \E i \in 1..Len(m) : m[i] \in {"a", "r", "w"}
    /\ \A i, j \in 1..Len(m) : m[i] \in {"a", "r", "w"} /\ m[j] \in {"a", "r", "w"} => i = j

Mode(m) == UNION {Grants[m[i]] : i \in 1..Len(m)}

Open ==
    /\ ~handleH.opened
    /\ \E m \in Modes, s \in FileSizes, root \in BOOLEAN :
         IF ~ModeOk(m) THEN handleH' = Closed /\ out' = [op |-> "open", mode |-> m, res |-> FALSE]
         ELSE /\ handleH' = [Closed EXCEPT !.opened = TRUE, !.root = root,
                                     !.mode = IF root THEN {"root"} ELSE Mode(m),
                                     !.size = IF root THEN 0 ELSE s]
              /\ out' = [op |-> "open", mode |-> m, res |-> TRUE]

Close ==
    /\ handleH.opened
    /\ handleH' = Closed /\ out' = None

-----------------------------------------------------------------------------
(* fat_seek and fat_tell *)

\* Mutant: what is left over of the least integer is lost.
SplitPlain(o) ==
    LET v == IntMax + o IN [o |-> IF o < 0 /\ v < 0 THEN o - v ELSE o, extra |-> 0]

\* The least integer has no opposite: it is split in two.
HandleSplit(o) ==
    LET v == IntMax + o
    IN  IF o < 0 /\ v < 0 THEN [o |-> o - v, extra |-> -v] ELSE [o |-> o, extra |-> 0]

\* The opposite of a negative int as an unsigned int.
Opposite(o) == IF o = IntMin THEN (UintMax + 1 + o) % (UintMax + 1) ELSE -o

\* Mutant: the largest size of a file is forgotten.
SeekToAny(o, whence) ==
    LET from == CASE whence = 0 -> 0 [] whence = 1 -> handleH.offset [] OTHER -> handleH.size
    IN  IF from + o < 0 THEN -1 ELSE from + o

\* The new offset, or -1 for an error. Down is the part of a step back that is
\* left over; it is taken one at a time and stops at zero.
SeekTo(o, whence) ==
    LET s == HandleSplit(o)
        from == IF whence = 2 THEN handleH.size ELSE handleH.offset
    IN  CASE whence = 0 -> IF o < 0 \/ o > MaxOffset THEN -1 ELSE o
          [] whence \in {1, 2} /\ s.o < 0 ->
               IF from < Opposite(s.o) THEN -1
               ELSE IF from - Opposite(s.o) < s.extra THEN -1
               ELSE from - Opposite(s.o) - s.extra
          [] whence \in {1, 2} /\ s.o >= 0 ->
               IF from > UintMax - s.o \/ from + s.o > MaxOffset THEN -1
               ELSE from + s.o
          [] OTHER -> -1

Seek ==
    /\ handleH.opened
    /\ \E o \in IntMin..IntMax, whence \in 0..3 :
         LET to == SeekTo(o, whence)
         IN  /\ handleH' = IF to < 0 THEN handleH ELSE [handleH EXCEPT !.offset = to, !.eof = 0]
             /\ out' = [op |-> "seek", o |-> o, whence |-> whence, res |-> to]

-----------------------------------------------------------------------------
(* read_fixed_root_dir *)

\* Mutant: the place in the first sector is used in the others too.
ReadFromAgain(off, limit) ==
    LET k == IF Sector - (off % Sector) < limit THEN Sector - (off % Sector) ELSE limit
    IN  [i \in 1..limit |-> IF i <= k THEN off + i - 1 ELSE off + i - 1 + (off % Sector)]

\* The bytes read in one pass through the sectors: from the offset in the first
\* one, from zero in the others.
ReadFrom(off, limit) ==
    LET f[n \in 0..(DirSize \div Sector + 1)] ==
          IF n = 0 THEN [sec |-> off \div Sector, at |-> off % Sector, got |-> <<>>]
          ELSE LET p == f[n - 1]
                   k == IF Sector - p.at < limit - Len(p.got)
                          THEN Sector - p.at ELSE limit - Len(p.got)
               IN  IF Len(p.got) = limit THEN p
                   ELSE [sec |-> p.sec + 1, at |-> 0,
                         got |-> p.got \o [i \in 1..k |-> p.sec * Sector + p.at + i - 1]]
    IN  f[DirSize \div Sector + 1].got

ReadRoot ==
    /\ handleH.opened /\ handleH.root
    /\ \E n \in 1..(DirSize + 1) :
         LET left == DirSize - handleH.offset
             limit == IF n > left THEN left ELSE n
         IN  IF handleH.offset >= DirSize
               THEN handleH' = [handleH EXCEPT !.eof = 1]
                    /\ out' = [op |-> "read", n |-> n, from |-> handleH.offset, got |-> <<>>]
               ELSE /\ handleH' = [handleH EXCEPT !.offset = @ + limit,
                                      !.eof = IF handleH.offset + limit >= DirSize THEN 1 ELSE @]
                    /\ out' = [op |-> "read", n |-> n, from |-> handleH.offset,
                               got |-> ReadFrom(handleH.offset, limit)]

-----------------------------------------------------------------------------
(* write_timestamps *)

Earliest == [year |-> 1980, mon |-> 1, day |-> 1, hour |-> 0, min |-> 0, sec |-> 0]
Latest == [year |-> 2099, mon |-> 12, day |-> 31, hour |-> 23, min |-> 59, sec |-> 58]

Plausible(t) == /\ t.mon \in 1..12 /\ t.day \in 1..31 /\ t.hour \in 0..23
                /\ t.min \in 0..59 /\ t.sec \in 0..59

\* Mutant: a year after the last one wraps around.
StampWraps(t) ==
    LET u == IF ~Plausible(t) \/ t.year < 1980 THEN Earliest ELSE t
    IN  <<((u.year - 1980) % 128) * 512 + u.mon * 32 + u.day,
          u.hour * 2048 + u.min * 32 + (u.sec \div 2)>>

\* The date and the time as they are packed into a record.
Stamp(t) ==
    LET c == IF t.year > 2099 THEN Latest ELSE t
        u == IF ~Plausible(c) \/ c.year < 1980 THEN Earliest ELSE c
    IN  <<((u.year - 1980) % 128) * 512 + u.mon * 32 + u.day,
          u.hour * 2048 + u.min * 32 + (u.sec \div 2)>>

\* fat_open empties the file and stamps its record; two files opened at the
\* times t and u are compared.
Touch ==
    /\ handleH.opened /\ "write" \in handleH.mode /\ out.op = "open"
    /\ \E t, u \in Times : out' = [op |-> "stamp", t |-> t, u |-> u, a |-> Stamp(t), b |-> Stamp(u)]
    /\ UNCHANGED handleH

-----------------------------------------------------------------------------
HandleInit == handleH = Closed /\ out = None

HandleNext == Open \/ Close \/ Seek \/ ReadRoot \/ Touch

-----------------------------------------------------------------------------
(* Properties *)

\* Offsets stay below the largest size of a file.
HandleTypeOK == handleH.offset \in 0..MaxOffset /\ handleH.eof \in 0..1 /\ handleH.opened \in BOOLEAN

\* A seek goes to the sum of its base and its offset whenever that is an offset
\* of a file, and fails and changes nothing otherwise: no intermediate value
\* overflows, not even for the least integer.
SeekIsSum ==
    out'.op = "seek" =>
        LET base == CASE out'.whence = 0 -> 0 [] out'.whence = 1 -> handleH.offset
                      [] OTHER -> handleH.size
            to == base + out'.o
        IN  IF out'.whence = 3 THEN handleH' = handleH
            ELSE IF to \in 0..MaxOffset THEN handleH'.offset = to /\ handleH'.eof = 0
            ELSE handleH' = handleH

\* Reading the root directory returns its bytes in order from the offset, as
\* many as asked for or as there are.
RootInOrder ==
    out.op = "read" =>
        LET k == IF out.from >= DirSize THEN 0
                 ELSE IF out.n < DirSize - out.from THEN out.n ELSE DirSize - out.from
        IN  out.got = [i \in 1..k |-> out.from + i - 1]

\* A later time never gets an earlier stamp, and every stamp is a date and a
\* time of a calendar.
StampsInOrder ==
    out.op = "stamp" =>
        /\ (out.a[1] \div 32) % 16 \in 1..12 /\ out.a[1] % 32 \in 1..31
        /\ out.a[2] \div 2048 <= 23 /\ (out.a[2] \div 32) % 64 <= 59 /\ out.a[2] % 32 <= 29
        /\ LET key(t) == <<t.year, t.mon, t.day, t.hour, t.min, t.sec>>
               less(x, y) == \E i \in 1..Len(x) :
                                x[i] < y[i] /\ \A j \in 1..(i - 1) : x[j] = y[j]
           IN  Plausible(out.t) /\ Plausible(out.u) /\ less(key(out.t), key(out.u))
                  => ~less(out.b, out.a)

\* A handle that may be changed was opened with a mode that says so, once.
ModeIsMeant ==
    out.op = "open" /\ out.res /\ ~handleH.root =>
        LET has(c) == {i \in 1..Len(out.mode) : out.mode[i] = c}
        IN  /\ ("modify" \in handleH.mode) = (has("a") \cup has("w") \cup has("plus") # {})
            /\ ("write" \in handleH.mode) = (has("w") # {})
            /\ "write" \in handleH.mode => "append" \notin handleH.mode /\ "read" \notin handleH.mode
-----------------------------------------------------------------------------
(***************************************************************************)
(* How the FAT driver reads a path (fill_path_buffer in common/fat.c): one *)
(* pass splits it at slashes and resolves "." and "..", a second one puts  *)
(* each name into the form base and extension of a record.                 *)
(*                                                                         *)
(* A character is a letter, a period, a slash or one that is refused. The  *)
(* lengths 8 and 3 are the constants Base and Ext.                         *)
(***************************************************************************)

nameVars == typed

NoName == [base |-> <<>>, ext |-> <<>>]
Error == <<>>        \* an accepted path has at least one entry

-----------------------------------------------------------------------------
(* The first pass *)

Begin == [path |-> <<>>, cur |-> <<>>, st |-> 0, err |-> FALSE]

\* Mutant: the directory before ".." stays in the path.
ParentKept(s) == [s EXCEPT !.cur = <<>>, !.st = 0]

\* The parent directory: the entry before is dropped.
Parent(s) ==
    [s EXCEPT !.cur = <<>>, !.st = 0,
              !.path = IF s.path = <<>> THEN <<>> ELSE SubSeq(s.path, 1, Len(s.path) - 1)]

Push(s, cur, dir) == Append(s.path, [name |-> cur, dir |-> dir])

\* One character; last says that the path ends with it. State 1 follows a
\* period at the start of a name, state 2 two of them.
Character(s, c, last) ==
    LET cur == IF c = "/" THEN s.cur ELSE Append(s.cur, c)
        dot1 == s.st = 0 /\ c = "."
        dot2 == s.st = 1 /\ c = "."
        ends == c = "/" \/ last           \* a final period acts as a slash
    IN  IF s.err \/ c = Bad \/ Len(cur) > Base + 1 + Ext THEN [s EXCEPT !.err = TRUE]
        ELSE IF dot1 /\ ~last THEN [s EXCEPT !.cur = cur, !.st = 1]
        ELSE IF dot1 \/ (s.st = 1 /\ c = "/") THEN [s EXCEPT !.cur = <<>>, !.st = 0]
        ELSE IF dot2 /\ ~last THEN [s EXCEPT !.cur = cur, !.st = 2]
        ELSE IF dot2 \/ (s.st = 2 /\ c = "/") THEN Parent(s)
        ELSE IF c = "/"
          THEN IF cur = <<>> THEN [s EXCEPT !.st = 0]
               ELSE [s EXCEPT !.path = Push(s, cur, TRUE), !.cur = <<>>, !.st = 0]
        ELSE IF ends THEN [s EXCEPT !.path = Push(s, cur, FALSE), !.cur = <<>>]
        ELSE [s EXCEPT !.cur = cur, !.st = 3]

NameSplit(p) ==
    LET f[i \in 0..Len(p)] ==
          IF i = 0 THEN Begin ELSE Character(f[i - 1], p[i], i = Len(p))
    IN  f[Len(p)]

-----------------------------------------------------------------------------
(* The second pass *)

\* The last period that is not the first character, counted from zero.
Period(n) ==
    LET at == {j \in 1..(Base + Ext) : j < Len(n) /\ n[j + 1] = "."}
    IN  IF at = {} THEN 0 ELSE CHOOSE j \in at : \A k \in at : k <= j

\* check_reserved_name: only a name without an extension can be reserved.
IsReserved(b, e) == e = <<>> /\ b \in Reserved

\* Mutant: an extension may have one character more.
RecordNameLong(n) ==
    LET j == Period(n)
        b == IF j = 0 THEN n ELSE SubSeq(n, 1, j)
        e == IF j = 0 THEN <<>> ELSE SubSeq(n, j + 2, Len(n))
    IN  IF \/ j > Base \/ (j = 0 /\ Len(n) > Base)
           \/ \A k \in 1..Len(b) : b[k] = "."
           \/ IsReserved(b, e)
        THEN NoName ELSE [base |-> b, ext |-> e]

RecordName(n) ==
    LET j == Period(n)
        b == IF j = 0 THEN n ELSE SubSeq(n, 1, j)
        e == IF j = 0 THEN <<>> ELSE SubSeq(n, j + 2, Len(n))
    IN  IF \/ j > Base \/ (j = 0 /\ Len(n) > Base)
           \/ (j # 0 /\ Len(n) - j > Ext + 1)
           \/ \A k \in 1..Len(b) : b[k] = "."
           \/ IsReserved(b, e)
        THEN NoName ELSE [base |-> b, ext |-> e]

FillPathBuffer(p) ==
    LET s == NameSplit(p)
        r == [i \in 1..Len(s.path) |-> RecordName(s.path[i].name)]
    IN  IF s.err \/ s.path = <<>> \/ \E i \in 1..Len(r) : r[i] = NoName THEN Error
        ELSE [i \in 1..Len(r) |-> [name |-> r[i], dir |-> s.path[i].dir]]

-----------------------------------------------------------------------------
NameInit == typed = <<>>

NameNext == /\ Len(typed) < MaxPath
        /\ \E c \in Letters \cup {".", "/", Bad} : typed' = Append(typed, c)

-----------------------------------------------------------------------------
(* What the result should be, from the whole path at once *)

\* The stretches between slashes, as pairs of their first and last place.
Slash(p) == {i \in 1..Len(p) : p[i] = "/"} \cup {0, Len(p) + 1}
Words(p) ==
    LET cuts == {<<a, b>> \in Slash(p) \X Slash(p) :
                   a + 1 < b /\ \A k \in Slash(p) : k <= a \/ k >= b}
        before(w) == {v \in cuts : v[1] <= w[1]}
    IN  [n \in 1..Cardinality(cuts) |->
            CHOOSE w \in cuts : Cardinality(before(w)) = n]

Word(p, w) == SubSeq(p, w[1] + 1, w[2] - 1)

\* "." is nothing and ".." takes back the name before it.
Resolved(p) ==
    LET ws == Words(p)
        f[i \in 0..Len(ws)] ==
          IF i = 0 THEN <<>>
          ELSE LET w == Word(p, ws[i])
               IN  CASE w = <<".">> -> f[i - 1]
                     [] w = <<".", ".">> -> IF f[i - 1] = <<>> THEN <<>>
                                            ELSE SubSeq(f[i - 1], 1, Len(f[i - 1]) - 1)
                     [] OTHER -> Append(f[i - 1], [w |-> w, dir |-> ws[i][2] <= Len(p)])
    IN  f[Len(ws)]

\* A name as a base and an extension.
Good(w, r) ==
    /\ Len(r.base) \in 1..Base /\ Len(r.ext) \in 0..Ext
    /\ \A k \in 1..Len(r.ext) : r.ext[k] # "."
    /\ \E k \in 1..Len(r.base) : r.base[k] # "."
    /\ \/ w = r.base \o <<".">> \o r.ext
       \/ w = r.base /\ r.ext = <<>> /\ \A k \in 2..Len(w) : w[k] # "."
    /\ ~(r.ext = <<>> /\ r.base \in Reserved)
Forms(w) ==
    {r \in {[base |-> SubSeq(w, 1, k), ext |-> SubSeq(w, l, Len(w))] :
                k \in 0..Len(w), l \in 1..(Len(w) + 1)} : Good(w, r)}

\* The path is read as its words say: "." and ".." are resolved, and every
\* name that is left has exactly the form of a record; a path with a name that
\* has no such form, or with nothing left, is refused. A word that ".." takes
\* back must not be too long either.
ReadAsWritten ==
    LET res == Resolved(typed)
        bad == \/ \E i \in 1..Len(typed) : typed[i] = Bad
               \/ res = <<>>
               \/ \E i \in 1..Len(res) : Forms(res[i].w) = {}
               \/ \E i \in DOMAIN Words(typed) : Len(Word(typed, Words(typed)[i])) > Base + 1 + Ext
    IN  FillPathBuffer(typed) =
          IF bad THEN Error
          ELSE [i \in 1..Len(res) |->
                  [name |-> CHOOSE r \in Forms(res[i].w) : TRUE, dir |-> res[i].dir]]
-----------------------------------------------------------------------------
(***************************************************************************)
(* The parts share no variable, so a property of one of them holds when    *)
(* they run together if it holds when the others stand still. A behaviour  *)
(* therefore moves one part, chosen at the start.                          *)
(***************************************************************************)
fatVars ==
  <<fatDisk, fatTab, blk, clu, fatLast, fatReady, fatFd, fatOp, file, faults,
    crashes, torn>>
ioVars ==
  <<medium, pending, alive, media_changed, instance, open, node, owner, task,
    access, ioGot>>
dirVars == <<slot, dirTable, dirFd, dirOp, sound, kept>>
table12Vars ==
  <<mem, table12Base, dirty, unmarked, missed, table12Disk, table12Free, modified, table12Info,
    table12Ready, table12Tab, early>>
vars ==
  <<part, fatVars, ioVars, dirVars, table12Vars, mountVars, handleVars,
    nameVars>>

FatMoves ==
  /\ part = "fat"
  /\ UNCHANGED <<part, ioVars, dirVars, table12Vars, mountVars, handleVars,
                  nameVars>>
GapMoves ==
  /\ part = "gap"
  /\ UNCHANGED <<part, ioVars, dirVars, table12Vars, mountVars, handleVars,
                  nameVars>>
CrashMoves ==
  /\ part = "crash"
  /\ UNCHANGED <<part, ioVars, dirVars, table12Vars, mountVars, handleVars,
                  nameVars>>
FaultMoves ==
  /\ part = "fault"
  /\ UNCHANGED <<part, ioVars, dirVars, table12Vars, mountVars, handleVars,
                  nameVars>>
IoMoves ==
  /\ part = "io"
  /\ UNCHANGED <<part, fatVars, dirVars, table12Vars, mountVars, handleVars,
                  nameVars>>
DirMoves ==
  /\ part = "dir"
  /\ UNCHANGED <<part, fatVars, ioVars, table12Vars, mountVars, handleVars,
                  nameVars>>
RootMoves ==
  /\ part = "root"
  /\ UNCHANGED <<part, fatVars, ioVars, table12Vars, mountVars, handleVars,
                  nameVars>>
Table12Moves ==
  /\ part = "table12"
  /\ UNCHANGED <<part, fatVars, ioVars, dirVars, mountVars, handleVars,
                  nameVars>>
Table16Moves ==
  /\ part = "table16"
  /\ UNCHANGED <<part, fatVars, ioVars, dirVars, mountVars, handleVars,
                  nameVars>>
Table32Moves ==
  /\ part = "table32"
  /\ UNCHANGED <<part, fatVars, ioVars, dirVars, mountVars, handleVars,
                  nameVars>>
MountMoves ==
  /\ part = "mount"
  /\ UNCHANGED <<part, fatVars, ioVars, dirVars, table12Vars, handleVars,
                  nameVars>>
HandleMoves ==
  /\ part = "handle"
  /\ UNCHANGED <<part, fatVars, ioVars, dirVars, table12Vars, mountVars,
                  nameVars>>
NameMoves ==
  /\ part = "name"
  /\ UNCHANGED <<part, fatVars, ioVars, dirVars, table12Vars, mountVars,
                  handleVars>>

Init ==
  /\ part \in Parts
  /\ (part \notin {"gap", "crash", "fault"} => Contents!Init)
  /\ (part = "gap" => Gaps!Init) /\ (part = "crash" => Crashes!Init)
  /\ (part = "fault" => Faults!Init) /\ Layer!Init
  /\ (part \notin {"root"} => FixedRoot!Init)
  /\ (part = "root" => ChainedRoot!Init)
  /\ (part \notin {"table16", "table32"} => Table12!Init)
  /\ (part = "table16" => Table16!Init)
  /\ (part = "table32" => Table32!Init) /\ MountInit /\ HandleInit
  /\ NameInit
  /\ Still

Next ==
  \/ FatMoves /\ Contents!Next
  \/ GapMoves /\ Gaps!Next
  \/ CrashMoves /\ Crashes!Next
  \/ FaultMoves /\ Faults!Next
  \/ IoMoves /\ Layer!Next
  \/ DirMoves /\ FixedRoot!Next
  \/ RootMoves /\ ChainedRoot!Next
  \/ Table12Moves /\ Table12!Next
  \/ Table16Moves /\ Table16!Next
  \/ Table32Moves /\ Table32!Next
  \/ MountMoves /\ MountNext
  \/ HandleMoves /\ HandleNext
  \/ NameMoves /\ NameNext

Spec == Init /\ [][Next]_vars

-----------------------------------------------------------------------------
TypeOK ==
  /\ CASE part = "fat" -> Contents!TypeOK [] part = "gap" -> Gaps!TypeOK
       [] part = "crash" -> Crashes!TypeOK [] part = "fault" -> Faults!TypeOK
       [] part = "io" -> Layer!TypeOK
       [] part = "dir" -> FixedRoot!TypeOK [] part = "root" -> ChainedRoot!TypeOK
       [] part = "table12" -> Table12!TypeOK [] part = "table16" -> Table16!TypeOK
       [] part = "table32" -> Table32!TypeOK
       [] part = "mount" -> MountTypeOK [] OTHER -> HandleTypeOK

\* Whenever the machine stops or a write fails no cluster of the volume belongs
\* to two files or to a file and the free space; between operations each file
\* has what its user wrote and nothing is lost; directories are a tree of
\* disjoint clusters without two records of a name and without hidden ones;
\* entries of the table that share bytes or lie in different windows do not
\* disturb one another, both copies are written and the count of free clusters
\* is theirs. The exceptions are named where the parts are stated: a stop
\* within a write of the table (torn, Fat), a record overwritten because no one
\* is free (kept, FatDir), a sector of the second copy whose write failed and
\* one that is not marked (missed and unmarked, FatTable).
DiskRight ==
  /\ part = "fat" => Contents!DiskSafe /\ Contents!ContentKept /\ Contents!NoLeak
  /\ part = "gap" => Gaps!DiskSafe /\ Gaps!ContentKept /\ Gaps!NoLeak /\ Gaps!IndexValid
  /\ part = "crash" => Crashes!DiskSafe /\ Crashes!ContentKept
  /\ part = "fault" => Faults!IndexValid /\ Faults!DiskSafe
  /\ part = "dir" => FixedRoot!UniqueNames /\ FixedRoot!NoneHidden /\ FixedRoot!TreeOK
  /\ part = "root" => ChainedRoot!UniqueNames /\ ChainedRoot!NoneHidden /\ ChainedRoot!TreeOK
  /\ part = "table12" => Table12!EntriesKept /\ Table12!AllWritten
  /\ part = "table16" => Table16!EntriesKept /\ Table16!AllWritten
  /\ part = "table32" =>
       Table32!EntriesKept /\ Table32!AllWritten /\ Table32!FreeIsRight /\ Table32!InfoIsRight

\* A call does what its path, its mode and its offset say, to the file that was
\* opened on the medium it was opened on, also when slots are used again and
\* the medium is changed; a volume that is mounted is whole, and one that is
\* not leaves nothing behind.
CallsRight ==
  /\ TypeOK
  /\ part = "io" =>
       Layer!ReadsOwnFile /\ Layer!OwnMedium /\ Layer!OpenHasNode /\ Layer!FreedUnused
  /\ part = "dir" => FixedRoot!DidWhatItSays /\ FixedRoot!OpenStays
  /\ part = "root" => ChainedRoot!DidWhatItSays /\ ChainedRoot!OpenStays
  /\ part = "mount" => NothingKept /\ ClustersInVolume /\ EntryForEach
  /\ part = "handle" => RootInOrder /\ StampsInOrder /\ ModeIsMeant
  /\ part = "name" => ReadAsWritten

\* An instance whose table could not be written changes nothing on the volume;
\* a stop changes no file but the one that is being worked on;
\* creating a file takes a record nobody uses; a seek goes to the sum of base
\* and offset or fails, without overflow.
StepsRight ==
  [][ /\ part = "crash" => Crashes!OthersKept
      /\ part = "fault" => Faults!DeadIsQuiet
      /\ part = "dir" => FixedRoot!RecordsKept
      /\ part = "root" => ChainedRoot!RecordsKept
      /\ part = "handle" => SeekIsSum ]_vars
=============================================================================
