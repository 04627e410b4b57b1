------------------------------ MODULE Storage -------------------------------
(***************************************************************************)
(* Disks and their drivers: the AHCI, IDE and floppy drivers (modules      *)
(* Ahci, Ide, Floppy) with small disks, and, in this module, the search    *)
(* for partitions (misc/hdd_part.c) and the mounting of their volumes      *)
(* (misc/hdd_mnt.c).                                                       *)
(***************************************************************************)
EXTENDS Integers, FiniteSets, Sequences, TLC

CONSTANTS
  CommandSlots,     \* command slots of the AHCI controller
  AhciSectors,      \* sectors of its disk
  AhciUnit,         \* sectors of a command (0xFE00 / 512)
  AhciRequests,     \* bound: requests
  AhciBlocks,       \* bound: sectors of a request
  AhciLate,         \* bound: commands that are late
  FloppyDisks,      \* the disks there are: rate, spt, and whether they say so
  FloppySpt,        \* sectors per track by rate
  FloppyCylinders,  \* of every disk
  FloppyRequests,   \* bound: calls
  FloppySectors,    \* bound: sectors of a call
  FloppyRetries,    \* times a transfer is repeated (5)
  FloppyBad,        \* bound: changed disks, and commands that fail
  IdeTasks,         \* tasks that use the disks of an IDE channel
  IdeKinds,         \* what is connected as device 0 and 1
  IdeIdent,         \* the sector counts each device reports
  IdeUnit,          \* sectors in a transfer (127)
  IdeLimit,         \* sectors of a 28-bit address (2^28)
  IdeSlack,         \* 2^28 - 0x0FFFFF00
  IdeRequests,      \* bound: records d, lba, n, wr
  N,                \* sectors of the disk
  Count,            \* HDD_PARTITION_COUNT
  Tables,           \* tables that sectors may hold, with ok and four entries
  Guid,             \* values of the test for "EFI PART" in the second sector
  Devices,          \* sets of devices tried, records disk, part, fs and label
  Labels,           \* labels that have a mount point of their own
  Room,             \* length of the array of partitions (128)
  Letters           \* number of letters from c to t

VARIABLES
  part,  \* the part that moves
  search,     \* guid, first, primary, chain, table, entry, check, mount, done
  sector,     \* what each sector was found to hold; NoTable before
  findBuf,    \* the table in the buffer
  parts,      \* partitions[1 ..]: first sector and size, <<0, 0>> if unused
  ebr,        \* the sector of the next extended table
  base,       \* ebr_base_lba
  findCount,  \* ebr_count
  mounted,    \* numbers that are mounted
  devices,    \* references to the node of the disk
  access,     \* the last access through a partition
  devs,       \* the devices that are there
  list,       \* the array
  stage,      \* collect, sort, mount, done
  at,         \* index of the loop
  letter,     \* letters used
  named,      \* labels whose mount point was given away
  mnt,        \* mount points: a label or a letter, with the device
  dirs,       \* directories created for mount points
  volumeErr,
  \* of Ahci
  ahciPc, ahciSt, cr, fre, fr, based, op, ahciNreq, ahciDone, unit, single,
  slot, ahciTable, ci, tfes, io, ahciGot, ahciDisk, ahciResult, clean, late,
  \* of Floppy
  floppyPhase, plan, call, floppyNreq, try, first, retry, size, floppyDone,
  floppyGot, floppyResult, fstate, dsel, motor, hw, loaded, rate,
  floppyTable, changed, used, debut, age, wait, nap, floppyDisk, line, told,
  swaps, bad,
  \* of Ide
  idePhase, typ, ident, idePc, req, job, ideBuf, sel, dev, bm, event, irq, excuse,
  ideDisk

SomeFloppies ==
  {[rate |-> 1, spt |-> 3, bpb |-> FALSE], [rate |-> 1, spt |-> 2, bpb |-> TRUE], [rate |-> 2, spt |-> 3, bpb |-> TRUE]}
TwoGeometries == <<3, 2>>
TwoDisks == 0 :> "ata" @@ 1 :> "ata"
TwoSizes == 0 :> [s28 |-> 4, big |-> TRUE, s48 |-> 6] @@ 1 :> [s28 |-> 2, big |-> FALSE, s48 |-> 0]
Ask(d, l, n, w) == [d |-> d, lba |-> l, n |-> n, wr |-> w]
\* What a part that stands still has.
Still == /\ part # "floppy" => floppyDisk[0] = CHOOSE k \in FloppyDisks : TRUE
         /\ part # "ahci" => ~ahciSt /\ ~fre
         /\ part # "volume" => devs = {}
Row(t, l, n) == [type |-> t, lba |-> l, n |-> n]
NoRow == Row("none", 0, 0)
DiskTables ==
  {[ok |-> TRUE, e |-> <<a, b, NoRow, c>>] :
      a \in {Row("data", 1, 1), Row("data", 2, 3), NoRow},
      b \in {Row("ext", 1, 2), Row("ext", 3, 2), Row("data", 3, 1), NoRow},
      c \in {Row("data", 5, 1), NoRow}}
  \cup {[ok |-> FALSE, e |-> <<NoRow, NoRow, NoRow, NoRow>>],
        [ok |-> TRUE, e |-> <<Row("ext", 1, 2), Row("ext", 3, 2), NoRow, NoRow>>]}
Volume(d, p, f, l) == [disk |-> d, part |-> p, fs |-> f, label |-> l]
DeviceSets ==
  SUBSET {Volume(1, 0, "bad", "none"), Volume(1, 1, "fat", "boot"), Volume(1, 5, "fat", "none"),
          Volume(1, 10, "fat", "usr"), Volume(2, 2, "fat", "boot")}
SomeRequests == {Ask(0, 2, 3, FALSE), Ask(1, 1, 2, TRUE)}

\* A command has a slot, and fits behind the last address that is short.
ASSUME CommandAssumption ==
  /\ CommandSlots \in Nat \ {0} /\ AhciSectors \in Nat \ {0} /\ AhciUnit \in Nat \ {0}
  /\ AhciBlocks \in Nat \ {0} /\ AhciRequests \in Nat
  /\ IdeUnit \in Nat \ {0} /\ IdeLimit \in Nat \ {0} /\ IdeSlack \in Nat /\ IdeUnit <= IdeSlack
  /\ IdeIdent \in [0 .. 1 -> [s28 : Nat, big : BOOLEAN, s48 : Nat]]
  /\ IdeRequests \subseteq [d : 0 .. 1, lba : Nat, n : Nat, wr : BOOLEAN]

\* A disk that does not say its geometry has that of its rate.
ASSUME FloppyAssumption ==
  /\ FloppySpt \in Seq(Nat \ {0}) /\ FloppySpt # <<>> /\ FloppyCylinders \in Nat /\ FloppySectors \in Nat \ {0}
  /\ FloppyRequests \in Nat /\ FloppyRetries \in Nat \ {0} /\ FloppyBad \in Nat
  /\ \A k \in FloppyDisks :
       /\ k \in [rate : 1 .. Len(FloppySpt), spt : Nat \ {0}, bpb : BOOLEAN]
       /\ ~k.bpb => k.spt = FloppySpt[k.rate]

AhciDisk == INSTANCE Ahci
  WITH Slots <- CommandSlots, Sectors <- AhciSectors, Unit <- AhciUnit,
       MaxReq <- AhciRequests, MaxBlocks <- AhciBlocks, MaxLate <- AhciLate,
       pc <- ahciPc, st <- ahciSt, nreq <- ahciNreq, done <- ahciDone,
       table <- ahciTable, got <- ahciGot, disk <- ahciDisk,
       result <- ahciResult
FloppyDrive == INSTANCE Floppy
  WITH Disks <- FloppyDisks, Spt <- FloppySpt, Cylinders <- FloppyCylinders,
       MaxReq <- FloppyRequests, MaxSectors <- FloppySectors,
       Retries <- FloppyRetries, MaxBad <- FloppyBad, phase <- floppyPhase,
       nreq <- floppyNreq, done <- floppyDone, got <- floppyGot,
       result <- floppyResult, table <- floppyTable, disk <- floppyDisk
IdeDisks == INSTANCE Ide
  WITH Tasks <- IdeTasks, Kind <- IdeKinds, Ident <- IdeIdent,
       Unit <- IdeUnit, Limit28 <- IdeLimit, Slack <- IdeSlack,
       Requests <- IdeRequests,
       phase <- idePhase, pc <- idePc, buf <- ideBuf, disk <- ideDisk
-----------------------------------------------------------------------------
(***************************************************************************)
(* Finding the partitions of a disk (kernel/misc/hdd_part.c): the table in *)
(* the first sector, the chain of extended tables, the check for overlaps  *)
(* and the mounting, and then the accesses through a mounted partition.    *)
(*                                                                         *)
(* A sector is a table, chosen when it is first read, or it is not. An     *)
(* entry is empty, extended or a plain partition; the signature, the       *)
(* status bytes and the cylinder numbers are one flag of the table.        *)
(***************************************************************************)

partVars == <<search, sector, findBuf, parts, ebr, base, findCount, mounted, devices, access>>

NoTable == [ok |-> FALSE, e |-> <<>>]
NoAccess == [part |-> 0, from |-> 0, n |-> 0]
Numbers == 1..(Count - 1)

Goto(l) == search' = l
GiveUp == search' = "done"
Entry(i) == findBuf.e[i]

-----------------------------------------------------------------------------
(* Reading *)

\* read_sector: behind the end of the disk the read returns no bytes and the
\* buffer keeps what it held; an error ends the search.
ReadSector(lba, next) ==
    \/ /\ lba < N
       /\ \E t \in (IF sector[lba] = NoTable THEN Tables ELSE {sector[lba]}) :
            sector' = [sector EXCEPT ![lba] = t] /\ findBuf' = t
       /\ Goto(next)
    \/ lba >= N /\ Goto(next) /\ UNCHANGED <<sector, findBuf>>
    \/ GiveUp /\ UNCHANGED <<sector, findBuf>>

\* Mutant: a table may have several extended entries and empty partitions.
ValidTableAny(t, extended) == t.ok

\* read_legacy_table
ValidTable(t, extended) ==
    /\ t.ok
    /\ \A i \in 1..4 :
         /\ t.e[i].type = "none" => t.e[i].lba = 0 /\ t.e[i].n = 0
         /\ t.e[i].type # "none" => t.e[i].lba # 0 /\ t.e[i].n # 0 /\ (extended => i <= 2)
    /\ \A i, j \in 1..4 : t.e[i].type = "ext" /\ t.e[j].type = "ext" => i = j

\* handle_device: tables of the GUID scheme are not supported.
ReadGuid ==
    /\ search = "guid"
    /\ \E g \in Guid : IF g THEN GiveUp ELSE Goto("first")
    /\ UNCHANGED <<sector, findBuf, parts, ebr, base, findCount, mounted, devices, access>>

ReadFirst ==
    /\ search = "first"
    /\ ReadSector(0, "primary")
    /\ UNCHANGED <<parts, ebr, base, findCount, mounted, devices, access>>

-----------------------------------------------------------------------------
(* handle_legacy *)

\* Mutant: only the start of a partition is compared with the disk.
FitsStart(off, n) == off <= N

Fits(off, n) == off + n <= N

Primary ==
    /\ search = "primary"
    /\ IF ~ValidTable(findBuf, FALSE)
            \/ \E i \in 1..4 : Entry(i).type # "none" /\ ~Fits(Entry(i).lba, Entry(i).n)
         THEN GiveUp /\ UNCHANGED <<parts, ebr, base>>
         ELSE LET ext == {i \in 1..4 : Entry(i).type = "ext"}
              IN  /\ parts' = [i \in Numbers |->
                                 IF i <= 4 /\ i \notin ext THEN <<Entry(i).lba, Entry(i).n>>
                                 ELSE <<0, 0>>]
                  /\ IF ext = {} THEN Goto("check") /\ UNCHANGED <<ebr, base>>
                     ELSE LET l == Entry(CHOOSE i \in ext : TRUE).lba
                          IN  ebr' = l /\ base' = l /\ Goto("chain")
    /\ UNCHANGED <<sector, findBuf, findCount, mounted, devices, access>>

ReadChain ==
    /\ search = "chain"
    /\ ReadSector(ebr, "table")
    /\ UNCHANGED <<parts, ebr, base, findCount, mounted, devices, access>>

\* Mutant: the number of logical partitions is not limited.
RoomAny(c) == TRUE
PartRoom(c) == c + 4 < Count

\* The first entry is a partition, relative to its table; the second is the
\* next table, relative to the first of the chain.
ChainTable ==
    /\ search = "table"
    /\ LET e == Entry(1)
           data == e.type # "none"
           off == ebr + e.lba
           more == Entry(2).type = "ext"
       IN  \/ /\ ~ValidTable(findBuf, TRUE) \/ (data /\ ~Fits(off, e.n))
              /\ GiveUp /\ UNCHANGED <<parts, ebr, findCount>>
           \/ /\ ValidTable(findBuf, TRUE) /\ data /\ Fits(off, e.n) /\ ~PartRoom(findCount + 1)
              /\ Goto("check") /\ UNCHANGED <<parts, ebr, findCount>>
           \/ /\ ValidTable(findBuf, TRUE) /\ (data => Fits(off, e.n) /\ PartRoom(findCount + 1))
              /\ findCount' = IF data THEN findCount + 1 ELSE findCount
              /\ parts' = IF data THEN [parts EXCEPT ![findCount + 5] = <<off, e.n>>] ELSE parts
              /\ ebr' = IF more THEN base + Entry(2).lba ELSE ebr
              /\ Goto(IF more THEN "chain" ELSE "check")
    /\ UNCHANGED <<sector, findBuf, base, mounted, devices, access>>

-----------------------------------------------------------------------------
(* The rest of handle_device *)

\* Mutant: only equal starts are found.
ClashEqual(i, j) == i # j /\ parts[i][1] = parts[j][1]

\* Two partitions with a start in common, or one that reaches into another.
Clash(i, j) ==
    \/ i # j /\ parts[i][1] = parts[j][1]
    \/ parts[j][1] < parts[i][1] /\ parts[j][1] + parts[j][2] > parts[i][1]

Used == {i \in Numbers : parts[i][1] # 0}

Check ==
    /\ search = "check"
    /\ IF \E i \in Used, j \in Numbers : Clash(i, j) THEN GiveUp ELSE Goto("mount")
    /\ UNCHANGED <<sector, findBuf, parts, ebr, base, findCount, mounted, devices, access>>

\* Mutant: the reference for the partition is not taken.
TakeNone == UNCHANGED devices
Take == devices' = devices + 1

\* mount_partition for the next number, or a failure: a name that is taken is
\* passed over, any other one ends the mounting. A node that is not mounted is
\* released and drops its reference again.
Todo == {i \in Used : \A j \in mounted \cup {0} : i > j}

MountPart ==
    /\ search = "mount" /\ Todo # {}
    /\ LET i == CHOOSE x \in Todo : \A y \in Todo : x <= y
       IN  \/ mounted' = mounted \cup {i} /\ Take /\ UNCHANGED <<search, parts>>
           \/ parts' = [parts EXCEPT ![i] = <<0, 0>>] /\ UNCHANGED <<search, mounted, devices>>
           \/ GiveUp /\ UNCHANGED <<parts, mounted, devices>>
    /\ UNCHANGED <<sector, findBuf, ebr, base, findCount, access>>

MountEnd ==
    /\ search = "mount" /\ Todo = {}
    /\ GiveUp
    /\ UNCHANGED <<sector, findBuf, parts, ebr, base, findCount, mounted, devices, access>>

\* find_partitions frees its buffer and drops its own reference.
Close ==
    /\ search = "done"
    /\ search' = "closed" /\ devices' = devices - 1
    /\ sector' = [l \in 0..(N - 1) |-> NoTable] /\ findBuf' = NoTable
    /\ UNCHANGED <<parts, ebr, base, findCount, mounted, access>>

\* The last user of a partition's node releases the node of the disk.
Unmount ==
    /\ search = "closed"
    /\ \E i \in mounted : mounted' = mounted \ {i}
    /\ devices' = devices - 1
    /\ access' = NoAccess
    /\ UNCHANGED <<search, sector, findBuf, parts, ebr, base, findCount>>

-----------------------------------------------------------------------------
\* Mutant: the size is not shortened.
ArgsLong(i, off, n) ==
    IF off >= parts[i][2] THEN NoAccess ELSE [part |-> i, from |-> parts[i][1] + off, n |-> n]

\* hdd_args
Args(i, off, n) ==
    IF off >= parts[i][2] THEN NoAccess
    ELSE [part |-> i, from |-> parts[i][1] + off,
          n |-> IF n > parts[i][2] - off THEN parts[i][2] - off ELSE n]

\* n_read and n_write
Access ==
    /\ search = "closed"
    /\ \E i \in mounted, off \in 0..N, n \in 1..N : access' = Args(i, off, n)
    /\ UNCHANGED <<search, sector, findBuf, parts, ebr, base, findCount, mounted, devices>>

-----------------------------------------------------------------------------
PartInit ==
    /\ search = "guid" /\ sector = [l \in 0..(N - 1) |-> NoTable] /\ findBuf = NoTable
    /\ parts = [i \in Numbers |-> <<0, 0>>] /\ ebr = 0 /\ base = 0 /\ findCount = 0
    /\ mounted = {} /\ devices = 1 /\ access = NoAccess

Search == ReadGuid \/ ReadFirst \/ Primary \/ ReadChain \/ ChainTable \/ Check
          \/ MountPart \/ MountEnd \/ Close

PartNext == Search \/ Unmount \/ Access

-----------------------------------------------------------------------------
(* Properties *)

PartTypeOK ==
    /\ DOMAIN parts = Numbers
    /\ findCount \in 0..(Count - 5)
    /\ mounted \subseteq Numbers
    /\ devices \in Nat

\* Partitions that are mounted lie on the disk and have no sector in common,
\* whatever the tables say.
Disjoint ==
    \A i \in mounted :
        /\ parts[i][1] \in 1..(N - 1) /\ parts[i][2] > 0 /\ parts[i][1] + parts[i][2] <= N
        /\ \A j \in mounted \ {i} : \/ parts[i][1] + parts[i][2] <= parts[j][1]
                                    \/ parts[j][1] + parts[j][2] <= parts[i][1]

\* An access through a partition touches no sector outside it.
AccessInside ==
    access # NoAccess =>
        LET p == parts[access.part]
        IN  access.from >= p[1] /\ access.from + access.n <= p[1] + p[2]

\* The node of the disk is referenced once for each mounted partition, and by
\* the search until it ends: no partition outlives its disk.
DeviceHeld == devices = Cardinality(mounted) + (IF search = "closed" THEN 0 ELSE 1)

\* The search ends for every chain of tables (it need not: a chain of tables
\* without partitions may lead back to itself).
SearchEnds == <>(search = "closed")
-----------------------------------------------------------------------------
(***************************************************************************)
(* Mounting the partitions of the hard disks (kernel/misc/hdd_mnt.c): the  *)
(* block devices of /dev are collected and sorted, and every one with a    *)
(* FAT file system is mounted under the name of its label or under the     *)
(* next letter. A device is known by its disk and its number, zero for the *)
(* whole disk; its first sector is a FAT volume, something else, or cannot *)
(* be read.                                                                *)
(***************************************************************************)

mountVars == <<devs, list, stage, at, letter, named, mnt, dirs, volumeErr>>

-----------------------------------------------------------------------------
(* qsort_func *)

Priority(d) == IF d.part \in 1..4 THEN d.part ELSE 5
Digits(d) == IF d.part = 0 THEN 0 ELSE IF d.part < 10 THEN 1 ELSE 2

\* Mutant: names are compared by their length before the disk.
BeforeLength(a, b) ==
    \/ Digits(a) < Digits(b)
    \/ Digits(a) = Digits(b) /\ a.disk < b.disk
    \/ Digits(a) = Digits(b) /\ a.disk = b.disk /\ a.part < b.part

\* The primary partitions first, by number; then by disk, length and name.
Before(a, b) ==
    \/ Priority(a) < Priority(b)
    \/ /\ Priority(a) = Priority(b)
       /\ \/ a.disk < b.disk
          \/ a.disk = b.disk /\ Digits(a) < Digits(b)
          \/ a.disk = b.disk /\ Digits(a) = Digits(b) /\ a.part < b.part

-----------------------------------------------------------------------------
(* find_drives *)

Listed == {list[i] : i \in 1..Len(list)}

\* The directory is read in any order, as far as the array reaches.
Collect ==
    /\ stage = "collect"
    /\ \/ \E d \in devs \ Listed : Len(list) < Room /\ list' = Append(list, d) /\ UNCHANGED stage
       \/ /\ Listed = devs \/ Len(list) = Room
          /\ stage' = "sort" /\ UNCHANGED list
    /\ UNCHANGED <<devs, at, letter, named, mnt, dirs, volumeErr>>

Sort ==
    /\ stage = "sort"
    /\ list' = [n \in 1..Len(list) |->
                  CHOOSE d \in Listed : Cardinality({x \in Listed : Before(x, d)}) = n - 1]
    /\ stage' = "mount" /\ at' = 1
    /\ UNCHANGED <<devs, letter, named, mnt, dirs, volumeErr>>

\* Mutant: a label is used again.
NameOfAgain(d) == IF d.label \in Labels THEN <<"label", d.label>> ELSE <<"letter", letter + 1>>

\* Mutant: a label without a mount point is taken for one.
NameOfNone(d) == IF d.label \notin named THEN <<"label", d.label>> ELSE <<"letter", letter + 1>>

\* The first volume with a label gets its mount point.
NameOf(d) ==
    IF d.label \in Labels \ named THEN <<"label", d.label>> ELSE <<"letter", letter + 1>>

\* Mutant: a sector that cannot be read ends the loop without an error.
SkipLast ==
    /\ stage = "mount" /\ at <= Len(list) /\ letter < Letters
    /\ list[at].fs # "fat"
    /\ at' = IF list[at].fs = "bad" THEN Len(list) + 1 ELSE at + 1
    /\ UNCHANGED <<devs, list, stage, letter, named, mnt, dirs, volumeErr>>

\* detect_fs: a volume that is not FAT, or that cannot be read, is passed over.
Skip ==
    /\ stage = "mount" /\ at <= Len(list) /\ letter < Letters
    /\ list[at].fs # "fat"
    /\ at' = at + 1
    /\ UNCHANGED <<devs, list, stage, letter, named, mnt, dirs, volumeErr>>

\* Mutant: the directory of a failed mount stays.
RemovedKeeps(n) == dirs \cup {n}
Removed(n) == dirs \ {n}

\* mount_drive: the directory is created and the volume mounted, or one of the
\* steps fails and the directory is removed again; a failure ends the loop.
MountDrive ==
    /\ stage = "mount" /\ at <= Len(list) /\ letter < Letters
    /\ list[at].fs = "fat"
    /\ LET d == list[at] n == NameOf(d)
       IN  /\ named' = IF n[1] = "label" THEN named \cup {d.label} ELSE named
           /\ letter' = IF n[1] = "letter" THEN letter + 1 ELSE letter
           /\ \/ mnt' = mnt \cup {<<n, d>>} /\ dirs' = dirs \cup {n}
                 /\ at' = at + 1 /\ UNCHANGED <<stage, volumeErr>>
              \/ mnt' = mnt /\ dirs' = Removed(n)
                 /\ stage' = "done" /\ volumeErr' = TRUE /\ UNCHANGED at
    /\ UNCHANGED <<devs, list>>

\* The devices cannot be opened, or memory has run out.
Fail ==
    /\ stage \in {"collect", "mount"}
    /\ stage' = "done" /\ volumeErr' = TRUE
    /\ UNCHANGED <<devs, list, at, letter, named, mnt, dirs>>

Finish ==
    /\ stage = "mount" /\ (at > Len(list) \/ letter = Letters)
    /\ stage' = "done"
    /\ UNCHANGED <<devs, list, at, letter, named, mnt, dirs, volumeErr>>

MountInit ==
    /\ devs \in Devices
    /\ list = <<>> /\ stage = "collect" /\ at = 1 /\ letter = 0
    /\ named = {} /\ mnt = {} /\ dirs = {} /\ volumeErr = FALSE

MountNext == Collect \/ Sort \/ Skip \/ MountDrive \/ Fail \/ Finish

-----------------------------------------------------------------------------
(* Properties *)

MountTypeOK == letter \in 0..Letters /\ at \in 1..(Room + 1) /\ Len(list) <= Room /\ named \subseteq Labels

\* No mount point is given to two volumes and no volume has two.
OneEach == \A x, y \in mnt : (x[1] = y[1]) = (x[2] = y[2])

\* When nothing failed and there were letters enough, every FAT volume that was
\* collected is mounted, whatever else the disks hold.
AllMounted ==
    stage = "done" /\ ~volumeErr /\ letter < Letters =>
        {x[2] : x \in mnt} = {d \in Listed : d.fs = "fat"}

\* The letters do not depend on the order of the directory: a primary partition
\* comes before a logical one, and partitions of a disk in their order.
LettersInOrder ==
    \A x, y \in mnt : x[1][1] = "letter" /\ y[1][1] = "letter" /\ x[1][2] < y[1][2] =>
        /\ x[2].part \in 1..4 \/ y[2].part \notin 1..4
        /\ x[2].disk = y[2].disk /\ x[2].part > 0 /\ y[2].part > 0 => x[2].part < y[2].part

\* Every directory that was made is the place of a mount.
NoEmptyPlace == dirs = {x[1] : x \in mnt}
-----------------------------------------------------------------------------
(***************************************************************************)
(* The parts share no variable, so a property of one of them holds when    *)
(* they run together if it holds when the others stand still. A behaviour  *)
(* therefore moves one part, chosen at the start.                          *)
(***************************************************************************)
ahciVars ==
  <<ahciPc, ahciSt, cr, fre, fr, based, op, ahciNreq, ahciDone, unit, single,
    slot, ahciTable, ci, tfes, io, ahciGot, ahciDisk, ahciResult, clean,
    late>>
floppyVars ==
  <<floppyPhase, plan, call, floppyNreq, try, first, retry, size, floppyDone,
    floppyGot, floppyResult, fstate, dsel, motor, hw, loaded, rate,
    floppyTable, changed, used, debut, age, wait, nap, floppyDisk, line,
    told, swaps, bad>>
ideVars ==
  <<idePhase, typ, ident, idePc, req, job, ideBuf, sel, dev, bm, event, irq, excuse,
    ideDisk>>
vars == <<part, ahciVars, floppyVars, ideVars, partVars, mountVars>>

AhciMoves ==
  /\ part = "ahci"
  /\ UNCHANGED <<part, floppyVars, ideVars, partVars, mountVars>>
FloppyMoves ==
  /\ part = "floppy"
  /\ UNCHANGED <<part, ahciVars, ideVars, partVars, mountVars>>
IdeMoves ==
  /\ part = "ide"
  /\ UNCHANGED <<part, ahciVars, floppyVars, partVars, mountVars>>
FindMoves ==
  /\ part = "find"
  /\ UNCHANGED <<part, ahciVars, floppyVars, ideVars, mountVars>>
VolumeMoves ==
  /\ part = "volume"
  /\ UNCHANGED <<part, ahciVars, floppyVars, ideVars, partVars>>

Init ==
  /\ part \in {"ahci", "floppy", "ide", "find", "volume"}
  /\ AhciDisk!Init /\ FloppyDrive!Init /\ IdeDisks!Init /\ PartInit
  /\ MountInit
  /\ Still

Next ==
  \/ AhciMoves /\ AhciDisk!Next
  \/ FloppyMoves /\ FloppyDrive!Next
  \/ IdeMoves /\ IdeDisks!Next
  \/ FindMoves /\ PartNext
  \/ VolumeMoves /\ MountNext

Spec ==
  /\ Init /\ [][Next]_vars
  /\ WF_vars(AhciMoves /\ AhciDisk!Driver) /\ WF_vars(AhciMoves /\ AhciDisk!RunCommand)

-----------------------------------------------------------------------------
\* A table has four entries, and primary partitions have numbers.
ASSUME TableAssumption ==
  /\ N \in Nat /\ Count \in Nat /\ Count >= 5
  /\ \A t \in Tables : t.ok => \A i \in 1 .. 4 : t.e[i].lba \in Nat /\ t.e[i].n \in Nat

\* The nodes of /dev are named by disk and number.
ASSUME VolumeAssumption ==
  /\ Room \in Nat /\ Letters \in Nat
  /\ \A some \in Devices :
       /\ IsFiniteSet(some) /\ \A d \in some : d.disk \in Nat /\ d.part \in Nat
       /\ \A d, e \in some : d.disk = e.disk /\ d.part = e.part => d = e

TypeOK ==
  AhciDisk!TypeOK /\ FloppyDrive!TypeOK /\ IdeDisks!TypeOK /\ PartTypeOK /\ MountTypeOK

\* What a driver says it moved is what the disk has, through units, retries,
\* time limits, two devices on a channel, the ends of disks and changed disks;
\* and an access through a partition stays in it.
SectorsRight ==
  /\ TypeOK
  /\ AhciDisk!SuccessIsReal
  /\ FloppyDrive!CountedIsDisk /\ FloppyDrive!MotorRuns /\ FloppyDrive!Configured
  /\ IdeDisks!DataInPlace /\ IdeDisks!CommandFits
  /\ Disjoint /\ AccessInside

\* The table of a command that the AHCI controller may still read is kept, and
\* an IDE call reports what was done when it returns.
ReportsRight == [][AhciDisk!TablesKept /\ IdeDisks!DoneAsReported]_vars

\* Volumes, mount points, letters and directories agree, and no partition
\* outlives its disk (hdd_mnt.c, hdd_part.c).
VolumesRight == DeviceHeld /\ OneEach /\ AllMounted /\ LettersInOrder /\ NoEmptyPlace

\* A request to the AHCI driver ends, also when the controller never answers.
RequestsEnd == AhciDisk!RequestEnds
=============================================================================
