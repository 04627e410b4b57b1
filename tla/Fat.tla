-------------------------------- MODULE Fat --------------------------------
(***************************************************************************)
(* The FAT file system driver: common/fat.c.                               *)
(*                                                                         *)
(* A volume has clusters of a few bytes, one table and one directory       *)
(* sector, in which each name has a record of its own.  The driver keeps   *)
(* the table, one directory sector (block_buffer), one cluster             *)
(* (cluster_buffer) and a copy of the record of every open file.  The      *)
(* caller holds fat_mtx, so one operation runs at a time; it is a sequence *)
(* of steps, and each step ends with a write to the volume: of a record, a *)
(* cluster, or the sectors of the table one after the other.  A write may  *)
(* fail, and the machine may stop between two of them.  The second copy of *)
(* the table and the windows of a large one are the subject of FatTable,   *)
(* directories that grow that of FatDir.                                   *)
(*                                                                         *)
(* A byte is 0, or 1 when it was written by a user.                        *)
(***************************************************************************)
EXTENDS Integers, FiniteSets, Sequences

CONSTANTS
  Name,         \* the names of files and directories
  Clusters,     \* the number of clusters, numbered from 2
  ClusterSize,  \* bytes in a cluster
  InSector,     \* table entries in a sector
  MaxEnd,       \* bound: the last byte position that is written
  MaxFaults,    \* bound: the number of writes that fail
  MaxCrashes    \* bound: the number of crashes

Cluster == 2 .. Clusters + 1
END == Clusters + 2           \* a table value of 0x0FFFFFF8 or more
Byte == 0 .. ClusterSize - 1  \* offsets in a cluster
NONE == [used |-> FALSE, dir |-> FALSE, cluster |-> 0, size |-> 0]
Zero == [b \in Byte |-> 0]
Garbage == [b \in Byte |-> 1]  \* what other files leave in a buffer
NoFile == <<2>>                \* of the variable file

VARIABLES
  disk,     \* tab, rec and data: what the volume holds
  tab,      \* table_buffer
  blk,      \* block_buffer: valid, and the records in it
  clu,      \* cluster_buffer: lba (0 or a cluster) and the data
  last,     \* last_allocated
  ready,    \* ready
  fd,       \* name -> opened, record, cluster_idx and cluster_val
  op,       \* the operation that runs, and where it is
  file,     \* name -> what its user expects: a sequence of bytes, or NoFile
  faults,   \* the number of writes that have failed
  crashes,
  torn      \* history: the machine has stopped within a write of the table

vars == <<disk, tab, blk, clu, last, ready, fd, op, file, faults, crashes, torn>>

Idle == [pc |-> "idle"]
NoBlock == [valid |-> FALSE, rec |-> [n \in Name |-> NONE]]
NoCluster == [lba |-> 0, data |-> Zero]
Closed == [opened |-> FALSE, rec |-> NONE, idx |-> 0, val |-> 0]

Record == [used : BOOLEAN, dir : BOOLEAN, cluster : {0} \cup Cluster, size : 0 .. MaxEnd]
Table == [Cluster -> {0} \cup 2 .. END]
Data == [Byte -> {0, 1}]

TypeOK ==
  /\ disk \in [tab : Table, rec : [Name -> Record], data : [Cluster -> Data]]
  /\ tab \in Table
  /\ blk \in [valid : BOOLEAN, rec : [Name -> Record]]
  /\ clu \in [lba : {0} \cup Cluster, data : Data]
  /\ last \in {0} \cup Cluster
  /\ ready \in BOOLEAN
  /\ fd \in [Name -> [opened : BOOLEAN, rec : Record, idx : Nat, val : {0} \cup Cluster]]
  /\ op.pc \in {"idle", "create", "dir", "dir_table", "dir_record", "truncate",
                "first_table", "first_record", "chain", "data", "record",
                "size", "resize", "extra", "zero", "remove", "stopped"}
  /\ faults \in 0 .. MaxFaults /\ crashes \in 0 .. MaxCrashes /\ torn \in BOOLEAN

Init ==
  /\ disk = [tab |-> [c \in Cluster |-> 0], rec |-> [n \in Name |-> NONE],
             data |-> [c \in Cluster |-> Zero]]
  /\ tab = disk.tab
  /\ blk = NoBlock
  /\ clu = NoCluster
  /\ last = 0
  /\ ready = TRUE
  /\ fd = [n \in Name |-> Closed]
  /\ op = Idle
  /\ file = [n \in Name |-> NoFile]
  /\ faults = 0 /\ crashes = 0 /\ torn = FALSE

-----------------------------------------------------------------------------
\* The k-th cluster of the chain that starts at c, or what ends it.
Step(table, c) ==
  LET walk[k \in 0 .. Clusters] ==
        IF k = 0 THEN c
        ELSE IF walk[k - 1] \in Cluster THEN table[walk[k - 1]] ELSE walk[k - 1]
  IN walk

Chain(table, c) == {Step(table, c)[k] : k \in 0 .. Clusters} \cap Cluster

\* The last cluster of a chain.
LastOf(table, c) == CHOOSE t \in Chain(table, c) : table[t] \notin Chain(table, c)

Minimum(S) == CHOOSE x \in S : \A y \in S : x <= y

\* Mutant: the cluster that was allocated last is not looked at again.
AllocateBlind(table, from) ==
  IF from > 2 /\ from + 1 \in Cluster THEN from + 1
  ELSE LET free == {c \in Cluster : table[c] = 0} IN IF free = {} THEN 0 ELSE Minimum(free)

\* allocate_cluster: 0 when the volume is full.
Allocate(table, from) ==
  LET free == {c \in Cluster : table[c] = 0}
      later == {c \in free : from > 2 /\ c >= from} IN
    IF later # {} THEN Minimum(later) ELSE IF free # {} THEN Minimum(free) ELSE 0

\* append_cluster, n times or until the volume is full.
Extend(table, from, c, n) ==
  LET ext[k \in 0 .. n] ==
        IF k = 0 THEN [tab |-> table, last |-> from, tail |-> c]
        ELSE LET e == ext[k - 1]
                 new == Allocate(e.tab, e.last) IN
               IF new = 0 THEN e
               ELSE [tab |-> [e.tab EXCEPT ![new] = END, ![e.tail] = new],
                     last |-> new, tail |-> new]
  IN ext[n]

\* How many clusters a file of that size needs.
Needed(size) == (size + ClusterSize - 1) \div ClusterSize

\* A write to the volume fails; the driver returns an error.
Fault == faults < MaxFaults /\ faults' = faults + 1

\* write_table: the sectors that have changed are written in their order.
WriteTable(table) ==
  /\ tab' = table
  /\ disk' = [disk EXCEPT !.tab = table]
  /\ UNCHANGED <<ready, faults>>

\* Some of them are written, and one that had to be is not.
WriteSome(table) ==
  \E missing \in {c \in Cluster : table[c] # disk.tab[c]} :
    /\ tab' = table
    /\ disk' = [disk EXCEPT !.tab =
         [c \in Cluster |-> IF c \div InSector < missing \div InSector THEN table[c] ELSE @[c]]]

\* A write fails, which makes the instance useless.
WriteTableFails(table) ==
  /\ Fault
  /\ WriteSome(table)
  /\ ready' = FALSE

\* The machine stops.
WriteTableStops(table) ==
  /\ crashes < MaxCrashes
  /\ WriteSome(table)
  /\ op' = [op EXCEPT !.pc = "stopped"]
  /\ UNCHANGED <<ready, faults>>

\* read_block: the records in the block buffer.
Block == IF blk.valid THEN blk.rec ELSE disk.rec

\* A record has that name.
Exists(n) == Block[n].used

\* write_record_buffer of record r for name n.
WriteRecord(n, r) ==
  /\ blk' = [valid |-> TRUE, rec |-> [Block EXCEPT ![n] = r]]
  /\ disk' = [disk EXCEPT !.rec = [Block EXCEPT ![n] = r]]
  /\ clu' = NoCluster
  /\ UNCHANGED faults

WriteRecordFails(n, r) ==
  /\ Fault
  /\ blk' = [valid |-> TRUE, rec |-> [Block EXCEPT ![n] = r]]
  /\ clu' = NoCluster
  /\ UNCHANGED disk

\* read_cluster without skip_io, and write_cluster of the buffer with that data.
ReadCluster(c) == IF clu.lba = c THEN clu.data ELSE disk.data[c]

WriteCluster(c, skip_io, data) ==
  /\ clu' = IF skip_io THEN NoCluster ELSE [lba |-> c, data |-> data]
  /\ blk' = NoBlock
  /\ \/ disk' = [disk EXCEPT !.data[c] = data] /\ UNCHANGED faults
     \/ Fault /\ UNCHANGED disk

SetRecord(n, r) == fd' = [fd EXCEPT ![n].rec = r]
Goto(pc) == op' = [op EXCEPT !.pc = pc]
Done == op' = Idle

-----------------------------------------------------------------------------
\* Mutant: ready is not looked at.
StartAlways == op = Idle

\* What every function checks first.
Start == op = Idle /\ ready

\* fat_open of a file that exists, with "rb+".
OpenFile(n) ==
  /\ Start
  /\ Exists(n) /\ ~fd[n].opened
  /\ fd' = [fd EXCEPT ![n] = [opened |-> TRUE, rec |-> Block[n], idx |-> 0, val |-> 0]]
  /\ blk' = [valid |-> TRUE, rec |-> Block]
  /\ UNCHANGED <<disk, tab, clu, last, ready, op, file, faults, crashes, torn>>

\* fat_close
CloseFile(n) ==
  /\ Start
  /\ fd[n].opened
  /\ fd' = [fd EXCEPT ![n] = Closed]
  /\ UNCHANGED <<disk, tab, blk, clu, last, ready, op, file, faults, crashes, torn>>

\* fat_open of a name that does not exist, with "wb+": fill_record_buffer.
CreateFile(n) ==
  /\ Start
  /\ ~Exists(n) /\ ~fd[n].opened
  /\ op' = [pc |-> "create", name |-> n]
  /\ fd' = [fd EXCEPT ![n] = [Closed EXCEPT !.rec = [NONE EXCEPT !.used = TRUE]]]
  /\ UNCHANGED <<disk, tab, blk, clu, last, ready, file, faults, crashes, torn>>

CreateRecord ==
  LET n == op.name IN
    /\ op.pc = "create"
    /\ \/ /\ WriteRecord(n, fd[n].rec)
          /\ fd' = [fd EXCEPT ![n].opened = TRUE]
          /\ file' = [file EXCEPT ![n] = <<>>]
       \/ WriteRecordFails(n, fd[n].rec) /\ UNCHANGED <<fd, file>>
    /\ Done
    /\ UNCHANGED <<tab, last, ready, crashes, torn>>

\* The same with a directory: its cluster, the table and the record are written.
CreateDir(n) ==
  LET c == Allocate(tab, last) IN
    /\ Start
    /\ ~Exists(n) /\ ~fd[n].opened
    /\ c # 0
    /\ op' = [pc |-> "dir", name |-> n, cluster |-> c]
    /\ last' = c
    /\ UNCHANGED <<disk, tab, blk, clu, ready, fd, file, faults, crashes, torn>>

DirCluster ==
  /\ op.pc = "dir"
  /\ WriteCluster(op.cluster, TRUE, Zero)
  /\ IF faults' = faults THEN Goto("dir_table") ELSE Done
  /\ UNCHANGED <<tab, last, ready, fd, file, crashes, torn>>

DirTable ==
  LET table == [tab EXCEPT ![op.cluster] = END] IN
    /\ op.pc = "dir_table"
    /\ \/ WriteTable(table) /\ Goto("dir_record")
       \/ WriteTableFails(table) /\ Done
       \/ WriteTableStops(table)
    /\ UNCHANGED <<blk, clu, last, fd, file, crashes, torn>>

DirRecord ==
  LET r == [used |-> TRUE, dir |-> TRUE, cluster |-> op.cluster, size |-> 0] IN
    /\ op.pc = "dir_record"
    /\ \/ WriteRecord(op.name, r) /\ file' = [file EXCEPT ![op.name] = <<>>]
       \/ WriteRecordFails(op.name, r) /\ UNCHANGED file
    /\ Done
    /\ UNCHANGED <<tab, last, ready, fd, crashes, torn>>

\* fat_open of a file that exists, with "wb+".
OpenTruncate(n) ==
  /\ Start
  /\ Exists(n) /\ ~Block[n].dir /\ ~fd[n].opened
  /\ op' = [pc |-> "truncate", name |-> n, cluster |-> Block[n].cluster]
  /\ fd' = [fd EXCEPT ![n] = [Closed EXCEPT !.rec = [NONE EXCEPT !.used = TRUE]]]
  /\ blk' = [valid |-> TRUE, rec |-> Block]
  /\ UNCHANGED <<disk, tab, clu, last, ready, file, faults, crashes, torn>>

TruncateRecord ==
  LET n == op.name IN
    /\ op.pc = "truncate"
    /\ \/ /\ WriteRecord(n, fd[n].rec)
          /\ fd' = [fd EXCEPT ![n].opened = TRUE]
          /\ file' = [file EXCEPT ![n] = <<>>]
          /\ IF op.cluster # 0 THEN Goto("zero") ELSE Done
       \/ WriteRecordFails(n, fd[n].rec) /\ Done /\ UNCHANGED <<fd, file>>
    /\ UNCHANGED <<tab, last, ready, crashes, torn>>

-----------------------------------------------------------------------------
(***************************************************************************)
(* fat_seek and fat_write: size bytes at position off, which may lie       *)
(* behind the end of the file.  pos is where the next cluster is written.  *)
(***************************************************************************)
Write(n, off, size) ==
  LET r == fd[n].rec IN
    /\ Start
    /\ fd[n].opened /\ ~r.dir
    /\ off + size <= MaxEnd
    /\ op' = [pc |-> IF r.cluster = 0 THEN "first_table" ELSE "chain",
              name |-> n, off |-> off, size |-> size, old |-> r.size,
              pos |-> IF off > r.size THEN r.size ELSE off, written |-> 0, cluster |-> 0]
    /\ UNCHANGED <<disk, tab, blk, clu, last, ready, fd, file, faults, crashes, torn>>

\* The first cluster is allocated; without space the write ends.
FirstTable ==
  LET c == Allocate(tab, last)
      table == [tab EXCEPT ![c] = END] IN
    /\ op.pc = "first_table"
    /\ IF c = 0
         THEN Done /\ UNCHANGED <<disk, tab, ready, fd, last, faults>>
         ELSE /\ last' = c
              /\ \/ WriteTable(table) /\ Goto("first_record")
                    /\ SetRecord(op.name, [fd[op.name].rec EXCEPT !.cluster = c])
                 \/ WriteTableFails(table) /\ Done /\ UNCHANGED fd
                 \/ WriteTableStops(table) /\ UNCHANGED fd
    /\ UNCHANGED <<blk, clu, file, crashes, torn>>

\* Its number goes to the record, or the cluster is given back.
FirstRecord ==
  LET r == fd[op.name].rec
      table == [tab EXCEPT ![r.cluster] = 0] IN
    /\ op.pc = "first_record"
    /\ \/ WriteRecord(op.name, r) /\ Goto("chain") /\ UNCHANGED <<tab, ready, fd>>
       \/ /\ Fault
          /\ blk' = [valid |-> TRUE, rec |-> [Block EXCEPT ![op.name] = r]]
          /\ clu' = NoCluster
          /\ tab' = table /\ disk' = [disk EXCEPT !.tab = table]
          /\ SetRecord(op.name, [r EXCEPT !.cluster = 0])
          /\ Done
          /\ UNCHANGED ready
    /\ UNCHANGED <<last, file, crashes, torn>>

\* Where a walk to cluster index i of the file starts.
From(f, i) == IF f.idx # 0 /\ f.idx <= i THEN f.idx ELSE 0
FromCluster(f, i) == IF f.idx # 0 /\ f.idx <= i THEN f.val ELSE f.rec.cluster

\* The chain is extended, unless it ends in a free cluster, and the first
\* cluster to write is found.
WriteChain ==
  LET f == fd[op.name]
      index == op.pos \div ClusterSize
      i == From(f, index)
      c == FromCluster(f, index)
      have == i + Cardinality(Chain(tab, c))
      size == IF op.off + op.size > op.old THEN op.off + op.size ELSE op.old
      more == IF size > op.old /\ tab[LastOf(tab, c)] = END /\ Needed(size) > have THEN Needed(size) - have ELSE 0
      ext == Extend(tab, last, LastOf(tab, c), more)
      first == Step(ext.tab, c)[index - i]
      broken == first = 0 \/ (size > op.old /\ tab[LastOf(tab, c)] = 0) IN
    /\ op.pc = "chain"
    /\ last' = ext.last
    /\ \/ /\ WriteTable(ext.tab)
          /\ IF broken THEN Goto("extra")
             ELSE IF first \in Cluster THEN op' = [op EXCEPT !.pc = "data", !.cluster = first]
                                  ELSE Goto("record")
       \/ WriteTableFails(ext.tab) /\ Done
       \/ WriteTableStops(ext.tab)
    /\ UNCHANGED <<blk, clu, fd, file, crashes, torn>>

\* Mutant: only the end of the cluster ends a part of a write.
LesserCluster(a, b) == b

Lesser(a, b) == IF a < b THEN a ELSE b

\* Mutant: a gap keeps what was in the buffer.
FilledGap(old, pos, off, size) ==
  [b \in Byte |->
     LET q == pos - (pos % ClusterSize) + b IN
       IF q < off THEN old[b] ELSE IF q < off + size THEN 1 ELSE 0]

(***************************************************************************)
(* The cluster buffer after the bytes from position pos on are filled in:  *)
(* zeros up to off, then the user's bytes, and zeros behind the old end.   *)
(***************************************************************************)
Filled(old, pos, off, size) ==
  [b \in Byte |->
     LET q == pos - (pos % ClusterSize) + b
         end == pos - (pos % ClusterSize) + ClusterSize
         written == IF end <= off THEN 0 ELSE Lesser(size, end - off) IN
       IF q < pos THEN old[b]
       ELSE IF q < off THEN 0
       ELSE IF q < off + size THEN 1
       ELSE IF off + written >= op.old THEN 0 ELSE old[b]]

\* The cluster index that fat_write saves with the cluster.
SavedIndex(off, written) == (off + written) \div ClusterSize

\* One cluster of the loop that writes the data.
WriteData ==
  LET c == op.cluster
      skip_io == op.off + op.written >= op.old /\ op.pos % ClusterSize = 0
      end == op.pos - (op.pos % ClusterSize) + ClusterSize
      written == IF end <= op.off THEN 0 ELSE Lesser(op.size, end - op.off)
      old == IF skip_io THEN Garbage ELSE ReadCluster(c) IN
    /\ op.pc = "data"
    /\ WriteCluster(c, skip_io, Filled(old, op.pos, op.off, op.size))
    /\ fd' = [fd EXCEPT ![op.name].idx = SavedIndex(op.off, op.written), ![op.name].val = c]
    /\ op' = IF faults' # faults THEN [op EXCEPT !.pc = "record"]
             ELSE [op EXCEPT !.written = written, !.pos = end, !.cluster = tab[c],
                             !.pc = IF written < op.size /\ tab[c] \in Cluster
                                      THEN "data" ELSE "record"]
    /\ UNCHANGED <<tab, last, ready, file, crashes, torn>>

\* The bytes of a file after a write of so many bytes at position off.
Written(bytes, off, written) ==
  IF written = 0 THEN bytes
  ELSE [q \in 1 .. (IF off + written > Len(bytes) THEN off + written ELSE Len(bytes)) |->
          IF q - 1 \in off .. off + written - 1 THEN 1 ELSE IF q <= Len(bytes) THEN bytes[q] ELSE 0]

(***************************************************************************)
(* The record gets the size that was written.  When it cannot be updated,  *)
(* less is reported, and clusters nobody needs are given back.             *)
(***************************************************************************)
WriteSize ==
  LET n == op.name
      end == op.off + op.written
      size == IF op.written # 0 /\ end > op.old THEN end ELSE op.old
      r == [fd[n].rec EXCEPT !.size = size]
      less == IF op.off >= op.old THEN 0 ELSE Lesser(op.written, op.old - op.off) IN
    /\ op.pc = "record"
    /\ \/ /\ WriteRecord(n, r)
          /\ SetRecord(n, r)
          /\ file' = [file EXCEPT ![n] = Written(@, op.off, op.written)]
          /\ IF op.written # op.size THEN Goto("extra") ELSE Done
       \/ /\ WriteRecordFails(n, r)
          /\ SetRecord(n, [r EXCEPT !.size = op.old])
          /\ file' = [file EXCEPT ![n] = Written(@, op.off, less)]
          /\ IF less # op.size THEN Goto("extra") ELSE Done
    /\ UNCHANGED <<tab, last, ready, crashes, torn>>

\* fat_control with a smaller size: the record is written twice.
Truncate(n, size) ==
  /\ Start
  /\ fd[n].opened /\ ~fd[n].rec.dir
  /\ size < fd[n].rec.size
  /\ op' = [pc |-> "size", name |-> n, size |-> size]
  /\ UNCHANGED <<disk, tab, blk, clu, last, ready, fd, file, faults, crashes, torn>>

TruncateDates ==
  /\ op.pc = "size"
  /\ \/ WriteRecord(op.name, fd[op.name].rec) /\ Goto("resize")
     \/ WriteRecordFails(op.name, fd[op.name].rec) /\ Done
  /\ UNCHANGED <<tab, last, ready, fd, file, crashes, torn>>

TruncateSize ==
  LET n == op.name
      r == [fd[n].rec EXCEPT !.size = op.size] IN
    /\ op.pc = "resize"
    /\ \/ /\ WriteRecord(n, r) /\ SetRecord(n, r)
          /\ file' = [file EXCEPT ![n] = SubSeq(@, 1, op.size)]
          /\ Goto("extra")
       \/ WriteRecordFails(n, r) /\ Done /\ UNCHANGED <<fd, file>>
    /\ UNCHANGED <<tab, last, ready, crashes, torn>>

-----------------------------------------------------------------------------
\* Mutant: the cluster index and value of the fd are not reset.
ForgetNothing(f) == f

\* delete_extra_clusters starts the next walk at the first cluster again.
Forget(f) == [f EXCEPT !.idx = 0, !.val = 0]

(***************************************************************************)
(* delete_extra_clusters of an empty file: the record is written first,    *)
(* and then all of its clusters are deleted.                               *)
(***************************************************************************)
ExtraAll ==
  LET n == op.name
      r == fd[n].rec IN
    /\ op.pc = "extra" /\ r.size = 0
    /\ \/ /\ WriteRecord(n, [r EXCEPT !.cluster = 0])
          /\ fd' = [fd EXCEPT ![n] = [Forget(@) EXCEPT !.rec.cluster = 0]]
          /\ op' = [pc |-> "zero", name |-> n, cluster |-> r.cluster]
       \/ WriteRecordFails(n, [r EXCEPT !.cluster = 0]) /\ fd' = [fd EXCEPT ![n] = Forget(@)] /\ Done
    /\ UNCHANGED <<tab, last, ready, file, crashes, torn>>

\* The last cluster that is needed ends the chain, and its rest is cleared.
ExtraSome ==
  LET n == op.name
      r == fd[n].rec
      end == Step(tab, r.cluster)[Needed(r.size) - 1]
      used == r.size % ClusterSize
      data == [b \in Byte |-> IF b < used THEN ReadCluster(end)[b] ELSE 0] IN
    /\ op.pc = "extra" /\ r.size # 0 /\ end \in Cluster
    /\ tab' = [tab EXCEPT ![end] = END]
    /\ fd' = [fd EXCEPT ![n] = Forget(@)]
    /\ IF used # 0 THEN WriteCluster(end, FALSE, data) ELSE UNCHANGED <<blk, clu, disk, faults>>
    /\ IF tab[end] \in Cluster THEN op' = [pc |-> "zero", name |-> n, cluster |-> tab[end]] ELSE Done
    /\ UNCHANGED <<last, ready, file, crashes, torn>>

\* The chain is too short for the size: nothing is deleted.
ExtraNone ==
  LET r == fd[op.name].rec IN
    /\ op.pc = "extra" /\ r.size # 0
    /\ Step(tab, r.cluster)[Needed(r.size) - 1] \notin Cluster
    /\ fd' = [fd EXCEPT ![op.name] = Forget(@)]
    /\ Done
    /\ UNCHANGED <<disk, tab, blk, clu, last, ready, file, faults, crashes, torn>>

\* Mutant: the loop ends after the first cluster.
NextClusterEnd(c) == END

\* get_table_value, before the entry is cleared.
NextCluster(c) == tab[c]

\* delete_clusters: a cluster is cleared and freed in the table buffer.
ZeroCluster ==
  LET c == op.cluster IN
    /\ op.pc = "zero" /\ c \in Cluster
    /\ WriteCluster(c, TRUE, Zero)
    /\ tab' = [tab EXCEPT ![c] = 0]
    /\ op' = [op EXCEPT !.cluster = NextCluster(c)]
    /\ UNCHANGED <<last, ready, fd, file, crashes, torn>>

\* The table is written when all of them are free.
ZeroTable ==
  /\ op.pc = "zero" /\ op.cluster \notin Cluster
  /\ last' = 0
  /\ \/ (WriteTable(tab) \/ WriteTableFails(tab)) /\ Done
     \/ WriteTableStops(tab)
  /\ UNCHANGED <<blk, clu, fd, file, crashes, torn>>

\* Mutant: an open file can be removed.
RemovableOpen(n) == Exists(n)

\* fill_record_buffer finds the record, and no open file has it.
Removable(n) == Exists(n) /\ ~fd[n].opened

\* fat_remove: the record goes first, then the clusters.
Remove(n) ==
  /\ Start
  /\ Removable(n)
  /\ op' = [pc |-> "remove", name |-> n, cluster |-> Block[n].cluster]
  /\ blk' = [valid |-> TRUE, rec |-> Block]
  /\ UNCHANGED <<disk, tab, clu, last, ready, fd, file, faults, crashes, torn>>

RemoveRecord ==
  /\ op.pc = "remove"
  /\ \/ /\ WriteRecord(op.name, NONE)
        /\ file' = [file EXCEPT ![op.name] = NoFile]
        /\ Goto("zero")
     \/ WriteRecordFails(op.name, NONE) /\ Done /\ UNCHANGED file
  /\ UNCHANGED <<tab, last, ready, fd, crashes, torn>>

\* fat_read: the walk to a cluster of the file leaves its index behind.
Read(n, index) ==
  LET f == fd[n]
      c == Step(tab, FromCluster(f, index))[index - From(f, index)] IN
    /\ Start
    /\ f.opened /\ ~f.rec.dir
    /\ index < Needed(f.rec.size)
    /\ c \in Cluster
    /\ clu' = [lba |-> c, data |-> ReadCluster(c)]
    /\ fd' = [fd EXCEPT ![n].idx = index, ![n].val = c]
    /\ UNCHANGED <<disk, tab, blk, last, ready, op, file, faults, crashes, torn>>

\* What the volume holds for a name.
Content(n) ==
  IF ~disk.rec[n].used THEN NoFile
  ELSE [q \in 1 .. disk.rec[n].size |->
          LET c == Step(disk.tab, disk.rec[n].cluster)[(q - 1) \div ClusterSize] IN
            IF c \in Cluster THEN disk.data[c][(q - 1) % ClusterSize] ELSE 2]

\* A table of which a part only has been written.
Partly == (op.pc = "stopped" \/ ~ready) /\ disk.tab # tab

\* The machine stops; fat_create reads the volume again.
Crash ==
  /\ crashes < MaxCrashes
  /\ crashes' = crashes + 1
  /\ torn' = (torn \/ Partly)
  /\ tab' = disk.tab
  /\ blk' = NoBlock
  /\ clu' = NoCluster
  /\ last' = 0
  /\ ready' = TRUE
  /\ fd' = [n \in Name |-> Closed]
  /\ op' = Idle
  /\ file' = [n \in Name |-> Content(n)]
  /\ UNCHANGED <<disk, faults>>

Call ==
  \E n \in Name :
    \/ OpenFile(n) \/ CloseFile(n) \/ CreateFile(n) \/ CreateDir(n)
    \/ OpenTruncate(n) \/ Remove(n)
    \/ \E off \in 0 .. MaxEnd, size \in 1 .. MaxEnd : Write(n, off, size)
    \/ \E size \in 0 .. MaxEnd : Truncate(n, size)
    \/ \E index \in 0 .. Clusters - 1 : Read(n, index)

Next ==
  \/ Call
  \/ CreateRecord \/ DirCluster \/ DirTable \/ DirRecord \/ TruncateRecord
  \/ FirstTable \/ FirstRecord \/ WriteChain \/ WriteData \/ WriteSize
  \/ TruncateDates \/ TruncateSize \/ ExtraAll \/ ExtraSome \/ ExtraNone
  \/ ZeroCluster \/ ZeroTable \/ RemoveRecord
  \/ Crash

Spec == Init /\ [][Next]_vars

-----------------------------------------------------------------------------
Used == {n \in Name : disk.rec[n].used /\ disk.rec[n].cluster # 0}

\* The clusters that hold the bytes of a file.
Bytes(n) ==
  {Step(disk.tab, disk.rec[n].cluster)[k] : k \in 0 .. Needed(disk.rec[n].size) - 1} \cap Cluster

(***************************************************************************)
(* Whenever the machine stops, no cluster on the volume belongs to two     *)
(* files or to a file and to the free space, and no file is longer than    *)
(* its chain: the table is written before a record that needs it and after *)
(* one that gives clusters up (fat_write, delete_extra_clusters,           *)
(* fat_remove).  Only clusters nobody uses may stay allocated.             *)
(*                                                                         *)
(* A stop or an error within a write of the table may leave a free cluster *)
(* at the end of a chain, but never among those that hold the bytes of a   *)
(* file.  The driver of the next mount may give it to another file;        *)
(* nothing is promised from there on (torn).                               *)
(***************************************************************************)
DiskSafe ==
  torn \/
  /\ ~Partly => \A n \in Used :
       /\ \A c \in Chain(disk.tab, disk.rec[n].cluster) : disk.tab[c] # 0
       /\ Step(disk.tab, disk.rec[n].cluster)[Clusters] = END
       /\ \A m \in Used \ {n} :
            Chain(disk.tab, disk.rec[n].cluster) \cap Chain(disk.tab, disk.rec[m].cluster) = {}
  /\ \A n \in Name : disk.rec[n].used /\ ~disk.rec[n].dir /\ disk.rec[n].size > 0 =>
       /\ disk.rec[n].cluster # 0
       /\ Needed(disk.rec[n].size) <= Cardinality(Chain(disk.tab, disk.rec[n].cluster))
       /\ \A c \in Bytes(n) : disk.tab[c] # 0
       /\ \A m \in Used \ {n} : Bytes(n) \cap Bytes(m) = {}

(***************************************************************************)
(* A stop, also one within a write of the table, changes no file but the   *)
(* one of the operation that ran (fat_create).                             *)
(***************************************************************************)
OthersKept ==
  crashes' # crashes /\ ~torn =>
    \A n \in Name : op = Idle \/ n # op.name => file'[n] = file[n]

(***************************************************************************)
(* Between operations every file holds what its user wrote: each write is  *)
(* there up to the size that was reported, gaps and bytes behind an old    *)
(* end are 0, and a full volume changes nothing (fat_write, fat_control);  *)
(* until the machine has stopped within a write of the table.              *)
(***************************************************************************)
ContentKept == op = Idle /\ ready /\ ~torn => \A n \in Name : Content(n) = file[n]

(***************************************************************************)
(* The cluster that an open file remembers is the one at that index of its *)
(* chain, or the next read or write would go to another cluster            *)
(* (cluster_idx and cluster_val).                                          *)
(***************************************************************************)
IndexValid ==
  op = Idle => \A n \in Name : fd[n].opened /\ fd[n].idx # 0 =>
    Step(tab, fd[n].rec.cluster)[fd[n].idx] = fd[n].val

(***************************************************************************)
(* An operation that ends leaves no cluster allocated that nobody uses, as *)
(* long as nothing has failed (delete_clusters, delete_extra_clusters).    *)
(***************************************************************************)
NoLeak ==
  op = Idle /\ crashes = 0 /\ faults = 0 =>
    {c \in Cluster : disk.tab[c] # 0} = UNION {Chain(disk.tab, disk.rec[n].cluster) : n \in Used}

(***************************************************************************)
(* Once the table could not be written, the instance, whose table is not   *)
(* that of the volume, changes nothing on the volume until it is created   *)
(* again (write_table, ready), in a directory that does not grow: what     *)
(* iterate_dir does after an error of append_cluster is in FatDir.         *)
(***************************************************************************)
DeadIsQuiet == ~ready => disk' = disk
=============================================================================
