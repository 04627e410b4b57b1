------------------------------ MODULE FatTable ------------------------------
(***************************************************************************)
(* The allocation table of the FAT driver (common/fat.c) as bytes: entries *)
(* of 12, 16 or 32 bits, the sectors marked for writing, the window that   *)
(* holds a part of a 32-bit table, the two copies on the disk and the      *)
(* count of free clusters in the information sector.                       *)
(*                                                                         *)
(* Half a byte takes D values instead of sixteen, which shortens every     *)
(* entry in proportion; sectors and the window are of a few bytes.         *)
(***************************************************************************)
EXTENDS Integers, FiniteSets

CONSTANTS Type,      \* 12, 16 or 32
          D,         \* values of half a byte
          Clusters,  \* fs_clusters
          Sector,    \* fs_bytes_per_sector
          Window,    \* table_buffer_size of a 32-bit table
          Values     \* values that are stored in entries

B == D * D                              \* values of a byte
Entries == Clusters + 2
Bytes(n) == CASE Type = 12 -> (3 * n + 1) \div 2 [] Type = 16 -> 2 * n [] OTHER -> 4 * n
Sectors == (Bytes(Entries) + Sector) \div Sector   \* fs_table_sectors, with room
Size == Sectors * Sector                \* fs_table_size
Buffer == IF Type = 32 THEN Window ELSE Size
Unknown == -1                           \* 0xFFFFFFFF
Full == CASE Type = 12 -> D ^ 3 [] Type = 16 -> B ^ 2 [] OTHER -> D ^ 7

VARIABLES mem,       \* table_buffer
          base,      \* table_offset
          dirty,     \* table_sectors
         unmarked,  \* history: sectors of the table that were changed without a mark
         missed,    \* history: sectors that the second copy has not got
          disk,      \* the two tables on the disk
          free,      \* fs_info_free
          modified,  \* fs_info_modified
          info,      \* the free count in the information sector
          ready,
          tab,       \* what has been stored in the entries
          early      \* the count was asked for before the first change

vars == <<mem, base, dirty, unmarked, missed, disk, free, modified, info, ready, tab, early>>

-----------------------------------------------------------------------------
LE16(m, a) == m[a] + B * m[a + 1]
LE32(m, a) == m[a] + B * m[a + 1] + B ^ 2 * m[a + 2] + B ^ 3 * m[a + 3]

\* A value in little-endian order.
Store16(m, a, v) == [m EXCEPT ![a] = v % B, ![a + 1] = (v \div B) % B]
Store32(m, a, v) == [m EXCEPT ![a] = v % B, ![a + 1] = (v \div B) % B,
                              ![a + 2] = (v \div B ^ 2) % B, ![a + 3] = (v \div B ^ 3) % B]

\* The part of the table t that the window at w shows.
Shown(t, w) == [a \in 0..(Buffer - 1) |-> IF w + a < Size THEN t[w + a] ELSE 0]

\* The table t after the sectors S of the buffer m at w were written.
Saved(t, m, w, S) ==
    [a \in 0..(Size - 1) |->
        IF a >= w /\ a < w + Buffer /\ (a - w) \div Sector \in S THEN m[a - w] ELSE t[a]]

\* The sectors S of the buffer as sectors of the table.
InTable(S) == {(base \div Sector) + s : s \in S}

\* write_table: the first copy and then the second one, in which a write that
\* fails is not noticed.
WriteBoth ==
    \E W \in SUBSET dirty :
        /\ disk' = [disk EXCEPT ![1] = Saved(@, mem, base, dirty), ![2] = Saved(@, mem, base, W)]
        /\ missed' = (missed \ InTable(W)) \cup InTable(dirty \ W)
        /\ unmarked' = unmarked \ InTable(dirty)
        /\ dirty' = {}

\* A write of the first copy fails, or the machine stops there: the sectors
\* before it are on the disk, and those of the second copy are not.
WriteSome ==
    \E s \in dirty :
        LET W == {t \in dirty : t < s}
        IN  /\ disk' = [disk EXCEPT ![1] = Saved(@, mem, base, W)]
            /\ missed' = missed \cup InTable(W)
            /\ unmarked' = unmarked \ InTable(W)
            /\ ready' = FALSE
            /\ UNCHANGED dirty

\* read_table_buffer: the window that holds the byte a, after what the old one
\* changed was written.
Off1(a) == IF Type = 32 THEN a % Window ELSE a
Off2(a) == IF Type = 32 THEN a - (a % Window) ELSE 0

Slide(a) ==
    /\ ready /\ Type = 32 /\ Off2(a) # base
    /\ \/ WriteBoth /\ base' = Off2(a) /\ mem' = Shown(disk'[1], Off2(a)) /\ ready' = ready
       \/ WriteSome /\ mem' = [x \in 0..(Buffer - 1) |-> 0] /\ UNCHANGED base
    /\ UNCHANGED <<free, modified, info, tab, early>>

-----------------------------------------------------------------------------
(* get_table_value and set_table_value *)

Address(off) == CASE Type = 12 -> off + (off \div 2) [] Type = 16 -> 2 * off [] OTHER -> 4 * off

\* The value of the entry at address a of the buffer m.
Value(m, off) ==
    LET a == Off1(Address(off))
    IN  CASE Type = 12 -> (IF off % 2 = 1 THEN LE16(m, a) \div D ELSE LE16(m, a)) % Full
          [] Type = 16 -> LE16(m, a)
          [] OTHER     -> LE32(m, a) % Full

\* Mutant: the value is not cut to the width of a byte.
StoredWide(m, off, val) ==
    LET a == Off1(Address(off)) IN [m EXCEPT ![a] = val * D]

\* Mutant: an odd entry clears the other half of the shared byte, and a long
\* one gets its low byte only.
StoredHalf(m, off, val) ==
    LET a == Off1(Address(off))
    IN  CASE Type = 12 -> Store16(m, a, IF off % 2 = 1 THEN (val * D) % B ^ 2
                                        ELSE (val % Full) + (LE16(m, a) \div Full) * Full)
          [] Type = 16 -> Store16(m, a, val % B)
          [] OTHER     -> Store32(m, a, val % B)

\* The buffer with val in the entry; the bits that are not its own are kept.
Stored(m, off, val) ==
    LET a == Off1(Address(off))
    IN  CASE Type = 12 -> Store16(m, a, IF off % 2 = 1
                                          THEN ((val * D) % B ^ 2) + (LE16(m, a) % D)
                                          ELSE (val % Full) + (LE16(m, a) \div Full) * Full)
          [] Type = 16 -> Store16(m, a, val)
          [] OTHER     -> Store32(m, a, (val % Full) + (LE32(m, a) \div Full) * Full)

\* Mutant: the sector of the second byte is never marked.
MarkedOne(off) == {Off1(Address(off)) \div Sector}

\* Mutant: only the first sector is ever marked.
MarkedFirst(off) == {0}

\* The sectors marked. A 12-bit entry on the boundary of the first two sectors
\* marks both, one on a later boundary does not.
Marked(off) ==
    LET a == Off1(Address(off))
    IN  {a \div Sector} \cup
          IF Type = 12 /\ a = Sector - 1 THEN {(a \div Sector) + 1} ELSE {}

\* The sectors of the table whose bytes change.
Touched(off) ==
    {a \div Sector : a \in {x \in 0..(Size - 1) :
        x >= base /\ x < base + Buffer /\ Stored(mem, off, tab'[off])[x - base] # mem[x - base]}}

\* Mutant: the count goes down for every value stored.
CountedAlways(off, val) == IF val # 0 THEN free - 1 ELSE free + 1

\* fs_info_free follows each entry that becomes used or free.
Counted(off, val) ==
    IF free = Unknown THEN Unknown
    ELSE IF Value(mem, off) = 0 /\ val # 0 THEN free - 1
    ELSE IF Value(mem, off) # 0 /\ val = 0 THEN free + 1 ELSE free

SetValue ==
    /\ ready
    /\ \E off \in 2..(Entries - 1), val \in Values :
         /\ Off2(Address(off)) = base
         /\ Type = 32 => modified
         /\ mem' = Stored(mem, off, val)
         /\ dirty' = dirty \cup Marked(off)
         /\ free' = IF Type = 32 THEN Counted(off, val) ELSE free
         /\ tab' = [tab EXCEPT ![off] = val]
         /\ unmarked' = unmarked \cup (Touched(off) \ InTable(dirty \cup Marked(off)))
    /\ UNCHANGED <<base, disk, missed, modified, info, ready, early>>

\* An entry of another window is wanted, to read it or to store in it.
MoveWindow == \E off \in 0..(Entries - 1) : Slide(Address(off))

Flush ==
    /\ ready /\ dirty # {}
    /\ (WriteBoth /\ ready' = ready) \/ WriteSome
    /\ UNCHANGED <<mem, base, free, modified, info, tab, early>>

-----------------------------------------------------------------------------
(* The information sector *)

Zeros(t) == {n \in 0..(Entries - 1) :
               (LE32(t, 4 * n) % Full) = 0}

\* compute_fs_info walks the whole table, window by window; write_table has
\* been called before.
Compute == Cardinality(Zeros(disk[1]))

\* Mutant: the count that is on the disk stays there.
WriteInfoStays == info' = info /\ free' = info

\* write_fs_info: the driver takes the count over from the disk when it is
\* plausible, and leaves its own there.
WriteInfo ==
    /\ info' = free
    /\ free' = IF info # Unknown /\ info # 0 /\ info <= Clusters THEN info ELSE Unknown

\* fat_open for writing, the first time.
OpenModify ==
    /\ ready /\ Type = 32 /\ ~modified /\ dirty = {}
    /\ WriteInfo
    /\ modified' = TRUE
    /\ early' = (early \/ free # Unknown)
    /\ UNCHANGED <<mem, base, dirty, unmarked, missed, disk, ready, tab>>

\* fat_control for the volume needs the count.
Control ==
    /\ ready /\ Type = 32 /\ dirty = {} /\ free = Unknown
    /\ free' = Compute
    /\ UNCHANGED <<mem, base, dirty, unmarked, missed, disk, modified, info, ready, tab, early>>

\* fat_delete and the fat_create of the next mount; or a crash, which loses
\* what the driver keeps in memory.
Mounted(t) ==
    /\ mem' = Shown(t, 0) /\ base' = 0 /\ dirty' = {} /\ unmarked' = {} /\ modified' = FALSE
    /\ free' = Unknown /\ ready' = TRUE
    /\ tab' = [n \in 0..(Entries - 1) |-> Value(IF Type = 32 THEN Shown(t, Off2(Address(n)))
                                               ELSE t, n)]

Remount ==
    /\ ready /\ dirty = {}
    /\ info' = IF ~modified THEN info ELSE IF free = Unknown THEN Compute ELSE free
    /\ Mounted(disk[1])
    /\ UNCHANGED <<disk, missed, early>>

Crash ==
    /\ dirty # {} \/ ~ready \/ modified
    /\ Mounted(disk[1])
    /\ UNCHANGED <<disk, missed, info, early>>

-----------------------------------------------------------------------------
\* An empty volume: entries 0 and 1 are reserved. An information sector holds
\* the right count or none.
Blank ==
    LET z == [a \in 0..(Size - 1) |-> 0]
        one(t, n) == CASE Type = 12 -> Store16(t, Address(n),
                                 IF n = 0 THEN Full - 1 ELSE (Full - 1) * D + (LE16(t, Address(n)) % D))
                       [] Type = 16 -> Store16(t, Address(n), Full - 1)
                       [] OTHER -> Store32(t, Address(n), Full - 1)
    IN  one(one(z, 0), 1)

Init ==
    /\ disk = [c \in 1..2 |-> Blank]
    /\ base = 0 /\ mem = Shown(Blank, 0) /\ dirty = {}
    /\ unmarked = {} /\ missed = {}
    /\ free = Unknown /\ modified = FALSE
    /\ info \in {Unknown, Clusters}
    /\ ready = TRUE /\ early = FALSE
    /\ tab = [n \in 0..(Entries - 1) |-> IF n < 2 THEN Full - 1 ELSE 0]

Next == SetValue \/ MoveWindow \/ Flush \/ OpenModify \/ Control \/ Remount \/ Crash

Spec == Init /\ [][Next]_vars

-----------------------------------------------------------------------------
(* Properties *)

TypeOK ==
    /\ \A a \in DOMAIN mem : mem[a] \in 0..(B - 1)
    /\ base \in 0..Size /\ dirty \subseteq 0..Sectors
    /\ unmarked \subseteq 0..Sectors /\ missed \subseteq 0..Sectors
    /\ free \in Int /\ info \in Int /\ ready \in BOOLEAN /\ modified \in BOOLEAN

\* Each entry reads back what was last stored in it: entries that share a byte
\* or lie in different windows do not disturb one another.
EntriesKept ==
    ready => \A n \in 0..(Entries - 1) :
        tab[n] = IF Off2(Address(n)) = base THEN Value(mem, n)
                 ELSE Value(Shown(disk[1], Off2(Address(n))), n)

\* When no sector is marked the disk holds the table: the first copy all of it
\* but the second half of a 12-bit entry on a boundary other than the first, the
\* second copy what the first one holds but for the sectors whose write failed
\* or did not happen before a stop.
AllWritten ==
    /\ ready /\ dirty = {} =>
         \A a \in 0..(Size - 1) :
           a >= base /\ a < base + Buffer /\ a \div Sector \notin unmarked => disk[1][a] = mem[a - base]
    /\ \A a \in 0..(Size - 1) : a \div Sector \notin missed => disk[2][a] = disk[1][a]
    /\ Type # 12 => unmarked = {}
    /\ 0 \notin unmarked /\ 1 \notin unmarked

\* The count in memory is the number of free entries, so it is never more than
\* the clusters and fat_control reports it. The first change of a mount leaves
\* the old count on the disk when the count had been asked for before it; from
\* a crash after that the driver takes over a wrong one.
FreeIsRight ==
    ready /\ free # Unknown /\ Type = 32 /\ ~early
        => free = Cardinality({n \in DOMAIN tab : tab[n] = 0}) /\ free <= Clusters

\* With the same exception the count on the disk is absent or right for the
\* table on the disk, whenever the system stops.
InfoIsRight ==
    info # Unknown /\ Type = 32 /\ ~early => info = Cardinality(Zeros(disk[1]))
=============================================================================
