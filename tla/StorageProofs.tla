---------------------------- MODULE StorageProofs ---------------------------
(***************************************************************************)
(* Proofs about module Storage, for any disk, tables and devices: finding  *)
(* and mounting partitions, the transfers of an IDE channel, the command   *)
(* tables of the AHCI driver, and changed disks of the floppy driver.      *)
(***************************************************************************)
EXTENDS Storage, FiniteSetTheorems, WellFoundedInduction, TLAPS

\* Every set of natural numbers that is not empty has a least element.
LEMMA LeastNat ==
  ASSUME NEW S, S \subseteq Nat, S # {}
  PROVE  \E n \in S : \A m \in S : n <= m
<1>. DEFINE R == OpToRel(<, Nat)
<1>1. IsWellFoundedOn(R, Nat)
  BY NatLessThanWellFounded
<1>. HIDE DEF R
<1>2. PICK n \in S : \A m \in S : <<m, n>> \notin R
  BY <1>1, WFMin
<1>3. \A m \in S : m < n => <<m, n>> \in R
  BY DEF R, OpToRel
<1>4. \A m \in S : ~(m < n)
  BY <1>2, <1>3
<1>5. \A m \in S : n <= m
  BY <1>4
<1>. QED BY <1>5

(***************************************************************************)
(* Partitions.  The ones that are used lie on the disk; those that are     *)
(* mounted were checked to be apart.                                       *)
(***************************************************************************)
Searching == {"guid", "first", "primary", "chain", "table", "check"}

FindTyped ==
  /\ search \in Searching \cup {"mount", "done", "closed"}
  /\ sector \in [0 .. (N - 1) -> Tables \cup {NoTable}] /\ findBuf \in Tables \cup {NoTable}
  /\ parts \in [Numbers -> Nat \X Nat] /\ findCount \in 0 .. (Count - 5)
  /\ ebr \in Nat /\ base \in Nat /\ devices \in Int
  /\ mounted \subseteq Used /\ IsFiniteSet(mounted)

OnDisk == \A i \in Used : parts[i][2] > 0 /\ parts[i][1] + parts[i][2] <= N

Apart == search = "mount" \/ mounted # {} => \A i \in Used, j \in Numbers : ~Clash(i, j)

FindInv ==
  /\ FindTyped /\ OnDisk /\ Apart /\ DeviceHeld
  /\ mounted # {} => search \notin Searching
  /\ access # NoAccess => access.part \in mounted
  /\ AccessInside

LEMMA FindStays == FindInv /\ UNCHANGED partVars => FindInv'
BY DEF partVars, FindInv, FindTyped, OnDisk, Apart, DeviceHeld, AccessInside, Used, Clash

LEMMA FindStart == PartInit => FindInv
<1>. SUFFICES ASSUME PartInit PROVE FindInv
  OBVIOUS
<1>1. Used = {} /\ parts \in [Numbers -> Nat \X Nat]
  BY DEF PartInit, Used
<1>2. IsFiniteSet({}) /\ Cardinality({}) = 0
  BY FS_EmptySet
<1>3. FindTyped
  BY <1>1, <1>2, TableAssumption DEF PartInit, FindTyped, Searching
<1>4. OnDisk /\ Apart
  BY <1>1 DEF PartInit, OnDisk, Apart
<1>5. DeviceHeld
  BY <1>2 DEF PartInit, DeviceHeld
<1>6. mounted = {} /\ access = NoAccess
  BY DEF PartInit
<1>. QED BY <1>3, <1>4, <1>5, <1>6 DEF FindInv, AccessInside

\* While the search reads and gives up, nothing is mounted or passed over.
LEMMA SearchKeeps ==
  ASSUME FindInv, search \notin {"closed", "mount"}, search' \in Searching \cup {"mount", "done"},
         search' # "mount" => parts' = parts \/ search \in Searching,
         search' \in Searching => search \in Searching,
         search' = "mount" => parts' = parts /\ \A i \in Used, j \in Numbers : ~Clash(i, j),
         sector' \in [0 .. (N - 1) -> Tables \cup {NoTable}], findBuf' \in Tables \cup {NoTable},
         parts' \in [Numbers -> Nat \X Nat], findCount' \in 0 .. (Count - 5), ebr' \in Nat, base' \in Nat,
         OnDisk', UNCHANGED <<mounted, devices, access>>
  PROVE  FindInv'
<1>. USE DEF FindInv
<1>1. mounted' \subseteq Used'
  BY DEF FindTyped, Used
<1>2. FindTyped'
  BY <1>1 DEF FindTyped
<1>3. Apart'
  <2>1. CASE search' = "mount"
    BY <2>1 DEF Apart, Used, Clash
  <2>2. CASE search' # "mount" /\ mounted' # {}
    <3>1. mounted # {} /\ parts' = parts
      BY <2>2
    <3>. QED BY <3>1 DEF Apart, Used, Clash
  <2>. QED BY <2>1, <2>2 DEF Apart
<1>4. DeviceHeld'
  BY DEF DeviceHeld, Searching
<1>5. mounted' # {} => search' \notin Searching
  OBVIOUS
<1>6. AccessInside'
  <2>1. access # NoAccess => mounted # {} /\ search \notin Searching
    OBVIOUS
  <2>2. access # NoAccess => parts' = parts
    BY <2>1
  <2>. QED BY <2>2 DEF AccessInside
<1>. QED BY <1>2, <1>3, <1>4, <1>5, <1>6

LEMMA ReadKeeps ==
  ASSUME FindInv, NEW lba, NEW next, ReadSector(lba, next), lba \in Nat
  PROVE  /\ search' \in {next, "done"}
         /\ sector' \in [0 .. (N - 1) -> Tables \cup {NoTable}] /\ findBuf' \in Tables \cup {NoTable}
<1>0. /\ sector \in [0 .. (N - 1) -> Tables \cup {NoTable}] /\ findBuf \in Tables \cup {NoTable}
  BY DEF FindInv, FindTyped
<1>1. CASE lba < N /\ \E t \in (IF sector[lba] = NoTable THEN Tables ELSE {sector[lba]}) :
                        sector' = [sector EXCEPT ![lba] = t] /\ findBuf' = t
  <2>1. lba \in 0 .. (N - 1)
    BY <1>1, TableAssumption
  <2>2. PICK t \in Tables \cup {NoTable} : sector' = [sector EXCEPT ![lba] = t] /\ findBuf' = t
    BY <1>0, <1>1, <2>1
  <2>3. search' \in {next, "done"}
    BY DEF ReadSector, Goto, GiveUp
  <2>. QED BY <1>0, <2>1, <2>2, <2>3
<1>2. CASE UNCHANGED <<sector, findBuf>>
  BY <1>0, <1>2 DEF ReadSector, Goto, GiveUp
<1>. QED BY <1>1, <1>2 DEF ReadSector

LEMMA PrimaryKeeps == FindInv /\ Primary => FindInv'
<1>. SUFFICES ASSUME FindInv, Primary PROVE FindInv'
  OBVIOUS
<1>0. /\ search = "primary" /\ UNCHANGED <<sector, findBuf, findCount, mounted, devices, access>>
  BY DEF Primary
<1>1. CASE GiveUp /\ UNCHANGED <<parts, ebr, base>>
  <2>1. OnDisk'
    BY <1>1 DEF FindInv, OnDisk, Used
  <2>. QED BY <1>0, <1>1, <2>1, SearchKeeps DEF FindInv, FindTyped, GiveUp, Searching
<1>2. CASE ValidTable(findBuf, FALSE) /\ \A i \in 1 .. 4 : Entry(i).type # "none" => Fits(Entry(i).lba, Entry(i).n)
  <2>. DEFINE ext == {i \in 1 .. 4 : Entry(i).type = "ext"}
              p == [i \in Numbers |-> IF i <= 4 /\ i \notin ext THEN <<Entry(i).lba, Entry(i).n>> ELSE <<0, 0>>]
  <2>1. CASE GiveUp /\ UNCHANGED <<parts, ebr, base>>
    BY <1>1, <2>1
  <2>2. CASE /\ parts' = p
             /\ IF ext = {} THEN Goto("check") /\ UNCHANGED <<ebr, base>>
                ELSE LET l == Entry(CHOOSE i \in ext : TRUE).lba
                     IN  ebr' = l /\ base' = l /\ Goto("chain")
    <3>1. /\ \A i \in 1 .. 4 : Entry(i).lba \in Nat /\ Entry(i).n \in Nat
          /\ \A i \in 1 .. 4 : Entry(i).type = "none" => Entry(i).lba = 0 /\ Entry(i).n = 0
          /\ \A i \in 1 .. 4 : Entry(i).type # "none" => Entry(i).n # 0 /\ Entry(i).lba + Entry(i).n <= N
      <4>1. findBuf \in Tables /\ findBuf.ok
        BY <1>2 DEF ValidTable, FindInv, FindTyped, NoTable
      <4>2. \A i \in 1 .. 4 : findBuf.e[i].lba \in Nat /\ findBuf.e[i].n \in Nat
        BY <4>1, TableAssumption
      <4>. QED BY <4>2, <1>2 DEF ValidTable, Entry, Fits
    <3>2. \A i \in Numbers : i <= 4 => i \in 1 .. 4
      BY TableAssumption DEF Numbers
    <3>3. p \in [Numbers -> Nat \X Nat]
      BY <3>1, <3>2
    <3>4. ebr' \in Nat /\ base' \in Nat /\ search' \in {"check", "chain"}
      <4>1. CASE ext = {}
        BY <2>2, <4>1 DEF Goto, FindInv, FindTyped
      <4>2. CASE ext # {}
        <5>1. (CHOOSE i \in ext : TRUE) \in 1 .. 4
          BY <4>2
        <5>. QED BY <5>1, <4>2, <2>2, <3>1 DEF Goto
      <4>. QED BY <4>1, <4>2
    <3>5. OnDisk'
      <4>. SUFFICES ASSUME NEW i \in Numbers, p[i][1] # 0 PROVE p[i][2] > 0 /\ p[i][1] + p[i][2] <= N
        BY <2>2 DEF OnDisk, Used
      <4>1. i \in 1 .. 4 /\ p[i] = <<Entry(i).lba, Entry(i).n>>
        BY <3>2
      <4>. QED BY <4>1, <3>1
    <3>6. /\ search' \in Searching /\ search \in Searching
          /\ sector' \in [0 .. (N - 1) -> Tables \cup {NoTable}] /\ findBuf' \in Tables \cup {NoTable}
          /\ findCount' \in 0 .. (Count - 5)
      BY <1>0, <3>4 DEF Searching, FindInv, FindTyped
    <3>7. search' # "mount" /\ search \notin {"closed", "mount"} /\ parts' \in [Numbers -> Nat \X Nat]
      BY <1>0, <3>4, <2>2, <3>3
    <3>. QED BY <1>0, <3>4, <3>5, <3>6, <3>7, SearchKeeps
  <2>. QED BY <1>2, <2>1, <2>2 DEF Primary
<1>. QED BY <1>1, <1>2 DEF Primary

LEMMA ChainKeeps == FindInv /\ ChainTable => FindInv'
<1>. SUFFICES ASSUME FindInv, ChainTable PROVE FindInv'
  OBVIOUS
<1>0. /\ search = "table" /\ UNCHANGED <<sector, findBuf, base, mounted, devices, access>>
      /\ parts \in [Numbers -> Nat \X Nat] /\ findCount \in 0 .. (Count - 5) /\ ebr \in Nat /\ base \in Nat
      /\ Count \in Nat /\ Count >= 5 /\ OnDisk /\ N \in Nat
  BY TableAssumption DEF ChainTable, FindInv, FindTyped
<1>. DEFINE e == Entry(1)
            off == ebr + e.lba
<1>1. CASE parts' = parts /\ search' \in {"done", "check"} /\ UNCHANGED <<ebr, findCount>>
  <2>1. OnDisk'
    BY <1>0, <1>1 DEF OnDisk, Used
  <2>. QED BY <1>0, <1>1, <2>1, SearchKeeps DEF FindInv, FindTyped, Searching
<1>2. CASE /\ ValidTable(findBuf, TRUE) /\ (e.type # "none" => Fits(off, e.n) /\ PartRoom(findCount + 1))
           /\ findCount' = (IF e.type # "none" THEN findCount + 1 ELSE findCount)
           /\ parts' = (IF e.type # "none" THEN [parts EXCEPT ![findCount + 5] = <<off, e.n>>] ELSE parts)
           /\ ebr' = (IF Entry(2).type = "ext" THEN base + Entry(2).lba ELSE ebr)
           /\ search' \in {"chain", "check"}
  <2>1. /\ e.lba \in Nat /\ e.n \in Nat /\ Entry(2).lba \in Nat
        /\ e.type # "none" => e.lba # 0 /\ e.n # 0
    <3>1. findBuf \in Tables /\ findBuf.ok
      BY <1>2 DEF ValidTable, FindInv, FindTyped, NoTable
    <3>2. \A i \in 1 .. 4 : findBuf.e[i].lba \in Nat /\ findBuf.e[i].n \in Nat
      BY <3>1, TableAssumption
    <3>3. 1 \in 1 .. 4 /\ 2 \in 1 .. 4
      OBVIOUS
    <3>. QED BY <3>2, <3>3, <1>2 DEF ValidTable, Entry
  <2>2. ebr' \in Nat
    BY <1>0, <1>2, <2>1
  <2>3. findCount' \in 0 .. (Count - 5)
    BY <1>0, <1>2 DEF PartRoom
  <2>4. off \in Nat /\ (e.type # "none" => off # 0 /\ off + e.n <= N /\ findCount + 5 \in Numbers)
    <3>1. e.type # "none" => off + e.n <= N /\ findCount + 1 + 4 < Count
      BY <1>2 DEF Fits, PartRoom
    <3>2. findCount \in Nat /\ findCount + 1 + 4 = findCount + 5
      BY <1>0
    <3>3. findCount + 1 + 4 < Count => findCount + 5 \in Numbers
      BY <1>0, <3>2 DEF Numbers
    <3>4. off \in Nat /\ (e.lba # 0 => off # 0)
      BY <1>0, <2>1
    <3>. QED BY <2>1, <3>1, <3>3, <3>4
  <2>. HIDE DEF off, e
  <2>5. parts' \in [Numbers -> Nat \X Nat]
    BY <1>0, <1>2, <2>1, <2>4
  <2>6. OnDisk'
    <3>. SUFFICES ASSUME NEW i \in Numbers, parts'[i][1] # 0
                  PROVE  parts'[i][2] > 0 /\ parts'[i][1] + parts'[i][2] <= N
      BY DEF OnDisk, Used
    <3>1. CASE parts'[i] = parts[i]
      BY <3>1, <1>0 DEF OnDisk, Used
    <3>2. CASE parts'[i] # parts[i]
      <4>1. e.type # "none" /\ parts'[i] = <<off, e.n>>
        BY <3>2, <1>0, <1>2
      <4>. QED BY <4>1, <2>1, <2>4
    <3>. QED BY <3>1, <3>2
  <2>7. /\ search' \in Searching /\ search \in Searching /\ search' # "mount" /\ search \notin {"closed", "mount"}
        /\ sector' \in [0 .. (N - 1) -> Tables \cup {NoTable}] /\ findBuf' \in Tables \cup {NoTable}
        /\ base' \in Nat
    BY <1>0, <1>2 DEF Searching, FindInv, FindTyped
  <2>. QED BY <1>0, <2>2, <2>3, <2>5, <2>6, <2>7, SearchKeeps
<1>. QED BY <1>0, <1>1, <1>2 DEF ChainTable, GiveUp, Goto

\* The least partition that is to be mounted.
LEMMA NextIs ==
  ASSUME Todo # {}
  PROVE  LET i == CHOOSE x \in Todo : \A y \in Todo : x <= y
         IN  i \in Used /\ i \notin mounted
<1>1. Todo \subseteq Nat
  BY DEF Todo, Used, Numbers
<1>2. PICK i \in Todo : \A y \in Todo : i <= y
  BY <1>1, LeastNat
<1>. DEFINE c == CHOOSE x \in Todo : \A y \in Todo : x <= y
<1>3. c \in Todo
  BY <1>2
<1>. HIDE DEF c
<1>4. c \in Nat /\ c \in Used /\ (\A j \in mounted : c > j)
  BY <1>1, <1>3 DEF Todo
<1>5. c \notin mounted
  BY <1>4
<1>. QED BY <1>4, <1>5 DEF c

LEMMA MountPartKeeps == FindInv /\ MountPart => FindInv'
<1>. SUFFICES ASSUME FindInv, MountPart PROVE FindInv'
  OBVIOUS
<1>. DEFINE i == CHOOSE x \in Todo : \A y \in Todo : x <= y
<1>0. /\ search = "mount" /\ i \in Used /\ i \notin mounted
      /\ UNCHANGED <<sector, findBuf, ebr, base, findCount, access>>
  BY NextIs DEF MountPart
<1>1. \/ mounted' = mounted \cup {i} /\ devices' = devices + 1 /\ UNCHANGED <<search, parts>>
      \/ parts' = [parts EXCEPT ![i] = <<0, 0>>] /\ UNCHANGED <<search, mounted, devices>>
      \/ search' = "done" /\ UNCHANGED <<parts, mounted, devices>>
  BY DEF MountPart, Take, GiveUp
<1>. HIDE DEF i
<1>2. parts \in [Numbers -> Nat \X Nat] /\ mounted \subseteq Used /\ IsFiniteSet(mounted) /\ devices \in Int
  BY DEF FindInv, FindTyped
<1>3. CASE mounted' = mounted \cup {i} /\ devices' = devices + 1 /\ UNCHANGED <<search, parts>>
  <2>1. IsFiniteSet(mounted') /\ Cardinality(mounted') = Cardinality(mounted) + 1
    BY <1>0, <1>2, <1>3, FS_AddElement
  <2>2. FindTyped'
    BY <1>0, <1>2, <1>3, <2>1 DEF FindInv, FindTyped, Used
  <2>3. OnDisk' /\ Apart'
    BY <1>0, <1>3 DEF FindInv, OnDisk, Apart, Used, Clash
  <2>4. Cardinality(mounted) \in Nat
    BY <1>2, FS_CardinalityType
  <2>5. DeviceHeld'
    <3>1. devices = Cardinality(mounted) + 1
      BY <1>0 DEF FindInv, DeviceHeld
    <3>2. devices' = Cardinality(mounted') + 1
      BY <3>1, <2>1, <2>4, <1>3
    <3>. QED BY <3>2, <1>0, <1>3 DEF DeviceHeld
  <2>6. mounted' # {} => search' \notin Searching
    BY <1>0, <1>3 DEF Searching
  <2>7. (access' # NoAccess => access'.part \in mounted') /\ AccessInside'
    BY <1>0, <1>3 DEF FindInv, AccessInside
  <2>. QED BY <2>2, <2>3, <2>5, <2>6, <2>7 DEF FindInv
<1>4. CASE parts' = [parts EXCEPT ![i] = <<0, 0>>] /\ UNCHANGED <<search, mounted, devices>>
  <2>1. /\ parts' \in [Numbers -> Nat \X Nat] /\ Used' = Used \ {i} /\ parts'[i] = <<0, 0>>
        /\ \A j \in Numbers : j # i => parts'[j] = parts[j]
    BY <1>0, <1>2, <1>4 DEF Used
  <2>2. FindTyped'
    BY <1>0, <1>2, <1>4, <2>1 DEF FindInv, FindTyped
  <2>3. OnDisk'
    BY <2>1 DEF FindInv, OnDisk, Used
  <2>4. ASSUME NEW j \in Used', NEW k \in Numbers PROVE ~Clash(j, k)'
    <3>1. j \in Used /\ j # i /\ parts'[j] = parts[j] /\ parts[j] \in Nat \X Nat /\ parts[j][1] # 0
      BY <1>2, <2>1 DEF Used
    <3>2. CASE k = i
      BY <3>1, <3>2, <2>1 DEF Clash
    <3>3. CASE k # i
      <4>1. ~Clash(j, k) /\ parts'[k] = parts[k]
        BY <1>0, <3>1, <3>3, <2>1 DEF FindInv, Apart
      <4>. QED BY <4>1, <3>1 DEF Clash
    <3>. QED BY <3>2, <3>3
  <2>5. Apart'
    BY <2>4, <1>2 DEF Apart
  <2>6. DeviceHeld' /\ (mounted' # {} => search' \notin Searching)
    BY <1>4 DEF FindInv, DeviceHeld
  <2>7. (access' # NoAccess => access'.part \in mounted') /\ AccessInside'
    <3>. SUFFICES ASSUME access # NoAccess PROVE access.part \in mounted /\ AccessInside'
      BY <1>0, <1>4 DEF AccessInside
    <3>1. access.part \in mounted /\ access.part # i /\ access.part \in Numbers
      BY <1>0, <1>2 DEF FindInv, Used
    <3>2. parts'[access.part] = parts[access.part]
      BY <3>1, <2>1
    <3>. QED BY <1>0, <3>1, <3>2 DEF FindInv, AccessInside
  <2>. QED BY <2>2, <2>3, <2>5, <2>6, <2>7 DEF FindInv
<1>5. CASE search' = "done" /\ UNCHANGED <<parts, mounted, devices>>
  BY <1>0, <1>5 DEF FindInv, FindTyped, OnDisk, Apart, DeviceHeld, AccessInside, Used, Clash, Searching
<1>. QED BY <1>1, <1>3, <1>4, <1>5

LEMMA UnmountKeeps == FindInv /\ Unmount => FindInv'
<1>. SUFFICES ASSUME FindInv, Unmount PROVE FindInv'
  OBVIOUS
<1>1. PICK i \in mounted : mounted' = mounted \ {i}
  BY DEF Unmount
<1>2. /\ search = "closed" /\ devices' = devices - 1 /\ access' = NoAccess
      /\ UNCHANGED <<search, sector, findBuf, parts, ebr, base, findCount>>
  BY DEF Unmount
<1>3. /\ mounted \subseteq Used /\ IsFiniteSet(mounted) /\ devices \in Int /\ devices = Cardinality(mounted)
  <2>1. /\ mounted \subseteq Used /\ IsFiniteSet(mounted) /\ devices \in Int
        /\ devices = Cardinality(mounted) + (IF search = "closed" THEN 0 ELSE 1)
    BY DEF FindInv, FindTyped, DeviceHeld
  <2>2. Cardinality(mounted) \in Nat
    BY <2>1, FS_CardinalityType
  <2>3. devices = Cardinality(mounted) + 0
    BY <2>1, <1>2
  <2>. QED BY <2>1, <2>2, <2>3
<1>4. IsFiniteSet(mounted') /\ Cardinality(mounted') = Cardinality(mounted) - 1
  BY <1>1, <1>3, FS_RemoveElement
<1>5. FindTyped'
  BY <1>1, <1>2, <1>3, <1>4 DEF FindInv, FindTyped, Used
<1>6. OnDisk' /\ Apart' /\ (mounted' # {} => search' \notin Searching)
  BY <1>1, <1>2 DEF FindInv, OnDisk, Apart, Used, Clash, Searching
<1>7. DeviceHeld'
  <2>1. Cardinality(mounted) \in Nat
    BY <1>3, FS_CardinalityType
  <2>2. devices' = Cardinality(mounted') + 0
    BY <2>1, <1>2, <1>3, <1>4
  <2>. QED BY <2>2, <1>2 DEF DeviceHeld
<1>8. AccessInside'
  BY <1>2 DEF AccessInside
<1>. QED BY <1>2, <1>5, <1>6, <1>7, <1>8 DEF FindInv

LEMMA AccessKeeps == FindInv /\ Access => FindInv'
<1>. SUFFICES ASSUME FindInv, Access PROVE FindInv'
  OBVIOUS
<1>1. PICK i \in mounted, off \in 0 .. N, n \in 1 .. N : access' = Args(i, off, n)
  BY DEF Access
<1>2. UNCHANGED <<search, sector, findBuf, parts, ebr, base, findCount, mounted, devices>>
  BY DEF Access
<1>3. i \in Numbers /\ parts \in [Numbers -> Nat \X Nat] /\ parts[i] \in Nat \X Nat /\ N \in Nat
  BY TableAssumption DEF FindInv, FindTyped, Used
<1>4. access' # NoAccess => /\ access'.part = i /\ access'.from >= parts[i][1]
                            /\ access'.from + access'.n <= parts[i][1] + parts[i][2]
  <2>. DEFINE a == parts[i][1]
              b == parts[i][2]
  <2>1. a \in Nat /\ b \in Nat /\ off \in Nat /\ n \in Nat
    BY <1>3
  <2>2. access' = IF off >= b THEN NoAccess
                  ELSE [part |-> i, from |-> a + off, n |-> IF n > b - off THEN b - off ELSE n]
    BY <1>1 DEF Args
  <2>. HIDE DEF a, b
  <2>3. CASE off < b
    <3>. DEFINE m == IF n > b - off THEN b - off ELSE n
    <3>1. m \in Nat /\ m <= b - off /\ a + off + m <= a + b /\ a + off >= a
      BY <2>1, <2>3
    <3>. HIDE DEF m
    <3>2. access' = [part |-> i, from |-> a + off, n |-> m]
      BY <2>1, <2>2, <2>3 DEF m
    <3>. QED BY <3>1, <3>2 DEF a, b
  <2>4. CASE off >= b
    BY <2>2, <2>4
  <2>. QED BY <2>1, <2>3, <2>4
<1>5. AccessInside' /\ (access' # NoAccess => access'.part \in mounted')
  BY <1>2, <1>4 DEF AccessInside
<1>6. FindTyped' /\ OnDisk' /\ Apart' /\ DeviceHeld' /\ (mounted' # {} => search' \notin Searching)
  BY <1>2 DEF FindInv, FindTyped, OnDisk, Apart, DeviceHeld, Used, Clash
<1>. QED BY <1>5, <1>6 DEF FindInv

LEMMA FindNext == FindInv /\ PartNext => FindInv'
<1>. SUFFICES ASSUME FindInv, PartNext PROVE FindInv'
  OBVIOUS
<1>0. /\ sector \in [0 .. (N - 1) -> Tables \cup {NoTable}] /\ findBuf \in Tables \cup {NoTable}
      /\ parts \in [Numbers -> Nat \X Nat] /\ findCount \in 0 .. (Count - 5) /\ ebr \in Nat /\ base \in Nat
      /\ OnDisk
  BY DEF FindInv, FindTyped
<1>1. parts' = parts => OnDisk'
  BY <1>0 DEF OnDisk, Used
<1>2. CASE ReadGuid
  <2>1. search = "guid" /\ search' \in {"first", "done"}
        /\ UNCHANGED <<sector, findBuf, parts, ebr, base, findCount, mounted, devices, access>>
    BY <1>2 DEF ReadGuid, Goto, GiveUp
  <2>. QED BY <1>0, <1>1, <2>1, SearchKeeps DEF Searching
<1>3. CASE ReadFirst
  <2>1. search = "first" /\ ReadSector(0, "primary")
        /\ UNCHANGED <<parts, ebr, base, findCount, mounted, devices, access>>
    BY <1>3 DEF ReadFirst
  <2>2. /\ search' \in {"primary", "done"}
        /\ sector' \in [0 .. (N - 1) -> Tables \cup {NoTable}] /\ findBuf' \in Tables \cup {NoTable}
    BY <2>1, ReadKeeps
  <2>. QED BY <1>0, <1>1, <2>1, <2>2, SearchKeeps DEF Searching
<1>4. CASE Primary
  BY <1>4, PrimaryKeeps
<1>5. CASE ReadChain
  <2>1. search = "chain" /\ ReadSector(ebr, "table")
        /\ UNCHANGED <<parts, ebr, base, findCount, mounted, devices, access>>
    BY <1>5 DEF ReadChain
  <2>2. /\ search' \in {"table", "done"}
        /\ sector' \in [0 .. (N - 1) -> Tables \cup {NoTable}] /\ findBuf' \in Tables \cup {NoTable}
    BY <1>0, <2>1, ReadKeeps
  <2>. QED BY <1>0, <1>1, <2>1, <2>2, SearchKeeps DEF Searching
<1>6. CASE ChainTable
  BY <1>6, ChainKeeps
<1>7. CASE Check
  <2>1. search = "check" /\ search' \in {"mount", "done"}
        /\ UNCHANGED <<sector, findBuf, parts, ebr, base, findCount, mounted, devices, access>>
        /\ (search' = "mount" => \A i \in Used, j \in Numbers : ~Clash(i, j))
    BY <1>7 DEF Check, Goto, GiveUp
  <2>. QED BY <1>0, <1>1, <2>1, SearchKeeps DEF Searching
<1>8. CASE MountPart
  BY <1>8, MountPartKeeps
<1>9. CASE MountEnd
  <2>1. search = "mount" /\ search' = "done"
        /\ UNCHANGED <<sector, findBuf, parts, ebr, base, findCount, mounted, devices, access>>
    BY <1>9 DEF MountEnd, GiveUp
  <2>. QED BY <2>1 DEF FindInv, FindTyped, OnDisk, Apart, DeviceHeld, AccessInside, Used, Clash, Searching
<1>10. CASE Close
  <2>1. /\ search = "done" /\ search' = "closed" /\ devices' = devices - 1 /\ findBuf' = NoTable
        /\ sector' = [l \in 0 .. (N - 1) |-> NoTable] /\ UNCHANGED <<parts, ebr, base, findCount, mounted, access>>
    BY <1>10 DEF Close
  <2>2. FindTyped'
    BY <2>1 DEF FindInv, FindTyped, Used, Searching
  <2>3. DeviceHeld'
    <3>1. devices = Cardinality(mounted) + 1 /\ Cardinality(mounted) \in Nat
      BY <2>1, FS_CardinalityType DEF FindInv, FindTyped, DeviceHeld
    <3>2. devices' = Cardinality(mounted) + 0
      BY <3>1, <2>1
    <3>. QED BY <3>2, <2>1 DEF DeviceHeld
  <2>. QED BY <2>1, <2>2, <2>3 DEF FindInv, OnDisk, Apart, AccessInside, Used, Clash, Searching
<1>11. CASE Unmount
  BY <1>11, UnmountKeeps
<1>12. CASE Access
  BY <1>12, AccessKeeps
<1>. QED BY <1>2, <1>3, <1>4, <1>5, <1>6, <1>7, <1>8, <1>9, <1>10, <1>11, <1>12 DEF PartNext, Search

\* Partitions that are mounted lie on the disk and apart.
LEMMA MountedApart == FindInv => Disjoint
<1>. SUFFICES ASSUME FindInv PROVE Disjoint
  OBVIOUS
<1>1. mounted \subseteq Used /\ parts \in [Numbers -> Nat \X Nat] /\ N \in Nat /\ Used \subseteq Numbers
  BY TableAssumption DEF FindInv, FindTyped, Used
<1>2. ASSUME NEW i \in mounted
      PROVE  parts[i][1] \in 1 .. (N - 1) /\ parts[i][2] > 0 /\ parts[i][1] + parts[i][2] <= N
  <2>1. parts[i] \in Nat \X Nat /\ parts[i][1] # 0 /\ parts[i][2] > 0 /\ parts[i][1] + parts[i][2] <= N
    BY <1>1 DEF FindInv, OnDisk, Used
  <2>. DEFINE a == parts[i][1]
              b == parts[i][2]
  <2>2. a \in Nat /\ b \in Nat /\ a # 0 /\ b > 0 /\ a + b <= N
    BY <2>1
  <2>. HIDE DEF a, b
  <2>3. a \in 1 .. (N - 1)
    BY <1>1, <2>2
  <2>. QED BY <2>2, <2>3 DEF a, b
<1>3. ASSUME NEW i \in mounted, NEW j \in mounted, i # j
      PROVE  parts[i][1] + parts[i][2] <= parts[j][1] \/ parts[j][1] + parts[j][2] <= parts[i][1]
  <2>1. ~Clash(i, j) /\ ~Clash(j, i)
    BY <1>1, <1>3 DEF FindInv, Apart
  <2>2. parts[i] \in Nat \X Nat /\ parts[j] \in Nat \X Nat
    BY <1>1
  <2>. DEFINE a == parts[i][1]
              b == parts[i][2]
              c == parts[j][1]
              d == parts[j][2]
  <2>3. a \in Nat /\ b \in Nat /\ c \in Nat /\ d \in Nat
    BY <2>2
  <2>4. a # c /\ ~(c < a /\ c + d > a) /\ ~(a < c /\ a + b > c)
    BY <1>3, <2>1 DEF Clash
  <2>. HIDE DEF a, b, c, d
  <2>5. a + b <= c \/ c + d <= a
    BY <2>3, <2>4
  <2>. QED BY <2>5 DEF a, b, c, d
<1>. QED BY <1>2, <1>3 DEF Disjoint

-----------------------------------------------------------------------------
(***************************************************************************)
(* The order of the devices.                                               *)
(***************************************************************************)
Ordered(S) ==
  /\ \A d \in S : d.disk \in Nat /\ d.part \in Nat
  /\ \A d, e \in S : d.disk = e.disk /\ d.part = e.part => d = e

\* What comes first: by the number of a primary partition, then by disk.
LEMMA BeforeIs ==
  ASSUME NEW a, a.part \in Nat
  PROVE  /\ Priority(a) \in 1 .. 5 /\ Digits(a) \in 0 .. 2
         /\ a.part \in 1 .. 4 => Priority(a) = a.part
         /\ a.part \notin 1 .. 4 => Priority(a) = 5
BY DEF Priority, Digits

LEMMA BeforeTotal ==
  ASSUME NEW S, Ordered(S), NEW a \in S, NEW b \in S
  PROVE  Before(a, b) \/ Before(b, a) \/ a = b
<1>1. /\ a.disk \in Nat /\ b.disk \in Nat /\ a.part \in Nat /\ b.part \in Nat
      /\ a.disk = b.disk /\ a.part = b.part => a = b
  BY DEF Ordered
<1>2. Priority(a) \in Int /\ Priority(b) \in Int /\ Digits(a) \in Int /\ Digits(b) \in Int
  BY <1>1, BeforeIs
<1>. QED BY <1>1, <1>2 DEF Before

LEMMA BeforeStrict ==
  ASSUME NEW S, Ordered(S), NEW a \in S
  PROVE  ~Before(a, a)
<1>1. Priority(a) \in Int /\ Digits(a) \in Int /\ a.disk \in Int /\ a.part \in Int
  BY BeforeIs DEF Ordered
<1>. QED BY <1>1 DEF Before

LEMMA BeforeTransitive ==
  ASSUME NEW S, Ordered(S), NEW a \in S, NEW b \in S, NEW c \in S, Before(a, b), Before(b, c)
  PROVE  Before(a, c)
<1>1. /\ Priority(a) \in Int /\ Priority(b) \in Int /\ Priority(c) \in Int
      /\ Digits(a) \in Int /\ Digits(b) \in Int /\ Digits(c) \in Int
      /\ a.disk \in Int /\ b.disk \in Int /\ c.disk \in Int
      /\ a.part \in Int /\ b.part \in Int /\ c.part \in Int
  BY BeforeIs DEF Ordered
<1>. QED BY <1>1 DEF Before

LEMMA CountTo ==
  ASSUME NEW n \in Nat
  PROVE  /\ IsFiniteSet(1 .. n) /\ Cardinality(1 .. n) = n
         /\ IsFiniteSet(0 .. (n - 1)) /\ Cardinality(0 .. (n - 1)) = n
<1>1. IsFiniteSet(1 .. n) /\ Cardinality(1 .. n) = IF 1 > n THEN 0 ELSE n - 1 + 1
  BY FS_Interval
<1>. DEFINE m == n - 1
<1>2. m \in Int
  OBVIOUS
<1>. HIDE DEF m
<1>3. IsFiniteSet(0 .. m) /\ Cardinality(0 .. m) = IF 0 > m THEN 0 ELSE m - 0 + 1
  BY <1>2, FS_Interval
<1>4. (IF 0 > m THEN 0 ELSE m - 0 + 1) = n
  BY DEF m
<1>. QED BY <1>1, <1>3, <1>4 DEF m

\* The number of devices that come before one is its place, and every place
\* is taken: what Sort chooses exists.
Rank(S, d) == Cardinality({x \in S : Before(x, d)})

LEMMA RankGrows ==
  ASSUME NEW S, IsFiniteSet(S), Ordered(S), NEW a \in S, NEW b \in S, Before(a, b)
  PROVE  Rank(S, a) < Rank(S, b)
<1>. DEFINE A == {x \in S : Before(x, a)}
            B == {x \in S : Before(x, b)}
<1>1. A \subseteq B /\ a \in B /\ a \notin A
  BY BeforeTransitive, BeforeStrict
<1>2. IsFiniteSet(B) /\ B \subseteq S
  BY FS_Subset
<1>3. IsFiniteSet(A) /\ Cardinality(A) <= Cardinality(B) /\ Cardinality(A) # Cardinality(B)
  BY <1>1, <1>2, FS_Subset
<1>4. Cardinality(A) \in Nat /\ Cardinality(B) \in Nat
  BY <1>2, <1>3, FS_CardinalityType
<1>. QED BY <1>3, <1>4 DEF Rank

LEMMA RankBound ==
  ASSUME NEW S, IsFiniteSet(S), Ordered(S), NEW a \in S
  PROVE  Rank(S, a) \in 0 .. (Cardinality(S) - 1)
<1>. DEFINE A == {x \in S : Before(x, a)}
<1>1. A \in SUBSET S /\ A # S
  BY BeforeStrict
<1>2. IsFiniteSet(A) /\ Cardinality(A) <= Cardinality(S) /\ Cardinality(A) # Cardinality(S)
  BY <1>1, FS_Subset
<1>3. Cardinality(A) \in Nat /\ Cardinality(S) \in Nat
  BY <1>2, FS_CardinalityType
<1>. QED BY <1>2, <1>3 DEF Rank

LEMMA RankTaken ==
  ASSUME NEW S, IsFiniteSet(S), Ordered(S), NEW n \in 0 .. (Cardinality(S) - 1)
  PROVE  \E d \in S : Rank(S, d) = n
<1>. DEFINE f == [d \in S |-> Rank(S, d)]
            T == 0 .. (Cardinality(S) - 1)
<1>1. f \in [S -> T]
  BY RankBound
<1>2. ASSUME NEW a \in S, NEW b \in S, f[a] = f[b] PROVE a = b
  <2>1. Rank(S, a) = Rank(S, b) /\ Rank(S, a) \in Int /\ Rank(S, b) \in Int
    BY <1>2, RankBound
  <2>2. ~Before(a, b) /\ ~Before(b, a)
    BY <2>1, RankGrows
  <2>. QED BY <2>2, BeforeTotal
<1>3. f \in Injection(S, T)
  BY <1>1, <1>2 DEF Injection, IsInjective
<1>4. Cardinality(S) \in Nat
  BY FS_CardinalityType
<1>5. IsFiniteSet(T) /\ Cardinality(T) = Cardinality(S)
  BY <1>4, CountTo
<1>6. f \in Surjection(S, T)
  BY <1>3, <1>5, FS_Injection
<1>. QED BY <1>6 DEF Surjection

-----------------------------------------------------------------------------
(***************************************************************************)
(* Mounting.  The devices are taken in the order of the list; a volume     *)
(* that has a mount point is behind the place the loop has reached.        *)
(***************************************************************************)
MountTyped ==
  /\ devs \in Devices /\ stage \in {"collect", "sort", "mount", "done"}
  /\ list \in Seq(devs) /\ Len(list) <= Room
  /\ at \in 1 .. (Len(list) + 1) /\ letter \in 0 .. Letters /\ named \subseteq Labels

ListOnce == \A i, j \in 1 .. Len(list) : list[i] = list[j] => i = j

ListSorted ==
  stage = "mount" \/ mnt # {} => \A i, j \in 1 .. Len(list) : i < j => Before(list[i], list[j])

\* The place of a mount was given away, and its device was reached.
Placed(x) ==
  \/ x[2].label \in named /\ x[1] = <<"label", x[2].label>>
  \/ \E k \in 1 .. letter : x[1] = <<"letter", k>>
Reached(x) == \E i \in 1 .. Len(list) : i < at /\ x[2] = list[i] /\ list[i].fs = "fat"

LettersFollow ==
  \A x, y \in mnt : x[1][1] = "letter" /\ y[1][1] = "letter" /\ x[1][2] < y[1][2] =>
      \A i, j \in 1 .. Len(list) : x[2] = list[i] /\ y[2] = list[j] => i < j

\* The loop has passed over no volume.
NonePassed ==
  /\ stage = "mount" =>
       \A i \in 1 .. Len(list) : i < at /\ list[i].fs = "fat" => \E x \in mnt : x[2] = list[i]
  /\ stage = "done" /\ ~volumeErr /\ letter < Letters =>
       \A i \in 1 .. Len(list) : list[i].fs = "fat" => \E x \in mnt : x[2] = list[i]

MountInv ==
  /\ MountTyped /\ ListOnce /\ ListSorted
  /\ \A x \in mnt : Placed(x) /\ Reached(x)
  /\ OneEach /\ LettersFollow /\ NonePassed /\ NoEmptyPlace
  /\ stage \in {"collect", "sort"} => mnt = {} /\ at = 1

LEMMA MountStays == MountInv /\ UNCHANGED mountVars => MountInv'
BY DEF mountVars, MountInv, MountTyped, ListOnce, ListSorted, Placed, Reached, OneEach, LettersFollow,
       NonePassed, NoEmptyPlace

LEMMA MountStart == MountInit => MountInv
<1>. SUFFICES ASSUME MountInit PROVE MountInv
  OBVIOUS
<1>1. /\ devs \in Devices /\ list = <<>> /\ stage = "collect" /\ at = 1 /\ letter = 0
      /\ named = {} /\ mnt = {} /\ dirs = {} /\ volumeErr = FALSE
  BY DEF MountInit
<1>2. list \in Seq(devs) /\ Len(list) = 0
  BY <1>1
<1>3. MountTyped
  BY <1>1, <1>2, VolumeAssumption DEF MountTyped
<1>4. ListOnce /\ ListSorted /\ LettersFollow /\ NonePassed /\ NoEmptyPlace /\ OneEach
  BY <1>1, <1>2 DEF ListOnce, ListSorted, LettersFollow, NonePassed, NoEmptyPlace, OneEach
<1>. QED BY <1>1, <1>3, <1>4 DEF MountInv

\* A step that leaves the mounts and the list alone.
LEMMA OverKeeps ==
  ASSUME MountInv, UNCHANGED <<devs, list, letter, named, mnt, dirs>>,
         stage' \in {"collect", "sort", "mount", "done"}, at' \in 1 .. (Len(list) + 1), at <= at',
         stage' \in {"mount", "sort", "collect"} => stage' = stage,
         stage' \in {"collect", "sort"} => at' = at,
         NonePassed'
  PROVE  MountInv'
<1>0. MountTyped /\ Len(list) \in Nat /\ at \in Nat
  <2>1. MountTyped
    BY DEF MountInv
  <2>. QED BY <2>1 DEF MountTyped
<1>1. MountTyped'
  BY <1>0 DEF MountTyped
<1>2. ListOnce' /\ ListSorted' /\ LettersFollow' /\ NoEmptyPlace' /\ OneEach'
  BY DEF MountInv, ListOnce, ListSorted, LettersFollow, NoEmptyPlace, OneEach
<1>3. ASSUME NEW x \in mnt PROVE Placed(x)' /\ Reached(x)'
  <2>1. Placed(x)'
    BY DEF MountInv, Placed
  <2>2. PICK i \in 1 .. Len(list) : i < at /\ x[2] = list[i] /\ list[i].fs = "fat"
    BY DEF MountInv, Reached
  <2>3. i < at'
    BY <1>0, <2>2
  <2>. QED BY <2>1, <2>2, <2>3 DEF Reached
<1>4. stage' \in {"collect", "sort"} => mnt' = {} /\ at' = 1
  BY DEF MountInv
<1>. QED BY <1>1, <1>2, <1>3, <1>4 DEF MountInv

LEMMA CollectKeeps == MountInv /\ Collect => MountInv'
<1>. SUFFICES ASSUME MountInv, Collect PROVE MountInv'
  OBVIOUS
<1>0. /\ stage = "collect" /\ mnt = {} /\ at = 1 /\ MountTyped /\ ListOnce /\ dirs = {}
      /\ UNCHANGED <<devs, at, letter, named, mnt, dirs, volumeErr>>
  BY DEF Collect, MountInv, NoEmptyPlace
<1>1. list \in Seq(devs) /\ Len(list) \in Nat
  BY <1>0 DEF MountTyped
<1>2. CASE /\ Listed = devs \/ Len(list) = Room
           /\ stage' = "sort" /\ UNCHANGED list
  <2>1. MountTyped' /\ ListOnce'
    BY <1>0, <1>2 DEF MountTyped, ListOnce
  <2>. QED BY <1>0, <1>2, <2>1
           DEF MountInv, ListSorted, OneEach, LettersFollow, NonePassed, NoEmptyPlace
<1>3. ASSUME NEW d \in devs \ Listed, Len(list) < Room, list' = Append(list, d), UNCHANGED stage
      PROVE  MountInv'
  <2>1. /\ list' \in Seq(devs) /\ Len(list') = Len(list) + 1 /\ list'[Len(list) + 1] = d
        /\ \A i \in 1 .. Len(list) : list'[i] = list[i]
    BY <1>1, <1>3
  <2>2. at \in 1 .. (Len(list') + 1) /\ Len(list') <= Room
    BY <1>0, <1>1, <1>3, <2>1, VolumeAssumption
  <2>3. MountTyped'
    BY <1>0, <1>3, <2>1, <2>2 DEF MountTyped
  <2>4. ASSUME NEW i \in 1 .. Len(list'), NEW j \in 1 .. Len(list'), list'[i] = list'[j] PROVE i = j
    <3>1. \A k \in 1 .. Len(list) : list'[k] # d
      BY <1>3, <2>1 DEF Listed
    <3>2. i \in 1 .. Len(list) \/ i = Len(list) + 1
      BY <1>1, <2>1
    <3>3. j \in 1 .. Len(list) \/ j = Len(list) + 1
      BY <1>1, <2>1
    <3>. QED BY <2>1, <2>4, <3>1, <3>2, <3>3, <1>0 DEF ListOnce
  <2>5. ListOnce'
    BY <2>4 DEF ListOnce
  <2>. QED BY <1>0, <1>3, <2>3, <2>5
           DEF MountInv, ListSorted, OneEach, LettersFollow, NonePassed, NoEmptyPlace
<1>. QED BY <1>2, <1>3 DEF Collect

\* The list is put into order, and stays a list of the same length.
LEMMA SortKeeps == MountInv /\ Sort => MountInv'
<1>. SUFFICES ASSUME MountInv, Sort PROVE MountInv'
  OBVIOUS
<1>0. /\ stage = "sort" /\ stage' = "mount" /\ at' = 1 /\ mnt = {} /\ dirs = {} /\ MountTyped /\ ListOnce
      /\ UNCHANGED <<devs, letter, named, mnt, dirs, volumeErr>>
      /\ list' = [n \in 1 .. Len(list) |-> CHOOSE d \in Listed : Rank(Listed, d) = n - 1]
  BY DEF Sort, MountInv, NoEmptyPlace, Rank
<1>1. list \in Seq(devs) /\ Len(list) \in Nat /\ devs \in Devices
  BY <1>0 DEF MountTyped
<1>. DEFINE S == Listed
            f == [i \in 1 .. Len(list) |-> list[i]]
<1>2. S \subseteq devs /\ Ordered(S)
  <2>1. S \subseteq devs
    BY <1>1 DEF Listed
  <2>2. Ordered(devs)
    BY <1>1, VolumeAssumption DEF Ordered
  <2>. QED BY <2>1, <2>2 DEF Ordered
<1>3. IsFiniteSet(S) /\ Cardinality(S) = Len(list)
  <2>1. f \in Bijection(1 .. Len(list), S)
    BY <1>0 DEF ListOnce, Listed, Bijection, Injection, Surjection, IsInjective
  <2>2. ExistsBijection(1 .. Len(list), S)
    BY <2>1 DEF ExistsBijection
  <2>3. IsFiniteSet(1 .. Len(list)) /\ Cardinality(1 .. Len(list)) = Len(list)
    BY <1>1, CountTo
  <2>. QED BY <2>2, <2>3, FS_Bijection
<1>. HIDE DEF S, f
<1>4. ASSUME NEW n \in 1 .. Len(list)
      PROVE  list'[n] \in S /\ Rank(S, list'[n]) = n - 1
  <2>1. n - 1 \in 0 .. (Cardinality(S) - 1)
    BY <1>1, <1>3
  <2>2. \E d \in S : Rank(S, d) = n - 1
    BY <1>2, <1>3, <2>1, RankTaken
  <2>3. list'[n] = CHOOSE d \in S : Rank(S, d) = n - 1
    BY <1>0 DEF S
  <2>. QED BY <2>2, <2>3
<1>5. list' \in Seq(devs) /\ Len(list') = Len(list)
  <2>1. \A n \in 1 .. Len(list) : list'[n] \in devs
    BY <1>2, <1>4
  <2>2. list' \in [1 .. Len(list) -> devs]
    BY <1>0, <2>1
  <2>. QED BY <1>1, <2>2
<1>6. MountTyped'
  BY <1>0, <1>1, <1>5 DEF MountTyped
<1>7. ASSUME NEW i \in 1 .. Len(list), NEW j \in 1 .. Len(list), list'[i] = list'[j] PROVE i = j
  BY <1>4, <1>7
<1>8. ASSUME NEW i \in 1 .. Len(list), NEW j \in 1 .. Len(list), i < j PROVE Before(list'[i], list'[j])
  <2>1. Rank(S, list'[i]) = i - 1 /\ Rank(S, list'[j]) = j - 1 /\ list'[i] \in S /\ list'[j] \in S
    BY <1>4
  <2>2. ~Before(list'[j], list'[i])
    <3>1. ~(j - 1 < i - 1)
      BY <1>8
    <3>. QED BY <2>1, <3>1, <1>2, <1>3, RankGrows
  <2>3. list'[i] # list'[j]
    BY <1>7, <1>8
  <2>. QED BY <1>2, <2>1, <2>2, <2>3, BeforeTotal
<1>9. ListOnce' /\ ListSorted'
  BY <1>5, <1>7, <1>8 DEF ListOnce, ListSorted
<1>10. NonePassed'
  BY <1>0 DEF NonePassed
<1>. QED BY <1>0, <1>6, <1>9, <1>10 DEF MountInv, OneEach, LettersFollow, NoEmptyPlace

\* A place that a device may be given.
PlaceFor(n, d) ==
  \/ d.label \in Labels \ named /\ n = <<"label", d.label>>
  \/ n = <<"letter", letter + 1>>

LEMMA NameIs == ASSUME NEW d PROVE PlaceFor(NameOf(d), d)
BY DEF NameOf, PlaceFor

\* Such a place is not taken.
LEMMA PlaceIsFree ==
  ASSUME MountInv, NEW d, NEW n, PlaceFor(n, d), NEW x \in mnt
  PROVE  x[1] # n
<1>1. letter \in Int
  BY DEF MountInv, MountTyped
<1>2. \/ x[2].label \in named /\ x[1] = <<"label", x[2].label>>
      \/ \E k \in 1 .. letter : x[1] = <<"letter", k>>
  BY DEF MountInv, Placed
<1>. QED BY <1>1, <1>2 DEF PlaceFor

LEMMA DriveKeeps == MountInv /\ MountDrive => MountInv'
<1>. SUFFICES ASSUME MountInv, MountDrive PROVE MountInv'
  OBVIOUS
<1>. DEFINE d == list[at]
            n == NameOf(list[at])
<1>0. /\ stage = "mount" /\ at <= Len(list) /\ letter < Letters /\ d.fs = "fat" /\ UNCHANGED <<devs, list>>
      /\ named' = IF n[1] = "label" THEN named \cup {d.label} ELSE named
      /\ letter' = IF n[1] = "letter" THEN letter + 1 ELSE letter
      /\ \/ mnt' = mnt \cup {<<n, d>>} /\ dirs' = dirs \cup {n}
            /\ at' = at + 1 /\ UNCHANGED <<stage, volumeErr>>
         \/ mnt' = mnt /\ dirs' = Removed(n)
            /\ stage' = "done" /\ volumeErr' = TRUE /\ UNCHANGED at
  BY DEF MountDrive
<1>1. PlaceFor(n, d)
  BY NameIs
<1>. HIDE DEF n
<1>2. /\ \/ n = <<"label", d.label>> /\ d.label \in Labels /\ named' = named \cup {d.label} /\ letter' = letter
         \/ n = <<"letter", letter + 1>> /\ named' = named /\ letter' = letter + 1
  BY <1>0, <1>1 DEF PlaceFor
<1>3. /\ list \in Seq(devs) /\ Len(list) \in Nat /\ at \in 1 .. Len(list) /\ letter \in Nat /\ Letters \in Nat
      /\ MountTyped /\ ListOnce /\ ListSorted /\ named \subseteq Labels
  <2>1. MountTyped /\ ListOnce /\ ListSorted
    BY DEF MountInv
  <2>2. at \in 1 .. (Len(list) + 1) /\ Len(list) \in Nat
    BY <2>1 DEF MountTyped
  <2>. QED BY <1>0, <2>1, <2>2, VolumeAssumption DEF MountTyped
<1>. HIDE DEF d
<1>4. named' \subseteq Labels /\ letter' \in 0 .. Letters /\ named \subseteq named' /\ letter <= letter'
      /\ 1 .. letter \subseteq 1 .. letter'
  BY <1>0, <1>2, <1>3
<1>5. MountTyped' /\ ListOnce' /\ ListSorted' /\ at <= at'
  <2>1. at' \in 1 .. (Len(list) + 1) /\ at <= at'
    BY <1>0, <1>3
  <2>2. stage' \in {"collect", "sort", "mount", "done"}
    BY <1>0
  <2>3. MountTyped'
    BY <2>1, <2>2, <1>0, <1>3, <1>4 DEF MountTyped
  <2>. QED BY <2>1, <2>3, <1>0, <1>3 DEF ListOnce, ListSorted
<1>6. ASSUME NEW x \in mnt PROVE Placed(x)' /\ Reached(x)'
  <2>1. Placed(x)'
    BY <1>4 DEF MountInv, Placed
  <2>2. PICK i \in 1 .. Len(list) : i < at /\ x[2] = list[i] /\ list[i].fs = "fat"
    BY DEF MountInv, Reached
  <2>3. i < at'
    BY <1>3, <1>5, <2>2, <1>0
  <2>. QED BY <1>0, <2>1, <2>2, <2>3 DEF Reached
<1>7. CASE mnt' = mnt /\ dirs' = Removed(n) /\ stage' = "done" /\ volumeErr' = TRUE /\ UNCHANGED at
  <2>1. NoEmptyPlace'
    <3>1. n \notin dirs
      BY <1>1, PlaceIsFree DEF MountInv, NoEmptyPlace
    <3>2. dirs' = dirs
      BY <1>7, <3>1 DEF Removed
    <3>. QED BY <1>7, <3>2 DEF MountInv, NoEmptyPlace
  <2>2. OneEach' /\ LettersFollow' /\ NonePassed'
    BY <1>0, <1>7 DEF MountInv, OneEach, LettersFollow, NonePassed
  <2>. QED BY <1>5, <1>6, <1>7, <2>1, <2>2 DEF MountInv
<1>8. CASE mnt' = mnt \cup {<<n, d>>} /\ dirs' = dirs \cup {n} /\ at' = at + 1 /\ UNCHANGED <<stage, volumeErr>>
  <2>00. PICK new : new = <<n, d>>
    OBVIOUS
  <2>0. new[1] = n /\ new[2] = d /\ d = list[at] /\ d.fs = "fat" /\ mnt' = mnt \cup {new}
    BY <1>0, <1>8, <2>00 DEF d
  <2>1. Placed(new)'
    <3>1. letter + 1 \in 1 .. (letter + 1)
      BY <1>3
    <3>. QED BY <2>0, <3>1, <1>2 DEF Placed
  <2>2. Reached(new)'
    <3>1. at \in 1 .. Len(list') /\ at < at'
      BY <1>0, <1>3, <1>8
    <3>. QED BY <2>0, <3>1, <1>0 DEF Reached
  <2>3. ASSUME NEW x \in mnt PROVE x[1] # n /\ x[2] # d
    <3>1. x[1] # n
      BY <1>1, PlaceIsFree
    <3>2. PICK i \in 1 .. Len(list) : i < at /\ x[2] = list[i]
      BY DEF MountInv, Reached
    <3>3. list[i] # list[at]
      BY <1>3, <3>2 DEF ListOnce
    <3>. QED BY <2>0, <3>1, <3>2, <3>3
  <2>4. OneEach'
    BY <2>0, <2>3 DEF MountInv, OneEach
  <2>5. NoEmptyPlace'
    BY <1>8, <2>0 DEF MountInv, NoEmptyPlace
  <2>6. NonePassed'
    <3>1. ASSUME NEW i \in 1 .. Len(list), i < at + 1, list[i].fs = "fat" PROVE \E x \in mnt' : x[2] = list[i]
      <4>1. CASE i < at
        BY <4>1, <3>1, <1>0, <1>8 DEF MountInv, NonePassed
      <4>2. CASE i = at
        BY <4>2, <2>0
      <4>. QED BY <3>1, <4>1, <4>2, <1>3
    <3>. QED BY <1>0, <1>8, <3>1 DEF NonePassed
  <2>7. ASSUME NEW x \in mnt', NEW y \in mnt', x[1][1] = "letter", y[1][1] = "letter", x[1][2] < y[1][2],
               NEW i \in 1 .. Len(list), NEW j \in 1 .. Len(list), x[2] = list[i], y[2] = list[j]
        PROVE  i < j
    <3>1. CASE x \in mnt /\ y \in mnt
      BY <3>1, <2>7 DEF MountInv, LettersFollow
    <3>2. CASE x \in mnt /\ y = new
      <4>1. PICK k \in 1 .. Len(list) : k < at /\ x[2] = list[k]
        BY <3>2 DEF MountInv, Reached
      <4>2. k = i /\ j = at
        BY <4>1, <2>7, <3>2, <2>0, <1>3 DEF ListOnce
      <4>. QED BY <4>1, <4>2
    <3>3. CASE x = new
      <4>1. n = <<"letter", letter + 1>> /\ x[1][2] = letter + 1
        BY <3>3, <2>0, <2>7, <1>2
      <4>2. y # new
        BY <4>1, <3>3, <2>7, <1>3
      <4>3. y \in mnt
        BY <4>2, <2>0
      <4>4. PICK k \in 1 .. letter : y[1] = <<"letter", k>>
        BY <4>3, <2>7 DEF MountInv, Placed
      <4>5. y[1][2] = k
        BY <4>4
      <4>. QED BY <4>1, <4>5, <2>7, <1>3
    <3>. QED BY <2>0, <3>1, <3>2, <3>3
  <2>8. LettersFollow'
    BY <2>7, <1>0 DEF LettersFollow
  <2>9. \A x \in mnt' : Placed(x)' /\ Reached(x)'
    BY <1>6, <2>0, <2>1, <2>2
  <2>. QED BY <1>0, <1>5, <1>8, <2>4, <2>5, <2>6, <2>8, <2>9 DEF MountInv
<1>. QED BY <1>0, <1>7, <1>8

LEMMA MountSteps == MountInv /\ MountNext => MountInv'
<1>. SUFFICES ASSUME MountInv, MountNext PROVE MountInv'
  OBVIOUS
<1>0. at \in 1 .. (Len(list) + 1) /\ Len(list) \in Nat /\ letter \in 0 .. Letters /\ Letters \in Nat
  <2>1. list \in Seq(devs) /\ at \in 1 .. (Len(list) + 1) /\ letter \in 0 .. Letters
    BY DEF MountInv, MountTyped
  <2>. QED BY <2>1, VolumeAssumption
<1>1. CASE Skip
  <2>0. /\ stage = "mount" /\ at <= Len(list) /\ letter < Letters /\ list[at].fs # "fat" /\ at' = at + 1
        /\ UNCHANGED <<devs, list, stage, letter, named, mnt, dirs, volumeErr>>
    BY <1>1 DEF Skip
  <2>1. at' \in 1 .. (Len(list) + 1) /\ at <= at'
    BY <1>0, <2>0
  <2>2. ASSUME NEW i \in 1 .. Len(list), i < at', list[i].fs = "fat" PROVE \E x \in mnt : x[2] = list[i]
    <3>1. i # at
      BY <2>0, <2>2
    <3>2. i < at
      BY <3>1, <2>2, <2>0, <1>0
    <3>. QED BY <3>2, <2>2, <2>0 DEF MountInv, NonePassed
  <2>3. NonePassed'
    BY <2>0, <2>2 DEF NonePassed
  <2>. QED BY <2>0, <2>1, <2>3, OverKeeps
<1>2. CASE Fail
  <2>0. /\ stage' = "done" /\ volumeErr' = TRUE /\ UNCHANGED <<devs, list, at, letter, named, mnt, dirs>>
    BY <1>2 DEF Fail
  <2>1. NonePassed' /\ at <= at'
    BY <2>0, <1>0 DEF NonePassed
  <2>. QED BY <1>0, <2>0, <2>1, OverKeeps
<1>3. CASE Finish
  <2>0. /\ stage = "mount" /\ (at > Len(list) \/ letter = Letters) /\ stage' = "done"
        /\ UNCHANGED <<devs, list, at, letter, named, mnt, dirs, volumeErr>>
    BY <1>3 DEF Finish
  <2>1. ASSUME letter < Letters, NEW i \in 1 .. Len(list), list[i].fs = "fat" PROVE \E x \in mnt : x[2] = list[i]
    <3>1. at > Len(list)
      BY <2>0, <2>1, <1>0
    <3>2. i < at
      BY <3>1, <1>0
    <3>. QED BY <3>2, <2>1, <2>0 DEF MountInv, NonePassed
  <2>2. NonePassed' /\ at <= at'
    BY <2>0, <2>1, <1>0 DEF NonePassed
  <2>. QED BY <1>0, <2>0, <2>2, OverKeeps
<1>. QED BY <1>1, <1>2, <1>3, CollectKeeps, SortKeeps, DriveKeeps DEF MountNext

\* Every volume is mounted, and the letters follow the order of the devices.
LEMMA MountRight == MountInv => AllMounted /\ LettersInOrder
<1>. SUFFICES ASSUME MountInv PROVE AllMounted /\ LettersInOrder
  OBVIOUS
<1>0. list \in Seq(devs) /\ devs \in Devices /\ letter \in Nat
  BY VolumeAssumption DEF MountInv, MountTyped
<1>1. AllMounted
  <2>. SUFFICES ASSUME stage = "done", ~volumeErr, letter < Letters
                PROVE  {x[2] : x \in mnt} = {d \in Listed : d.fs = "fat"}
    BY DEF AllMounted
  <2>1. \A x \in mnt : x[2] \in Listed /\ x[2].fs = "fat"
    BY DEF MountInv, Reached, Listed
  <2>2. \A i \in 1 .. Len(list) : list[i].fs = "fat" => \E x \in mnt : x[2] = list[i]
    BY DEF MountInv, NonePassed
  <2>. QED BY <2>1, <2>2 DEF Listed
<1>2. ASSUME NEW x \in mnt, NEW y \in mnt, x[1][1] = "letter", y[1][1] = "letter", x[1][2] < y[1][2]
      PROVE  /\ x[2].part \in 1 .. 4 \/ y[2].part \notin 1 .. 4
             /\ x[2].disk = y[2].disk /\ x[2].part > 0 /\ y[2].part > 0 => x[2].part < y[2].part
  <2>. DEFINE a == x[2]
              b == y[2]
  <2>1. PICK i \in 1 .. Len(list) : a = list[i]
    BY DEF MountInv, Reached
  <2>2. PICK j \in 1 .. Len(list) : b = list[j]
    BY DEF MountInv, Reached
  <2>3. i < j
    BY <1>2, <2>1, <2>2 DEF MountInv, LettersFollow
  <2>4. Before(a, b)
    BY <2>1, <2>2, <2>3 DEF MountInv, ListSorted
  <2>5. a.part \in Nat /\ b.part \in Nat /\ a.disk \in Nat /\ b.disk \in Nat
    <3>1. a \in devs /\ b \in devs
      BY <1>0, <2>1, <2>2
    <3>. QED BY <1>0, <3>1, VolumeAssumption
  <2>. HIDE DEF a, b
  <2>6. /\ a.part \in 1 .. 4 \/ b.part \notin 1 .. 4
        /\ a.disk = b.disk /\ a.part > 0 /\ b.part > 0 => a.part < b.part
    <3>1. /\ Priority(a) \in 1 .. 5 /\ (a.part \in 1 .. 4 => Priority(a) = a.part)
          /\ (a.part \notin 1 .. 4 => Priority(a) = 5) /\ Digits(a) \in Int
      BY <2>5, BeforeIs
    <3>2. /\ Priority(b) \in 1 .. 5 /\ (b.part \in 1 .. 4 => Priority(b) = b.part)
          /\ (b.part \notin 1 .. 4 => Priority(b) = 5) /\ Digits(b) \in Int
      BY <2>5, BeforeIs
    <3>3. a.part > 0 /\ b.part > 0 /\ Digits(a) < Digits(b) => a.part < b.part
      BY <2>5 DEF Digits
    <3>. DEFINE p == Priority(a)
                q == Priority(b)
                k == Digits(a)
                l == Digits(b)
    <3>4. \/ p < q
          \/ p = q /\ (a.disk < b.disk \/ (a.disk = b.disk /\ (k < l \/ (k = l /\ a.part < b.part))))
      BY <2>4 DEF Before
    <3>. HIDE DEF p, q, k, l
    <3>5. p \in 1 .. 5 /\ q \in 1 .. 5 /\ (k < l /\ a.part > 0 /\ b.part > 0 => a.part < b.part)
      BY <3>1, <3>2, <3>3 DEF p, q, k, l
    <3>6. /\ a.part \in 1 .. 4 => p = a.part
          /\ a.part \notin 1 .. 4 => p = 5
          /\ b.part \in 1 .. 4 => q = b.part
          /\ b.part \notin 1 .. 4 => q = 5
      BY <3>1, <3>2 DEF p, q
    <3>. DEFINE u == a.part
                v == b.part
    <3>7. /\ u \in Nat /\ v \in Nat
          /\ (u \in 1 .. 4 /\ p = u) \/ (u \notin 1 .. 4 /\ p = 5)
          /\ (v \in 1 .. 4 /\ q = v) \/ (v \notin 1 .. 4 /\ q = 5)
      BY <2>5, <3>6
    <3>8. u \in 1 .. 4 \/ v \notin 1 .. 4
      BY <3>4, <3>5, <3>6
    <3>9. a.disk = b.disk => p < q \/ (p = q /\ (k < l \/ u < v))
      BY <2>5, <3>4
    <3>. HIDE DEF u, v
    <3>10. p < q /\ u > 0 /\ v > 0 => u < v
      <4>1. CASE u \in 1 .. 4 /\ p = u
        BY <4>1, <3>5, <3>7
      <4>2. CASE p = 5
        BY <4>2, <3>5
      <4>. QED BY <4>1, <4>2, <3>7
    <3>. QED BY <3>5, <3>8, <3>9, <3>10 DEF u, v
  <2>. QED BY <2>6 DEF a, b
<1>. QED BY <1>1, <1>2 DEF LettersInOrder

-----------------------------------------------------------------------------
(***************************************************************************)
(* The IDE channel.  Only the selected device is busy, perhaps with a      *)
(* command that was given up; the bus master runs only while the task that *)
(* holds the channel waits, and then the command is that of its unit.      *)
(* Unless there is an excuse the bus master has an interrupt and no error  *)
(* only when that unit was moved.                                          *)
(***************************************************************************)
IdeSteps == {"none", "unit", "reset", "ready", "select", "issue", "wait", "good", "bad"}
IdeRequest == [d : 0 .. 1, lba : Nat, n : Nat, wr : BOOLEAN]
Size(d) == IdeDisks!SectorCount(d)
Mine(t, d, l) == IdeDisks!New(t, d, l)
Marks ==
  {IdeDisks!Zero} \cup {IdeDisks!Old(d, l) : d \in 0 .. 1, l \in Nat}
  \cup {Mine(t, d, l) : t \in IdeTasks, d \in 0 .. 1, l \in Nat}
Asked == req[job.t]

JobTyped ==
  job \in [step : IdeSteps, t : IdeTasks \cup {0}, d : 0 .. 1, lba : Nat, done : Nat, count : Nat,
           again : BOOLEAN, mem : Seq(Marks), odd : SUBSET Nat]

IdeTyped ==
  /\ req \in [IdeTasks -> IdeRequest] /\ idePc \in [IdeTasks -> {"idle", "want", "run"}]
  /\ JobTyped /\ (ideBuf = <<>> \/ ideBuf \in [1 .. IdeUnit -> Marks]) /\ sel \in 0 .. 1
  /\ dev \in [0 .. 1 -> [st : {"idle", "busy", "hung"}, lba : Nat, count : Nat, wr : BOOLEAN, short : BOOLEAN]]
  /\ bm \in [int : BOOLEAN, err : BOOLEAN, started : BOOLEAN] /\ event \in BOOLEAN /\ irq \in BOOLEAN
  /\ excuse \in BOOLEAN /\ DOMAIN ideDisk = 0 .. 1 /\ \A d \in 0 .. 1 : ideDisk[d] \in [0 .. (Size(d) - 1) -> Marks]

\* The job is that of a task, behind what was done of its request.
JobHeld ==
  /\ job.step = "none" => job = IdeDisks!NoJob
  /\ job.step # "none" =>
       /\ job.t \in IdeTasks /\ idePc[job.t] = "run" /\ ideBuf \in [1 .. IdeUnit -> Marks]
       /\ job.d = Asked.d /\ job.lba = Asked.lba + job.done

\* A unit is on the disk, and its data is in the buffer when it is written.
UnitFits ==
  job.step \notin {"none", "unit"} =>
    /\ job.count \in 1 .. IdeUnit /\ job.lba + job.count <= Size(job.d)
    /\ Asked.wr => \A i \in 1 .. job.count : ideBuf[i] = Mine(job.t, job.d, job.lba + i - 1)

Quiet ==
  /\ bm.started <=> job.step = "wait"
  /\ job.step \in {"issue", "wait"} => sel = job.d
  /\ job.step \in {"select", "issue"} => \A e \in 0 .. 1 : dev[e].st # "busy"

Alone ==
  \A e \in 0 .. 1 : dev[e].st = "busy" =>
    /\ e = sel
    /\ dev[e].short => dev[e].lba + dev[e].count <= IdeLimit
    /\ dev[e].lba + dev[e].count <= Size(e)
    /\ job.step = "wait" => dev[e].lba = job.lba /\ dev[e].count = job.count /\ dev[e].wr = Asked.wr

Moved ==
  \A i \in 1 .. job.count :
    IF Asked.wr THEN ideDisk[job.d][job.lba + i - 1] = Mine(job.t, job.d, job.lba + i - 1)
    ELSE ideBuf[i] = ideDisk[job.d][job.lba + i - 1]

Answers ==
  /\ job.step = "wait" /\ ~excuse =>
       /\ dev[job.d].st # "idle" => ~bm.int
       /\ dev[job.d].st = "idle" /\ bm.int /\ ~bm.err => Moved
  /\ job.step = "good" /\ ~excuse => Moved

DonePart ==
  job.step # "none" =>
    /\ ~Asked.wr => Len(job.mem) = job.done
    /\ \A i \in (1 .. job.done) \ job.odd :
         IF Asked.wr THEN ideDisk[Asked.d][Asked.lba + i - 1] = Mine(job.t, Asked.d, Asked.lba + i - 1)
         ELSE job.mem[i] = ideDisk[Asked.d][Asked.lba + i - 1]

IdeInv ==
  /\ IdeTyped /\ JobHeld /\ UnitFits /\ Quiet /\ Alone /\ Answers /\ DonePart
  /\ IdeDisks!DataInPlace

LEMMA IdeStays == IdeInv /\ UNCHANGED ideVars => IdeInv'
BY DEF ideVars, IdeInv, IdeTyped, JobTyped, JobHeld, UnitFits, Quiet, Alone, Moved, Answers, DonePart, Asked,
       IdeDisks!DataInPlace

LEMMA SizeIs == \A d \in 0 .. 1 : Size(d) \in Nat
BY CommandAssumption DEF Size, IdeDisks!SectorCount

LEMMA IdeStart == IdeDisks!Init => IdeInv
<1>. SUFFICES ASSUME IdeDisks!Init PROVE IdeInv
  OBVIOUS
<1>1. /\ idePc = [t \in IdeTasks |-> "idle"] /\ req = [t \in IdeTasks |-> IdeDisks!NoReq]
      /\ job = IdeDisks!NoJob /\ ideBuf = <<>> /\ sel = 0
      /\ dev = [d \in 0 .. 1 |-> IdeDisks!Idle]
      /\ bm = [int |-> FALSE, err |-> FALSE, started |-> FALSE]
      /\ event = FALSE /\ irq = FALSE /\ excuse = FALSE
      /\ ideDisk = [d \in 0 .. 1 |-> [l \in 0 .. (Size(d) - 1) |-> IdeDisks!Old(d, l)]]
  BY DEF IdeDisks!Init, IdeDisks!Dev, Size
<1>2. JobTyped /\ job.step = "none"
  BY <1>1 DEF JobTyped, IdeSteps, IdeDisks!NoJob
<1>3. req \in [IdeTasks -> IdeRequest] /\ idePc \in [IdeTasks -> {"idle", "want", "run"}]
  BY <1>1 DEF IdeRequest, IdeDisks!NoReq
<1>4. \A d \in 0 .. 1 : dev[d].st = "idle"
  BY <1>1 DEF IdeDisks!Idle
<1>5. dev \in [0 .. 1 -> [st : {"idle", "busy", "hung"}, lba : Nat, count : Nat, wr : BOOLEAN, short : BOOLEAN]]
  BY <1>1 DEF IdeDisks!Idle
<1>6. DOMAIN ideDisk = 0 .. 1 /\ \A d \in 0 .. 1 : ideDisk[d] \in [0 .. (Size(d) - 1) -> Marks]
  <2>. SUFFICES ASSUME NEW d \in 0 .. 1 PROVE ideDisk[d] \in [0 .. (Size(d) - 1) -> Marks]
    BY <1>1
  <2>1. \A l \in 0 .. (Size(d) - 1) : IdeDisks!Old(d, l) \in Marks
    BY SizeIs DEF Marks
  <2>. QED BY <1>1, <2>1
<1>7. IdeTyped
  <2>1. bm \in [int : BOOLEAN, err : BOOLEAN, started : BOOLEAN] /\ event \in BOOLEAN /\ irq \in BOOLEAN
        /\ excuse \in BOOLEAN
    BY <1>1
  <2>2. sel \in 0 .. 1
    BY <1>1
  <2>. QED BY <1>1, <1>2, <1>3, <1>5, <1>6, <2>1, <2>2 DEF IdeTyped
<1>8. JobHeld /\ UnitFits /\ Quiet /\ Answers /\ DonePart
  BY <1>1, <1>2 DEF JobHeld, UnitFits, Quiet, Answers, DonePart
<1>9. Alone
  BY <1>4 DEF Alone
<1>10. IdeDisks!DataInPlace
  BY <1>1 DEF IdeDisks!DataInPlace, IdeDisks!Dev
<1>. QED BY <1>7, <1>8, <1>9, <1>10 DEF IdeInv

\* The request of the task that holds the channel stays as it is.
LEMMA CallKeeps ==
  ASSUME IdeInv, NEW t \in IdeTasks, IdeDisks!Call(t)
  PROVE  IdeInv'
<1>1. PICK q \in IdeRequests :
        /\ idePc[t] = "idle" /\ idePc' = [idePc EXCEPT ![t] = "want"] /\ req' = [req EXCEPT ![t] = q]
        /\ UNCHANGED <<job, ideBuf, sel, dev, bm, event, irq, excuse, ideDisk>>
  BY DEF IdeDisks!Call
<1>2. IdeTyped /\ JobHeld
  BY DEF IdeInv
<1>3. job.step # "none" => job.t # t /\ job.t \in IdeTasks
  BY <1>1, <1>2 DEF JobHeld
<1>4. job.step # "none" => req'[job.t] = req[job.t] /\ idePc'[job.t] = idePc[job.t]
  BY <1>1, <1>2, <1>3 DEF IdeTyped
<1>5. IdeTyped'
  BY <1>1, <1>2, CommandAssumption DEF IdeTyped, JobTyped, IdeRequest
<1>6. JobHeld' /\ UnitFits' /\ DonePart'
  BY <1>1, <1>4 DEF IdeInv, JobHeld, UnitFits, DonePart, Asked
<1>7. Quiet' /\ IdeDisks!DataInPlace'
  BY <1>1 DEF IdeInv, Quiet, IdeDisks!DataInPlace
<1>8. Alone' /\ Answers'
  BY <1>1, <1>4 DEF IdeInv, Alone, Answers, Moved, Asked
<1>. QED BY <1>5, <1>6, <1>7, <1>8 DEF IdeInv

\* A call ends: nothing is left of its job.
LEMMA EndKeeps ==
  ASSUME IdeInv, NEW t \in IdeTasks, job' = IdeDisks!NoJob, job.step # "wait",
         idePc' = [idePc EXCEPT ![t] = "idle"], req' = [req EXCEPT ![t] = IdeDisks!NoReq],
         UNCHANGED <<ideBuf, sel, dev, bm, event, irq, excuse, ideDisk>>
  PROVE  IdeInv'
<1>1. JobTyped' /\ job'.step = "none"
  BY DEF JobTyped, IdeSteps, IdeDisks!NoJob
<1>2. IdeTyped'
  BY <1>1 DEF IdeInv, IdeTyped, IdeRequest, IdeDisks!NoReq
<1>3. JobHeld' /\ UnitFits' /\ Answers' /\ DonePart'
  BY <1>1 DEF JobHeld, UnitFits, Answers, DonePart
<1>4. Quiet'
  BY <1>1 DEF IdeInv, Quiet
<1>5. Alone'
  BY <1>1 DEF IdeInv, Alone
<1>6. IdeDisks!DataInPlace'
  BY DEF IdeInv, IdeDisks!DataInPlace
<1>. QED BY <1>2, <1>3, <1>4, <1>5, <1>6 DEF IdeInv

LEMMA LockKeeps ==
  ASSUME IdeInv, NEW t \in IdeTasks, IdeDisks!Lock(t)
  PROVE  IdeInv'
<1>0. /\ job = IdeDisks!NoJob /\ UNCHANGED <<sel, dev, bm, event, irq, excuse, ideDisk>>
      /\ \/ /\ idePc' = [idePc EXCEPT ![t] = "run"]
            /\ job' = [IdeDisks!NoJob EXCEPT !.step = "unit", !.t = t, !.d = req[t].d, !.lba = req[t].lba]
            /\ ideBuf' = IF ideBuf = <<>> THEN [i \in 1 .. IdeUnit |-> IdeDisks!Zero] ELSE ideBuf
            /\ UNCHANGED req
         \/ /\ idePc' = [idePc EXCEPT ![t] = "idle"] /\ req' = [req EXCEPT ![t] = IdeDisks!NoReq]
            /\ UNCHANGED <<job, ideBuf>>
  BY DEF IdeDisks!Lock, IdeDisks!Return
<1>1. CASE /\ idePc' = [idePc EXCEPT ![t] = "idle"] /\ req' = [req EXCEPT ![t] = IdeDisks!NoReq]
           /\ UNCHANGED <<job, ideBuf>>
  BY <1>0, <1>1, EndKeeps DEF IdeDisks!NoJob
<1>2. CASE /\ idePc' = [idePc EXCEPT ![t] = "run"]
           /\ job' = [IdeDisks!NoJob EXCEPT !.step = "unit", !.t = t, !.d = req[t].d, !.lba = req[t].lba]
           /\ ideBuf' = IF ideBuf = <<>> THEN [i \in 1 .. IdeUnit |-> IdeDisks!Zero] ELSE ideBuf
           /\ UNCHANGED req
  <2>0. IdeTyped
    BY DEF IdeInv
  <2>1. req[t] \in IdeRequest
    BY <2>0 DEF IdeTyped
  <2>2. /\ job'.step = "unit" /\ job'.t = t /\ job'.d = req[t].d /\ job'.lba = req[t].lba /\ job'.done = 0
        /\ job'.count = 0 /\ job'.mem = <<>> /\ job.step = "none"
    BY <1>0, <1>2 DEF IdeDisks!NoJob
  <2>3. JobTyped'
    <3>1. job' = [step |-> "unit", t |-> t, d |-> req[t].d, lba |-> req[t].lba, done |-> 0, count |-> 0,
                  again |-> FALSE, mem |-> <<>>, odd |-> {}]
      BY <1>2 DEF IdeDisks!NoJob
    <3>2. req[t].d \in 0 .. 1 /\ req[t].lba \in Nat
      BY <2>1 DEF IdeRequest
    <3>3. <<>> \in Seq(Marks)
      OBVIOUS
    <3>. QED BY <3>1, <3>2, <3>3 DEF JobTyped, IdeSteps
  <2>4. ideBuf' \in [1 .. IdeUnit -> Marks]
    <3>1. IdeDisks!Zero \in Marks
      BY DEF Marks
    <3>2. CASE ideBuf = <<>>
      <4>1. ideBuf' = [i \in 1 .. IdeUnit |-> IdeDisks!Zero]
        BY <1>2, <3>2
      <4>. QED BY <3>1, <4>1
    <3>3. CASE ideBuf # <<>>
      BY <1>2, <2>0, <3>3 DEF IdeTyped
    <3>. QED BY <3>2, <3>3
  <2>5. IdeTyped'
    BY <1>0, <1>2, <2>0, <2>3, <2>4 DEF IdeTyped
  <2>6. idePc'[t] = "run"
    BY <1>2, <2>0 DEF IdeTyped
  <2>7. JobHeld'
    BY <1>2, <2>1, <2>2, <2>4, <2>6 DEF JobHeld, Asked, IdeRequest
  <2>8. UnitFits' /\ Quiet' /\ Answers'
    BY <1>0, <2>2 DEF IdeInv, UnitFits, Quiet, Answers
  <2>9. DonePart'
    BY <2>2 DEF DonePart
  <2>10. Alone'
    BY <1>0, <2>2 DEF IdeInv, Alone
  <2>11. IdeDisks!DataInPlace'
    BY <1>0 DEF IdeInv, IdeDisks!DataInPlace
  <2>. QED BY <2>5, <2>7, <2>8, <2>9, <2>10, <2>11 DEF IdeInv
<1>. QED BY <1>0, <1>1, <1>2

\* What holds of the request and the job of the task that has the channel.
LEMMA JobFacts ==
  ASSUME IdeInv, job.step # "none"
  PROVE  /\ job.t \in IdeTasks /\ job.d \in 0 .. 1 /\ job.lba \in Nat /\ job.done \in Nat /\ job.count \in Nat
         /\ Asked \in IdeRequest /\ Asked.d = job.d /\ Asked.n \in Nat /\ Asked.wr \in BOOLEAN /\ Asked.lba \in Nat
         /\ job.lba = Asked.lba + job.done
         /\ ideBuf \in [1 .. IdeUnit -> Marks] /\ ideDisk[job.d] \in [0 .. (Size(job.d) - 1) -> Marks]
         /\ job.mem \in Seq(Marks) /\ Size(job.d) \in Nat /\ IdeUnit \in Nat
<1>1. job.t \in IdeTasks /\ ideBuf \in [1 .. IdeUnit -> Marks] /\ job.d = Asked.d /\ job.lba = Asked.lba + job.done
  BY DEF IdeInv, JobHeld
<1>2. /\ job.d \in 0 .. 1 /\ job.lba \in Nat /\ job.done \in Nat /\ job.count \in Nat /\ job.mem \in Seq(Marks)
  BY DEF IdeInv, IdeTyped, JobTyped
<1>3. Asked \in IdeRequest
  BY <1>1 DEF IdeInv, IdeTyped, Asked
<1>4. Asked.n \in Nat /\ Asked.wr \in BOOLEAN /\ Asked.lba \in Nat
  BY <1>3 DEF IdeRequest
<1>5. ideDisk[job.d] \in [0 .. (Size(job.d) - 1) -> Marks] /\ Size(job.d) \in Nat
  BY <1>2, SizeIs DEF IdeInv, IdeTyped
<1>. QED BY <1>1, <1>2, <1>3, <1>4, <1>5, CommandAssumption

\* The job goes to a step at which nothing is expected of the device.
Turn(s, c, g) ==
  /\ job.step \notin {"none", "wait"} /\ s \in {"reset", "ready", "select"} /\ g \in BOOLEAN
  /\ job' = [job EXCEPT !.step = s, !.count = c, !.again = g]
  /\ c \in 1 .. IdeUnit /\ job.lba + c <= Size(job.d)
  /\ Asked.wr => \A i \in 1 .. c : ideBuf'[i] = Mine(job.t, job.d, job.lba + i - 1)
  /\ ideBuf' \in [1 .. IdeUnit -> Marks]
  /\ bm' \in [int : BOOLEAN, err : BOOLEAN, started : BOOLEAN]
  /\ ~bm'.started
  /\ s = "select" => \A e \in 0 .. 1 : dev[e].st # "busy"
  /\ UNCHANGED <<idePc, req, sel, dev, event, irq, excuse, ideDisk>>

LEMMA TurnKeeps ==
  ASSUME IdeInv, NEW s, NEW c, NEW g, Turn(s, c, g)
  PROVE  IdeInv'
<1>0. /\ job.step \notin {"none", "wait"} /\ s \in {"reset", "ready", "select"} /\ g \in BOOLEAN
      /\ job' = [job EXCEPT !.step = s, !.count = c, !.again = g]
      /\ c \in 1 .. IdeUnit /\ job.lba + c <= Size(job.d) /\ c \in Nat
      /\ Asked.wr => \A i \in 1 .. c : ideBuf'[i] = Mine(job.t, job.d, job.lba + i - 1)
      /\ ideBuf' \in [1 .. IdeUnit -> Marks]
      /\ bm' \in [int : BOOLEAN, err : BOOLEAN, started : BOOLEAN]
      /\ ~bm'.started
      /\ s = "select" => \A e \in 0 .. 1 : dev[e].st # "busy"
      /\ UNCHANGED <<idePc, req, sel, dev, event, irq, excuse, ideDisk>>
  BY DEF Turn
<1>1. /\ job'.step = s /\ job'.t = job.t /\ job'.d = job.d /\ job'.lba = job.lba /\ job'.done = job.done
      /\ job'.count = c /\ job'.mem = job.mem /\ job'.odd = job.odd
  BY <1>0 DEF IdeInv, IdeTyped, JobTyped
<1>2. Asked' = Asked
  BY <1>0, <1>1 DEF Asked
<1>3. JobTyped'
  BY <1>0 DEF IdeInv, IdeTyped, JobTyped, IdeSteps
<1>4. IdeTyped'
  BY <1>0, <1>3 DEF IdeInv, IdeTyped
<1>5. JobHeld'
  BY <1>0, <1>1, <1>2 DEF IdeInv, JobHeld
<1>6. UnitFits' /\ Quiet' /\ Answers'
  BY <1>0, <1>1, <1>2 DEF UnitFits, Quiet, Answers
<1>7. Alone'
  BY <1>0, <1>1 DEF IdeInv, Alone
<1>8. DonePart'
  BY <1>0, <1>1, <1>2 DEF IdeInv, DonePart
<1>9. IdeDisks!DataInPlace'
  BY <1>0 DEF IdeInv, IdeDisks!DataInPlace
<1>. QED BY <1>4, <1>5, <1>6, <1>7, <1>8, <1>9 DEF IdeInv

\* A failed unit is tried again with one sector, or the call ends.
LEMMA FailedKeeps ==
  ASSUME IdeInv, job.step \notin {"none", "unit", "wait"}, IdeDisks!Failed,
         UNCHANGED <<ideBuf, sel, dev, bm, event, irq, excuse, ideDisk>>
  PROVE  IdeInv'
<1>1. CASE job' = IdeDisks!NoJob /\ idePc' = [idePc EXCEPT ![job.t] = "idle"]
           /\ req' = [req EXCEPT ![job.t] = IdeDisks!NoReq]
  BY <1>1, JobFacts, EndKeeps
<1>2. CASE job' = [job EXCEPT !.step = "reset", !.count = 1, !.again = TRUE] /\ UNCHANGED <<idePc, req>>
  <2>1. /\ job.count \in 1 .. IdeUnit /\ job.lba + job.count <= Size(job.d) /\ job.lba \in Nat /\ Size(job.d) \in Nat
        /\ (Asked.wr => \A i \in 1 .. job.count : ideBuf[i] = Mine(job.t, job.d, job.lba + i - 1))
        /\ IdeUnit \in Nat
    BY JobFacts DEF IdeInv, UnitFits
  <2>. DEFINE b == job.lba
              z == Size(job.d)
              c == job.count
  <2>2. 1 \in 1 .. IdeUnit /\ b + 1 <= z /\ 1 .. 1 \subseteq 1 .. c
    <3>1. c \in 1 .. IdeUnit /\ b + c <= z /\ b \in Nat /\ z \in Nat /\ IdeUnit \in Nat
      BY <2>1
    <3>. HIDE DEF b, z, c
    <3>. QED BY <3>1
  <2>3. Asked.wr => \A i \in 1 .. 1 : ideBuf'[i] = Mine(job.t, job.d, job.lba + i - 1)
    BY <2>1, <2>2
  <2>4. ideBuf' \in [1 .. IdeUnit -> Marks]
    BY JobFacts
  <2>5. bm' \in [int : BOOLEAN, err : BOOLEAN, started : BOOLEAN] /\ ~bm'.started
    BY DEF IdeInv, IdeTyped, Quiet
  <2>6. Turn("reset", 1, TRUE)
    BY <1>2, <2>2, <2>3, <2>4, <2>5 DEF Turn
  <2>. QED BY <2>6, TurnKeeps
<1>. QED BY <1>1, <1>2 DEF IdeDisks!Failed, IdeDisks!Finish, IdeDisks!Return

LEMMA ResetKeeps == IdeInv /\ IdeDisks!Reset => IdeInv'
<1>. SUFFICES ASSUME IdeInv, IdeDisks!Reset PROVE IdeInv'
  OBVIOUS
<1>1. /\ job.step = "reset" /\ bm' = [int |-> FALSE, err |-> FALSE, started |-> FALSE]
      /\ job' = [job EXCEPT !.step = "ready"]
      /\ UNCHANGED <<idePc, req, ideBuf, sel, dev, event, irq, excuse, ideDisk>>
  BY DEF IdeDisks!Reset
<1>2. /\ job.count \in 1 .. IdeUnit /\ job.lba + job.count <= Size(job.d)
      /\ (Asked.wr => \A i \in 1 .. job.count : ideBuf[i] = Mine(job.t, job.d, job.lba + i - 1))
  BY <1>1 DEF IdeInv, UnitFits
<1>3. job' = [job EXCEPT !.step = "ready", !.count = job.count, !.again = job.again]
      /\ job.count \in Nat /\ job.again \in BOOLEAN
  BY <1>1 DEF IdeInv, IdeTyped, JobTyped
<1>4. bm' \in [int : BOOLEAN, err : BOOLEAN, started : BOOLEAN] /\ ~bm'.started
  BY <1>1
<1>5. ideBuf' \in [1 .. IdeUnit -> Marks]
  BY <1>1, JobFacts
<1>6. Turn("ready", job.count, job.again)
  BY <1>1, <1>2, <1>3, <1>4, <1>5 DEF Turn
<1>. QED BY <1>6, TurnKeeps

LEMMA ReadyKeeps == IdeInv /\ IdeDisks!Ready => IdeInv'
<1>. SUFFICES ASSUME IdeInv, IdeDisks!Ready PROVE IdeInv'
  OBVIOUS
<1>1. job.step = "ready" /\ UNCHANGED <<sel, dev, bm, event, irq, excuse, ideDisk>>
  BY DEF IdeDisks!Ready
<1>2. CASE IdeDisks!Failed /\ UNCHANGED ideBuf
  BY <1>1, <1>2, FailedKeeps
<1>3. CASE /\ dev[sel].st = "idle" /\ job' = [job EXCEPT !.step = "select"] /\ UNCHANGED <<idePc, req>>
           /\ ideBuf' = IF Asked.wr THEN ideBuf
                        ELSE [i \in 1 .. IdeUnit |-> IF i <= job.count THEN IdeDisks!Zero ELSE ideBuf[i]]
  <2>2. /\ job.count \in 1 .. IdeUnit /\ job.lba + job.count <= Size(job.d)
        /\ (Asked.wr => \A i \in 1 .. job.count : ideBuf[i] = Mine(job.t, job.d, job.lba + i - 1))
    BY <1>1 DEF IdeInv, UnitFits
  <2>3. job' = [job EXCEPT !.step = "select", !.count = job.count, !.again = job.again]
        /\ job.count \in Nat /\ job.again \in BOOLEAN
    BY <1>3 DEF IdeInv, IdeTyped, JobTyped
  <2>4. bm' \in [int : BOOLEAN, err : BOOLEAN, started : BOOLEAN] /\ ~bm'.started
    BY <1>1 DEF IdeInv, IdeTyped, Quiet
  <2>4b. \A e \in 0 .. 1 : dev[e].st # "busy"
    BY <1>3 DEF IdeInv, Alone
  <2>5. ideBuf' \in [1 .. IdeUnit -> Marks]
    <3>1. IdeDisks!Zero \in Marks
      BY DEF Marks
    <3>2. ideBuf \in [1 .. IdeUnit -> Marks]
      BY <1>1, JobFacts
    <3>. QED BY <1>3, <3>1, <3>2
  <2>6. Asked.wr => ideBuf' = ideBuf
    BY <1>3
  <2>7. Turn("select", job.count, job.again)
    BY <1>1, <1>3, <2>2, <2>3, <2>4, <2>4b, <2>5, <2>6 DEF Turn
  <2>. QED BY <2>7, TurnKeeps
<1>. QED BY <1>2, <1>3 DEF IdeDisks!Ready, IdeDisks!Free, IdeDisks!Q, Asked

LEMMA BadKeeps == IdeInv /\ IdeDisks!Bad => IdeInv'
BY FailedKeeps DEF IdeDisks!Bad

LEMMA SelectKeeps == IdeInv /\ IdeDisks!Select => IdeInv'
<1>. SUFFICES ASSUME IdeInv, IdeDisks!Select PROVE IdeInv'
  OBVIOUS
<1>0. /\ job.step = "select" /\ sel' = job.d /\ job' = [job EXCEPT !.step = "issue"]
      /\ UNCHANGED <<idePc, req, ideBuf, dev, bm, event, irq, excuse, ideDisk>>
  BY DEF IdeDisks!Select
<1>00. \A e \in 0 .. 1 : dev[e].st # "busy"
  BY <1>0 DEF IdeInv, Quiet
<1>1. /\ job'.step = "issue" /\ job'.t = job.t /\ job'.d = job.d /\ job'.lba = job.lba /\ job'.done = job.done
      /\ job'.count = job.count /\ job'.mem = job.mem /\ job'.odd = job.odd
  BY <1>0 DEF IdeInv, IdeTyped, JobTyped
<1>2. Asked' = Asked
  BY <1>0, <1>1 DEF Asked
<1>3. JobTyped' /\ sel' \in 0 .. 1
  BY <1>0, JobFacts DEF IdeInv, IdeTyped, JobTyped, IdeSteps
<1>4. IdeTyped'
  BY <1>0, <1>3 DEF IdeInv, IdeTyped
<1>5. JobHeld'
  BY <1>0, <1>1, <1>2 DEF IdeInv, JobHeld
<1>6. UnitFits' /\ Quiet' /\ Answers'
  BY <1>0, <1>1, <1>2 DEF IdeInv, UnitFits, Quiet, Answers
<1>7. Alone'
  BY <1>0, <1>00 DEF Alone
<1>8. DonePart'
  BY <1>0, <1>1, <1>2 DEF IdeInv, DonePart
<1>9. IdeDisks!DataInPlace'
  BY <1>0 DEF IdeInv, IdeDisks!DataInPlace
<1>. QED BY <1>4, <1>5, <1>6, <1>7, <1>8, <1>9 DEF IdeInv

\* The next unit has a sector, and ends with the request, the buffer or the
\* disk.
LEMMA UnitIs ==
  ASSUME IdeInv, job.step = "unit", job.done < Asked.n, job.lba < Size(job.d)
  PROVE  IdeDisks!UnitSize \in 1 .. IdeUnit /\ job.lba + IdeDisks!UnitSize <= Size(job.d)
<1>. DEFINE S == {IdeUnit, Asked.n - job.done, Size(job.d) - job.lba}
            u == IdeDisks!UnitSize
<1>0. IdeUnit \in Nat \ {0} /\ Asked.n - job.done \in Nat \ {0} /\ Size(job.d) - job.lba \in Nat \ {0}
      /\ job.lba \in Nat /\ Size(job.d) \in Nat
  <2>. DEFINE n == Asked.n
              z == job.done
              s == Size(job.d)
              l == job.lba
  <2>1. n \in Nat /\ z \in Nat /\ s \in Nat /\ l \in Nat /\ IdeUnit \in Nat \ {0} /\ z < n /\ l < s
    BY JobFacts, CommandAssumption
  <2>. HIDE DEF n, z, s, l
  <2>2. IdeUnit \in Nat \ {0} /\ n - z \in Nat \ {0} /\ s - l \in Nat \ {0} /\ l \in Nat /\ s \in Nat
    BY <2>1
  <2>. QED BY <2>2 DEF n, z, s, l
<1>1. u = CHOOSE x \in S : \A y \in S : x <= y
  BY DEF IdeDisks!UnitSize, IdeDisks!Least, IdeDisks!Q, Asked, Size
<1>2. \E x \in S : \A y \in S : x <= y
  BY <1>0, LeastNat
<1>3. u \in S /\ \A y \in S : u <= y
  BY <1>1, <1>2
<1>. HIDE DEF u
<1>4. u \in Nat \ {0} /\ u <= IdeUnit /\ u <= Size(job.d) - job.lba
  BY <1>0, <1>3
<1>5. u \in 1 .. IdeUnit /\ job.lba + u <= Size(job.d)
  BY <1>0, <1>4
<1>. QED BY <1>5 DEF u

LEMMA UnitKeeps == IdeInv /\ IdeDisks!NextUnit => IdeInv'
<1>. SUFFICES ASSUME IdeInv, IdeDisks!NextUnit PROVE IdeInv'
  OBVIOUS
<1>0. job.step = "unit" /\ UNCHANGED <<sel, dev, bm, event, irq, excuse, ideDisk>>
  BY DEF IdeDisks!NextUnit
<1>1. CASE IdeDisks!Finish /\ UNCHANGED ideBuf
  BY <1>0, <1>1, JobFacts, EndKeeps DEF IdeDisks!Finish, IdeDisks!Return
<1>2. CASE /\ job.done < Asked.n /\ job.lba < Size(job.d)
           /\ job' = [job EXCEPT !.step = "reset", !.count = IdeDisks!UnitSize, !.again = FALSE]
           /\ ideBuf' = IF Asked.wr THEN [i \in 1 .. IdeUnit |->
                                            IF i <= IdeDisks!UnitSize THEN Mine(job.t, job.d, job.lba + i - 1)
                                            ELSE ideBuf[i]]
                        ELSE ideBuf
           /\ UNCHANGED <<idePc, req>>
  <2>0. PICK u : u = IdeDisks!UnitSize
    OBVIOUS
  <2>00. PICK g \in BOOLEAN : g = FALSE
    OBVIOUS
  <2>1. u \in 1 .. IdeUnit /\ job.lba + u <= Size(job.d)
    BY <1>0, <1>2, <2>0, UnitIs
  <2>2. /\ ideBuf \in [1 .. IdeUnit -> Marks] /\ job.t \in IdeTasks /\ job.d \in 0 .. 1 /\ job.lba \in Nat
        /\ IdeUnit \in Nat
    BY <1>0, JobFacts
  <2>3. ideBuf' \in [1 .. IdeUnit -> Marks]
    <3>1. \A i \in 1 .. IdeUnit : Mine(job.t, job.d, job.lba + i - 1) \in Marks
      <4>. SUFFICES ASSUME NEW i \in 1 .. IdeUnit PROVE Mine(job.t, job.d, job.lba + i - 1) \in Marks
        OBVIOUS
      <4>1. job.lba + i - 1 \in Nat
        BY <2>2
      <4>. QED BY <2>2, <4>1 DEF Marks
    <3>. QED BY <1>2, <2>2, <3>1
  <2>4. Asked.wr => \A i \in 1 .. u : ideBuf'[i] = Mine(job.t, job.d, job.lba + i - 1)
    <3>. SUFFICES ASSUME Asked.wr, NEW i \in 1 .. u PROVE ideBuf'[i] = Mine(job.t, job.d, job.lba + i - 1)
      OBVIOUS
    <3>1. i \in 1 .. IdeUnit /\ i <= u
      BY <2>1, <2>2
    <3>2. ideBuf' = [k \in 1 .. IdeUnit |-> IF k <= u THEN Mine(job.t, job.d, job.lba + k - 1) ELSE ideBuf[k]]
      BY <1>2, <2>0, <2>00
    <3>. QED BY <3>1, <3>2
  <2>5. bm' \in [int : BOOLEAN, err : BOOLEAN, started : BOOLEAN] /\ ~bm'.started
    BY <1>0 DEF IdeInv, IdeTyped, Quiet
  <2>6. job' = [job EXCEPT !.step = "reset", !.count = u, !.again = g]
    BY <1>2, <2>0, <2>00
  <2>7. Turn("reset", u, g)
    BY <1>0, <1>2, <2>0, <2>1, <2>3, <2>4, <2>5, <2>6 DEF Turn
  <2>. QED BY <2>7, TurnKeeps
<1>. QED BY <1>1, <1>2 DEF IdeDisks!NextUnit, IdeDisks!Q, Asked, Size, Mine

\* A 28-bit command is used only for sectors that it can name.
LEMMA AddressIs ==
  ASSUME NEW d \in 0 .. 1, NEW l \in Nat, NEW c \in 1 .. IdeUnit, l + c <= Size(d)
  PROVE  IdeDisks!Address(l, d) = l /\ (IdeDisks!Short(l, d) => l + c <= IdeLimit)
<1>1. Size(d) \in Nat /\ IdeUnit \in Nat \ {0} /\ IdeLimit \in Nat \ {0} /\ IdeSlack \in Nat /\ IdeUnit <= IdeSlack
  BY SizeIs, CommandAssumption
<1>. DEFINE z == Size(d)
<1>2. IdeDisks!Short(l, d) => l <= IdeLimit - IdeSlack \/ z <= IdeLimit - 1
  BY DEF IdeDisks!Short, Size
<1>3. IdeDisks!Short(l, d) => l + c <= IdeLimit /\ l < IdeLimit
  <2>1. z \in Nat /\ c \in 1 .. IdeUnit /\ l + c <= z
    BY <1>1
  <2>. HIDE DEF z
  <2>2. CASE l <= IdeLimit - IdeSlack
    BY <1>1, <2>1, <2>2
  <2>3. CASE z <= IdeLimit - 1
    BY <1>1, <2>1, <2>3
  <2>. QED BY <1>2, <2>2, <2>3
<1>4. l < IdeLimit => l % IdeLimit = l
  BY <1>1
<1>. QED BY <1>3, <1>4 DEF IdeDisks!Address

\* The next step of the job, when the request stays.
LEMMA NextStep ==
  ASSUME IdeInv, NEW s \in IdeSteps, job' = [job EXCEPT !.step = s], req' = req
  PROVE  /\ JobTyped' /\ Asked' = Asked
         /\ job'.step = s /\ job'.t = job.t /\ job'.d = job.d /\ job'.lba = job.lba /\ job'.done = job.done
         /\ job'.count = job.count /\ job'.mem = job.mem /\ job'.odd = job.odd
<1>1. /\ job'.step = s /\ job'.t = job.t /\ job'.d = job.d /\ job'.lba = job.lba /\ job'.done = job.done
      /\ job'.count = job.count /\ job'.mem = job.mem /\ job'.odd = job.odd
  BY DEF IdeInv, IdeTyped, JobTyped
<1>2. JobTyped'
  BY DEF IdeInv, IdeTyped, JobTyped
<1>. QED BY <1>1, <1>2 DEF Asked

LEMMA IssueKeeps == IdeInv /\ IdeDisks!Issue => IdeInv'
<1>. SUFFICES ASSUME IdeInv, IdeDisks!Issue PROVE IdeInv'
  OBVIOUS
<1>0. job.step = "issue" /\ UNCHANGED <<ideBuf, sel, irq, ideDisk>>
  BY DEF IdeDisks!Issue
<1>1. CASE IdeDisks!Failed /\ UNCHANGED <<dev, bm, event, excuse>>
  BY <1>0, <1>1, FailedKeeps
<1>2. CASE /\ dev[sel].st = "idle" /\ event' = FALSE
           /\ dev' = [dev EXCEPT ![sel] = [st |-> "busy", lba |-> IdeDisks!Address(job.lba, job.d),
                                           count |-> job.count, wr |-> Asked.wr,
                                           short |-> IdeDisks!Short(job.lba, job.d)]]
           /\ bm' = [bm EXCEPT !.started = TRUE] /\ excuse' = bm.int /\ job' = [job EXCEPT !.step = "wait"]
           /\ UNCHANGED <<idePc, req>>
  <2>1. /\ JobTyped' /\ Asked' = Asked
        /\ job'.step = "wait" /\ job'.t = job.t /\ job'.d = job.d /\ job'.lba = job.lba /\ job'.done = job.done
        /\ job'.count = job.count /\ job'.mem = job.mem /\ job'.odd = job.odd
    BY <1>2, NextStep DEF IdeSteps
  <2>2. /\ job.d \in 0 .. 1 /\ job.lba \in Nat /\ job.count \in 1 .. IdeUnit /\ job.count \in Nat
        /\ job.lba + job.count <= Size(job.d) /\ sel = job.d /\ Asked.wr \in BOOLEAN
        /\ \A e \in 0 .. 1 : dev[e].st # "busy"
    BY <1>0, JobFacts DEF IdeInv, UnitFits, Quiet
  <2>3a. PICK a : a = IdeDisks!Address(job.lba, job.d)
    OBVIOUS
  <2>3b. PICK h : h = IdeDisks!Short(job.lba, job.d)
    OBVIOUS
  <2>3. a = IdeDisks!Address(job.lba, job.d) /\ h = IdeDisks!Short(job.lba, job.d) /\ h \in BOOLEAN
    BY <2>3a, <2>3b DEF IdeDisks!Short
  <2>4. a = job.lba /\ (h => job.lba + job.count <= IdeLimit)
    BY <2>2, <2>3, AddressIs
  <2>5. PICK c : c = [st |-> "busy", lba |-> job.lba, count |-> job.count, wr |-> Asked.wr, short |-> h]
    OBVIOUS
  <2>6. /\ c \in [st : {"idle", "busy", "hung"}, lba : Nat, count : Nat, wr : BOOLEAN, short : BOOLEAN]
        /\ c.st = "busy" /\ c.lba = job.lba /\ c.count = job.count /\ c.wr = Asked.wr /\ c.short = h
    BY <2>2, <2>3, <2>5
  <2>7. dev' = [dev EXCEPT ![job.d] = c]
    BY <1>2, <2>2, <2>3, <2>4, <2>5
  <2>8. dev' \in [0 .. 1 -> [st : {"idle", "busy", "hung"}, lba : Nat, count : Nat, wr : BOOLEAN, short : BOOLEAN]]
        /\ dev'[job.d] = c /\ \A e \in 0 .. 1 : e # job.d => dev'[e] = dev[e]
    BY <2>2, <2>6, <2>7 DEF IdeInv, IdeTyped
  <2>9. bm' \in [int : BOOLEAN, err : BOOLEAN, started : BOOLEAN] /\ bm'.int = bm.int /\ bm'.started
        /\ excuse' = bm.int /\ bm.int \in BOOLEAN
    BY <1>2, <2>2 DEF IdeInv, IdeTyped
  <2>10. IdeTyped'
    BY <1>0, <1>2, <2>1, <2>8, <2>9 DEF IdeInv, IdeTyped
  <2>11. JobHeld' /\ UnitFits' /\ DonePart'
    BY <1>0, <1>2, <2>1, <2>2 DEF IdeInv, JobHeld, UnitFits, DonePart
  <2>11b. Quiet'
    BY <1>0, <2>1, <2>2, <2>9 DEF Quiet
  <2>12. Answers'
    BY <1>2, <2>1, <2>6, <2>8, <2>9 DEF Answers
  <2>13. Alone'
    <3>. SUFFICES ASSUME NEW e \in 0 .. 1, dev'[e].st = "busy"
                  PROVE  /\ e = sel /\ dev'[e].lba = job.lba /\ dev'[e].count = job.count /\ dev'[e].wr = Asked.wr
                         /\ dev'[e].short => dev'[e].lba + dev'[e].count <= IdeLimit
                         /\ dev'[e].lba + dev'[e].count <= Size(e)
      BY <1>0, <2>1 DEF Alone
    <3>1. e = job.d
      BY <2>2, <2>8
    <3>. QED BY <3>1, <2>2, <2>4, <2>6, <2>8
  <2>14. IdeDisks!DataInPlace'
    BY <1>0 DEF IdeInv, IdeDisks!DataInPlace
  <2>. QED BY <2>10, <2>11, <2>11b, <2>12, <2>13, <2>14 DEF IdeInv
<1>. QED BY <1>1, <1>2 DEF IdeDisks!Issue, IdeDisks!Free, IdeDisks!Q, Asked

LEMMA WakeKeeps == IdeInv /\ IdeDisks!Wake => IdeInv'
<1>. SUFFICES ASSUME IdeInv, IdeDisks!Wake PROVE IdeInv'
  OBVIOUS
<1>0. /\ job.step = "wait" /\ UNCHANGED <<idePc, req, ideBuf, sel, event, excuse, ideDisk>>
      /\ job' = [job EXCEPT !.step = IF bm.int /\ ~bm.err THEN "good" ELSE "bad"]
  BY DEF IdeDisks!Wake, IdeDisks!Succeeded
<1>1. /\ (bm' = [bm EXCEPT !.started = FALSE] \/ bm' = [bm EXCEPT !.started = FALSE, !.int = TRUE])
      /\ (irq' = irq \/ irq' = TRUE)
      /\ (dev' = dev \/ dev' = [dev EXCEPT ![job.d] = IdeDisks!Flush])
  BY DEF IdeDisks!Wake
<1>2. PICK s \in {"good", "bad"} : s = IF bm.int /\ ~bm.err THEN "good" ELSE "bad"
  OBVIOUS
<1>3. /\ JobTyped' /\ Asked' = Asked
      /\ job'.step = s /\ job'.t = job.t /\ job'.d = job.d /\ job'.lba = job.lba /\ job'.done = job.done
      /\ job'.count = job.count /\ job'.mem = job.mem /\ job'.odd = job.odd
  BY <1>0, <1>2, NextStep DEF IdeSteps
<1>4. job.d \in 0 .. 1 /\ sel = job.d
  BY <1>0, JobFacts DEF IdeInv, Quiet
<1>5. bm' \in [int : BOOLEAN, err : BOOLEAN, started : BOOLEAN] /\ irq' \in BOOLEAN /\ ~bm'.started
  BY <1>1 DEF IdeInv, IdeTyped
<1>6. dev' \in [0 .. 1 -> [st : {"idle", "busy", "hung"}, lba : Nat, count : Nat, wr : BOOLEAN, short : BOOLEAN]]
      /\ \A e \in 0 .. 1 : dev'[e] = dev[e] \/ (e = job.d /\ dev'[e] = IdeDisks!Flush)
  <2>1. dev \in [0 .. 1 -> [st : {"idle", "busy", "hung"}, lba : Nat, count : Nat, wr : BOOLEAN, short : BOOLEAN]]
    BY DEF IdeInv, IdeTyped
  <2>2. IdeDisks!Flush \in [st : {"idle", "busy", "hung"}, lba : Nat, count : Nat, wr : BOOLEAN, short : BOOLEAN]
    BY DEF IdeDisks!Flush
  <2>. HIDE DEF IdeDisks!Flush
  <2>. QED BY <1>1, <1>4, <2>1, <2>2
<1>7. IdeTyped'
  BY <1>0, <1>3, <1>5, <1>6 DEF IdeInv, IdeTyped
<1>8. JobHeld' /\ UnitFits' /\ DonePart'
  BY <1>0, <1>3 DEF IdeInv, JobHeld, UnitFits, DonePart
<1>8b. Quiet'
  BY <1>3, <1>5 DEF Quiet
<1>9. Answers'
  <2>1. s = "good" /\ ~excuse => Moved
    <3>1. s = "good" => bm.int /\ ~bm.err
      BY <1>2
    <3>. QED BY <1>0, <3>1 DEF IdeInv, Answers
  <2>2. Moved => Moved'
    BY <1>0, <1>3 DEF Moved
  <2>. QED BY <1>0, <1>3, <2>1, <2>2 DEF Answers
<1>10. Alone'
  <2>. SUFFICES ASSUME NEW e \in 0 .. 1, dev'[e].st = "busy"
                PROVE  /\ e = sel
                       /\ dev'[e].short => dev'[e].lba + dev'[e].count <= IdeLimit
                       /\ dev'[e].lba + dev'[e].count <= Size(e)
    BY <1>0, <1>2, <1>3 DEF Alone
  <2>1. CASE dev'[e] = dev[e]
    BY <2>1 DEF IdeInv, Alone
  <2>2. CASE e = job.d /\ dev'[e] = IdeDisks!Flush
    <3>1. dev'[e].lba = 0 /\ dev'[e].count = 0
      BY <2>2 DEF IdeDisks!Flush
    <3>. QED BY <1>4, <2>2, <3>1, SizeIs, CommandAssumption
  <2>. QED BY <1>6, <2>1, <2>2
<1>11. IdeDisks!DataInPlace'
  BY <1>0 DEF IdeInv, IdeDisks!DataInPlace
<1>. QED BY <1>7, <1>8, <1>8b, <1>9, <1>10, <1>11 DEF IdeInv

\* What was read is put behind what was read before.
LEMMA MemIs ==
  ASSUME NEW m \in Seq(Marks), NEW b \in [1 .. IdeUnit -> Marks], NEW c \in 1 .. IdeUnit
  PROVE  LET r == m \o SubSeq(b, 1, c)
         IN  /\ r \in Seq(Marks) /\ Len(r) = Len(m) + c
             /\ \A i \in 1 .. Len(m) : r[i] = m[i]
             /\ \A i \in 1 .. c : r[Len(m) + i] = b[i]
<1>0. IdeUnit \in Nat /\ c \in Nat
  BY CommandAssumption
<1>1. b \in Seq(Marks) /\ Len(b) = IdeUnit
  BY <1>0
<1>2. SubSeq(b, 1, c) \in Seq(Marks) /\ Len(SubSeq(b, 1, c)) = c /\ \A i \in 1 .. c : SubSeq(b, 1, c)[i] = b[i]
  BY <1>0, <1>1
<1>. DEFINE t == SubSeq(b, 1, c)
<1>. HIDE DEF t
<1>3. t \in Seq(Marks) /\ Len(t) = c /\ \A i \in 1 .. c : t[i] = b[i]
  BY <1>2 DEF t
<1>4. m \o t \in Seq(Marks) /\ Len(m \o t) = Len(m) + c /\ Len(m) \in Nat
  BY <1>3
<1>5. ASSUME NEW i \in 1 .. Len(m) PROVE (m \o t)[i] = m[i]
  BY <1>0, <1>3, <1>4
<1>6. ASSUME NEW i \in 1 .. c PROVE (m \o t)[Len(m) + i] = b[i]
  BY <1>0, <1>3, <1>4
<1>. QED BY <1>4, <1>5, <1>6 DEF t

LEMMA GoodKeeps == IdeInv /\ IdeDisks!Good => IdeInv'
<1>. SUFFICES ASSUME IdeInv, IdeDisks!Good PROVE IdeInv'
  OBVIOUS
<1>0. /\ job.step = "good" /\ UNCHANGED <<idePc, req, ideBuf, sel, dev, bm, event, irq, excuse, ideDisk>>
  BY DEF IdeDisks!Good
<1>. DEFINE m == IF Asked.wr THEN job.mem ELSE job.mem \o SubSeq(ideBuf, 1, job.count)
<1>. DEFINE o == IF excuse THEN job.odd \cup (job.done + 1) .. (job.done + job.count) ELSE job.odd
<1>1. job' = [job EXCEPT !.step = "unit", !.lba = job.lba + job.count, !.done = job.done + job.count, !.mem = m,
                         !.odd = o]
  BY DEF IdeDisks!Good, IdeDisks!Q, Asked
<1>2. /\ job.t \in IdeTasks /\ job.d \in 0 .. 1 /\ job.lba \in Nat /\ job.done \in Nat /\ job.count \in 1 .. IdeUnit
      /\ job.count \in Nat /\ Asked.d = job.d /\ Asked.wr \in BOOLEAN /\ Asked.lba \in Nat
      /\ job.lba = Asked.lba + job.done /\ ideBuf \in [1 .. IdeUnit -> Marks] /\ job.mem \in Seq(Marks)
      /\ IdeUnit \in Nat
  BY <1>0, JobFacts DEF IdeInv, UnitFits
<1>3. /\ m \in Seq(Marks)
      /\ ~Asked.wr => /\ Len(m) = Len(job.mem) + job.count /\ \A i \in 1 .. Len(job.mem) : m[i] = job.mem[i]
                      /\ \A i \in 1 .. job.count : m[Len(job.mem) + i] = ideBuf[i]
  BY <1>2, MemIs
<1>3b. /\ o \in SUBSET Nat /\ job.odd \subseteq o
       /\ excuse => \A i \in (job.done + 1) .. (job.done + job.count) : i \in o
  BY <1>2 DEF IdeInv, IdeTyped, JobTyped
<1>. HIDE DEF m, o
<1>4. /\ job'.step = "unit" /\ job'.t = job.t /\ job'.d = job.d /\ job'.lba = job.lba + job.count
      /\ job'.done = job.done + job.count /\ job'.count = job.count /\ job'.mem = m /\ job'.odd = o
  BY <1>1 DEF IdeInv, IdeTyped, JobTyped
<1>5. JobTyped' /\ Asked' = Asked
  <2>1. job.lba + job.count \in Nat /\ job.done + job.count \in Nat
    BY <1>2
  <2>2. JobTyped'
    BY <1>1, <1>3, <1>3b, <2>1 DEF IdeInv, IdeTyped, JobTyped, IdeSteps
  <2>. QED BY <2>2, <1>0, <1>4 DEF Asked
<1>6. IdeTyped'
  BY <1>0, <1>5 DEF IdeInv, IdeTyped
<1>7. JobHeld'
  <2>1. job.lba + job.count = Asked.lba + (job.done + job.count)
    BY <1>2
  <2>. QED BY <1>0, <1>2, <1>4, <1>5, <2>1 DEF IdeInv, JobHeld
<1>8. UnitFits' /\ Quiet' /\ Answers'
  BY <1>0, <1>4 DEF IdeInv, UnitFits, Quiet, Answers
<1>9. Alone'
  BY <1>0, <1>4 DEF IdeInv, Alone
<1>10. DonePart'
  <2>. DEFINE k == job.done
              c == job.count
              a == Asked.lba
  <2>0. k \in Nat /\ c \in Nat /\ a \in Nat
    BY <1>2
  <2>1. ~Asked.wr => Len(job.mem) = k
    BY <1>0 DEF IdeInv, DonePart
  <2>2. \A i \in (1 .. k) \ job.odd :
          IF Asked.wr THEN ideDisk[Asked.d][a + i - 1] = Mine(job.t, Asked.d, a + i - 1)
          ELSE job.mem[i] = ideDisk[Asked.d][a + i - 1]
    BY <1>0 DEF IdeInv, DonePart
  <2>3. ~excuse => \A i \in 1 .. c :
          IF Asked.wr THEN ideDisk[Asked.d][a + k + i - 1] = Mine(job.t, Asked.d, a + k + i - 1)
          ELSE ideBuf[i] = ideDisk[Asked.d][a + k + i - 1]
    BY <1>0, <1>2 DEF IdeInv, Answers, Moved
  <2>3b. excuse => \A i \in (k + 1) .. (k + c) : i \in o
    BY <1>3b
  <2>. HIDE DEF k, c, a
  <2>4. ASSUME NEW i \in (1 .. (k + c)) \ o
        PROVE  IF Asked.wr THEN ideDisk[Asked.d][a + i - 1] = Mine(job.t, Asked.d, a + i - 1)
               ELSE m[i] = ideDisk[Asked.d][a + i - 1]
    <3>1. CASE i <= k
      <4>1. i \in (1 .. k) \ job.odd
        BY <3>1, <2>0, <1>3b
      <4>2. ~Asked.wr => m[i] = job.mem[i]
        BY <4>1, <2>1, <1>3
      <4>. QED BY <2>2, <4>1, <4>2
    <3>2. CASE i > k
      <4>1. i - k \in 1 .. c /\ k + (i - k) = i /\ a + k + (i - k) - 1 = a + i - 1
        BY <3>2, <2>0
      <4>2. ~Asked.wr => m[i] = ideBuf[i - k]
        <5>1. ~Asked.wr => m[k + (i - k)] = ideBuf[i - k]
          BY <4>1, <2>1, <1>3 DEF c
        <5>. QED BY <5>1, <4>1
      <4>3. ~excuse
        BY <3>2, <2>0, <2>3b
      <4>. QED BY <2>3, <4>1, <4>2, <4>3
    <3>. QED BY <3>1, <3>2, <2>0
  <2>5. ~Asked.wr => Len(m) = k + c
    BY <2>1, <1>3 DEF c
  <2>. QED BY <2>4, <2>5, <1>0, <1>4, <1>5 DEF DonePart, k, c, a
<1>11. IdeDisks!DataInPlace'
  BY <1>0 DEF IdeInv, IdeDisks!DataInPlace
<1>. QED BY <1>6, <1>7, <1>8, <1>9, <1>10, <1>11 DEF IdeInv

\* A device that finishes a command while the driver does not wait moves
\* nothing.
LEMMA LateIs ==
  ASSUME IdeInv, NEW e \in 0 .. 1, IdeDisks!Done(e), job.step # "wait"
  PROVE  /\ dev' = [dev EXCEPT ![e] = IdeDisks!Idle]
         /\ (bm' = [bm EXCEPT !.int = TRUE] \/ bm' = [bm EXCEPT !.int = TRUE, !.err = TRUE])
         /\ irq' = TRUE /\ UNCHANGED <<idePc, req, job, ideBuf, sel, event, excuse, ideDisk>>
<1>1. ~bm.started /\ bm \in [int : BOOLEAN, err : BOOLEAN, started : BOOLEAN] /\ excuse \in BOOLEAN
  BY DEF IdeInv, IdeTyped, Quiet
<1>2. PICK how \in {"ok", "dma", "drive"} :
        /\ bm' = [bm EXCEPT !.int = TRUE, !.err = @ \/ how = "dma"]
        /\ excuse' = (excuse \/ (how = "drive" /\ bm.started))
        /\ UNCHANGED <<ideBuf, ideDisk>>
  BY <1>1 DEF IdeDisks!Done
<1>3. excuse' = excuse
  BY <1>1, <1>2
<1>4. bm' = [bm EXCEPT !.int = TRUE] \/ bm' = [bm EXCEPT !.int = TRUE, !.err = TRUE]
  <2>1. CASE how = "dma"
    BY <1>1, <1>2, <2>1
  <2>2. CASE how # "dma"
    BY <1>1, <1>2, <2>2
  <2>. QED BY <2>1, <2>2
<1>5. /\ dev' = [dev EXCEPT ![e] = IdeDisks!Idle] /\ irq' = TRUE
      /\ UNCHANGED <<idePc, req, job, sel, event>>
  BY DEF IdeDisks!Done
<1>. QED BY <1>2, <1>3, <1>4, <1>5

\* What one does while the driver waits: an error that the bus master or only
\* the drive shows, or the transfer of the unit.
LEMMA DoneIs ==
  ASSUME IdeInv, NEW e \in 0 .. 1, IdeDisks!Done(e), job.step = "wait"
  PROVE  /\ e = job.d
         /\ dev' = [dev EXCEPT ![job.d] = IdeDisks!Idle]
         /\ irq' = TRUE /\ UNCHANGED <<idePc, req, job, sel, event>>
         /\ bm' \in [int : BOOLEAN, err : BOOLEAN, started : BOOLEAN] /\ bm'.started /\ bm'.int
         /\ \/ (bm'.err \/ excuse') /\ excuse' \in BOOLEAN /\ UNCHANGED <<ideBuf, ideDisk>>
            \/ /\ excuse' = excuse
               /\ ideBuf' = IF ~Asked.wr
                            THEN [i \in 1 .. IdeUnit |-> IF i <= job.count THEN ideDisk[job.d][job.lba + i - 1]
                                                         ELSE ideBuf[i]]
                            ELSE ideBuf
               /\ ideDisk' = IF Asked.wr
                             THEN [ideDisk EXCEPT ![job.d] = [l \in DOMAIN ideDisk[job.d] |->
                                     IF l >= job.lba /\ l < job.lba + job.count THEN ideBuf[l - job.lba + 1]
                                     ELSE ideDisk[job.d][l]]]
                             ELSE ideDisk
<1>1. dev[e].st = "busy"
  BY DEF IdeDisks!Done
<1>2. e = job.d /\ dev[e].lba = job.lba /\ dev[e].count = job.count /\ dev[e].wr = Asked.wr
  BY <1>1 DEF IdeInv, Alone, Quiet
<1>4. bm \in [int : BOOLEAN, err : BOOLEAN, started : BOOLEAN] /\ Asked.wr \in BOOLEAN /\ excuse \in BOOLEAN
  BY JobFacts DEF IdeInv, IdeTyped
<1>3. bm.started
  BY DEF IdeInv, Quiet
<1>5. /\ dev' = [dev EXCEPT ![e] = IdeDisks!Idle]
      /\ irq' = TRUE /\ UNCHANGED <<idePc, req, job, sel, event>>
  BY DEF IdeDisks!Done
<1>6. PICK how \in {"ok", "dma", "drive"} :
        /\ bm' = [bm EXCEPT !.int = TRUE, !.err = @ \/ how = "dma"]
        /\ excuse' = (excuse \/ (how = "drive" /\ bm.started))
        /\ ideBuf' = IF (how = "ok" /\ bm.started) /\ ~dev[e].wr
                     THEN [i \in 1 .. IdeUnit |-> IF i <= dev[e].count THEN ideDisk[e][dev[e].lba + i - 1]
                                                  ELSE ideBuf[i]]
                     ELSE ideBuf
        /\ ideDisk' = IF (how = "ok" /\ bm.started) /\ dev[e].wr
                      THEN [ideDisk EXCEPT ![e] = [l \in DOMAIN @ |->
                              IF l >= dev[e].lba /\ l < dev[e].lba + dev[e].count THEN ideBuf[l - dev[e].lba + 1]
                              ELSE @[l]]]
                      ELSE ideDisk
  BY DEF IdeDisks!Done
<1>6b. bm' \in [int : BOOLEAN, err : BOOLEAN, started : BOOLEAN] /\ bm'.started /\ bm'.int
       /\ (how = "dma" => bm'.err)
  <2>1. (bm.err \/ how = "dma") \in BOOLEAN
    OBVIOUS
  <2>2. PICK b \in BOOLEAN : b = (bm.err \/ how = "dma")
    BY <2>1
  <2>3. bm' = [bm EXCEPT !.int = TRUE, !.err = b]
    BY <1>6, <2>2
  <2>4. bm' \in [int : BOOLEAN, err : BOOLEAN, started : BOOLEAN] /\ bm'.started /\ bm'.int /\ bm'.err = b
    BY <1>3, <1>4, <2>3
  <2>. QED BY <2>2, <2>4
<1>7. CASE how \in {"dma", "drive"}
  <2>1. UNCHANGED <<ideBuf, ideDisk>>
    BY <1>6, <1>7
  <2>2. excuse' \in BOOLEAN /\ (bm'.err \/ excuse')
    BY <1>3, <1>4, <1>6, <1>6b, <1>7
  <2>. QED BY <1>2, <1>5, <1>6b, <2>1, <2>2
<1>8. CASE how = "ok"
  <2>1. excuse' = excuse
    BY <1>4, <1>6, <1>8
  <2>2. /\ ideBuf' = IF ~Asked.wr
                     THEN [i \in 1 .. IdeUnit |-> IF i <= job.count THEN ideDisk[job.d][job.lba + i - 1]
                                                  ELSE ideBuf[i]]
                     ELSE ideBuf
        /\ ideDisk' = IF Asked.wr
                      THEN [ideDisk EXCEPT ![job.d] = [l \in DOMAIN ideDisk[job.d] |->
                              IF l >= job.lba /\ l < job.lba + job.count THEN ideBuf[l - job.lba + 1]
                              ELSE ideDisk[job.d][l]]]
                      ELSE ideDisk
    BY <1>2, <1>3, <1>6, <1>8
  <2>. QED BY <1>2, <1>5, <1>6b, <2>1, <2>2
<1>. QED BY <1>7, <1>8

\* Sectors b to b + c - 1 of a disk with z.
LEMMA SpanIs ==
  ASSUME NEW b \in Nat, NEW c \in Nat, NEW z \in Nat, NEW n \in Nat, c \in 1 .. n, b + c <= z
  PROVE  /\ \A i \in 1 .. c : /\ b + i - 1 \in 0 .. (z - 1) /\ b + i - 1 >= b /\ b + i - 1 < b + c
                             /\ i \in 1 .. n /\ i <= c
         /\ \A l \in 0 .. (z - 1) : l >= b /\ l < b + c =>
               l - b + 1 \in 1 .. c /\ b + (l - b + 1) - 1 = l /\ l - b + 1 \in 1 .. n
<1>1. ASSUME NEW i \in 1 .. c
      PROVE  /\ b + i - 1 \in 0 .. (z - 1) /\ b + i - 1 >= b /\ b + i - 1 < b + c
             /\ i \in 1 .. n /\ i <= c
  OBVIOUS
<1>2. ASSUME NEW l \in 0 .. (z - 1), l >= b, l < b + c
      PROVE  l - b + 1 \in 1 .. c /\ b + (l - b + 1) - 1 = l /\ l - b + 1 \in 1 .. n
  <2>1. l \in Int /\ c <= n
    OBVIOUS
  <2>2. l - b + 1 \in Int /\ 1 <= l - b + 1 /\ l - b + 1 <= c
    BY <2>1, <1>2
  <2>3. b + (l - b + 1) - 1 = l
    BY <2>1
  <2>4. l - b + 1 <= n
    BY <2>1, <1>2
  <2>. QED BY <2>2, <2>3, <2>4
<1>. QED BY <1>1, <1>2

LEMMA LateKeeps ==
  ASSUME IdeInv, NEW e \in 0 .. 1, IdeDisks!Done(e), job.step # "wait"
  PROVE  IdeInv'
<1>0. /\ dev' = [dev EXCEPT ![e] = IdeDisks!Idle]
      /\ (bm' = [bm EXCEPT !.int = TRUE] \/ bm' = [bm EXCEPT !.int = TRUE, !.err = TRUE])
      /\ irq' = TRUE /\ UNCHANGED <<idePc, req, job, ideBuf, sel, event, excuse, ideDisk>>
  BY LateIs
<1>1. bm' \in [int : BOOLEAN, err : BOOLEAN, started : BOOLEAN] /\ bm'.started = bm.started
  BY <1>0 DEF IdeInv, IdeTyped
<1>2. dev' \in [0 .. 1 -> [st : {"idle", "busy", "hung"}, lba : Nat, count : Nat, wr : BOOLEAN, short : BOOLEAN]]
      /\ dev'[e].st = "idle" /\ \A x \in 0 .. 1 : x # e => dev'[x] = dev[x]
  BY <1>0 DEF IdeInv, IdeTyped, IdeDisks!Idle
<1>3. IdeTyped'
  <2>1. irq' \in BOOLEAN
    BY <1>0
  <2>. QED BY <1>0, <1>1, <1>2, <2>1 DEF IdeInv, IdeTyped, JobTyped
<1>4. JobHeld' /\ UnitFits' /\ DonePart'
  BY <1>0 DEF IdeInv, JobHeld, UnitFits, DonePart, Asked
<1>5. Quiet'
  BY <1>0, <1>1, <1>2 DEF IdeInv, Quiet
<1>6. Answers'
  BY <1>0 DEF IdeInv, Answers, Moved, Asked
<1>7. Alone'
  BY <1>0, <1>2 DEF IdeInv, Alone
<1>8. IdeDisks!DataInPlace'
  BY <1>0 DEF IdeInv, IdeDisks!DataInPlace
<1>. QED BY <1>3, <1>4, <1>5, <1>6, <1>7, <1>8 DEF IdeInv

LEMMA DoneKeeps ==
  ASSUME IdeInv, NEW e \in 0 .. 1, IdeDisks!Done(e), job.step = "wait"
  PROVE  IdeInv'
<1>0. /\ job.step = "wait" /\ e = job.d /\ dev' = [dev EXCEPT ![job.d] = IdeDisks!Idle]
      /\ irq' = TRUE /\ UNCHANGED <<idePc, req, job, sel, event>>
  BY DoneIs
<1>. DEFINE d == job.d
            b == job.lba
            c == job.count
            z == Size(job.d)
<1>1. /\ job.t \in IdeTasks /\ d \in 0 .. 1 /\ b \in Nat /\ job.done \in Nat /\ c \in 1 .. IdeUnit /\ c \in Nat
      /\ b + c <= z /\ z \in Nat /\ Asked.d = d /\ Asked.wr \in BOOLEAN /\ Asked.lba \in Nat
      /\ b = Asked.lba + job.done /\ ideBuf \in [1 .. IdeUnit -> Marks]
      /\ ideDisk[d] \in [0 .. (z - 1) -> Marks] /\ IdeUnit \in Nat
  BY <1>0, JobFacts DEF IdeInv, UnitFits
<1>2. Asked' = Asked /\ job' = job
  BY <1>0 DEF Asked
<1>3. dev'[d].st = "idle" /\ \A x \in 0 .. 1 : dev'[x].st # "busy"
  <2>1. dev'[d].st = "idle" /\ \A x \in 0 .. 1 : x # d => dev'[x] = dev[x]
    BY <1>0, <1>1 DEF IdeInv, IdeTyped, IdeDisks!Idle
  <2>2. \A x \in 0 .. 1 : dev[x].st = "busy" => x = d
    BY <1>0 DEF IdeInv, Alone, Quiet
  <2>. QED BY <2>1, <2>2
<1>4. dev' \in [0 .. 1 -> [st : {"idle", "busy", "hung"}, lba : Nat, count : Nat, wr : BOOLEAN, short : BOOLEAN]]
  BY <1>0, <1>1 DEF IdeInv, IdeTyped, IdeDisks!Idle
<1>5. bm' \in [int : BOOLEAN, err : BOOLEAN, started : BOOLEAN] /\ bm'.int /\ bm'.started
  BY <1>0, DoneIs
<1>6. Alone' /\ Quiet'
  BY <1>0, <1>3, <1>5 DEF IdeInv, Alone, Quiet
<1>7. JobTyped' /\ event' \in BOOLEAN /\ irq' \in BOOLEAN /\ sel' \in 0 .. 1
      /\ req' \in [IdeTasks -> IdeRequest] /\ idePc' \in [IdeTasks -> {"idle", "want", "run"}]
  <2>1. event' \in BOOLEAN /\ irq' \in BOOLEAN
    BY <1>0 DEF IdeInv, IdeTyped
  <2>. QED BY <1>0, <2>1 DEF IdeInv, IdeTyped, JobTyped
<1>8. \* an error
      CASE (bm'.err \/ excuse') /\ excuse' \in BOOLEAN /\ UNCHANGED <<ideBuf, ideDisk>>
  <2>2. IdeTyped'
    BY <1>4, <1>5, <1>7, <1>8 DEF IdeInv, IdeTyped
  <2>3. JobHeld' /\ UnitFits' /\ DonePart'
    BY <1>0, <1>2, <1>8 DEF IdeInv, JobHeld, UnitFits, DonePart
  <2>4. Answers'
    BY <1>0, <1>3, <1>8 DEF Answers
  <2>5. IdeDisks!DataInPlace'
    BY <1>8 DEF IdeInv, IdeDisks!DataInPlace
  <2>. QED BY <1>6, <2>2, <2>3, <2>4, <2>5 DEF IdeInv
<1>9. \* a read
      CASE /\ ~Asked.wr /\ ideDisk' = ideDisk /\ excuse' = excuse
           /\ ideBuf' = [i \in 1 .. IdeUnit |-> IF i <= c THEN ideDisk[d][b + i - 1] ELSE ideBuf[i]]
  <2>. HIDE DEF d, b, c, z
  <2>1. \A i \in 1 .. c : b + i - 1 \in 0 .. (z - 1) /\ i \in 1 .. IdeUnit /\ i <= c
    BY <1>1, SpanIs
  <2>2. \A i \in 1 .. IdeUnit : i <= c => b + i - 1 \in 0 .. (z - 1)
    BY <1>1
  <2>3. ideBuf' \in [1 .. IdeUnit -> Marks]
    BY <1>1, <1>9, <2>2
  <2>4. \A i \in 1 .. c : ideBuf'[i] = ideDisk'[d][b + i - 1]
    BY <1>9, <2>1
  <2>5. IdeTyped'
    BY <1>4, <1>5, <1>7, <1>9, <2>3 DEF IdeInv, IdeTyped
  <2>6. JobHeld' /\ UnitFits' /\ DonePart'
    BY <1>0, <1>2, <1>9, <2>3 DEF IdeInv, JobHeld, UnitFits, DonePart
  <2>7. Moved'
    BY <1>2, <1>9, <2>4 DEF Moved, d, b, c
  <2>8. Answers'
    BY <1>0, <1>3, <1>5, <2>7 DEF Answers, d
  <2>9. IdeDisks!DataInPlace'
    BY <1>9 DEF IdeInv, IdeDisks!DataInPlace
  <2>. QED BY <1>6, <2>5, <2>6, <2>8, <2>9 DEF IdeInv
<1>10. \* a write
       CASE /\ Asked.wr /\ ideBuf' = ideBuf /\ excuse' = excuse
            /\ ideDisk' = [ideDisk EXCEPT ![d] = [l \in DOMAIN ideDisk[d] |->
                             IF l >= b /\ l < b + c THEN ideBuf[l - b + 1] ELSE ideDisk[d][l]]]
  <2>0. \A i \in 1 .. c : ideBuf[i] = Mine(job.t, d, b + i - 1)
    BY <1>0, <1>10 DEF IdeInv, UnitFits
  <2>1. DOMAIN ideDisk = 0 .. 1 /\ \A x \in 0 .. 1 : ideDisk[x] \in [0 .. (Size(x) - 1) -> Marks]
    BY DEF IdeInv, IdeTyped
  <2>. HIDE DEF d, b, c, z
  <2>2. \A l \in 0 .. (z - 1) : l >= b /\ l < b + c => l - b + 1 \in 1 .. c /\ b + (l - b + 1) - 1 = l /\ l - b + 1 \in 1 .. IdeUnit
    BY <1>1, SpanIs
  <2>3. ideDisk'[d] = [l \in 0 .. (z - 1) |-> IF l >= b /\ l < b + c THEN ideBuf[l - b + 1] ELSE ideDisk[d][l]]
    BY <1>1, <1>10, <2>1
  <2>4. DOMAIN ideDisk' = 0 .. 1 /\ \A x \in 0 .. 1 : x # d => ideDisk'[x] = ideDisk[x]
    BY <1>1, <1>10, <2>1
  <2>5. \A l \in 0 .. (z - 1) : IF l >= b /\ l < b + c THEN ideDisk'[d][l] = Mine(job.t, d, l) ELSE ideDisk'[d][l] = ideDisk[d][l]
    BY <2>0, <2>2, <2>3
  <2>6. ideDisk'[d] \in [0 .. (z - 1) -> Marks]
    <3>1. \A l \in 0 .. (z - 1) : l >= b /\ l < b + c => ideBuf[l - b + 1] \in Marks
      BY <1>1, <2>2
    <3>. QED BY <1>1, <2>3, <3>1
  <2>7. \A x \in 0 .. 1 : ideDisk'[x] \in [0 .. (Size(x) - 1) -> Marks]
    BY <2>1, <2>4, <2>6 DEF z, d
  <2>8. IdeTyped'
    BY <1>4, <1>5, <1>7, <1>10, <2>4, <2>7 DEF IdeInv, IdeTyped
  <2>9. JobHeld' /\ UnitFits'
    BY <1>0, <1>2, <1>10 DEF IdeInv, JobHeld, UnitFits
  <2>10. ASSUME NEW i \in 1 .. c PROVE ideDisk'[d][b + i - 1] = Mine(job.t, d, b + i - 1)
    <3>1. b + i - 1 \in 0 .. (z - 1) /\ b + i - 1 >= b /\ b + i - 1 < b + c
      BY <1>1, SpanIs
    <3>. QED BY <2>5, <3>1
  <2>11. Moved'
    BY <1>2, <1>10, <2>10 DEF Moved, d, b, c
  <2>12. Answers'
    BY <1>0, <1>3, <1>5, <2>11 DEF Answers, d
  <2>13. ASSUME NEW i \in (1 .. job.done) \ job.odd PROVE ideDisk'[d][Asked.lba + i - 1] = Mine(job.t, d, Asked.lba + i - 1)
    <3>. DEFINE a == Asked.lba
                k == job.done
    <3>1. a \in Nat /\ k \in Nat /\ i \in 1 .. k /\ b = a + k
      BY <1>1
    <3>. HIDE DEF a, k
    <3>2. a + i - 1 \in 0 .. (z - 1) /\ a + i - 1 < b
      BY <3>1, <1>1
    <3>3. ~(a + i - 1 >= b)
      BY <3>1, <3>2
    <3>4. ideDisk'[d][a + i - 1] = ideDisk[d][a + i - 1]
      BY <2>5, <3>2, <3>3
    <3>5. ideDisk[d][a + i - 1] = Mine(job.t, d, a + i - 1)
      BY <1>0, <1>1, <1>10 DEF IdeInv, DonePart, a
    <3>. QED BY <3>4, <3>5 DEF a
  <2>14. DonePart'
    BY <1>0, <1>1, <1>2, <1>10, <2>13 DEF DonePart
  <2>15. IdeDisks!DataInPlace'
    <3>. SUFFICES ASSUME NEW x \in 0 .. 1, NEW l \in DOMAIN ideDisk'[x]
                  PROVE  ideDisk'[x][l] = IdeDisks!Old(x, l) \/ \E t \in IdeTasks : ideDisk'[x][l] = Mine(t, x, l)
      BY DEF IdeDisks!DataInPlace, IdeDisks!Dev, Mine
    <3>1. l \in DOMAIN ideDisk[x]
      BY <2>1, <2>7
    <3>2. ideDisk[x][l] = IdeDisks!Old(x, l) \/ \E t \in IdeTasks : ideDisk[x][l] = Mine(t, x, l)
      BY <3>1 DEF IdeInv, IdeDisks!DataInPlace, IdeDisks!Dev, Mine
    <3>3. CASE x # d
      BY <3>2, <3>3, <2>4
    <3>4. CASE x = d
      <4>1. l \in 0 .. (z - 1)
        BY <3>4, <2>6
      <4>. QED BY <4>1, <3>2, <3>4, <2>5, <1>1
    <3>. QED BY <3>3, <3>4
  <2>. QED BY <1>6, <2>8, <2>9, <2>12, <2>14, <2>15 DEF IdeInv
<1>. QED BY <1>0, <1>8, <1>9, <1>10, DoneIs

LEMMA HangKeeps ==
  ASSUME IdeInv, NEW e \in 0 .. 1, IdeDisks!Hang(e)
  PROVE  IdeInv'
<1>0. /\ dev[e].st = "busy" /\ dev' = [dev EXCEPT ![e].st = "hung"]
      /\ UNCHANGED <<idePc, req, job, ideBuf, sel, bm, event, irq, excuse, ideDisk>>
  BY DEF IdeDisks!Hang
<1>1. e = sel
  BY <1>0 DEF IdeInv, Alone
<1>2. dev'[e].st = "hung" /\ \A x \in 0 .. 1 : x # e => dev'[x] = dev[x]
  BY <1>0 DEF IdeInv, IdeTyped
<1>3. IdeTyped'
  <2>1. /\ IdeTyped
        /\ dev \in [0 .. 1 -> [st : {"idle", "busy", "hung"}, lba : Nat, count : Nat, wr : BOOLEAN, short : BOOLEAN]]
    BY DEF IdeInv, IdeTyped
  <2>2. [dev[e] EXCEPT !.st = "hung"]
          \in [st : {"idle", "busy", "hung"}, lba : Nat, count : Nat, wr : BOOLEAN, short : BOOLEAN]
    BY <2>1
  <2>3. dev' = [dev EXCEPT ![e] = [dev[e] EXCEPT !.st = "hung"]]
    BY <1>0
  <2>4. dev' \in [0 .. 1 -> [st : {"idle", "busy", "hung"}, lba : Nat, count : Nat, wr : BOOLEAN, short : BOOLEAN]]
    BY <2>1, <2>2, <2>3
  <2>5. JobTyped'
    BY <1>0, <2>1 DEF IdeTyped, JobTyped
  <2>. QED BY <1>0, <2>1, <2>4, <2>5 DEF IdeTyped
<1>4. JobHeld' /\ UnitFits' /\ DonePart'
  BY <1>0 DEF IdeInv, JobHeld, UnitFits, DonePart, Asked
<1>4b. Quiet'
  BY <1>0, <1>2 DEF IdeInv, Quiet
<1>5. Answers'
  <2>1. job.step = "wait" => job.d = e
    BY <1>1 DEF IdeInv, Quiet
  <2>2. job.step = "wait" /\ ~excuse => ~bm.int
    BY <1>0, <2>1 DEF IdeInv, Answers
  <2>3. Moved' <=> Moved
    BY <1>0 DEF Moved, Asked
  <2>. QED BY <1>0, <2>2, <2>3 DEF IdeInv, Answers
<1>6. Alone'
  BY <1>0, <1>1, <1>2 DEF IdeInv, Alone, Asked
<1>7. IdeDisks!DataInPlace'
  BY <1>0 DEF IdeInv, IdeDisks!DataInPlace
<1>. QED BY <1>3, <1>4, <1>4b, <1>5, <1>6, <1>7 DEF IdeInv

LEMMA IrqKeeps == IdeInv /\ IdeDisks!Irq => IdeInv'
<1>. SUFFICES ASSUME IdeInv, IdeDisks!Irq PROVE IdeInv'
  OBVIOUS
<1>0. /\ irq' = FALSE /\ event' = (event \/ bm.int)
      /\ UNCHANGED <<idePc, req, job, ideBuf, sel, dev, bm, excuse, ideDisk>>
  BY DEF IdeDisks!Irq, IdeDisks!IrqFunc
<1>1. event' \in BOOLEAN /\ irq' \in BOOLEAN
  BY <1>0
<1>2. IdeTyped'
  BY <1>0, <1>1 DEF IdeInv, IdeTyped, JobTyped
<1>3. JobHeld' /\ UnitFits' /\ Quiet' /\ DonePart' /\ Alone'
  BY <1>0 DEF IdeInv, JobHeld, UnitFits, Quiet, DonePart, Alone, Asked
<1>4. Answers'
  BY <1>0 DEF IdeInv, Answers, Moved, Asked
<1>5. IdeDisks!DataInPlace'
  BY <1>0 DEF IdeInv, IdeDisks!DataInPlace
<1>. QED BY <1>2, <1>3, <1>4, <1>5 DEF IdeInv

LEMMA IdeSteps1 == IdeInv /\ IdeDisks!Next => IdeInv'
<1>. SUFFICES ASSUME IdeInv, IdeDisks!Next PROVE IdeInv'
  OBVIOUS
<1>1. CASE IdeDisks!Deploy
  <2>1. UNCHANGED <<idePc, req, job, ideBuf, sel, dev, bm, event, irq, excuse, ideDisk>>
    BY <1>1 DEF IdeDisks!Deploy
  <2>. QED BY <2>1 DEF IdeInv, IdeTyped, JobTyped, JobHeld, UnitFits, Quiet, Alone, Moved, Answers, DonePart, Asked,
                       IdeDisks!DataInPlace
<1>2. CASE \E t \in IdeTasks : IdeDisks!Call(t) \/ IdeDisks!Lock(t)
  BY <1>2, CallKeeps, LockKeeps
<1>3. CASE IdeDisks!Step
  BY <1>3, UnitKeeps, ResetKeeps, ReadyKeeps, SelectKeeps, IssueKeeps, WakeKeeps, GoodKeeps, BadKeeps DEF IdeDisks!Step
<1>4. CASE \E d \in 0 .. 1 : IdeDisks!Done(d) \/ IdeDisks!Hang(d)
  BY <1>4, DoneKeeps, LateKeeps, HangKeeps
<1>5. CASE IdeDisks!Irq
  BY <1>5, IrqKeeps
<1>. QED BY <1>1, <1>2, <1>3, <1>4, <1>5 DEF IdeDisks!Next, IdeDisks!Dev

\* What a call reports is what was done of its request, and commands fit.
LEMMA IdeRight == IdeInv => IdeDisks!DataInPlace /\ IdeDisks!CommandFits
<1>. SUFFICES ASSUME IdeInv PROVE IdeDisks!CommandFits
  BY DEF IdeInv
<1>. SUFFICES ASSUME NEW d \in 0 .. 1, dev[d].st = "busy"
              PROVE  /\ d = sel
                     /\ bm.started => /\ job.step = "wait" /\ job.d = d
                                      /\ dev[d].lba = job.lba /\ dev[d].count = job.count
                                      /\ dev[d].wr = Asked.wr
                     /\ dev[d].short => dev[d].lba + dev[d].count <= IdeLimit
                     /\ dev[d].lba + dev[d].count <= Size(d)
  BY DEF IdeDisks!CommandFits, IdeDisks!Dev, IdeDisks!Q, Size, Asked
<1>. QED BY DEF IdeInv, Alone, Quiet

LEMMA IdeReports == IdeInv => IdeDisks!DoneAsReported
<1>. SUFFICES ASSUME IdeInv, job # IdeDisks!NoJob PROVE IdeDisks!DoneAsReported
  BY DEF IdeDisks!DoneAsReported
<1>1. job.step # "none"
  BY DEF IdeInv, JobHeld
<1>2. DonePart
  BY DEF IdeInv
<1>. QED BY <1>1, <1>2 DEF DonePart, Asked, Mine, IdeDisks!DoneAsReported, IdeDisks!Q

-----------------------------------------------------------------------------
(***************************************************************************)
(* The AHCI driver.  Commands are run in the order they were issued, so    *)
(* when the newest of a request has run, none is left; and as long as no   *)
(* command of an earlier request was pending (clean), every command that   *)
(* is pending moves the data of this one.                                  *)
(***************************************************************************)
AhciSlot == 0 .. (CommandSlots - 1)
AhciSector == 0 .. (AhciSectors - 1)
AhciValue == 0 .. AhciRequests
AhciBegin == {"boot", "stop_cr", "stop_fr", "base", "start"}
AhciWork == {"slot", "busy", "issue", "wait", "copy"}
AhciOp == [write : BOOLEAN, lba : 0 .. AhciSectors, n : 0 .. AhciBlocks]

AhciTyped ==
  /\ ahciPc \in AhciBegin \cup AhciWork \cup {"idle", "unit", "off"}
  /\ op \in AhciOp /\ ahciNreq \in AhciValue /\ ahciDone \in 0 .. AhciBlocks /\ unit \in 0 .. AhciUnit
  /\ slot \in AhciSlot
  /\ ahciTable \in [AhciSlot -> [write : BOOLEAN, lba : Nat, n : Nat]]
  /\ ci \in Seq(AhciSlot)
  /\ io \in [0 .. (AhciUnit - 1) -> AhciValue] /\ ahciDisk \in [AhciSector -> AhciValue]
  /\ ahciGot \in [0 .. (AhciBlocks - 1) -> AhciValue]
  /\ ahciResult \in {"none", "ok", "error", "DE_ALIGNMENT"}

AhciBits ==
  /\ ahciSt \in BOOLEAN /\ cr \in BOOLEAN /\ fre \in BOOLEAN /\ fr \in BOOLEAN /\ based \in BOOLEAN
  /\ single \in BOOLEAN /\ clean \in BOOLEAN

\* Commands that are issued have slots of their own and fit on the disk.
IssuedFit ==
  /\ \A i, j \in 1 .. Len(ci) : ci[i] = ci[j] => i = j
  /\ \A i \in 1 .. Len(ci) : /\ ahciTable[ci[i]].lba + ahciTable[ci[i]].n <= AhciSectors
                             /\ ahciTable[ci[i]].n <= AhciUnit

UnitIsLeft ==
  /\ ahciDone <= op.n /\ (ahciDone > 0 => op.lba + ahciDone <= AhciSectors)
  /\ ahciNreq = 0 => ahciDone = 0
  /\ ahciPc \in AhciWork =>
       unit > 0 /\ op.lba + ahciDone + unit <= AhciSectors /\ ahciDone + unit <= op.n

InOrder ==
  /\ ahciPc \in AhciBegin => ahciNreq = 0 /\ Len(ci) = 0
  /\ ahciPc \in {"busy", "issue"} => \A i \in 1 .. Len(ci) : ci[i] # slot
  /\ ahciPc \in {"busy", "issue", "wait", "copy"} =>
       ahciTable[slot] = [write |-> op.write, lba |-> op.lba + ahciDone, n |-> unit]
  /\ ahciPc = "wait" => Len(ci) = 0 \/ ci[Len(ci)] = slot
  /\ ahciPc = "copy" => Len(ci) = 0
  /\ clean /\ (ahciPc = "unit" \/ ahciResult = "ok") => Len(ci) = 0
  /\ ahciResult = "ok" =>
       ahciPc = "idle" /\ (ahciDone = op.n \/ op.lba + ahciDone >= AhciSectors)

\* What is pending, in the buffer, moved by the newest command, and done.
PendingIsOurs ==
  \A i \in 1 .. Len(ci) :
    /\ ahciTable[ci[i]].write = op.write
    /\ op.write => \A k \in 0 .. (ahciTable[ci[i]].n - 1) : io[k] = ahciNreq
BufferIsOurs ==
  ahciPc \in AhciWork /\ op.write => \A k \in 0 .. (unit - 1) : io[k] = ahciNreq
UnitMoved ==
  ahciPc \in {"wait", "copy"} /\ Len(ci) = 0 =>
    \A k \in 0 .. (unit - 1) :
      IF op.write THEN ahciDisk[op.lba + ahciDone + k] = ahciNreq
      ELSE io[k] = ahciDisk[op.lba + ahciDone + k]
DoneMoved ==
  ahciPc \in AhciWork \cup {"unit"} \/ ahciResult = "ok" =>
    \A i \in 0 .. (ahciDone - 1) :
      IF op.write THEN ahciDisk[op.lba + i] = ahciNreq ELSE ahciGot[i] = ahciDisk[op.lba + i]

AhciInv ==
  /\ AhciTyped /\ AhciBits /\ IssuedFit /\ UnitIsLeft /\ InOrder
  /\ clean => PendingIsOurs /\ BufferIsOurs /\ UnitMoved /\ DoneMoved

LEMMA AhciStays == AhciInv /\ UNCHANGED ahciVars => AhciInv'
BY DEF ahciVars, AhciInv, AhciTyped, AhciBits, IssuedFit, UnitIsLeft, InOrder, PendingIsOurs, BufferIsOurs,
       UnitMoved, DoneMoved

LEMMA AhciNumbers ==
  ASSUME AhciInv
  PROVE  /\ AhciSectors \in Nat /\ AhciUnit \in Nat /\ AhciBlocks \in Nat /\ AhciRequests \in Nat
         /\ AhciSectors > 0 /\ AhciUnit > 0 /\ AhciBlocks > 0 /\ CommandSlots \in Nat \ {0}
         /\ op.lba \in Nat /\ op.n \in Nat /\ op.n <= AhciBlocks /\ op.lba <= AhciSectors /\ op.write \in BOOLEAN
         /\ ahciDone \in Nat /\ unit \in Nat /\ unit <= AhciUnit /\ Len(ci) \in Nat /\ ahciNreq \in AhciValue
<1>1. AhciTyped
  BY DEF AhciInv
<1>2. ci \in Seq(AhciSlot)
  BY <1>1 DEF AhciTyped
<1>3. op.lba \in 0 .. AhciSectors /\ op.n \in 0 .. AhciBlocks /\ op.write \in BOOLEAN
  BY <1>1 DEF AhciTyped, AhciOp
<1>. QED BY <1>1, <1>2, <1>3, CommandAssumption DEF AhciTyped

LEMMA AhciStart == AhciDisk!Init => AhciInv
<1>. SUFFICES ASSUME AhciDisk!Init PROVE AhciInv
  OBVIOUS
<1>1. /\ ahciPc = "boot" /\ op = AhciDisk!NoOp /\ ahciNreq = 0 /\ ahciDone = 0 /\ unit = 0 /\ slot = 0
      /\ ahciTable = [s \in AhciSlot |-> AhciDisk!NoOp] /\ ci = <<>>
      /\ io = [i \in 0 .. (AhciUnit - 1) |-> 0] /\ ahciGot = [i \in 0 .. (AhciBlocks - 1) |-> 0]
      /\ ahciDisk = [b \in AhciSector |-> 0] /\ ahciResult = "none"
  BY DEF AhciDisk!Init, AhciDisk!Slot, AhciDisk!Sector, AhciSlot, AhciSector
<1>2. AhciBits
  BY DEF AhciBits, AhciDisk!Init
<1>3. Len(ci) = 0 /\ ci \in Seq(AhciSlot)
  BY <1>1
<1>4. AhciTyped
  BY <1>1, <1>3, CommandAssumption
     DEF AhciTyped, AhciBegin, AhciOp, AhciDisk!NoOp, AhciSlot, AhciSector, AhciValue
<1>5. IssuedFit /\ UnitIsLeft /\ InOrder /\ PendingIsOurs /\ BufferIsOurs /\ UnitMoved /\ DoneMoved
  BY <1>1, <1>3 DEF IssuedFit, UnitIsLeft, InOrder, PendingIsOurs, BufferIsOurs, UnitMoved, DoneMoved,
                    AhciWork, AhciDisk!NoOp
<1>. QED BY <1>2, <1>4, <1>5 DEF AhciInv

\* A step outside of requests.
Outside ==
  /\ ahciPc \in AhciBegin \cup {"copy", "idle", "off"} /\ ahciPc' \in AhciBegin \cup {"idle", "off"}
  /\ ahciResult = "ok" => ahciPc' = "idle"
  /\ ahciPc' \in AhciBegin => ahciPc \in AhciBegin
  /\ UNCHANGED <<op, ahciNreq, ahciDone, unit, single, slot, ahciTable, ci, io, ahciGot, ahciDisk, ahciResult, clean>>

LEMMA OutsideKeeps == AhciInv /\ Outside /\ AhciBits' => AhciInv'
<1>. SUFFICES ASSUME AhciInv, Outside, AhciBits' PROVE AhciInv'
  OBVIOUS
<1>1. AhciTyped' /\ IssuedFit' /\ UnitIsLeft' /\ InOrder'
  BY DEF Outside, AhciInv, AhciTyped, IssuedFit, UnitIsLeft, InOrder, AhciBegin, AhciWork
<1>2. clean' => clean /\ PendingIsOurs' /\ BufferIsOurs' /\ UnitMoved'
  BY DEF Outside, AhciInv, PendingIsOurs, BufferIsOurs, UnitMoved, AhciBegin, AhciWork
<1>3. clean' => DoneMoved'
  BY DEF Outside, AhciInv, DoneMoved, AhciBegin, AhciWork
<1>. QED BY <1>1, <1>2, <1>3 DEF AhciInv

LEMMA BeginKeeps ==
  ASSUME AhciInv, AhciDisk!Boot \/ AhciDisk!StopCommands \/ AhciDisk!StopFis \/ AhciDisk!SetBase \/ AhciDisk!StartPort
  PROVE  AhciInv'
<1>1. AhciBits /\ (ahciPc \in AhciBegin => ahciResult # "ok")
  BY DEF AhciInv, InOrder, AhciBegin
<1>2. CASE AhciDisk!Boot
  <2>1. Outside
    BY <1>1, <1>2 DEF AhciDisk!Boot, AhciDisk!request, AhciDisk!regs, Outside, AhciBegin
  <2>2. AhciBits'
    BY <1>1, <1>2 DEF AhciDisk!Boot, AhciDisk!request, AhciDisk!regs, AhciBits
  <2>. QED BY <2>1, <2>2, OutsideKeeps
<1>3. CASE AhciDisk!StopCommands
  <2>1. Outside
    BY <1>1, <1>3 DEF AhciDisk!StopCommands, AhciDisk!request, Outside, AhciBegin
  <2>2. AhciBits'
    BY <1>1, <1>3 DEF AhciDisk!StopCommands, AhciDisk!request, AhciBits
  <2>. QED BY <2>1, <2>2, OutsideKeeps
<1>4. CASE AhciDisk!StopFis
  <2>1. Outside
    BY <1>1, <1>4 DEF AhciDisk!StopFis, AhciDisk!request, Outside, AhciBegin
  <2>2. AhciBits'
    BY <1>1, <1>4 DEF AhciDisk!StopFis, AhciDisk!request, AhciBits
  <2>. QED BY <2>1, <2>2, OutsideKeeps
<1>5. CASE AhciDisk!SetBase
  <2>1. Outside
    BY <1>1, <1>5 DEF AhciDisk!SetBase, AhciDisk!request, Outside, AhciBegin
  <2>2. AhciBits'
    BY <1>1, <1>5 DEF AhciDisk!SetBase, AhciDisk!request, AhciBits
  <2>. QED BY <2>1, <2>2, OutsideKeeps
<1>6. CASE AhciDisk!StartPort
  <2>1. Outside
    BY <1>1, <1>6 DEF AhciDisk!StartPort, AhciDisk!request, Outside, AhciBegin
  <2>2. AhciBits'
    BY <1>1, <1>6 DEF AhciDisk!StartPort, AhciDisk!request, AhciBits
  <2>. QED BY <2>1, <2>2, OutsideKeeps
<1>. QED BY <1>2, <1>3, <1>4, <1>5, <1>6

\* The registers move and nothing else.
LEMMA BitsKeep ==
  ASSUME AhciInv, AhciBits',
         UNCHANGED <<ahciPc, op, ahciNreq, ahciDone, unit, slot, ahciTable, ci, io, ahciGot, ahciDisk, ahciResult, clean>>
  PROVE  AhciInv'
BY DEF AhciInv, AhciTyped, IssuedFit, UnitIsLeft, InOrder, PendingIsOurs, BufferIsOurs, UnitMoved, DoneMoved

LEMMA FollowKeeps == AhciInv /\ AhciDisk!Follow => AhciInv'
<1>. SUFFICES ASSUME AhciInv, AhciDisk!Follow PROVE AhciInv'
  OBVIOUS
<1>1. AhciBits /\ (cr' = ahciSt \/ cr' = cr) /\ (fr' = fre \/ fr' = fr)
      /\ UNCHANGED <<ahciSt, fre, based, single, clean>>
  BY DEF AhciInv, AhciDisk!Follow, AhciDisk!request
<1>2. AhciBits'
  BY <1>1 DEF AhciBits
<1>3. UNCHANGED <<ahciPc, op, ahciNreq, ahciDone, unit, slot, ahciTable, ci, io, ahciGot, ahciDisk, ahciResult, clean>>
  BY DEF AhciDisk!Follow, AhciDisk!request
<1>. QED BY <1>2, <1>3, BitsKeep

LEMMA IdentifiedKeeps == AhciInv /\ AhciDisk!Identified => AhciInv'
<1>. SUFFICES ASSUME AhciInv, AhciDisk!Identified PROVE AhciInv'
  OBVIOUS
<1>1. Outside /\ UNCHANGED <<ahciSt, cr, fre, fr, based, single, clean>>
  BY DEF AhciDisk!Identified, AhciDisk!request, AhciDisk!regs, Outside, AhciInv, InOrder, AhciBegin
<1>2. AhciBits'
  BY <1>1 DEF AhciInv, AhciBits
<1>. QED BY <1>1, <1>2, OutsideKeeps

LEMMA IdentifyKeeps == AhciInv /\ AhciDisk!Identify => AhciInv'
<1>. SUFFICES ASSUME AhciInv, AhciDisk!Identify PROVE AhciInv'
  OBVIOUS
<1>1. /\ ahciPc = "start" /\ op' = [write |-> FALSE, lba |-> 0, n |-> 1] /\ unit' = 1 /\ single' = TRUE
      /\ ahciPc' = "slot"
      /\ UNCHANGED <<ahciSt, cr, fre, fr, based, ahciNreq, ahciDone, slot, ahciTable, ci, io, ahciGot, ahciDisk,
                     ahciResult, clean>>
  BY DEF AhciDisk!Identify, AhciDisk!NoOp, AhciDisk!regs
<1>2. ahciDone = 0 /\ op'.write = FALSE /\ op'.lba = 0 /\ op'.n = 1 /\ ahciResult # "ok" /\ Len(ci) = 0
  <2>1. ahciNreq = 0 /\ Len(ci) = 0 /\ ahciResult # "ok" /\ ahciDone = 0
    BY <1>1 DEF AhciInv, UnitIsLeft, InOrder, AhciBegin
  <2>. QED BY <1>1, <2>1
<1>3. AhciTyped'
  <2>1. op' \in AhciOp
    BY <1>1, AhciNumbers DEF AhciOp
  <2>2. unit' \in 0 .. AhciUnit
    BY <1>1, AhciNumbers
  <2>. QED BY <1>1, <2>1, <2>2 DEF AhciInv, AhciTyped, AhciWork
<1>4. AhciBits'
  BY <1>1 DEF AhciInv, AhciBits
<1>5. IssuedFit' /\ UnitIsLeft' /\ InOrder'
  BY <1>1, <1>2, AhciNumbers DEF AhciInv, IssuedFit, UnitIsLeft, InOrder, AhciBegin
<1>6. BufferIsOurs' /\ UnitMoved' /\ DoneMoved'
  BY <1>1, <1>2 DEF BufferIsOurs, UnitMoved, DoneMoved
<1>7. clean => PendingIsOurs'
  BY <1>1, <1>2 DEF AhciInv, PendingIsOurs
<1>. QED BY <1>1, <1>3, <1>4, <1>5, <1>6, <1>7 DEF AhciInv

LEMMA RequestKeeps == AhciInv /\ AhciDisk!Request => AhciInv'
<1>. SUFFICES ASSUME AhciInv, AhciDisk!Request PROVE AhciInv'
  OBVIOUS
<1>1. /\ ahciPc = "idle" /\ ahciNreq < AhciRequests /\ ahciNreq' = ahciNreq + 1 /\ op' \in AhciOp
      /\ ahciPc' \in {"unit", "idle"} /\ ahciResult' \in {"none", "DE_ALIGNMENT"}
      /\ ahciDone' = 0 /\ single' = FALSE /\ unit' = 0 /\ clean' = (ci = <<>>)
      /\ ahciGot' = [i \in 0 .. (AhciBlocks - 1) |-> 0]
      /\ UNCHANGED <<ahciSt, cr, fre, fr, based, slot, ahciTable, ci, io, ahciDisk>>
  BY DEF AhciDisk!Request, AhciDisk!regs, AhciDisk!Ops, AhciOp
<1>2. AhciTyped'
  <2>1. ahciNreq' \in AhciValue /\ 0 \in AhciValue /\ 0 \in 0 .. AhciBlocks /\ 0 \in 0 .. AhciUnit
    BY <1>1, AhciNumbers DEF AhciValue
  <2>. QED BY <1>1, <2>1 DEF AhciInv, AhciTyped
<1>3. AhciBits'
  BY <1>1 DEF AhciInv, AhciBits
<1>4. op'.n >= 0 /\ ahciNreq' # 0
  <2>1. op'.n \in 0 .. AhciBlocks
    BY <1>1 DEF AhciOp
  <2>2. op'.n >= 0
    BY <2>1, AhciNumbers
  <2>3. ahciNreq \in 0 .. AhciRequests
    BY AhciNumbers DEF AhciValue
  <2>4. ahciNreq' # 0
    BY <2>3, <1>1
  <2>. QED BY <2>2, <2>4
<1>5. clean' => Len(ci) = 0
  <2>1. clean' => ci = <<>>
    BY <1>1
  <2>. QED BY <2>1
<1>6. IssuedFit' /\ UnitIsLeft' /\ InOrder'
  BY <1>1, <1>4, <1>5 DEF AhciInv, IssuedFit, UnitIsLeft, InOrder, AhciWork, AhciBegin
<1>7. clean' => PendingIsOurs'
  BY <1>1, <1>5 DEF PendingIsOurs
<1>8. BufferIsOurs' /\ UnitMoved' /\ DoneMoved'
  BY <1>1 DEF BufferIsOurs, UnitMoved, DoneMoved, AhciWork
<1>. QED BY <1>2, <1>3, <1>6, <1>7, <1>8 DEF AhciInv

\* A failed command is repeated with one sector, or ends the request.
LEMMA AhciFailedKeeps ==
  ASSUME AhciInv, AhciDisk!Failed, ahciPc \in AhciWork,
         UNCHANGED <<ahciSt, cr, fre, fr, based, op, ahciNreq, ahciDone, slot, ahciTable, ci, io, ahciGot, ahciDisk, clean>>
  PROVE  AhciInv'
<1>0. ahciResult # "ok"
  BY DEF AhciInv, InOrder, AhciWork
<1>1. CASE ahciPc' \in {"off", "idle"} /\ ahciResult' = "error" /\ UNCHANGED <<unit, single>>
  <2>1. AhciTyped' /\ AhciBits'
    BY <1>1 DEF AhciInv, AhciTyped, AhciBits
  <2>2. IssuedFit' /\ UnitIsLeft' /\ InOrder'
    BY <1>1 DEF AhciInv, IssuedFit, UnitIsLeft, InOrder, AhciWork, AhciBegin
  <2>3. BufferIsOurs' /\ UnitMoved' /\ DoneMoved' /\ (clean => PendingIsOurs')
    BY <1>1 DEF AhciInv, BufferIsOurs, UnitMoved, DoneMoved, PendingIsOurs, AhciWork
  <2>. QED BY <2>1, <2>2, <2>3 DEF AhciInv
<1>2. CASE ahciPc' = "slot" /\ single' = TRUE /\ unit' = 1 /\ UNCHANGED ahciResult
  <2>1. unit' \in 0 .. AhciUnit
    BY <1>2, AhciNumbers
  <2>2. AhciTyped' /\ AhciBits'
    BY <1>2, <2>1 DEF AhciInv, AhciTyped, AhciBits, AhciWork
  <2>3. unit > 0 /\ op.lba + ahciDone + unit <= AhciSectors /\ ahciDone + unit <= op.n
    BY DEF AhciInv, UnitIsLeft
  <2>. DEFINE a == op.lba
              n == op.n
  <2>4. a \in Nat /\ n \in Nat /\ ahciDone \in Nat /\ unit \in Nat /\ AhciSectors \in Nat
    BY AhciNumbers
  <2>5. op.lba + ahciDone + 1 <= AhciSectors /\ ahciDone + 1 <= op.n
    <3>1. a + ahciDone + unit <= AhciSectors /\ ahciDone + unit <= n
      BY <2>3
    <3>. HIDE DEF a, n
    <3>2. a + ahciDone + 1 <= AhciSectors /\ ahciDone + 1 <= n
      BY <2>3, <2>4, <3>1
    <3>. QED BY <3>2 DEF a, n
  <2>6. IssuedFit' /\ UnitIsLeft' /\ InOrder'
    BY <1>0, <1>2, <2>5 DEF AhciInv, IssuedFit, UnitIsLeft, InOrder, AhciBegin
  <2>7. clean => BufferIsOurs'
    <3>. SUFFICES ASSUME clean, op.write, NEW k \in 0 .. 0 PROVE io[k] = ahciNreq
      BY <1>2 DEF BufferIsOurs
    <3>1. k \in 0 .. (unit - 1)
      BY <2>3, <2>4
    <3>. QED BY <3>1 DEF AhciInv, BufferIsOurs
  <2>8. UnitMoved' /\ (clean => DoneMoved' /\ PendingIsOurs')
    BY <1>2 DEF AhciInv, UnitMoved, DoneMoved, PendingIsOurs, AhciWork
  <2>. QED BY <2>2, <2>6, <2>7, <2>8 DEF AhciInv
<1>. QED BY <1>1, <1>2 DEF AhciDisk!Failed

\* The sectors of the next command.
LEMMA UnitSectorsIs ==
  ASSUME AhciInv, ahciDone < op.n, AhciDisk!UnitSectors # 0
  PROVE  LET u == AhciDisk!UnitSectors
         IN  u \in 0 .. AhciUnit /\ u > 0 /\ op.lba + ahciDone + u <= AhciSectors /\ ahciDone + u <= op.n
<1>. DEFINE a == op.lba
            n == op.n
            z == ahciDone
            u == AhciDisk!UnitSectors
<1>1. a \in Nat /\ n \in Nat /\ z \in Nat /\ AhciSectors \in Nat /\ AhciUnit \in Nat /\ AhciUnit > 0 /\ z < n
  BY AhciNumbers
<1>2. u = IF a + z >= AhciSectors THEN 0
          ELSE AhciDisk!Least(AhciDisk!Least(n - z, AhciUnit), AhciSectors - (a + z))
  BY DEF AhciDisk!UnitSectors
<1>3. u # 0
  OBVIOUS
<1>. HIDE DEF a, n, z, u
<1>4. ~(a + z >= AhciSectors)
  BY <1>2, <1>3
<1>5. n - z \in Nat /\ n - z > 0 /\ AhciSectors - (a + z) \in Nat /\ AhciSectors - (a + z) > 0
  BY <1>1, <1>4
<1>6. u \in Nat /\ u > 0 /\ u <= n - z /\ u <= AhciUnit /\ u <= AhciSectors - (a + z)
  BY <1>1, <1>2, <1>4, <1>5 DEF AhciDisk!Least
<1>7. u \in 0 .. AhciUnit /\ u > 0 /\ a + z + u <= AhciSectors /\ z + u <= n
  BY <1>1, <1>6
<1>. QED BY <1>7 DEF a, n, z, u

LEMMA NoUnit ==
  ASSUME AhciInv, ahciDone >= op.n \/ AhciDisk!UnitSectors = 0
  PROVE  ahciDone = op.n \/ op.lba + ahciDone >= AhciSectors
<1>. DEFINE a == op.lba
            n == op.n
            z == ahciDone
<1>1. /\ a \in Nat /\ n \in Nat /\ z \in Nat /\ AhciSectors \in Nat /\ AhciUnit \in Nat /\ AhciUnit > 0 /\ z <= n
  BY AhciNumbers DEF AhciInv, UnitIsLeft
<1>2. z >= n \/ 0 = IF a + z >= AhciSectors THEN 0
                    ELSE AhciDisk!Least(AhciDisk!Least(n - z, AhciUnit), AhciSectors - (a + z))
  BY DEF AhciDisk!UnitSectors
<1>. HIDE DEF a, n, z
<1>3. z = n \/ a + z >= AhciSectors
  <2>. SUFFICES ASSUME z < n, a + z < AhciSectors PROVE FALSE
    BY <1>1
  <2>1. n - z \in Nat /\ n - z > 0 /\ AhciSectors - (a + z) \in Nat /\ AhciSectors - (a + z) > 0
    BY <1>1
  <2>2. AhciDisk!Least(n - z, AhciUnit) \in Nat /\ AhciDisk!Least(n - z, AhciUnit) > 0
    BY <1>1, <2>1 DEF AhciDisk!Least
  <2>3. AhciDisk!Least(AhciDisk!Least(n - z, AhciUnit), AhciSectors - (a + z)) > 0
    BY <2>1, <2>2 DEF AhciDisk!Least
  <2>. QED BY <1>1, <1>2, <2>3
<1>. QED BY <1>3 DEF a, n, z

LEMMA NextUnitKeeps == AhciInv /\ AhciDisk!NextUnit => AhciInv'
<1>. SUFFICES ASSUME AhciInv, AhciDisk!NextUnit PROVE AhciInv'
  OBVIOUS
<1>0. /\ ahciPc = "unit" /\ single' = FALSE
      /\ UNCHANGED <<ahciSt, cr, fre, fr, based, op, ahciNreq, ahciDone, slot, ahciTable, ci, ahciGot, ahciDisk, clean>>
  BY DEF AhciDisk!NextUnit, AhciDisk!regs
<1>1. AhciBits'
  BY <1>0 DEF AhciInv, AhciBits
<1>2. CASE /\ ahciDone >= op.n \/ AhciDisk!UnitSectors = 0
           /\ ahciResult' = "ok" /\ ahciPc' = "idle" /\ UNCHANGED <<unit, io>>
  <2>1. AhciTyped'
    BY <1>0, <1>2 DEF AhciInv, AhciTyped
  <2>2. IssuedFit' /\ UnitIsLeft' /\ InOrder'
    BY <1>0, <1>2, NoUnit DEF AhciInv, IssuedFit, UnitIsLeft, InOrder, AhciWork, AhciBegin
  <2>3. BufferIsOurs' /\ UnitMoved' /\ (clean => PendingIsOurs' /\ DoneMoved')
    BY <1>0, <1>2 DEF AhciInv, BufferIsOurs, UnitMoved, DoneMoved, PendingIsOurs, AhciWork
  <2>. QED BY <1>0, <1>1, <2>1, <2>2, <2>3 DEF AhciInv
<1>3. CASE /\ ~(ahciDone >= op.n) /\ AhciDisk!UnitSectors # 0
           /\ unit' = AhciDisk!UnitSectors /\ io' = AhciDisk!Filled(AhciDisk!UnitSectors)
           /\ ahciPc' = "slot" /\ UNCHANGED ahciResult
  <2>1. unit' \in 0 .. AhciUnit /\ unit' > 0 /\ op.lba + ahciDone + unit' <= AhciSectors /\ ahciDone + unit' <= op.n
    <3>1. ahciDone < op.n
      BY <1>3, AhciNumbers
    <3>. QED BY <3>1, <1>3, UnitSectorsIs
  <2>2. io' = [i \in DOMAIN io |-> IF op.write /\ i < unit' THEN ahciNreq ELSE io[i]]
    BY <1>3 DEF AhciDisk!Filled
  <2>3. io' \in [0 .. (AhciUnit - 1) -> AhciValue]
    BY <2>2, AhciNumbers DEF AhciInv, AhciTyped
  <2>4. AhciTyped'
    BY <1>0, <1>3, <2>1, <2>3 DEF AhciInv, AhciTyped, AhciWork
  <2>5. ahciResult # "ok" /\ (clean => Len(ci) = 0)
    BY <1>0 DEF AhciInv, InOrder
  <2>6. IssuedFit' /\ UnitIsLeft' /\ InOrder'
    BY <1>0, <1>3, <2>1, <2>5 DEF AhciInv, IssuedFit, UnitIsLeft, InOrder, AhciWork, AhciBegin
  <2>7. BufferIsOurs'
    <3>. SUFFICES ASSUME op.write, NEW k \in 0 .. (unit' - 1) PROVE io'[k] = ahciNreq
      BY <1>0 DEF BufferIsOurs
    <3>0. AhciUnit \in Nat
      BY CommandAssumption
    <3>1. k \in 0 .. (AhciUnit - 1) /\ k < unit'
      <4>. DEFINE v == unit'
      <4>1. v \in 0 .. AhciUnit /\ k \in 0 .. (v - 1)
        BY <2>1
      <4>. HIDE DEF v
      <4>2. k \in 0 .. (AhciUnit - 1) /\ k < v
        BY <3>0, <4>1
      <4>. QED BY <4>2 DEF v
    <3>. QED BY <2>2, <3>1 DEF AhciInv, AhciTyped
  <2>8. UnitMoved' /\ (clean => PendingIsOurs' /\ DoneMoved')
    BY <1>0, <1>3, <2>5 DEF AhciInv, UnitMoved, DoneMoved, PendingIsOurs, AhciWork
  <2>. QED BY <1>0, <1>1, <2>4, <2>6, <2>7, <2>8 DEF AhciInv
<1>. QED BY <1>2, <1>3 DEF AhciDisk!NextUnit

LEMMA SlotKeeps == AhciInv /\ AhciDisk!GetSlot => AhciInv'
<1>. SUFFICES ASSUME AhciInv, AhciDisk!GetSlot PROVE AhciInv'
  OBVIOUS
<1>. DEFINE free == AhciSlot \ AhciDisk!InUse
            s == CHOOSE x \in free : \A y \in free : x <= y
<1>0. /\ ahciPc = "slot"
      /\ UNCHANGED <<ahciSt, cr, fre, fr, based, op, ahciNreq, ahciDone, ci, io, ahciGot, ahciDisk, clean>>
  BY DEF AhciDisk!GetSlot, AhciDisk!regs
<1>1. CASE AhciDisk!Failed /\ UNCHANGED <<slot, ahciTable, tfes>>
  BY <1>0, <1>1, AhciFailedKeeps DEF AhciWork
<1>2. CASE /\ free # {} /\ slot' = s /\ ahciTable' = [ahciTable EXCEPT ![s] = AhciDisk!Command]
           /\ ahciPc' = "busy" /\ UNCHANGED <<unit, single, ahciResult>>
  <2>1. s \in AhciSlot /\ \A i \in 1 .. Len(ci) : ci[i] # s
    <3>1. free \subseteq Nat
      BY AhciNumbers DEF AhciSlot
    <3>2. \E x \in free : \A y \in free : x <= y
      BY <1>2, <3>1, LeastNat
    <3>3. s \in free
      BY <3>2
    <3>4. DOMAIN ci = 1 .. Len(ci)
      BY DEF AhciInv, AhciTyped
    <3>. QED BY <3>3, <3>4 DEF AhciDisk!InUse
  <2>2. PICK c, t : c = AhciDisk!Command /\ t = s
    OBVIOUS
  <2>. HIDE DEF s, free
  <2>3. /\ c = [write |-> op.write, lba |-> op.lba + ahciDone, n |-> unit]
        /\ c \in [write : BOOLEAN, lba : Nat, n : Nat]
    <3>1. op.lba + ahciDone \in Nat
      BY AhciNumbers
    <3>. QED BY <2>2, <3>1, AhciNumbers DEF AhciDisk!Command
  <2>4. /\ ahciTable' = [ahciTable EXCEPT ![t] = c] /\ slot' = t /\ t \in AhciSlot
        /\ \A i \in 1 .. Len(ci) : ci[i] # t
    BY <1>2, <2>1, <2>2
  <2>5. ahciTable' \in [AhciSlot -> [write : BOOLEAN, lba : Nat, n : Nat]] /\ ahciTable'[t] = c
        /\ \A x \in AhciSlot : x # t => ahciTable'[x] = ahciTable[x]
    BY <2>3, <2>4 DEF AhciInv, AhciTyped
  <2>6. \A i \in 1 .. Len(ci) : ci[i] \in AhciSlot /\ ahciTable'[ci[i]] = ahciTable[ci[i]]
    <3>1. \A i \in 1 .. Len(ci) : ci[i] \in AhciSlot
      BY DEF AhciInv, AhciTyped
    <3>. QED BY <3>1, <2>4, <2>5
  <2>7. AhciTyped' /\ AhciBits'
    BY <1>0, <1>2, <2>4, <2>5 DEF AhciInv, AhciTyped, AhciBits, AhciWork
  <2>8. IssuedFit' /\ UnitIsLeft' /\ InOrder'
    BY <1>0, <1>2, <2>3, <2>4, <2>5, <2>6 DEF AhciInv, IssuedFit, UnitIsLeft, InOrder, AhciWork, AhciBegin
  <2>9. UnitMoved' /\ (clean => PendingIsOurs' /\ DoneMoved' /\ BufferIsOurs')
    BY <1>0, <1>2, <2>6 DEF AhciInv, UnitMoved, DoneMoved, PendingIsOurs, BufferIsOurs, AhciWork
  <2>. QED BY <1>0, <2>7, <2>8, <2>9 DEF AhciInv
<1>. QED BY <1>1, <1>2 DEF AhciDisk!GetSlot, AhciDisk!Slot, AhciSlot

LEMMA BusyKeeps == AhciInv /\ AhciDisk!Busy => AhciInv'
<1>. SUFFICES ASSUME AhciInv, AhciDisk!Busy PROVE AhciInv'
  OBVIOUS
<1>0. /\ ahciPc = "busy"
      /\ UNCHANGED <<ahciSt, cr, fre, fr, based, op, ahciNreq, ahciDone, slot, ahciTable, ci, io, ahciGot, ahciDisk, clean>>
  BY DEF AhciDisk!Busy, AhciDisk!regs
<1>1. CASE AhciDisk!Failed
  BY <1>0, <1>1, AhciFailedKeeps DEF AhciWork
<1>2. CASE ahciPc' = "issue" /\ UNCHANGED <<unit, single, ahciResult>>
  BY <1>0, <1>2 DEF AhciInv, AhciTyped, AhciBits, IssuedFit, UnitIsLeft, InOrder, UnitMoved, DoneMoved, PendingIsOurs,
                    BufferIsOurs, AhciWork, AhciBegin
<1>. QED BY <1>1, <1>2 DEF AhciDisk!Busy

LEMMA AhciIssueKeeps == AhciInv /\ AhciDisk!Issue => AhciInv'
<1>. SUFFICES ASSUME AhciInv, AhciDisk!Issue PROVE AhciInv'
  OBVIOUS
<1>0. /\ ahciPc = "issue" /\ ci' = Append(ci, slot) /\ ahciPc' = "wait"
      /\ UNCHANGED <<ahciSt, cr, fre, fr, based, op, ahciNreq, ahciDone, unit, single, slot, ahciTable, io, ahciGot,
                     ahciDisk, ahciResult, clean>>
  BY DEF AhciDisk!Issue, AhciDisk!regs, AhciDisk!request
<1>1. ci \in Seq(AhciSlot) /\ slot \in AhciSlot /\ Len(ci) \in Nat
  BY DEF AhciInv, AhciTyped
<1>. DEFINE l == Len(ci)
<1>2. /\ ci' \in Seq(AhciSlot) /\ Len(ci') = l + 1 /\ ci'[l + 1] = slot
      /\ \A i \in 1 .. l : ci'[i] = ci[i]
  BY <1>0, <1>1
<1>3. l \in Nat /\ (\A i \in 1 .. (l + 1) : i \in 1 .. l \/ i = l + 1) /\ l + 1 # 0
  BY <1>1
<1>4. /\ \A i \in 1 .. l : ci[i] # slot
      /\ ahciTable[slot] = [write |-> op.write, lba |-> op.lba + ahciDone, n |-> unit]
  BY <1>0 DEF AhciInv, InOrder
<1>5. ahciTable[slot].lba = op.lba + ahciDone /\ ahciTable[slot].n = unit /\ ahciTable[slot].write = op.write
  BY <1>4
<1>6. op.lba + ahciDone + unit <= AhciSectors /\ unit <= AhciUnit
  BY <1>0, AhciNumbers DEF AhciInv, UnitIsLeft, AhciWork
<1>7. AhciTyped' /\ AhciBits'
  BY <1>0, <1>2 DEF AhciInv, AhciTyped, AhciBits, AhciWork
<1>8. IssuedFit'
  <2>1. \A i, j \in 1 .. l : ci[i] = ci[j] => i = j
    BY DEF AhciInv, IssuedFit
  <2>2. \A i \in 1 .. l : ahciTable[ci[i]].lba + ahciTable[ci[i]].n <= AhciSectors /\ ahciTable[ci[i]].n <= AhciUnit
    BY DEF AhciInv, IssuedFit
  <2>. HIDE DEF l
  <2>3. ASSUME NEW i \in 1 .. (l + 1), NEW j \in 1 .. (l + 1), ci'[i] = ci'[j] PROVE i = j
    BY <1>2, <1>3, <1>4, <2>1, <2>3
  <2>4. ASSUME NEW i \in 1 .. (l + 1)
        PROVE  ahciTable[ci'[i]].lba + ahciTable[ci'[i]].n <= AhciSectors /\ ahciTable[ci'[i]].n <= AhciUnit
    <3>1. CASE i \in 1 .. l
      BY <3>1, <1>2, <2>2
    <3>2. CASE i = l + 1
      BY <3>2, <1>2, <1>5, <1>6
    <3>. QED BY <3>1, <3>2, <1>3
  <2>. QED BY <1>0, <1>2, <2>3, <2>4 DEF IssuedFit
<1>9. UnitIsLeft' /\ InOrder'
  BY <1>0, <1>2, <1>3, <1>4 DEF AhciInv, UnitIsLeft, InOrder, AhciWork, AhciBegin
<1>10. BufferIsOurs' <=> BufferIsOurs
  BY <1>0 DEF BufferIsOurs, AhciWork
<1>11. clean => PendingIsOurs'
  <2>1. clean => \A i \in 1 .. l : /\ ahciTable[ci[i]].write = op.write
                                   /\ op.write => \A k \in 0 .. (ahciTable[ci[i]].n - 1) : io[k] = ahciNreq
    BY DEF AhciInv, PendingIsOurs
  <2>2. clean /\ op.write => \A k \in 0 .. (unit - 1) : io[k] = ahciNreq
    BY <1>0 DEF AhciInv, BufferIsOurs, AhciWork
  <2>. HIDE DEF l
  <2>3. ASSUME clean, NEW i \in 1 .. (l + 1)
        PROVE  /\ ahciTable[ci'[i]].write = op.write
               /\ op.write => \A k \in 0 .. (ahciTable[ci'[i]].n - 1) : io[k] = ahciNreq
    <3>1. CASE i \in 1 .. l
      BY <3>1, <1>2, <2>1, <2>3
    <3>2. CASE i = l + 1
      BY <3>2, <1>2, <1>5, <2>2, <2>3
    <3>. QED BY <3>1, <3>2, <1>3
  <2>. QED BY <1>0, <1>2, <2>3 DEF PendingIsOurs
<1>12. UnitMoved'
  BY <1>2, <1>3 DEF UnitMoved
<1>13. clean => DoneMoved'
  BY <1>0 DEF AhciInv, DoneMoved, AhciWork
<1>. QED BY <1>0, <1>7, <1>8, <1>9, <1>10, <1>11, <1>12, <1>13 DEF AhciInv

LEMMA WaitKeeps ==
  ASSUME AhciInv, AhciDisk!WaitError \/ AhciDisk!WaitDone \/ AhciDisk!WaitTimeout
  PROVE  AhciInv'
<1>1. CASE AhciDisk!WaitError
  BY <1>1, AhciFailedKeeps DEF AhciDisk!WaitError, AhciDisk!regs, AhciWork
<1>2. CASE AhciDisk!WaitTimeout
  BY <1>2, AhciFailedKeeps DEF AhciDisk!WaitTimeout, AhciDisk!regs, AhciWork
<1>3. CASE AhciDisk!WaitDone
  <2>0. /\ ahciPc = "wait" /\ ahciPc' = "copy" /\ slot \notin AhciDisk!InUse
        /\ UNCHANGED <<ahciSt, cr, fre, fr, based, op, ahciNreq, ahciDone, unit, single, slot, ahciTable, ci, io, ahciGot,
                       ahciDisk, ahciResult, clean>>
    BY <1>3 DEF AhciDisk!WaitDone, AhciDisk!regs, AhciDisk!request
  <2>1. Len(ci) = 0
    <3>1. Len(ci) \in Nat /\ DOMAIN ci = 1 .. Len(ci)
      BY DEF AhciInv, AhciTyped
    <3>2. Len(ci) = 0 \/ ci[Len(ci)] = slot
      BY <2>0 DEF AhciInv, InOrder
    <3>3. ASSUME Len(ci) # 0 PROVE FALSE
      <4>1. Len(ci) \in DOMAIN ci
        BY <3>1, <3>3
      <4>. QED BY <2>0, <3>2, <3>3, <4>1 DEF AhciDisk!InUse
    <3>. QED BY <3>3
  <2>. QED BY <2>0, <2>1
           DEF AhciInv, AhciTyped, AhciBits, IssuedFit, UnitIsLeft, InOrder, UnitMoved, DoneMoved, PendingIsOurs,
               BufferIsOurs, AhciWork, AhciBegin
<1>. QED BY <1>1, <1>2, <1>3

LEMMA CopyKeeps == AhciInv /\ AhciDisk!CopyOut => AhciInv'
<1>. SUFFICES ASSUME AhciInv, AhciDisk!CopyOut PROVE AhciInv'
  OBVIOUS
<1>0. /\ ahciPc = "copy" /\ ahciNreq > 0 /\ ahciDone' = ahciDone + unit /\ ahciPc' = "unit"
      /\ ahciGot' = IF op.write THEN ahciGot
                    ELSE [i \in DOMAIN ahciGot |->
                            IF i >= ahciDone /\ i < ahciDone + unit THEN io[i - ahciDone] ELSE ahciGot[i]]
      /\ UNCHANGED <<ahciSt, cr, fre, fr, based, op, ahciNreq, unit, single, slot, ahciTable, ci, io, ahciDisk,
                     ahciResult, clean>>
  BY DEF AhciDisk!CopyOut, AhciDisk!regs
<1>. DEFINE a == op.lba
            n == op.n
            z == ahciDone
            u == unit
<1>1. /\ a \in Nat /\ n \in Nat /\ z \in Nat /\ u \in Nat /\ AhciSectors \in Nat /\ AhciUnit \in Nat
      /\ AhciBlocks \in Nat /\ n <= AhciBlocks /\ u <= AhciUnit
  BY AhciNumbers
<1>2. u > 0 /\ a + z + u <= AhciSectors /\ z + u <= n
  BY <1>0 DEF AhciInv, UnitIsLeft, AhciWork
<1>3. ahciGot \in [0 .. (AhciBlocks - 1) -> AhciValue] /\ io \in [0 .. (AhciUnit - 1) -> AhciValue]
  BY DEF AhciInv, AhciTyped
<1>4. ahciResult # "ok" /\ Len(ci) = 0 /\ ahciNreq # 0
  <2>1. ahciResult # "ok" /\ Len(ci) = 0
    BY <1>0 DEF AhciInv, InOrder
  <2>2. ahciNreq # 0
    BY <1>0
  <2>. QED BY <2>1, <2>2
<1>5. clean => \A k \in 0 .. (u - 1) :
        IF op.write THEN ahciDisk[a + z + k] = ahciNreq ELSE io[k] = ahciDisk[a + z + k]
  BY <1>0, <1>4 DEF AhciInv, UnitMoved
<1>6. clean => \A i \in 0 .. (z - 1) :
        IF op.write THEN ahciDisk[a + i] = ahciNreq ELSE ahciGot[i] = ahciDisk[a + i]
  BY <1>0 DEF AhciInv, DoneMoved, AhciWork
<1>7. /\ ahciDone' = z + u /\ unit' = u
      /\ ahciGot' = IF op.write THEN ahciGot
                    ELSE [i \in 0 .. (AhciBlocks - 1) |-> IF i >= z /\ i < z + u THEN io[i - z] ELSE ahciGot[i]]
  BY <1>0, <1>3
<1>. HIDE DEF a, n, z, u
<1>8. /\ z + u \in 0 .. AhciBlocks
      /\ \A i \in 0 .. (AhciBlocks - 1) : i >= z /\ i < z + u => i - z \in 0 .. (AhciUnit - 1)
  BY <1>1, <1>2
<1>9. ahciGot' \in [0 .. (AhciBlocks - 1) -> AhciValue]
  BY <1>3, <1>7, <1>8
<1>10. AhciTyped'
  <2>1. ahciDone' \in 0 .. AhciBlocks
    BY <1>7, <1>8
  <2>. QED BY <1>0, <1>9, <2>1 DEF AhciInv, AhciTyped
<1>11. AhciBits'
  BY <1>0 DEF AhciInv, AhciBits
<1>12. UnitIsLeft'
  <2>1. z + u <= n /\ a + (z + u) <= AhciSectors
    BY <1>1, <1>2
  <2>. QED BY <2>1, <1>0, <1>4, <1>7 DEF UnitIsLeft, AhciWork, a, n
<1>13. IssuedFit' /\ InOrder'
  BY <1>0, <1>4 DEF AhciInv, IssuedFit, InOrder, AhciWork, AhciBegin
<1>14. UnitMoved' /\ BufferIsOurs' /\ (clean => PendingIsOurs')
  BY <1>0 DEF AhciInv, UnitMoved, BufferIsOurs, PendingIsOurs, AhciWork
<1>15. ASSUME clean, NEW i \in 0 .. (z + u - 1)
       PROVE  IF op.write THEN ahciDisk[a + i] = ahciNreq ELSE ahciGot'[i] = ahciDisk[a + i]
  <2>1. i \in 0 .. (AhciBlocks - 1)
    BY <1>1, <1>2
  <2>2. CASE i < z
    <3>1. i \in 0 .. (z - 1) /\ ~(i >= z)
      BY <2>2, <1>1
    <3>. QED BY <3>1, <2>1, <1>6, <1>7, <1>15
  <2>3. CASE i >= z
    <3>1. i - z \in 0 .. (u - 1) /\ i < z + u /\ a + z + (i - z) = a + i
      BY <2>3, <1>1
    <3>2. ~op.write => ahciGot'[i] = io[i - z]
      BY <3>1, <2>1, <2>3, <1>7
    <3>. QED BY <3>1, <3>2, <1>5, <1>15
  <2>. QED BY <2>2, <2>3, <1>1
<1>16. clean => DoneMoved'
  <2>1. ASSUME clean, NEW i \in 0 .. (ahciDone' - 1)
        PROVE  IF op'.write THEN ahciDisk'[op'.lba + i] = ahciNreq' ELSE ahciGot'[i] = ahciDisk'[op'.lba + i]
    <3>1. i \in 0 .. (z + u - 1)
      BY <1>1, <1>7, <2>1
    <3>2. IF op.write THEN ahciDisk[op.lba + i] = ahciNreq ELSE ahciGot'[i] = ahciDisk[op.lba + i]
      BY <3>1, <1>15, <2>1 DEF a
    <3>. QED BY <3>2, <1>0
  <2>. QED BY <2>1 DEF DoneMoved
<1>. QED BY <1>0, <1>10, <1>11, <1>12, <1>13, <1>14, <1>16 DEF AhciInv

\* The controller runs the oldest command, or fails.
LEMMA RunKeeps == AhciInv /\ AhciDisk!RunCommand => AhciInv'
<1>. SUFFICES ASSUME AhciInv, AhciDisk!RunCommand PROVE AhciInv'
  OBVIOUS
<1>0. /\ cr /\ ci # <<>>
      /\ UNCHANGED <<ahciPc, ahciSt, fre, fr, based, op, ahciNreq, ahciDone, unit, single, slot, ahciTable, ahciGot,
                     ahciResult, clean>>
  BY DEF AhciDisk!RunCommand, AhciDisk!request
<1>1. CASE cr' = FALSE /\ UNCHANGED <<ahciDisk, io, ci>>
  <2>1. AhciBits'
    BY <1>0, <1>1 DEF AhciInv, AhciBits
  <2>. QED BY <1>0, <1>1, <2>1, BitsKeep
<1>2. CASE /\ ahciDisk' = IF ahciTable[Head(ci)].write
                          THEN [b \in AhciSector |->
                                  IF b >= ahciTable[Head(ci)].lba
                                     /\ b < ahciTable[Head(ci)].lba + ahciTable[Head(ci)].n
                                  THEN io[b - ahciTable[Head(ci)].lba] ELSE ahciDisk[b]]
                          ELSE ahciDisk
           /\ io' = IF ahciTable[Head(ci)].write THEN io
                    ELSE [i \in DOMAIN io |-> IF i < ahciTable[Head(ci)].n
                                              THEN ahciDisk[ahciTable[Head(ci)].lba + i] ELSE io[i]]
           /\ ci' = Tail(ci) /\ UNCHANGED cr
  <2>1. /\ ci \in Seq(AhciSlot) /\ io \in [0 .. (AhciUnit - 1) -> AhciValue]
        /\ ahciDisk \in [AhciSector -> AhciValue]
        /\ ahciTable \in [AhciSlot -> [write : BOOLEAN, lba : Nat, n : Nat]]
    BY DEF AhciInv, AhciTyped
  <2>2. /\ ci' \in Seq(AhciSlot) /\ Len(ci') \in Nat /\ Len(ci) = Len(ci') + 1
        /\ \A i \in 1 .. Len(ci') : ci'[i] = ci[i + 1]
        /\ Head(ci) = ci[1] /\ ci[1] \in AhciSlot
    BY <1>0, <1>2, <2>1
  <2>3. PICK w, b, m : w = ahciTable[ci[1]].write /\ b = ahciTable[ci[1]].lba /\ m = ahciTable[ci[1]].n
    OBVIOUS
  <2>. DEFINE l == Len(ci')
              a == op.lba
              z == ahciDone
              u == unit
  <2>4. /\ l \in Nat /\ a \in Nat /\ z \in Nat /\ u \in Nat /\ AhciSectors \in Nat /\ AhciUnit \in Nat
        /\ u <= AhciUnit
    BY <2>2, AhciNumbers
  <2>5. w \in BOOLEAN /\ b \in Nat /\ m \in Nat /\ b + m <= AhciSectors /\ m <= AhciUnit
    <3>1. 1 \in 1 .. Len(ci)
      BY <2>2
    <3>2. ahciTable[ci[1]] \in [write : BOOLEAN, lba : Nat, n : Nat]
      BY <2>1, <2>2
    <3>3. ahciTable[ci[1]].lba + ahciTable[ci[1]].n <= AhciSectors /\ ahciTable[ci[1]].n <= AhciUnit
      BY <3>1 DEF AhciInv, IssuedFit
    <3>. QED BY <2>3, <3>2, <3>3
  <2>6. /\ w => io' = io /\ ahciDisk' = [x \in AhciSector |->
                              IF x >= b /\ x < b + m THEN io[x - b] ELSE ahciDisk[x]]
        /\ ~w => ahciDisk' = ahciDisk /\ io' = [i \in 0 .. (AhciUnit - 1) |->
                              IF i < m THEN ahciDisk[b + i] ELSE io[i]]
    BY <1>2, <2>1, <2>2, <2>3
  <2>7. io' \in [0 .. (AhciUnit - 1) -> AhciValue] /\ ahciDisk' \in [AhciSector -> AhciValue]
    <3>1. CASE w
      <4>1. \A x \in AhciSector : x >= b /\ x < b + m => x - b \in 0 .. (AhciUnit - 1)
        BY <2>4, <2>5 DEF AhciSector
      <4>. QED BY <3>1, <4>1, <2>1, <2>6
    <3>2. CASE ~w
      <4>1. \A i \in 0 .. (AhciUnit - 1) : i < m => b + i \in AhciSector
        BY <2>4, <2>5 DEF AhciSector
      <4>. QED BY <3>2, <4>1, <2>1, <2>6
    <3>. QED BY <3>1, <3>2
  <2>8. AhciTyped' /\ AhciBits'
    BY <1>0, <1>2, <2>2, <2>7 DEF AhciInv, AhciTyped, AhciBits
  <2>9. \A i \in 1 .. l : ci'[i] = ci[i + 1]
    BY <2>2
  <2>10. Len(ci) = l + 1
    BY <2>2
  <2>. HIDE DEF l
  <2>11. /\ \A i \in 1 .. l : i + 1 \in 1 .. (l + 1)
         /\ \A i, j \in 1 .. l : i + 1 = j + 1 => i = j
         /\ 1 \in 1 .. (l + 1) /\ l + 1 # 0 /\ (l # 0 => l \in 1 .. l)
    BY <2>4
  <2>12. IssuedFit'
    <3>1. /\ \A i, j \in 1 .. (l + 1) : ci[i] = ci[j] => i = j
          /\ \A i \in 1 .. (l + 1) : /\ ahciTable[ci[i]].lba + ahciTable[ci[i]].n <= AhciSectors
                                     /\ ahciTable[ci[i]].n <= AhciUnit
      BY <2>10 DEF AhciInv, IssuedFit
    <3>2. ASSUME NEW i \in 1 .. l, NEW j \in 1 .. l, ci'[i] = ci'[j] PROVE i = j
      <4>1. i + 1 \in 1 .. (l + 1) /\ j + 1 \in 1 .. (l + 1) /\ ci[i + 1] = ci[j + 1]
        BY <3>2, <2>9, <2>11
      <4>2. i + 1 = j + 1
        BY <4>1, <3>1
      <4>. QED BY <4>2, <2>11
    <3>3. ASSUME NEW i \in 1 .. l
          PROVE  ahciTable[ci'[i]].lba + ahciTable[ci'[i]].n <= AhciSectors /\ ahciTable[ci'[i]].n <= AhciUnit
      <4>1. i + 1 \in 1 .. (l + 1) /\ ci'[i] = ci[i + 1]
        BY <2>9, <2>11
      <4>. QED BY <4>1, <3>1
    <3>4. l = Len(ci') /\ ahciTable' = ahciTable
      BY <1>0 DEF l
    <3>. QED BY <3>2, <3>3, <3>4 DEF IssuedFit
  <2>13. UnitIsLeft'
    BY <1>0 DEF AhciInv, UnitIsLeft
  <2>14. ahciPc \notin AhciBegin /\ ahciPc # "copy" /\ (clean => ahciPc # "unit" /\ ahciResult # "ok")
    BY <2>10, <2>11 DEF AhciInv, InOrder
  <2>15. InOrder'
    <3>1. ahciPc \in {"busy", "issue"} => \A i \in 1 .. l : ci'[i] # slot
      <4>1. ahciPc \in {"busy", "issue"} => \A i \in 1 .. (l + 1) : ci[i] # slot
        BY <2>10 DEF AhciInv, InOrder
      <4>. QED BY <4>1, <2>9, <2>11
    <3>2. ahciPc = "wait" => l = 0 \/ ci'[l] = slot
      <4>1. ahciPc = "wait" => ci[l + 1] = slot
        BY <2>10, <2>11 DEF AhciInv, InOrder
      <4>. QED BY <4>1, <2>9, <2>11
    <3>. QED BY <1>0, <2>14, <3>1, <3>2 DEF AhciInv, InOrder, l
  <2>16. clean => w = op.write /\ (op.write => \A k \in 0 .. (m - 1) : io[k] = ahciNreq)
    BY <2>3, <2>10, <2>11 DEF AhciInv, PendingIsOurs
  <2>17. clean => PendingIsOurs'
    <3>1. ASSUME clean, NEW i \in 1 .. l
          PROVE  /\ ahciTable[ci'[i]].write = op.write
                 /\ op.write => \A k \in 0 .. (ahciTable[ci'[i]].n - 1) : io'[k] = ahciNreq
      <4>1. i + 1 \in 1 .. Len(ci) /\ ci'[i] = ci[i + 1]
        BY <2>9, <2>10, <2>11
      <4>2. op.write => io' = io
        BY <2>6, <2>16, <3>1
      <4>. QED BY <4>1, <4>2, <3>1 DEF AhciInv, PendingIsOurs
    <3>2. l = Len(ci') /\ ahciTable' = ahciTable /\ op' = op /\ ahciNreq' = ahciNreq
      BY <1>0 DEF l
    <3>. QED BY <3>1, <3>2 DEF PendingIsOurs
  <2>18. clean => BufferIsOurs'
    <3>1. clean /\ op.write => io' = io
      BY <2>6, <2>16
    <3>. QED BY <1>0, <3>1 DEF AhciInv, BufferIsOurs
  <2>19. clean => UnitMoved'
    <3>. SUFFICES ASSUME clean, ahciPc \in {"wait", "copy"}, l = 0, NEW k \in 0 .. (u - 1)
                  PROVE  IF op.write THEN ahciDisk'[a + z + k] = ahciNreq ELSE io'[k] = ahciDisk'[a + z + k]
      BY <1>0 DEF UnitMoved, l
    <3>1. ahciPc = "wait" /\ ci[1] = slot
      <4>1. ahciPc = "wait"
        BY <2>14
      <4>2. l + 1 = 1
        OBVIOUS
      <4>. QED BY <4>1, <4>2, <2>10, <2>11 DEF AhciInv, InOrder
    <3>2. ahciTable[slot] = [write |-> op.write, lba |-> a + z, n |-> u]
      BY <3>1 DEF AhciInv, InOrder
    <3>3. b = a + z /\ m = u
      BY <2>3, <3>1, <3>2
    <3>. HIDE DEF a, z, u
    <3>4. a + z + k \in AhciSector /\ a + z + k >= b /\ a + z + k < b + m /\ (a + z + k) - b = k
          /\ k \in 0 .. (m - 1) /\ k \in 0 .. (AhciUnit - 1) /\ k < m /\ b + k = a + z + k
      BY <2>4, <2>5, <3>3 DEF AhciSector
    <3>5. CASE op.write
      <4>1. w /\ io[k] = ahciNreq
        BY <3>4, <3>5, <2>16
      <4>2. ahciDisk'[a + z + k] = io[(a + z + k) - b]
        BY <4>1, <3>4, <2>6
      <4>. QED BY <4>1, <4>2, <3>4, <3>5
    <3>6. CASE ~op.write
      <4>1. ~w
        BY <3>6, <2>16
      <4>2. io'[k] = ahciDisk[b + k] /\ ahciDisk' = ahciDisk
        BY <4>1, <3>4, <2>6
      <4>. QED BY <4>2, <3>4, <3>6
    <3>. QED BY <3>5, <3>6, AhciNumbers
  <2>20. clean => DoneMoved'
    <3>. SUFFICES ASSUME clean, ahciPc \in AhciWork \cup {"unit"}, NEW i \in 0 .. (z - 1)
                  PROVE  IF op.write THEN ahciDisk'[a + i] = ahciNreq ELSE ahciGot[i] = ahciDisk'[a + i]
      BY <1>0, <2>14 DEF DoneMoved
    <3>1. IF op.write THEN ahciDisk[a + i] = ahciNreq ELSE ahciGot[i] = ahciDisk[a + i]
      BY DEF AhciInv, DoneMoved
    <3>2. z > 0 => a + z <= AhciSectors
      BY DEF AhciInv, UnitIsLeft
    <3>. HIDE DEF a, z
    <3>3. a + i \in AhciSector /\ a + i \in Nat
      BY <2>4, <3>2 DEF AhciSector
    <3>4. CASE op.write
      <4>1. w
        BY <3>4, <2>16
      <4>2. CASE a + i >= b /\ a + i < b + m
        <5>1. (a + i) - b \in 0 .. (m - 1)
          BY <4>2, <2>5, <3>3
        <5>2. ahciDisk'[a + i] = io[(a + i) - b]
          BY <4>1, <4>2, <3>3, <2>6
        <5>. QED BY <5>1, <5>2, <2>16, <3>4
      <4>3. CASE ~(a + i >= b /\ a + i < b + m)
        <5>1. ahciDisk'[a + i] = ahciDisk[a + i]
          BY <4>1, <4>3, <3>3, <2>6
        <5>. QED BY <5>1, <3>1, <3>4
      <4>. QED BY <4>2, <4>3
    <3>5. CASE ~op.write
      <4>1. ahciDisk' = ahciDisk
        BY <3>5, <2>6, <2>16
      <4>. QED BY <4>1, <3>1, <3>5
    <3>. QED BY <3>4, <3>5
  <2>. QED BY <1>0, <2>8, <2>12, <2>13, <2>15, <2>17, <2>18, <2>19, <2>20 DEF AhciInv
<1>. QED BY <1>1, <1>2 DEF AhciDisk!RunCommand, AhciDisk!Sector, AhciSector

LEMMA AhciSteps == AhciInv /\ AhciDisk!Next => AhciInv'
BY BeginKeeps, IdentifyKeeps, IdentifiedKeeps, FollowKeeps, RequestKeeps, NextUnitKeeps, SlotKeeps, BusyKeeps,
   AhciIssueKeeps, WaitKeeps, CopyKeeps, RunKeeps
   DEF AhciDisk!Next, AhciDisk!Driver

LEMMA AhciRight == AhciInv => AhciDisk!SuccessIsReal
BY DEF AhciInv, InOrder, DoneMoved, AhciDisk!SuccessIsReal

\* The controller's tables: only those of slots that are not issued are written.
LEMMA AhciTables == AhciInv /\ AhciDisk!Next => AhciDisk!TablesKept
<1>. SUFFICES ASSUME AhciInv, AhciDisk!Next, NEW i \in DOMAIN ci PROVE ahciTable'[ci[i]] = ahciTable[ci[i]]
  BY DEF AhciDisk!TablesKept
<1>1. CASE AhciDisk!GetSlot
  <2>. DEFINE free == AhciSlot \ AhciDisk!InUse
              s == CHOOSE x \in free : \A y \in free : x <= y
  <2>1. CASE UNCHANGED ahciTable
    BY <2>1
  <2>2. CASE free # {} /\ ahciTable' = [ahciTable EXCEPT ![s] = AhciDisk!Command]
    <3>1. free \subseteq Nat
      BY AhciNumbers DEF AhciSlot
    <3>2. \E x \in free : \A y \in free : x <= y
      BY <2>2, <3>1, LeastNat
    <3>3. s \in free
      BY <3>2
    <3>4. s # ci[i] /\ s \in AhciSlot
      BY <3>3 DEF AhciDisk!InUse
    <3>5. ahciTable \in [AhciSlot -> [write : BOOLEAN, lba : Nat, n : Nat]]
      BY DEF AhciInv, AhciTyped
    <3>. HIDE DEF s, free
    <3>. QED BY <2>2, <3>4, <3>5
  <2>. QED BY <1>1, <2>1, <2>2 DEF AhciDisk!GetSlot, AhciDisk!Slot, AhciSlot
<1>2. CASE ~AhciDisk!GetSlot
  BY <1>2 DEF AhciDisk!Next, AhciDisk!Driver, AhciDisk!Boot, AhciDisk!StopCommands, AhciDisk!StopFis, AhciDisk!SetBase,
              AhciDisk!StartPort, AhciDisk!Identify, AhciDisk!Identified, AhciDisk!Follow, AhciDisk!Request,
              AhciDisk!NextUnit, AhciDisk!Busy, AhciDisk!Issue, AhciDisk!WaitError, AhciDisk!WaitDone,
              AhciDisk!WaitTimeout, AhciDisk!CopyOut, AhciDisk!RunCommand
<1>. QED BY <1>1, <1>2

-----------------------------------------------------------------------------
(***************************************************************************)
(* The floppy driver.  A motor is on as long as it was asked for within    *)
(* the limit, and the register follows it except within a reset (Motors);  *)
(* the controller's rate is that of the selected drive, or a reset is due  *)
(* or the drive is known to be changed (Rates); a drive that is not known  *)
(* to be changed and does not show its line has the disk that the callers  *)
(* know (Known), and so a transfer moves sectors of that disk (Counted).   *)
(***************************************************************************)
Spt(r) == FloppySpt[r]
Kinds == FloppyDisks \cup {FloppyDrive!NoDisk}
Steps == {"step", "load", "high", "wait"}
AttemptPlans ==
  {<<"reset", "recal", "seek", "seek", "probe">>, <<"recal", "seek", "seek", "probe">>,
   <<"seek", "seek", "probe">>, <<"seek", "probe">>, <<"probe">>}
TransferPlans == {<<"reset", "rw">>, <<"rw">>}
Plans == AttemptPlans \cup TransferPlans
Drives == 0 .. 1
FloppyErrors == {"DE_ADDRESS_MARK", "DE_MEDIA_CHANGED", "DE_BLOCK_READ"}
Busy == floppyPhase \in Steps
Probing == Busy /\ try > 0
Transfer == floppyPhase = "unit" \/ (Busy /\ try = 0)

DriverTyped ==
  /\ floppyPhase \in {"idle", "prepare", "unit"} \cup Steps
  /\ plan \in Plans \cup {<<>>}
  /\ call \in [kind : {"none", "rw", "test", "stat"}, d : Drives, lba : Nat, n : Nat]
  /\ try \in Nat /\ try <= 2 * Len(FloppySpt) /\ first \in FloppyErrors \cup {"none"}
  /\ retry \in 0 .. FloppyRetries /\ size \in Nat /\ floppyDone \in Nat
  /\ floppyResult \in FloppyErrors \cup {"none", "ok", "DE_UNEXPECTED"} /\ fstate \in 1 .. 2
DrivesTyped ==
  /\ dsel \in Drives /\ motor \in SUBSET Drives /\ hw \in SUBSET Drives /\ loaded \in SUBSET Drives
  /\ rate \in 0 .. Len(FloppySpt)
  /\ floppyTable \in [Drives -> [rate : 0 .. Len(FloppySpt), spt : Nat]]
  /\ changed \in [Drives -> BOOLEAN] /\ used \in [Drives -> BOOLEAN] /\ debut \in BOOLEAN
  /\ age \in [Drives -> 0 .. 2] /\ wait \in 0 .. 2 /\ nap \in 0 .. 1
  /\ floppyDisk \in [Drives -> Kinds] /\ line \in [Drives -> BOOLEAN] /\ told \in [Drives -> Kinds]

\* Where the driver is, and what is left of the plan.
Where ==
  /\ Busy <=> plan # <<>>
  /\ Busy => (try > 0 <=> plan \in AttemptPlans)
  /\ floppyPhase \in {"load", "high"} => Head(plan) = "reset"
  /\ floppyPhase \in {"prepare", "unit"} => try = 0
  /\ floppyPhase = "unit" \/ Busy => dsel = call.d

Motors ==
  /\ \A d \in Drives : age[d] < 2 => d \in motor
  /\ floppyPhase \notin {"load", "high"} => motor \subseteq hw
  /\ floppyPhase = "high" => motor \subseteq loaded
  /\ floppyPhase = "wait" /\ Head(plan) \in {"probe", "rw"} => age[call.d] = wait

\* The reset of a round has set the table, or will.
Tabled == floppyTable[call.d] = FloppyDrive!Table(try)
Rates ==
  /\ floppyPhase \in {"idle", "prepare"} => changed[dsel] \/ rate = floppyTable[dsel].rate
  /\ floppyPhase = "unit" => rate = floppyTable[call.d].rate
  /\ Busy /\ Head(plan) # "reset" => rate = floppyTable[call.d].rate
  /\ Probing /\ (Head(plan) # "reset" \/ floppyPhase # "step") => Tabled

\* What a drive has.
Same(d) == floppyDisk[d] \in {told[d], FloppyDrive!NoDisk}
Known ==
  /\ \A d \in Drives : changed[d] \/ floppyTable[d].spt > 0
  /\ \A d \in Drives : ~changed[d] /\ ~(Probing /\ d = call.d) =>
       /\ told[d] \in FloppyDisks /\ floppyTable[d].spt = told[d].spt
       /\ ~line[d] => floppyDisk[d] = told[d]
  /\ fstate = 1 => \A d \in Drives : changed[d] \/ (Probing /\ d = call.d)
  /\ floppyPhase = "wait" /\ Head(plan) = "probe" => ~changed[call.d]
  /\ Transfer => ~changed[call.d]
  /\ floppyPhase = "unit" \/ (floppyPhase = "step" /\ plan = <<"rw">>) =>
       Same(call.d) \/ (line[call.d] /\ age[call.d] < 2)
  /\ Busy /\ try = 0 /\ ~(floppyPhase = "step" /\ plan = <<"rw">>) => Same(call.d)

\* What was moved.
Sectors(k, l, n) == [i \in 1 .. n |-> <<k, l + i - 1>>]
Counted ==
  /\ floppyPhase = "prepare" \/ Probing => floppyDone = 0 /\ floppyGot = <<>>
  /\ Transfer => floppyDone <= call.n
  /\ Busy /\ try = 0 => size > 0 /\ floppyDone + size <= call.n
  /\ Transfer \/ (floppyPhase = "idle" /\ floppyResult = "ok" /\ call.kind = "rw") =>
       floppyGot = Sectors(told[call.d], call.lba, floppyDone)
  /\ floppyPhase = "prepare" \/ Probing \/ Transfer => call.kind # "none"
  /\ Transfer => call.kind = "rw"
  /\ floppyPhase = "idle" /\ floppyResult = "ok" /\ call.kind = "rw" =>
       \/ floppyDone = call.n
       \/ call.lba + floppyDone >= FloppyCylinders * 2 * told[call.d].spt

FloppyInv == DriverTyped /\ DrivesTyped /\ Where /\ Motors /\ Rates /\ Known /\ Counted

LEMMA FloppyStays == FloppyInv /\ UNCHANGED floppyVars => FloppyInv'
BY DEF floppyVars, FloppyInv, DriverTyped, DrivesTyped, Where, Motors, Rates, Known, Counted, Busy, Probing, Transfer,
       Tabled, Same, FloppyDrive!Table

LEMMA PlanIs ==
  ASSUME NEW p \in Plans
  PROVE  /\ p # <<>> /\ Head(p) \in {"reset", "recal", "seek", "probe", "rw"}
         /\ Head(p) = "probe" => p = <<"probe">> /\ p \in AttemptPlans
         /\ Head(p) = "rw" => p = <<"rw">> /\ p \notin AttemptPlans
         /\ p \in AttemptPlans <=> p \notin TransferPlans
         /\ Head(p) \notin {"probe", "rw"} =>
              /\ Tail(p) \in Plans /\ Head(Tail(p)) # "reset" /\ (Tail(p) \in AttemptPlans <=> p \in AttemptPlans)
              /\ p \notin AttemptPlans => Tail(p) = <<"rw">>
              /\ Head(p) # "reset" => p \in AttemptPlans
<1>1. CASE p = <<"reset", "recal", "seek", "seek", "probe">>
  BY <1>1 DEF Plans, AttemptPlans, TransferPlans
<1>2. CASE p = <<"recal", "seek", "seek", "probe">>
  BY <1>2 DEF Plans, AttemptPlans, TransferPlans
<1>3. CASE p = <<"seek", "seek", "probe">>
  BY <1>3 DEF Plans, AttemptPlans, TransferPlans
<1>4. CASE p = <<"seek", "probe">>
  BY <1>4 DEF Plans, AttemptPlans, TransferPlans
<1>5. CASE p = <<"probe">>
  BY <1>5 DEF Plans, AttemptPlans, TransferPlans
<1>6. CASE p = <<"reset", "rw">>
  BY <1>6 DEF Plans, AttemptPlans, TransferPlans
<1>7. CASE p = <<"rw">>
  BY <1>7 DEF Plans, AttemptPlans, TransferPlans
<1>. QED BY <1>1, <1>2, <1>3, <1>4, <1>5, <1>6, <1>7 DEF Plans, AttemptPlans, TransferPlans

LEMMA SomePlans ==
  /\ <<"probe">> \in Plans /\ <<"probe">> \in AttemptPlans /\ Head(<<"probe">>) = "probe"
  /\ <<"rw">> \in Plans /\ <<"rw">> \notin AttemptPlans /\ Head(<<"rw">>) = "rw"
  /\ <<"reset", "rw">> \in Plans /\ <<"reset", "rw">> \notin AttemptPlans /\ Head(<<"reset", "rw">>) = "reset"
  /\ <<"reset", "rw">> # <<"rw">> /\ FloppyDrive!Attempt # <<"rw">>
  /\ FloppyDrive!Attempt \in Plans /\ FloppyDrive!Attempt \in AttemptPlans /\ Head(FloppyDrive!Attempt) = "reset"
<1>1. <<"probe">> \in Plans /\ <<"rw">> \in Plans /\ <<"reset", "rw">> \in Plans /\ FloppyDrive!Attempt \in Plans
      /\ FloppyDrive!Attempt \in AttemptPlans
  BY DEF Plans, AttemptPlans, TransferPlans, FloppyDrive!Attempt
<1>2. Head(<<"probe">>) = "probe" /\ Head(<<"rw">>) = "rw" /\ Head(<<"reset", "rw">>) = "reset"
      /\ Head(FloppyDrive!Attempt) = "reset"
  BY DEF FloppyDrive!Attempt
<1>3. <<"reset", "rw">> \in TransferPlans
  BY DEF TransferPlans
<1>. QED BY <1>1, <1>2, <1>3, PlanIs

LEMMA SectorsNone == \A k, l : Sectors(k, l, 0) = <<>>
BY DEF Sectors

LEMMA FloppyStart == FloppyDrive!Init => FloppyInv
<1>. SUFFICES ASSUME FloppyDrive!Init PROVE FloppyInv
  OBVIOUS
<1>1. /\ floppyPhase = "idle" /\ plan = <<>> /\ call = FloppyDrive!NoCall /\ try = 0 /\ first = "none"
      /\ retry = 0 /\ size = 0 /\ floppyDone = 0 /\ floppyResult = "none" /\ fstate = 1
      /\ dsel = 0 /\ motor = {} /\ hw = {} /\ loaded = {} /\ rate = 0
      /\ floppyTable = [d \in Drives |-> FloppyDrive!NoTable] /\ changed = [d \in Drives |-> TRUE]
      /\ used = [d \in Drives |-> FALSE] /\ debut = FALSE /\ told = [d \in Drives |-> FloppyDrive!NoDisk]
      /\ age = [d \in Drives |-> 2] /\ wait = 0 /\ nap = 0 /\ line = [d \in Drives |-> TRUE]
  BY DEF FloppyDrive!Init, FloppyDrive!Drive, FloppyDrive!Limit, Drives
<1>2. PICK k \in FloppyDisks : floppyDisk = [d \in Drives |-> IF d = 0 THEN k ELSE FloppyDrive!NoDisk]
  BY DEF FloppyDrive!Init, FloppyDrive!Drive, Drives
<1>3. DriverTyped
  BY <1>1, FloppyAssumption DEF DriverTyped, FloppyDrive!NoCall, Drives
<1>4. DrivesTyped
  <2>1. floppyDisk \in [Drives -> Kinds] /\ told \in [Drives -> Kinds]
    BY <1>1, <1>2 DEF Kinds
  <2>2. floppyTable \in [Drives -> [rate : 0 .. Len(FloppySpt), spt : Nat]] /\ rate \in 0 .. Len(FloppySpt)
    <3>1. Len(FloppySpt) \in Nat
      BY FloppyAssumption
    <3>. QED BY <1>1, <3>1 DEF FloppyDrive!NoTable
  <2>3. dsel \in Drives /\ age \in [Drives -> 0 .. 2] /\ wait \in 0 .. 2 /\ nap \in 0 .. 1
    BY <1>1 DEF Drives
  <2>. QED BY <1>1, <2>1, <2>2, <2>3 DEF DrivesTyped
<1>5. Where /\ Motors /\ Rates
  BY <1>1 DEF Where, Motors, Rates, Busy, Probing, Steps, Drives
<1>6. Known /\ Counted
  BY <1>1 DEF Known, Counted, Busy, Probing, Transfer, Steps, Drives
<1>. QED BY <1>3, <1>4, <1>5, <1>6 DEF FloppyInv

LEMMA MotorTaskKeeps == FloppyInv /\ FloppyDrive!MotorTask => FloppyInv'
<1>. SUFFICES ASSUME FloppyInv, FloppyDrive!MotorTask PROVE FloppyInv'
  OBVIOUS
<1>1. /\ nap' = 1 /\ motor' = {d \in motor : age[d] < 2} /\ (hw' = motor' \/ (hw' = hw /\ motor' = motor))
      /\ UNCHANGED <<floppyPhase, plan, call, floppyNreq, try, first, retry, size, floppyDone, floppyGot, floppyResult,
                     fstate, dsel, loaded, rate, floppyTable, changed, used, debut, told, age, wait, floppyDisk, line>>
  BY DEF FloppyDrive!MotorTask, FloppyDrive!driver, FloppyDrive!drive, FloppyDrive!world, FloppyDrive!Limit,
         FloppyDrive!Period
<1>2. DriverTyped' /\ DrivesTyped'
  <2>1. motor' \in SUBSET Drives /\ hw' \in SUBSET Drives
    BY <1>1 DEF FloppyInv, DrivesTyped
  <2>2. nap' \in 0 .. 1
    BY <1>1
  <2>3. DriverTyped'
    BY <1>1 DEF FloppyInv, DriverTyped
  <2>. QED BY <1>1, <2>1, <2>2, <2>3 DEF FloppyInv, DrivesTyped
<1>3. Motors'
  BY <1>1 DEF FloppyInv, DrivesTyped, Motors
<1>4. Where' /\ Rates'
  BY <1>1 DEF FloppyInv, Where, Rates, Busy, Probing, Tabled, FloppyDrive!Table
<1>5. Known' /\ Counted'
  BY <1>1 DEF FloppyInv, Known, Counted, Busy, Probing, Transfer, Same
<1>. QED BY <1>2, <1>3, <1>4, <1>5 DEF FloppyInv

LEMMA TickKeeps == FloppyInv /\ FloppyDrive!Tick => FloppyInv'
<1>. SUFFICES ASSUME FloppyInv, FloppyDrive!Tick PROVE FloppyInv'
  OBVIOUS
<1>1. /\ floppyPhase \in {"wait", "idle"} /\ (floppyPhase = "wait" => wait < 2 /\ wait' = wait + 1)
      /\ (floppyPhase = "idle" => wait' = wait)
      /\ nap' = (IF nap = 0 THEN 0 ELSE nap - 1)
      /\ age' = [d \in Drives |-> IF age[d] < 2 THEN age[d] + 1 ELSE 2]
      /\ UNCHANGED <<floppyPhase, plan, call, floppyNreq, try, first, retry, size, floppyDone, floppyGot, floppyResult,
                     fstate, dsel, motor, hw, loaded, rate, floppyTable, changed, used, debut, told, floppyDisk, line>>
  BY DEF FloppyDrive!Tick, FloppyDrive!driver, FloppyDrive!fdc, FloppyDrive!drive, FloppyDrive!world, FloppyDrive!Limit,
         FloppyDrive!Drive, Drives
<1>2. DriverTyped'
  BY <1>1 DEF FloppyInv, DriverTyped
<1>3. DrivesTyped'
  <2>0. age \in [Drives -> 0 .. 2] /\ nap \in 0 .. 1 /\ wait \in 0 .. 2
    BY DEF FloppyInv, DrivesTyped
  <2>1. age' \in [Drives -> 0 .. 2]
    BY <1>1, <2>0
  <2>2. nap' \in 0 .. 1
    BY <1>1, <2>0
  <2>3. wait' \in 0 .. 2
    BY <1>1, <2>0
  <2>. QED BY <1>1, <2>1, <2>2, <2>3 DEF FloppyInv, DrivesTyped
<1>4. Motors'
  <2>1. \A d \in Drives : age'[d] < 2 => age[d] < 2
    BY <1>1 DEF FloppyInv, DrivesTyped
  <2>2. floppyPhase = "wait" /\ Head(plan) \in {"probe", "rw"} => age'[call.d] = wait'
    <3>1. call.d \in Drives
      BY DEF FloppyInv, DriverTyped
    <3>2. ASSUME floppyPhase = "wait", Head(plan) \in {"probe", "rw"} PROVE age'[call.d] = wait'
      <4>1. age[call.d] = wait /\ wait < 2 /\ wait' = wait + 1
        BY <1>1, <3>2 DEF FloppyInv, Motors
      <4>. QED BY <1>1, <3>1, <4>1
    <3>. QED BY <3>2
  <2>. QED BY <1>1, <2>1, <2>2 DEF FloppyInv, Motors
<1>5. Where' /\ Rates'
  BY <1>1 DEF FloppyInv, Where, Rates, Busy, Probing, Tabled, FloppyDrive!Table
<1>6. Known' /\ Counted'
  BY <1>1 DEF FloppyInv, Known, Counted, Busy, Probing, Transfer, Same
<1>. QED BY <1>2, <1>3, <1>4, <1>5, <1>6 DEF FloppyInv

LEMMA FloppyCallKeeps == FloppyInv /\ FloppyDrive!Call => FloppyInv'
<1>. SUFFICES ASSUME FloppyInv, FloppyDrive!Call PROVE FloppyInv'
  OBVIOUS
<1>1. PICK d \in Drives, k \in {"rw", "test", "stat"}, l \in {0, 2}, n \in {1, FloppySectors} :
        /\ call' = [kind |-> k, d |-> d, lba |-> l, n |-> n]
        /\ \/ k = "stat" /\ floppyPhase' = "idle" /\ floppyResult' = "ok" /\ plan' = <<>>
           \/ floppyPhase' = "prepare" /\ floppyResult' = "none" /\ plan' = <<>>
  BY DEF FloppyDrive!Call, FloppyDrive!Return, FloppyDrive!Drive, Drives
<1>2. /\ floppyPhase = "idle" /\ floppyDone' = 0 /\ size' = 0 /\ floppyGot' = <<>> /\ try' = 0 /\ first' = "none"
      /\ retry' = 0
      /\ UNCHANGED <<fstate, dsel, motor, hw, loaded, rate, floppyTable, changed, used, debut, told, age, wait, nap,
                     floppyDisk, line>>
  BY DEF FloppyDrive!Call, FloppyDrive!fdc, FloppyDrive!drive, FloppyDrive!world
<1>3. DriverTyped'
  <2>1. call' \in [kind : {"none", "rw", "test", "stat"}, d : Drives, lba : Nat, n : Nat]
    BY <1>1, FloppyAssumption
  <2>2. try' \in Nat /\ try' <= 2 * Len(FloppySpt) /\ retry' \in 0 .. FloppyRetries /\ size' \in Nat
    BY <1>2, FloppyAssumption
  <2>. QED BY <1>1, <1>2, <2>1, <2>2 DEF FloppyInv, DriverTyped
<1>4. DrivesTyped'
  BY <1>2 DEF FloppyInv, DrivesTyped
<1>5. Where' /\ Motors' /\ Rates'
  BY <1>1, <1>2 DEF FloppyInv, Where, Motors, Rates, Busy, Probing, Steps
<1>6. Known'
  BY <1>1, <1>2 DEF FloppyInv, Known, Busy, Probing, Transfer, Steps
<1>7. call'.kind = k
  BY <1>1
<1>8. Counted'
  BY <1>1, <1>2, <1>7 DEF Counted, Busy, Probing, Transfer, Steps
<1>. QED BY <1>3, <1>4, <1>5, <1>6, <1>8 DEF FloppyInv

\* The motor of a drive is started.
LEMMA MotorStarts ==
  ASSUME FloppyInv, NEW d \in Drives, FloppyDrive!StartMotor(d), floppyPhase \notin {"load", "high"}
  PROVE  /\ dsel' = d /\ motor' \in SUBSET Drives /\ hw' \in SUBSET Drives /\ motor' \subseteq hw'
         /\ age' \in [Drives -> 0 .. 2] /\ age'[d] = 0 /\ \A e \in Drives : age'[e] < 2 => e \in motor'
         /\ rate' = (IF d # dsel THEN floppyTable[d].rate ELSE rate) /\ rate' \in 0 .. Len(FloppySpt)
<1>1. /\ age' = [age EXCEPT ![d] = 0] /\ motor' = motor \cup {d} /\ dsel' = d
      /\ hw' = (IF motor' # motor \/ dsel' # dsel THEN motor' ELSE hw)
      /\ rate' = (IF dsel' # dsel THEN floppyTable[d].rate ELSE rate)
  BY DEF FloppyDrive!StartMotor
<1>2. age \in [Drives -> 0 .. 2] /\ motor \in SUBSET Drives /\ hw \in SUBSET Drives /\ motor \subseteq hw
      /\ \A e \in Drives : age[e] < 2 => e \in motor
  BY DEF FloppyInv, DrivesTyped, Motors
<1>3. rate \in 0 .. Len(FloppySpt) /\ floppyTable[d].rate \in 0 .. Len(FloppySpt)
  BY DEF FloppyInv, DrivesTyped
<1>4. age' \in [Drives -> 0 .. 2] /\ age'[d] = 0 /\ \A e \in Drives : age'[e] < 2 => e \in motor'
  BY <1>1, <1>2
<1>5. motor' \subseteq hw' /\ motor' \in SUBSET Drives /\ hw' \in SUBSET Drives
  BY <1>1, <1>2
<1>. QED BY <1>1, <1>3, <1>4, <1>5

LEMMA PrepareKeeps == FloppyInv /\ FloppyDrive!Prepare => FloppyInv'
<1>. SUFFICES ASSUME FloppyInv, FloppyDrive!Prepare PROVE FloppyInv'
  OBVIOUS
<1>. DEFINE d == call.d
            c == changed[d] \/ line[d]
<1>0. /\ floppyPhase = "prepare" /\ FloppyDrive!StartMotor(d)
      /\ UNCHANGED <<call, first, retry, size, floppyDone, floppyGot, fstate, loaded, floppyTable, told, wait, nap,
                     floppyDisk, line>>
  BY DEF FloppyDrive!Prepare, FloppyDrive!world
<1>1. d \in Drives /\ try = 0 /\ plan = <<>>
  BY <1>0 DEF FloppyInv, DriverTyped, Where, Busy, Steps
<1>2. /\ dsel' = d /\ motor' \in SUBSET Drives /\ hw' \in SUBSET Drives /\ motor' \subseteq hw'
      /\ age' \in [Drives -> 0 .. 2] /\ age'[d] = 0 /\ (\A e \in Drives : age'[e] < 2 => e \in motor')
      /\ rate' = (IF d # dsel THEN floppyTable[d].rate ELSE rate) /\ rate' \in 0 .. Len(FloppySpt)
  BY <1>0, <1>1, MotorStarts
<1>3. CASE /\ floppyPhase' = "step" /\ plan' = FloppyDrive!Attempt /\ try' = 1 /\ UNCHANGED floppyResult
           /\ changed' = [changed EXCEPT ![d] = @ \/ (fstate # 1 /\ c)]
           /\ debut' = ~used[d] /\ used' = [used EXCEPT ![d] = TRUE]
  <2>1. /\ changed' \in [Drives -> BOOLEAN] /\ (\A e \in Drives : changed[e] => changed'[e])
        /\ \A e \in Drives : e # d => changed'[e] = changed[e]
    BY <1>1, <1>3 DEF FloppyInv, DrivesTyped
  <2>2. DriverTyped'
    <3>1. try' \in Nat /\ try' <= 2 * Len(FloppySpt)
      <4>1. Len(FloppySpt) \in Nat /\ Len(FloppySpt) > 0
        BY FloppyAssumption
      <4>. QED BY <1>3, <4>1
    <3>. QED BY <1>0, <1>3, <3>1, SomePlans DEF FloppyInv, DriverTyped, Steps
  <2>3. DrivesTyped'
    <3>1. used' \in [Drives -> BOOLEAN] /\ debut' \in BOOLEAN
      BY <1>1, <1>3 DEF FloppyInv, DrivesTyped
    <3>. QED BY <1>0, <1>1, <1>2, <2>1, <3>1 DEF FloppyInv, DrivesTyped
  <2>4. Where' /\ Motors' /\ Rates'
    BY <1>0, <1>2, <1>3, SomePlans, PlanIs DEF Where, Motors, Rates, Busy, Probing, Steps
  <2>5. Known'
    BY <1>0, <1>1, <1>3, <2>1, SomePlans DEF FloppyInv, Known, Busy, Probing, Transfer, Steps
  <2>6. Counted'
    BY <1>0, <1>3 DEF FloppyInv, Counted, Busy, Probing, Transfer, Steps
  <2>. QED BY <2>2, <2>3, <2>4, <2>5, <2>6 DEF FloppyInv
<1>4. CASE /\ fstate # 1 /\ ~c /\ UNCHANGED <<try, changed, used, debut>>
           /\ \/ call.kind \in {"test", "stat"} /\ floppyPhase' = "idle" /\ floppyResult' = "ok" /\ plan' = <<>>
              \/ call.kind \notin {"test", "stat"} /\ floppyPhase' = "unit" /\ UNCHANGED <<plan, floppyResult>>
  <2>1. ~changed[d] /\ ~line[d]
    BY <1>4
  <2>2. DriverTyped' /\ DrivesTyped'
    BY <1>0, <1>1, <1>2, <1>4 DEF FloppyInv, DriverTyped, DrivesTyped
  <2>3. rate' = floppyTable[d].rate
    <3>1. d = dsel => rate = floppyTable[d].rate
      BY <1>0, <2>1 DEF FloppyInv, Rates
    <3>. QED BY <1>2, <3>1
  <2>4. Where' /\ Motors'
    BY <1>0, <1>1, <1>2, <1>4 DEF FloppyInv, Where, Motors, Busy, Steps
  <2>5. Rates'
    BY <1>0, <1>2, <1>4, <2>3 DEF Rates, Busy, Probing, Steps
  <2>6. floppyDisk[d] = told[d]
    BY <1>0, <1>1, <2>1 DEF FloppyInv, Known, Busy, Probing, Steps
  <2>7. Known'
    BY <1>0, <1>1, <1>4, <2>1, <2>6 DEF FloppyInv, Known, Busy, Probing, Transfer, Same, Steps
  <2>8. floppyDone = 0 /\ floppyGot = <<>> /\ call.kind # "none" /\ call.n \in Nat
        /\ call.kind \in {"none", "rw", "test", "stat"}
    BY <1>0 DEF FloppyInv, DriverTyped, Counted
  <2>9. Counted'
    BY <1>0, <1>1, <1>4, <2>8, SectorsNone DEF Counted, Busy, Probing, Transfer, Steps
  <2>. QED BY <2>2, <2>4, <2>5, <2>7, <2>9 DEF FloppyInv
<1>. QED BY <1>3, <1>4 DEF FloppyDrive!Prepare, FloppyDrive!Return

\* The table of a round.
LEMMA TableIs ==
  ASSUME NEW t \in Nat, t > 0, t <= 2 * Len(FloppySpt)
  PROVE  LET r == (t + 1) \div 2
         IN  /\ r \in 1 .. Len(FloppySpt) /\ FloppyDrive!Table(t) = [rate |-> r, spt |-> FloppySpt[r]]
             /\ FloppySpt[r] \in Nat \ {0}
             /\ FloppyDrive!Table(t) \in [rate : 0 .. Len(FloppySpt), spt : Nat]
<1>. DEFINE r == (t + 1) \div 2
<1>1. Len(FloppySpt) \in Nat /\ FloppySpt \in Seq(Nat \ {0})
  BY FloppyAssumption
<1>2. r \in 1 .. Len(FloppySpt)
  BY <1>1
<1>3. FloppyDrive!Table(t) = [rate |-> r, spt |-> FloppySpt[r]]
  BY DEF FloppyDrive!Table
<1>. HIDE DEF r
<1>4. FloppySpt[r] \in Nat \ {0}
  BY <1>1, <1>2
<1>5. FloppyDrive!Table(t) \in [rate : 0 .. Len(FloppySpt), spt : Nat]
  BY <1>1, <1>2, <1>3, <1>4
<1>. QED BY <1>2, <1>3, <1>4, <1>5 DEF r

LEMMA ResetLowKeeps == FloppyInv /\ FloppyDrive!ResetLow => FloppyInv'
<1>. SUFFICES ASSUME FloppyInv, FloppyDrive!ResetLow PROVE FloppyInv'
  OBVIOUS
<1>0. /\ floppyPhase = "step" /\ Head(plan) = "reset" /\ floppyPhase' = "load" /\ hw' = {}
      /\ floppyTable' = (IF try > 0 THEN [floppyTable EXCEPT ![call.d] = FloppyDrive!Table(try)] ELSE floppyTable)
      /\ UNCHANGED <<plan, call, try, first, retry, size, floppyDone, floppyGot, floppyResult, fstate, dsel, motor,
                     loaded, rate, changed, used, debut, told, age, wait, nap, floppyDisk, line>>
  BY DEF FloppyDrive!ResetLow, FloppyDrive!world
<1>1. /\ call.d \in Drives /\ try \in Nat /\ try <= 2 * Len(FloppySpt)
      /\ floppyTable \in [Drives -> [rate : 0 .. Len(FloppySpt), spt : Nat]]
  BY DEF FloppyInv, DriverTyped, DrivesTyped
<1>2. PICK t : t = FloppyDrive!Table(try)
  OBVIOUS
<1>3. try > 0 => t \in [rate : 0 .. Len(FloppySpt), spt : Nat] /\ t.spt > 0
  <2>1. ASSUME try > 0 PROVE t.spt > 0 /\ t \in [rate : 0 .. Len(FloppySpt), spt : Nat]
    <3>1. t = [rate |-> (try + 1) \div 2, spt |-> FloppySpt[(try + 1) \div 2]]
          /\ FloppySpt[(try + 1) \div 2] \in Nat \ {0} /\ t \in [rate : 0 .. Len(FloppySpt), spt : Nat]
      BY <1>1, <1>2, <2>1, TableIs
    <3>2. t.spt \in Nat \ {0}
      BY <3>1
    <3>. QED BY <3>1, <3>2
  <2>. QED BY <2>1
<1>4. /\ floppyTable' \in [Drives -> [rate : 0 .. Len(FloppySpt), spt : Nat]]
      /\ try > 0 => floppyTable'[call.d] = t
      /\ try = 0 => floppyTable' = floppyTable
      /\ \A e \in Drives : e # call.d => floppyTable'[e] = floppyTable[e]
  BY <1>0, <1>1, <1>2, <1>3
<1>5. DriverTyped' /\ DrivesTyped'
  BY <1>0, <1>4 DEF FloppyInv, DriverTyped, DrivesTyped, Steps
<1>6. Where' /\ Motors'
  BY <1>0 DEF FloppyInv, Where, Motors, Busy, Steps
<1>7. Rates'
  <2>1. Tabled' <=> floppyTable'[call.d] = t
    BY <1>0, <1>2 DEF Tabled, FloppyDrive!Table
  <2>. QED BY <1>0, <1>1, <1>4, <2>1 DEF Rates, Busy, Probing, Steps
<1>8. Known'
  BY <1>0, <1>1, <1>3, <1>4, SomePlans DEF FloppyInv, Known, Busy, Probing, Transfer, Same, Steps
<1>9. Counted'
  BY <1>0 DEF FloppyInv, Counted, Busy, Probing, Transfer, Steps
<1>. QED BY <1>5, <1>6, <1>7, <1>8, <1>9 DEF FloppyInv

LEMMA ResetLoadKeeps == FloppyInv /\ FloppyDrive!ResetLoad => FloppyInv'
<1>. SUFFICES ASSUME FloppyInv, FloppyDrive!ResetLoad PROVE FloppyInv'
  OBVIOUS
<1>0. /\ floppyPhase = "load" /\ floppyPhase' = "high" /\ loaded' = motor
      /\ UNCHANGED <<plan, call, try, first, retry, size, floppyDone, floppyGot, floppyResult, fstate, dsel, motor,
                     hw, rate, floppyTable, changed, used, debut, told, age, wait, nap, floppyDisk, line>>
  BY DEF FloppyDrive!ResetLoad, FloppyDrive!drive, FloppyDrive!world
<1>1. DriverTyped' /\ DrivesTyped'
  BY <1>0 DEF FloppyInv, DriverTyped, DrivesTyped, Steps
<1>2. Where' /\ Motors' /\ Rates'
  BY <1>0 DEF FloppyInv, Where, Motors, Rates, Busy, Probing, Tabled, FloppyDrive!Table, Steps
<1>3. Known' /\ Counted'
  BY <1>0 DEF FloppyInv, Known, Counted, Busy, Probing, Transfer, Same, Steps
<1>. QED BY <1>1, <1>2, <1>3 DEF FloppyInv

LEMMA ResetHighKeeps == FloppyInv /\ FloppyDrive!ResetHigh => FloppyInv'
<1>. SUFFICES ASSUME FloppyInv, FloppyDrive!ResetHigh PROVE FloppyInv'
  OBVIOUS
<1>0. /\ floppyPhase = "high" /\ floppyPhase' = "wait" /\ wait' = 0 /\ hw' = loaded
      /\ UNCHANGED <<plan, call, try, first, retry, size, floppyDone, floppyGot, floppyResult, fstate, dsel, motor,
                     loaded, rate, floppyTable, changed, used, debut, told, age, nap, floppyDisk, line>>
  BY DEF FloppyDrive!ResetHigh, FloppyDrive!drive, FloppyDrive!world
<1>1. DriverTyped' /\ DrivesTyped'
  <2>1. wait' \in 0 .. 2
    BY <1>0
  <2>. QED BY <1>0, <2>1 DEF FloppyInv, DriverTyped, DrivesTyped, Steps
<1>2. Where' /\ Motors' /\ Rates'
  BY <1>0 DEF FloppyInv, Where, Motors, Rates, Busy, Probing, Tabled, FloppyDrive!Table, Steps
<1>3. Known' /\ Counted'
  BY <1>0 DEF FloppyInv, Where, Known, Counted, Busy, Probing, Transfer, Same, Steps
<1>. QED BY <1>1, <1>2, <1>3 DEF FloppyInv

LEMMA MoveKeeps == FloppyInv /\ FloppyDrive!Move => FloppyInv'
<1>. SUFFICES ASSUME FloppyInv, FloppyDrive!Move PROVE FloppyInv'
  OBVIOUS
<1>0. /\ floppyPhase = "step" /\ Head(plan) \in {"recal", "seek"} /\ floppyPhase' = "wait" /\ wait' = 0
      /\ FloppyDrive!StartMotor(dsel)
      /\ UNCHANGED <<plan, call, try, first, retry, size, floppyDone, floppyGot, floppyResult, fstate,
                     loaded, floppyTable, changed, used, debut, told, nap, floppyDisk, line>>
  BY DEF FloppyDrive!Move, FloppyDrive!drive, FloppyDrive!world
<1>1. dsel \in Drives
  BY DEF FloppyInv, DrivesTyped
<1>2. /\ dsel' = dsel /\ motor' \in SUBSET Drives /\ hw' \in SUBSET Drives /\ motor' \subseteq hw'
      /\ age' \in [Drives -> 0 .. 2] /\ (\A e \in Drives : age'[e] < 2 => e \in motor')
      /\ rate' = rate
  BY <1>0, <1>1, MotorStarts
<1>3. DriverTyped' /\ DrivesTyped'
  <2>1. wait' \in 0 .. 2
    BY <1>0
  <2>. QED BY <1>0, <1>2, <2>1 DEF FloppyInv, DriverTyped, DrivesTyped, Steps
<1>4. Where' /\ Motors' /\ Rates'
  BY <1>0, <1>2 DEF FloppyInv, Where, Motors, Rates, Busy, Probing, Tabled, FloppyDrive!Table, Steps
<1>5. try > 0
  <2>1. plan \in Plans /\ try \in Nat
    BY <1>0 DEF FloppyInv, DriverTyped, Where, Busy, Steps
  <2>. QED BY <1>0, <2>1, PlanIs DEF FloppyInv, Where, Busy, Steps
<1>6. Known' /\ Counted'
  BY <1>0, <1>2, <1>5 DEF FloppyInv, Known, Counted, Busy, Probing, Transfer, Same, Steps
<1>. QED BY <1>3, <1>4, <1>6 DEF FloppyInv

LEMMA MoveEndsKeeps == FloppyInv /\ FloppyDrive!MoveEnds => FloppyInv'
<1>. SUFFICES ASSUME FloppyInv, FloppyDrive!MoveEnds PROVE FloppyInv'
  OBVIOUS
<1>0. /\ floppyPhase = "wait" /\ Head(plan) \in {"reset", "recal", "seek"} /\ plan' = Tail(plan) /\ floppyPhase' = "step"
      /\ rate' = (IF Head(plan) = "reset" THEN floppyTable[dsel].rate ELSE rate)
      /\ line' = line \/ (Head(plan) = "seek" /\ line' = [line EXCEPT ![dsel] = FALSE])
      /\ UNCHANGED <<call, try, first, retry, size, floppyDone, floppyGot, floppyResult, fstate, dsel, motor,
                     hw, loaded, floppyTable, changed, used, debut, told, age, wait, nap, floppyDisk>>
  BY DEF FloppyDrive!MoveEnds, FloppyDrive!drive
<1>1. /\ plan \in Plans /\ try \in Nat /\ dsel = call.d /\ call.d \in Drives /\ (try > 0 <=> plan \in AttemptPlans)
      /\ rate \in 0 .. Len(FloppySpt) /\ floppyTable[dsel].rate \in 0 .. Len(FloppySpt)
      /\ line \in [Drives -> BOOLEAN]
  BY <1>0 DEF FloppyInv, DriverTyped, DrivesTyped, Where, Busy, Steps
<1>2. /\ plan' \in Plans /\ plan' # <<>> /\ Head(plan') # "reset" /\ (plan' \in AttemptPlans <=> plan \in AttemptPlans)
      /\ (Head(plan) = "seek" => try > 0)
  <2>1. plan' \in Plans /\ Head(plan') # "reset" /\ (plan' \in AttemptPlans <=> plan \in AttemptPlans)
        /\ (Head(plan) = "seek" => plan \in AttemptPlans)
    BY <1>0, <1>1, PlanIs
  <2>. QED BY <1>1, <2>1, PlanIs
<1>3. line' \in [Drives -> BOOLEAN] /\ (\A e \in Drives : e # call.d => line'[e] = line[e]) /\ (try = 0 => line' = line)
  <2>1. CASE line' = line
    BY <1>1, <2>1
  <2>2. CASE Head(plan) = "seek" /\ line' = [line EXCEPT ![dsel] = FALSE]
    <3>1. try # 0
      BY <1>1, <1>2, <2>2
    <3>. QED BY <1>1, <2>2, <3>1
  <2>. QED BY <1>0, <2>1, <2>2
<1>4. DriverTyped' /\ DrivesTyped'
  BY <1>0, <1>1, <1>2, <1>3 DEF FloppyInv, DriverTyped, DrivesTyped, Steps
<1>5. Where' /\ Motors'
  BY <1>0, <1>1, <1>2 DEF FloppyInv, Where, Motors, Busy, Steps
<1>6. Rates'
  <2>1. try > 0 => Tabled'
    BY <1>0 DEF FloppyInv, Rates, Busy, Probing, Steps, Tabled, FloppyDrive!Table
  <2>2. rate' = floppyTable[call.d].rate
    BY <1>0, <1>1 DEF FloppyInv, Rates, Busy, Steps
  <2>. QED BY <1>0, <2>1, <2>2 DEF Rates, Busy, Probing, Steps
<1>7. Known'
  <2>1. try = 0 => Same(call.d)
    <3>1. plan # <<"rw">>
      BY <1>0, SomePlans
    <3>. QED BY <1>0, <3>1 DEF FloppyInv, Known, Busy, Steps
  <2>2. \A d \in Drives : ~changed[d] /\ ~(try > 0 /\ d = call.d) =>
          told[d] \in FloppyDisks /\ floppyTable[d].spt = told[d].spt /\ (~line'[d] => floppyDisk[d] = told[d])
    <3>1. \A d \in Drives : ~changed[d] /\ ~(try > 0 /\ d = call.d) =>
            told[d] \in FloppyDisks /\ floppyTable[d].spt = told[d].spt /\ (~line[d] => floppyDisk[d] = told[d])
      BY <1>0 DEF FloppyInv, Known, Busy, Probing, Steps
    <3>2. \A d \in Drives : ~(try > 0 /\ d = call.d) => line'[d] = line[d]
      BY <1>1, <1>3
    <3>. QED BY <3>1, <3>2
  <2>3. /\ \A d \in Drives : changed[d] \/ floppyTable[d].spt > 0
        /\ fstate = 1 => \A d \in Drives : changed[d] \/ (try > 0 /\ d = call.d)
        /\ try = 0 => ~changed[call.d]
    BY <1>0 DEF FloppyInv, Known, Busy, Probing, Transfer, Steps
  <2>4. Busy' /\ floppyPhase' = "step" /\ (Probing' <=> try > 0) /\ (Transfer' <=> try = 0) /\ (Same(call.d)' <=> Same(call.d))
    BY <1>0 DEF Busy, Probing, Transfer, Same, Steps
  <2>5. plan' = <<"rw">> => try = 0
    BY <1>1, <1>2, SomePlans
  <2>. QED BY <1>0, <2>1, <2>2, <2>3, <2>4, <2>5 DEF Known, Same
<1>8. Counted'
  BY <1>0 DEF FloppyInv, Counted, Busy, Probing, Transfer, Steps
<1>. QED BY <1>4, <1>5, <1>6, <1>7, <1>8 DEF FloppyInv

LEMMA Divided ==
  ASSUME NEW x \in Nat, NEW s \in Nat \ {0}
  PROVE  x \div s \in Nat /\ x % s \in 0 .. s - 1 /\ x = s * (x \div s) + (x % s)
OBVIOUS

LEMMA SameRemainder ==
  ASSUME NEW s \in Nat \ {0}, NEW a \in 0 .. s - 1, NEW m \in 0 .. s - 1, NEW b \in Int, NEW h \in Int,
         s * b + a = s * h + m
  PROVE  a = m
<1>1. s * (b - h) = m - a
  OBVIOUS
<1>2. PICK k \in Int : k = b - h
  OBVIOUS
<1>3. s * k = m - a /\ m - a < s /\ m - a > -s
  BY <1>1, <1>2
<1>4. k >= 1 => s * k >= s
  OBVIOUS
<1>5. k <= -1 => s * k <= -s
  OBVIOUS
<1>6. k = 0
  BY <1>3, <1>4, <1>5
<1>. QED BY <1>3, <1>6

\* Cylinder, head and sector say which block it is; past the last cylinder
\* are the blocks past the end.
LEMMA PlaceIs ==
  ASSUME NEW x \in Nat, NEW s \in Nat \ {0}, NEW n \in Nat
  PROVE  /\ x \div (2 * s) >= n => x >= n * 2 * s
         /\ ((x \div (2 * s)) * 2 + ((x % (2 * s)) \div s)) * s + (x % s) = x
<1>1. PICK q \in Nat, r \in 0 .. (2 * s - 1) : q = x \div (2 * s) /\ r = x % (2 * s) /\ x = (2 * s) * q + r
  <2>1. 2 * s \in Nat \ {0}
    OBVIOUS
  <2>. QED BY <2>1, Divided
<1>2. PICK h \in Nat, m \in 0 .. s - 1 : h = r \div s /\ m = r % s /\ r = s * h + m
  BY Divided
<1>3. PICK b \in Nat, a \in 0 .. s - 1 : b = x \div s /\ a = x % s /\ x = s * b + a
  BY Divided
<1>4. (2 * s) * q = s * (2 * q)
  OBVIOUS
<1>5. s * (2 * q) + s * h = s * (2 * q + h)
  OBVIOUS
<1>6. x = s * (2 * q + h) + m
  BY <1>1, <1>2, <1>4, <1>5
<1>7. a = m
  <2>1. PICK j \in Int : j = 2 * q + h
    OBVIOUS
  <2>2. s * b + a = s * j + m
    BY <1>3, <1>6, <2>1
  <2>3. b \in Int
    OBVIOUS
  <2>. QED BY <2>2, <2>3, SameRemainder
<1>8. (q * 2 + h) * s + a = x
  BY <1>6, <1>7
<1>9. q >= n => x >= n * 2 * s
  <2>1. q >= n => s * (2 * q) >= s * (2 * n)
    OBVIOUS
  <2>2. s * (2 * n) = n * 2 * s
    OBVIOUS
  <2>. QED BY <1>1, <1>4, <2>1, <2>2
<1>. QED BY <1>1, <1>2, <1>3, <1>8, <1>9

\* The geometry a transfer uses is that of the disk the callers know.
LEMMA TransferKnows ==
  FloppyInv /\ Transfer =>
    /\ call.d \in Drives /\ try = 0 /\ ~changed[call.d] /\ call.kind = "rw" /\ call.lba \in Nat /\ call.n \in Nat
    /\ told[call.d] \in FloppyDisks /\ floppyTable[call.d].spt = told[call.d].spt
    /\ told[call.d].spt \in Nat \ {0} /\ floppyDone \in Nat /\ floppyDone <= call.n
    /\ floppyGot = Sectors(told[call.d], call.lba, floppyDone) /\ dsel = call.d
<1>. SUFFICES ASSUME FloppyInv, Transfer
     PROVE  /\ call.d \in Drives /\ try = 0 /\ ~changed[call.d] /\ call.kind = "rw" /\ call.lba \in Nat
            /\ call.n \in Nat /\ told[call.d] \in FloppyDisks /\ floppyTable[call.d].spt = told[call.d].spt
            /\ told[call.d].spt \in Nat \ {0} /\ floppyDone \in Nat /\ floppyDone <= call.n
            /\ floppyGot = Sectors(told[call.d], call.lba, floppyDone) /\ dsel = call.d
  OBVIOUS
<1>1. call.d \in Drives /\ call.lba \in Nat /\ call.n \in Nat /\ floppyDone \in Nat
  BY DEF FloppyInv, DriverTyped
<1>2. try = 0 /\ dsel = call.d
  BY DEF FloppyInv, Where, Transfer
<1>3. ~changed[call.d] /\ told[call.d] \in FloppyDisks /\ floppyTable[call.d].spt = told[call.d].spt
  BY <1>1, <1>2 DEF FloppyInv, Known, Probing
<1>4. told[call.d].spt \in Nat \ {0}
  BY <1>3, FloppyAssumption
<1>5. call.kind = "rw" /\ floppyDone <= call.n /\ floppyGot = Sectors(told[call.d], call.lba, floppyDone)
  BY DEF FloppyInv, Counted
<1>. QED BY <1>1, <1>2, <1>3, <1>4, <1>5

LEMMA UnitGoesOn == FloppyInv /\ FloppyDrive!NextUnit => FloppyInv'
<1>. SUFFICES ASSUME FloppyInv, FloppyDrive!NextUnit PROVE FloppyInv'
  OBVIOUS
<1>0. /\ floppyPhase = "unit"
      /\ UNCHANGED <<call, try, first, floppyDone, floppyGot, fstate, dsel, motor, hw, loaded, rate, floppyTable,
                     changed, used, debut, told, age, wait, nap, floppyDisk, line>>
  BY DEF FloppyDrive!NextUnit, FloppyDrive!fdc, FloppyDrive!drive, FloppyDrive!world
<1>1. Transfer
  BY <1>0 DEF Transfer
<1>2. PICK s \in Nat \ {0}, l \in Nat, n \in Nat, m \in Nat :
        s = floppyTable[call.d].spt /\ s = told[call.d].spt /\ l = call.lba /\ n = call.n /\ m = floppyDone /\ m <= n
  BY <1>1, TransferKnows
<1>3. PICK x \in Nat : x = l + m
  OBVIOUS
<1>4. PICK c \in Nat, e \in 0 .. s - 1 : c = x \div (2 * s) /\ e = x % s
  <2>1. 2 * s \in Nat \ {0}
    OBVIOUS
  <2>. QED BY <2>1, Divided
<1>5. FloppyDrive!Chs(call.lba + floppyDone).c = c /\ FloppyDrive!Chs(call.lba + floppyDone).s = e + 1
  BY <1>2, <1>3, <1>4 DEF FloppyDrive!Chs, FloppyDrive!Heads
<1>6. CASE /\ floppyPhase' = "idle" /\ floppyResult' = "ok" /\ plan' = <<>> /\ UNCHANGED <<size, retry>>
           /\ m = n \/ c >= FloppyCylinders
  <2>1. m = n \/ l + m >= FloppyCylinders * 2 * s
    <3>1. FloppyCylinders \in Nat
      BY FloppyAssumption
    <3>. QED BY <1>3, <1>4, <1>6, <3>1, PlaceIs
  <2>2. DriverTyped' /\ DrivesTyped'
    BY <1>0, <1>6 DEF FloppyInv, DriverTyped, DrivesTyped
  <2>3. Where' /\ Motors'
    BY <1>0, <1>6 DEF FloppyInv, Where, Motors, Busy, Steps
  <2>4. Rates'
    BY <1>0, <1>6 DEF FloppyInv, Where, Rates, Busy, Probing, Steps
  <2>5. Known'
    BY <1>0, <1>6 DEF FloppyInv, Known, Busy, Probing, Transfer, Steps
  <2>6. Counted'
    BY <1>0, <1>1, <1>2, <1>6, <2>1, TransferKnows DEF Counted, Busy, Probing, Transfer, Steps
  <2>. QED BY <2>2, <2>3, <2>4, <2>5, <2>6 DEF FloppyInv
<1>7. CASE /\ size' = FloppyDrive!UnitSize(s - e) /\ retry' = FloppyRetries - 1 /\ floppyPhase' = "step"
           /\ plan' = <<"rw">> /\ UNCHANGED floppyResult /\ m # n
  <2>1. size' = (IF s - e > n - m THEN n - m ELSE s - e)
    BY <1>2, <1>7 DEF FloppyDrive!UnitSize
  <2>2. size' \in Nat /\ size' > 0 /\ m + size' <= n
    BY <1>2, <1>7, <2>1
  <2>3. retry' \in 0 .. FloppyRetries
    BY <1>7, FloppyAssumption
  <2>4. DriverTyped' /\ DrivesTyped'
    BY <1>0, <1>7, <2>2, <2>3, SomePlans DEF FloppyInv, DriverTyped, DrivesTyped, Steps
  <2>5. try = 0
    BY <1>1, TransferKnows
  <2>6. Where' /\ Motors'
    BY <1>0, <1>7, <2>5, SomePlans, PlanIs DEF FloppyInv, Where, Motors, Busy, Steps
  <2>7. Rates'
    BY <1>0, <1>7, <2>5 DEF FloppyInv, Rates, Busy, Probing, Steps
  <2>8. Known'
    BY <1>0, <1>7, <2>5, SomePlans DEF FloppyInv, Known, Busy, Probing, Transfer, Same, Steps
  <2>9. Counted'
    BY <1>0, <1>1, <1>2, <1>7, <2>2, <2>5, TransferKnows DEF Counted, Busy, Probing, Transfer, Steps
  <2>. QED BY <2>4, <2>6, <2>7, <2>8, <2>9 DEF FloppyInv
<1>8. s - ((e + 1) - 1) = s - e
  OBVIOUS
<1>. QED BY <1>2, <1>5, <1>6, <1>7, <1>8 DEF FloppyDrive!NextUnit, FloppyDrive!Return

LEMMA SwapKeeps == FloppyInv /\ FloppyDrive!Swap => FloppyInv'
<1>. SUFFICES ASSUME FloppyInv, FloppyDrive!Swap PROVE FloppyInv'
  OBVIOUS
<1>0. UNCHANGED <<floppyPhase, plan, call, try, first, retry, size, floppyDone, floppyGot, floppyResult, fstate, dsel,
                  motor, hw, loaded, rate, floppyTable, changed, used, debut, told, age, wait, nap>>
  BY DEF FloppyDrive!Swap, FloppyDrive!driver, FloppyDrive!fdc, FloppyDrive!drive
<1>1. PICK d \in Drives, k \in Kinds :
        /\ k = FloppyDrive!NoDisk \/ floppyPhase = "idle" \/ (floppyPhase = "unit" /\ (d = call.d => age[d] < 2))
        /\ floppyDisk' = [floppyDisk EXCEPT ![d] = k] /\ line' = [line EXCEPT ![d] = TRUE]
  BY DEF FloppyDrive!Swap, FloppyDrive!Drive, FloppyDrive!Limit, Drives, Kinds
<1>2. /\ floppyDisk' \in [Drives -> Kinds] /\ line' \in [Drives -> BOOLEAN] /\ line'[d] /\ floppyDisk'[d] = k
      /\ \A e \in Drives : e # d => floppyDisk'[e] = floppyDisk[e] /\ line'[e] = line[e]
  BY <1>1 DEF FloppyInv, DrivesTyped
<1>3. DriverTyped' /\ DrivesTyped'
  BY <1>0, <1>2 DEF FloppyInv, DriverTyped, DrivesTyped
<1>4. Where' /\ Motors' /\ Rates'
  BY <1>0 DEF FloppyInv, Where, Motors, Rates, Busy, Probing, Tabled, FloppyDrive!Table
<1>5. Counted'
  BY <1>0 DEF FloppyInv, Counted, Busy, Probing, Transfer
<1>6. call.d \in Drives
  BY DEF FloppyInv, DriverTyped
<1>7. Known'
  <2>1. \A e \in Drives : ~changed[e] /\ ~(Probing /\ e = call.d) =>
          told[e] \in FloppyDisks /\ floppyTable[e].spt = told[e].spt /\ (~line'[e] => floppyDisk'[e] = told[e])
    BY <1>2 DEF FloppyInv, Known
  <2>2. floppyPhase = "unit" \/ (floppyPhase = "step" /\ plan = <<"rw">>) =>
          floppyDisk'[call.d] \in {told[call.d], FloppyDrive!NoDisk} \/ (line'[call.d] /\ age[call.d] < 2)
    <3>1. CASE d = call.d
      BY <1>1, <1>2, <3>1
    <3>2. CASE d # call.d
      BY <1>2, <1>6, <3>2 DEF FloppyInv, Known, Same
    <3>. QED BY <3>1, <3>2
  <2>3. Busy /\ try = 0 /\ ~(floppyPhase = "step" /\ plan = <<"rw">>) =>
          floppyDisk'[call.d] \in {told[call.d], FloppyDrive!NoDisk}
    <3>1. CASE d = call.d
      BY <1>1, <1>2, <3>1 DEF Busy, Steps
    <3>2. CASE d # call.d
      BY <1>2, <1>6, <3>2 DEF FloppyInv, Known, Same
    <3>. QED BY <3>1, <3>2
  <2>. QED BY <1>0, <2>1, <2>2, <2>3 DEF FloppyInv, Known, Busy, Probing, Transfer, Same
<1>. QED BY <1>3, <1>4, <1>5, <1>7 DEF FloppyInv

\* What a failed command of a step leaves alone.
StepFails(c) ==
  /\ FloppyInv /\ floppyPhase \in {"step", "wait"} /\ c \in [Drives -> BOOLEAN]
  /\ \A e \in Drives : e # call.d => c[e] = changed[e]
  /\ UNCHANGED <<call, used, debut, loaded, nap, age, motor, dsel, hw, rate, wait, floppyDisk, line>>

LEMMA ProbeFailsKeeps ==
  ASSUME NEW r \in FloppyErrors, NEW c, StepFails(c), Head(plan) = "probe", FloppyDrive!ProbeFailed(r, c)
  PROVE  FloppyInv'
<1>0. /\ FloppyInv /\ Busy /\ c \in [Drives -> BOOLEAN] /\ (\A e \in Drives : e # call.d => c[e] = changed[e])
      /\ UNCHANGED <<call, used, debut, loaded, nap, age, motor, dsel, hw, rate, wait, floppyDisk, line>>
      /\ UNCHANGED <<told, fstate, retry, size, floppyDone, floppyGot>>
  BY DEF StepFails, Busy, Steps, FloppyDrive!ProbeFailed
<1>1. /\ plan = <<"probe">> /\ try \in Nat /\ try > 0 /\ dsel = call.d /\ call.d \in Drives /\ Tabled
      /\ rate = floppyTable[call.d].rate /\ try <= 2 * Len(FloppySpt)
  <2>1. plan \in Plans /\ try \in Nat /\ dsel = call.d /\ call.d \in Drives /\ (try > 0 <=> plan \in AttemptPlans)
        /\ try <= 2 * Len(FloppySpt)
    BY <1>0 DEF FloppyInv, DriverTyped, Where
  <2>2. plan = <<"probe">> /\ try > 0
    BY <2>1, PlanIs
  <2>. QED BY <1>0, <2>1, <2>2 DEF FloppyInv, Rates, Probing
<1>2. floppyTable[call.d].spt > 0
  <2>1. FloppyDrive!Table(try) = [rate |-> (try + 1) \div 2, spt |-> FloppySpt[(try + 1) \div 2]]
        /\ FloppySpt[(try + 1) \div 2] \in Nat \ {0}
    BY <1>1, TableIs
  <2>2. floppyTable[call.d].spt \in Nat \ {0}
    BY <1>1, <2>1 DEF Tabled
  <2>. QED BY <2>2
<1>3. Len(FloppySpt) \in Nat
  BY FloppyAssumption
<1>4. CASE /\ try < 2 * Len(FloppySpt) /\ try' = try + 1 /\ floppyPhase' = "step" /\ changed' = c
           /\ plan' = (IF try % 2 = 1 THEN <<"probe">> ELSE FloppyDrive!Attempt)
           /\ first' = (IF first = "none" THEN r ELSE first)
           /\ UNCHANGED <<floppyTable, floppyResult>>
  <2>1. try' \in Nat /\ try' > 0 /\ try' <= 2 * Len(FloppySpt)
    BY <1>1, <1>3, <1>4
  <2>2. /\ plan' \in Plans /\ plan' \in AttemptPlans /\ plan' # <<>> /\ plan' # <<"rw">>
        /\ Head(plan') # "reset" => try % 2 = 1
    BY <1>4, SomePlans, PlanIs
  <2>3. DriverTyped' /\ DrivesTyped'
    <3>1. first' \in FloppyErrors \cup {"none"}
      BY <1>0, <1>4 DEF FloppyInv, DriverTyped
    <3>2. DriverTyped'
      BY <1>0, <1>4, <2>1, <2>2, <3>1 DEF FloppyInv, DriverTyped, Steps
    <3>3. DrivesTyped'
      BY <1>0, <1>4 DEF FloppyInv, DrivesTyped
    <3>. QED BY <3>2, <3>3
  <2>4. Where' /\ Motors'
    <3>1. Where'
      BY <1>0, <1>1, <1>4, <2>1, <2>2 DEF Where, Busy, Steps
    <3>2. Motors'
      BY <1>0, <1>1, <1>4, PlanIs DEF StepFails, FloppyInv, Motors
    <3>. QED BY <3>1, <3>2
  <2>5. Rates'
    <3>1. try % 2 = 1 => (try + 1) \div 2 = (try + 2) \div 2
      BY <1>1
    <3>2. try % 2 = 1 => FloppyDrive!Table(try + 1) = FloppyDrive!Table(try)
      <4>1. (try + 1) + 1 = try + 2
        BY <1>1
      <4>. QED BY <3>1, <4>1 DEF FloppyDrive!Table
    <3>3. PICK t : t = FloppyDrive!Table(try + 1)
      OBVIOUS
    <3>4. Tabled' <=> floppyTable[call.d] = t
      BY <1>0, <1>4, <3>3 DEF Tabled, FloppyDrive!Table
    <3>5. try % 2 = 1 => Tabled'
      BY <1>1, <3>2, <3>3, <3>4 DEF Tabled
    <3>. QED BY <1>0, <1>1, <1>4, <2>2, <3>5 DEF Rates, Busy, Probing, Steps
  <2>6. Known'
    <3>1. Probing /\ Probing' /\ ~Transfer'
      BY <1>0, <1>1, <1>4, <2>1 DEF Busy, Probing, Transfer, Steps
    <3>2. \A e \in Drives : c[e] \/ floppyTable[e].spt > 0
      BY <1>0, <1>2 DEF FloppyInv, Known
    <3>3. fstate = 1 => \A e \in Drives : c[e] \/ e = call.d
      BY <1>0, <3>1 DEF FloppyInv, Known
    <3>4. \A e \in Drives : ~c[e] /\ e # call.d =>
            told[e] \in FloppyDisks /\ floppyTable[e].spt = told[e].spt /\ (~line[e] => floppyDisk[e] = told[e])
      BY <1>0, <3>1 DEF FloppyInv, Known
    <3>5. try' # 0
      BY <2>1
    <3>. QED BY <1>0, <1>4, <2>2, <3>1, <3>2, <3>3, <3>4, <3>5 DEF Known
  <2>7. Counted'
    <3>1. Probing /\ Probing' /\ ~Transfer'
      BY <1>0, <1>1, <1>4, <2>1 DEF Busy, Probing, Transfer, Steps
    <3>2. try' # 0
      BY <2>1
    <3>. QED BY <1>0, <1>4, <3>1, <3>2 DEF FloppyInv, Counted
  <2>. QED BY <2>3, <2>4, <2>5, <2>6, <2>7 DEF FloppyInv
<1>5. CASE /\ changed' = [c EXCEPT ![call.d] = TRUE]
           /\ floppyTable' = [floppyTable EXCEPT ![call.d] = FloppyDrive!NoTable]
           /\ UNCHANGED <<try, first>> /\ floppyPhase' = "idle" /\ floppyResult' = first /\ plan' = <<>>
  <2>1. /\ changed' \in [Drives -> BOOLEAN] /\ changed'[call.d]
        /\ \A e \in Drives : e # call.d => changed'[e] = changed[e]
    BY <1>0, <1>1, <1>5
  <2>2. /\ floppyTable' \in [Drives -> [rate : 0 .. Len(FloppySpt), spt : Nat]]
        /\ \A e \in Drives : e # call.d => floppyTable'[e] = floppyTable[e]
    <3>1. FloppyDrive!NoTable \in [rate : 0 .. Len(FloppySpt), spt : Nat]
      BY <1>3 DEF FloppyDrive!NoTable
    <3>. QED BY <1>0, <1>1, <1>5, <3>1 DEF FloppyInv, DrivesTyped
  <2>3. DriverTyped' /\ DrivesTyped'
    BY <1>0, <1>5, <2>1, <2>2 DEF FloppyInv, DriverTyped, DrivesTyped
  <2>4. Where' /\ Rates'
    BY <1>0, <1>1, <1>5, <2>1 DEF Where, Rates, Busy, Probing, Steps
  <2>5. Motors'
    BY <1>0, <1>1, <1>5 DEF StepFails, FloppyInv, Motors
  <2>6. Known'
    <3>1. ~Probing' /\ ~Busy' /\ ~Transfer'
      BY <1>5 DEF Busy, Probing, Transfer, Steps
    <3>2. \A e \in Drives : changed'[e] \/ floppyTable'[e].spt > 0
      BY <1>0, <2>1, <2>2 DEF FloppyInv, Known
    <3>3. fstate = 1 => \A e \in Drives : changed'[e]
      BY <1>0, <2>1 DEF FloppyInv, Known
    <3>4. \A e \in Drives : ~changed'[e] =>
            told[e] \in FloppyDisks /\ floppyTable'[e].spt = told[e].spt /\ (~line[e] => floppyDisk[e] = told[e])
      BY <1>0, <2>1, <2>2 DEF FloppyInv, Known
    <3>. QED BY <1>0, <1>5, <3>1, <3>2, <3>3, <3>4 DEF Known
  <2>7. Counted'
    <3>1. first # "ok"
      BY <1>0 DEF FloppyInv, DriverTyped, FloppyErrors
    <3>. QED BY <1>5, <3>1 DEF Counted, Busy, Probing, Transfer, Steps
  <2>. QED BY <2>3, <2>4, <2>5, <2>6, <2>7 DEF FloppyInv
<1>. QED BY <1>4, <1>5 DEF FloppyDrive!ProbeFailed, FloppyDrive!Return

LEMMA TransferFailsKeeps ==
  ASSUME NEW r \in FloppyErrors, NEW c, StepFails(c), Head(plan) = "rw", FloppyDrive!TransferFailed(r, c),
         (c = changed /\ Same(call.d)) \/ (r = "DE_MEDIA_CHANGED" /\ c[call.d])
  PROVE  FloppyInv'
<1>0. /\ FloppyInv /\ Busy /\ c \in [Drives -> BOOLEAN] /\ (\A e \in Drives : e # call.d => c[e] = changed[e])
      /\ UNCHANGED <<call, used, debut, loaded, nap, age, motor, dsel, hw, rate, wait, floppyDisk, line>>
      /\ changed' = c /\ UNCHANGED <<floppyTable, told, try, first, fstate, floppyDone, floppyGot>>
  BY DEF StepFails, Busy, Steps, FloppyDrive!TransferFailed
<1>1. /\ plan = <<"rw">> /\ try = 0 /\ dsel = call.d /\ call.d \in Drives /\ rate = floppyTable[call.d].rate
  <2>1. plan \in Plans /\ try \in Nat /\ dsel = call.d /\ call.d \in Drives /\ (try > 0 <=> plan \in AttemptPlans)
    BY <1>0 DEF FloppyInv, DriverTyped, Where
  <2>2. plan = <<"rw">> /\ try = 0
    BY <2>1, PlanIs
  <2>. QED BY <1>0, <2>1, <2>2 DEF FloppyInv, Rates
<1>2. Transfer /\ ~Probing /\ floppyPhase \notin {"load", "high"}
  BY <1>0, <1>1 DEF Transfer, Probing, StepFails
<1>3. ~changed[call.d] /\ (\A e \in Drives : changed[e] => c[e])
  BY <1>0, <1>1, <1>2 DEF FloppyInv, Known
<1>4. /\ \A e \in Drives : c[e] \/ floppyTable[e].spt > 0
      /\ fstate = 1 => \A e \in Drives : c[e]
      /\ \A e \in Drives : ~c[e] =>
           told[e] \in FloppyDisks /\ floppyTable[e].spt = told[e].spt /\ (~line[e] => floppyDisk[e] = told[e])
  BY <1>0, <1>2, <1>3 DEF FloppyInv, Known
<1>5. CASE floppyPhase' = "idle" /\ floppyResult' = r /\ plan' = <<>> /\ UNCHANGED <<retry, size>>
  <2>1. DriverTyped' /\ DrivesTyped'
    BY <1>0, <1>5 DEF FloppyInv, DriverTyped, DrivesTyped
  <2>2. Where' /\ Rates'
    BY <1>0, <1>1, <1>5 DEF Where, Rates, Busy, Probing, Steps
  <2>3. Motors'
    BY <1>0, <1>2, <1>5 DEF FloppyInv, Motors
  <2>4. Known'
    BY <1>0, <1>4, <1>5 DEF Known, Busy, Probing, Transfer, Steps
  <2>5. Counted'
    BY <1>5 DEF Counted, Busy, Probing, Transfer, Steps, FloppyErrors
  <2>. QED BY <2>1, <2>2, <2>3, <2>4, <2>5 DEF FloppyInv
<1>6. CASE /\ r # "DE_MEDIA_CHANGED" /\ retry # 0 /\ retry' = retry - 1 /\ size' = 1 /\ floppyPhase' = "step"
           /\ UNCHANGED floppyResult /\ plan' \in {<<"reset", "rw">>, <<"rw">>}
  <2>0. c = changed /\ Same(call.d)
    BY <1>6
  <2>1. /\ plan' \in Plans /\ plan' \notin AttemptPlans /\ plan' # <<>>
    BY <1>6, SomePlans, PlanIs
  <2>2. retry' \in 0 .. FloppyRetries
    <3>1. retry \in 0 .. FloppyRetries /\ FloppyRetries \in Nat
      BY <1>0, FloppyAssumption DEF FloppyInv, DriverTyped
    <3>. QED BY <1>6, <3>1
  <2>3. DriverTyped' /\ DrivesTyped'
    BY <1>0, <1>6, <2>1, <2>2 DEF FloppyInv, DriverTyped, DrivesTyped, Steps
  <2>4. Where'
    BY <1>0, <1>1, <1>6, <2>1 DEF Where, Busy, Steps
  <2>5. Motors'
    BY <1>0, <1>2, <1>6 DEF FloppyInv, Motors
  <2>6. Rates'
    BY <1>0, <1>1, <1>6 DEF Rates, Busy, Probing, Steps
  <2>7. Known'
    BY <1>0, <1>1, <1>3, <1>4, <1>6, <2>0 DEF Known, Busy, Probing, Transfer, Same, Steps
  <2>8. Counted'
    <3>1. /\ size \in Nat /\ floppyDone \in Nat /\ call.n \in Nat /\ size > 0 /\ floppyDone + size <= call.n
          /\ floppyGot = Sectors(told[call.d], call.lba, floppyDone) /\ call.kind = "rw" /\ floppyDone <= call.n
      BY <1>0, <1>1, <1>2 DEF FloppyInv, DriverTyped, Counted
    <3>2. PICK n \in Nat, m \in Nat, z \in Nat : n = call.n /\ m = floppyDone /\ z = size
      BY <3>1
    <3>3. m + 1 <= n
      BY <3>1, <3>2
    <3>4. size' > 0 /\ floppyDone' + size' <= call'.n
      BY <1>0, <1>6, <3>2, <3>3
    <3>. QED BY <1>0, <1>1, <1>6, <3>1, <3>4 DEF Counted, Busy, Probing, Transfer, Steps
  <2>. QED BY <2>3, <2>4, <2>5, <2>6, <2>7, <2>8 DEF FloppyInv
<1>. QED BY <1>5, <1>6 DEF FloppyDrive!TransferFailed, FloppyDrive!Return

LEMMA FailureKeeps ==
  ASSUME NEW r \in FloppyErrors, NEW c, StepFails(c), Head(plan) \in {"probe", "rw"}, FloppyDrive!Failure(r, c),
         Head(plan) = "rw" => (c = changed /\ Same(call.d)) \/ (r = "DE_MEDIA_CHANGED" /\ c[call.d])
  PROVE  FloppyInv'
<1>1. CASE Head(plan) = "probe"
  BY <1>1, ProbeFailsKeeps DEF FloppyDrive!Failure
<1>2. CASE Head(plan) = "rw"
  BY <1>2, TransferFailsKeeps DEF FloppyDrive!Failure
<1>. QED BY <1>1, <1>2

\* A command is about to be given, or runs.
LEMMA CommandIs ==
  ASSUME FloppyInv, floppyPhase \in {"step", "wait"}, Head(plan) \in {"probe", "rw"}
  PROVE  /\ Busy /\ call.d \in Drives /\ dsel = call.d /\ rate = floppyTable[call.d].rate /\ try \in Nat
         /\ Head(plan) = "probe" => plan = <<"probe">> /\ try > 0 /\ Probing /\ ~Transfer /\ Tabled
         /\ Head(plan) = "rw" => plan = <<"rw">> /\ try = 0 /\ ~Probing /\ Transfer
<1>1. Busy
  BY DEF Busy, Steps
<1>2. plan \in Plans /\ try \in Nat /\ dsel = call.d /\ call.d \in Drives /\ (try > 0 <=> plan \in AttemptPlans)
  BY <1>1 DEF FloppyInv, DriverTyped, Where
<1>3. rate = floppyTable[call.d].rate
  BY <1>1 DEF FloppyInv, Rates
<1>4. Head(plan) = "probe" => plan = <<"probe">> /\ try > 0
  BY <1>2, PlanIs
<1>5. Head(plan) = "rw" => plan = <<"rw">> /\ try = 0
  BY <1>2, PlanIs
<1>6. Head(plan) = "probe" => Probing /\ ~Transfer /\ Tabled
  BY <1>1, <1>4 DEF FloppyInv, Rates, Probing, Transfer, Busy, Steps
<1>7. Head(plan) = "rw" => ~Probing /\ Transfer
  BY <1>1, <1>5 DEF Probing, Transfer
<1>. QED BY <1>1, <1>2, <1>3, <1>4, <1>5, <1>6, <1>7

LEMMA TabledHas ==
  ASSUME FloppyInv, Probing, Tabled
  PROVE  /\ floppyTable[call.d].rate \in 1 .. Len(FloppySpt)
         /\ floppyTable[call.d].spt = FloppySpt[floppyTable[call.d].rate]
         /\ floppyTable[call.d].spt \in Nat \ {0}
<1>1. try \in Nat /\ try > 0 /\ try <= 2 * Len(FloppySpt)
  BY DEF FloppyInv, DriverTyped, Probing
<1>2. PICK q : q = (try + 1) \div 2
  OBVIOUS
<1>3. /\ q \in 1 .. Len(FloppySpt) /\ FloppyDrive!Table(try) = [rate |-> q, spt |-> FloppySpt[q]]
      /\ FloppySpt[q] \in Nat \ {0}
  BY <1>1, <1>2, TableIs
<1>4. floppyTable[call.d] = [rate |-> q, spt |-> FloppySpt[q]]
  BY <1>3 DEF Tabled
<1>. QED BY <1>3, <1>4

LEMMA CommandKeeps == FloppyInv /\ FloppyDrive!Command => FloppyInv'
<1>. SUFFICES ASSUME FloppyInv, FloppyDrive!Command PROVE FloppyInv'
  OBVIOUS
<1>0. /\ floppyPhase = "step" /\ Head(plan) \in {"probe", "rw"}
      /\ UNCHANGED <<call, used, debut, loaded, nap, floppyDisk, line>>
  BY DEF FloppyDrive!Command, FloppyDrive!world
<1>1. /\ Busy /\ call.d \in Drives /\ dsel = call.d /\ rate = floppyTable[call.d].rate /\ try \in Nat
      /\ Head(plan) = "probe" => plan = <<"probe">> /\ try > 0 /\ Probing /\ ~Transfer /\ Tabled
      /\ Head(plan) = "rw" => plan = <<"rw">> /\ try = 0 /\ ~Probing /\ Transfer
  BY <1>0, CommandIs
<1>2. PICK is \in BOOLEAN :
        /\ Head(plan) = "rw" => (is <=> FloppyDrive!MediaChanged(call.d))
        /\ \/ /\ is /\ FloppyDrive!Failure("DE_MEDIA_CHANGED", [changed EXCEPT ![call.d] = is])
              /\ UNCHANGED <<age, motor, dsel, hw, rate, wait>>
           \/ /\ ~is /\ FloppyDrive!StartMotor(dsel) /\ floppyPhase' = "wait" /\ wait' = 0
              /\ changed' = [changed EXCEPT ![call.d] = is]
              /\ UNCHANGED <<plan, try, first, retry, size, floppyDone, floppyGot, floppyResult, fstate, floppyTable,
                             told>>
  <2>. DEFINE new == Head(plan) = "probe" /\ try % 2 = 1
              seen == IF new THEN line[call.d] /\ call.d \in hw ELSE FloppyDrive!MediaChanged(call.d)
  <2>1. seen \in BOOLEAN
    BY <1>1 DEF FloppyInv, DrivesTyped, FloppyDrive!MediaChanged
  <2>2. Head(plan) = "rw" => (seen <=> FloppyDrive!MediaChanged(call.d))
    OBVIOUS
  <2>3. \/ /\ seen /\ FloppyDrive!Failure("DE_MEDIA_CHANGED", [changed EXCEPT ![call.d] = seen])
           /\ UNCHANGED <<age, motor, dsel, hw, rate, wait>>
        \/ /\ ~seen /\ FloppyDrive!StartMotor(dsel) /\ floppyPhase' = "wait" /\ wait' = 0
           /\ changed' = [changed EXCEPT ![call.d] = seen]
           /\ UNCHANGED <<plan, try, first, retry, size, floppyDone, floppyGot, floppyResult, fstate, floppyTable,
                          told>>
    BY DEF FloppyDrive!Command
  <2>. HIDE DEF seen
  <2>. QED BY <2>1, <2>2, <2>3
<1>3. PICK c : c = [changed EXCEPT ![call.d] = is]
  OBVIOUS
<1>4. c \in [Drives -> BOOLEAN] /\ (c[call.d] <=> is) /\ \A e \in Drives : e # call.d => c[e] = changed[e]
  BY <1>1, <1>3 DEF FloppyInv, DrivesTyped
<1>5. CASE /\ is /\ FloppyDrive!Failure("DE_MEDIA_CHANGED", c) /\ UNCHANGED <<age, motor, dsel, hw, rate, wait>>
  <2>1. StepFails(c)
    BY <1>0, <1>4, <1>5 DEF StepFails
  <2>2. "DE_MEDIA_CHANGED" \in FloppyErrors
    BY DEF FloppyErrors
  <2>. QED BY <1>0, <1>4, <1>5, <2>1, <2>2, FailureKeeps
<1>6. CASE /\ ~is /\ FloppyDrive!StartMotor(dsel) /\ floppyPhase' = "wait" /\ wait' = 0 /\ changed' = c
           /\ UNCHANGED <<plan, try, first, retry, size, floppyDone, floppyGot, floppyResult, fstate, floppyTable, told>>
  <2>1. /\ dsel' = dsel /\ motor' \in SUBSET Drives /\ hw' \in SUBSET Drives /\ motor' \subseteq hw'
        /\ age' \in [Drives -> 0 .. 2] /\ age'[call.d] = 0 /\ (\A e \in Drives : age'[e] < 2 => e \in motor')
        /\ rate' = rate /\ rate' \in 0 .. Len(FloppySpt)
    BY <1>0, <1>1, <1>6, MotorStarts
  <2>2. ~c[call.d]
    BY <1>4, <1>6
  <2>3. DriverTyped'
    BY <1>0, <1>6 DEF FloppyInv, DriverTyped, Steps
  <2>4. DrivesTyped'
    <3>1. wait' \in 0 .. 2
      BY <1>6
    <3>. QED BY <1>0, <1>4, <1>6, <2>1, <3>1 DEF FloppyInv, DrivesTyped
  <2>5. Where'
    BY <1>0, <1>1, <1>6, <2>1 DEF FloppyInv, Where, Busy, Steps
  <2>6. Motors'
    BY <1>0, <1>6, <2>1 DEF Motors
  <2>7. Rates'
    <3>1. Probing' /\ Tabled => Tabled'
      BY <1>0, <1>6 DEF Tabled, FloppyDrive!Table
    <3>2. Probing' => Tabled
      BY <1>0, <1>1, <1>6 DEF Probing, Busy
    <3>. QED BY <1>0, <1>1, <1>6, <2>1, <3>1, <3>2 DEF Rates, Busy, Steps
  <2>8. Known'
    <3>1. CASE Head(plan) = "probe"
      <4>1. Probing' /\ ~Transfer' /\ plan' # <<"rw">>
        BY <1>1, <1>6, <3>1, SomePlans DEF Probing, Transfer, Busy, Steps
      <4>2. \A e \in Drives : c[e] \/ floppyTable[e].spt > 0
        BY <1>1, <1>4, <3>1, TabledHas DEF FloppyInv, Known
      <4>3. fstate = 1 => \A e \in Drives : c[e] \/ e = call.d
        BY <1>1, <1>4, <3>1 DEF FloppyInv, Known
      <4>4. \A e \in Drives : ~c[e] /\ e # call.d =>
              told[e] \in FloppyDisks /\ floppyTable[e].spt = told[e].spt /\ (~line[e] => floppyDisk[e] = told[e])
        BY <1>1, <1>4, <3>1 DEF FloppyInv, Known
      <4>5. try' # 0
        BY <1>1, <1>6, <3>1
      <4>. QED BY <1>0, <1>6, <2>2, <4>1, <4>2, <4>3, <4>4, <4>5 DEF Known
    <3>2. CASE Head(plan) = "rw"
      <4>1. c = changed /\ ~changed[call.d]
        <5>1. ~changed[call.d] /\ changed \in [Drives -> BOOLEAN]
          BY <1>1, <3>2 DEF FloppyInv, DrivesTyped, Known
        <5>. QED BY <1>1, <1>3, <1>6, <5>1
      <4>2. Same(call.d)
        <5>1. Same(call.d) \/ (line[call.d] /\ age[call.d] < 2)
          BY <1>0, <1>1, <3>2 DEF FloppyInv, Known
        <5>2. age[call.d] < 2 => call.d \in hw
          BY <1>0, <1>1 DEF FloppyInv, Motors
        <5>3. ~(line[call.d] /\ call.d \in hw)
          BY <1>2, <1>6, <3>2 DEF FloppyDrive!MediaChanged
        <5>. QED BY <5>1, <5>2, <5>3
      <4>3. ~Probing /\ ~Probing'
        BY <1>1, <1>6, <3>2 DEF Probing
      <4>4. /\ \A e \in Drives : changed[e] \/ floppyTable[e].spt > 0
            /\ fstate = 1 => \A e \in Drives : changed[e]
            /\ \A e \in Drives : ~changed[e] =>
                 told[e] \in FloppyDisks /\ floppyTable[e].spt = told[e].spt /\ (~line[e] => floppyDisk[e] = told[e])
        BY <4>3 DEF FloppyInv, Known
      <4>. QED BY <1>0, <1>6, <4>1, <4>2, <4>3, <4>4 DEF Known, Same
    <3>. QED BY <1>0, <3>1, <3>2
  <2>9. Counted'
    <3>1. (Probing' <=> Probing) /\ (Transfer' <=> Transfer) /\ (Busy' <=> Busy)
      BY <1>0, <1>1, <1>6 DEF Probing, Transfer, Busy, Steps
    <3>. QED BY <1>0, <1>6, <3>1 DEF FloppyInv, Counted
  <2>. QED BY <2>3, <2>4, <2>5, <2>6, <2>7, <2>8, <2>9 DEF FloppyInv
<1>. QED BY <1>2, <1>3, <1>5, <1>6

LEMMA CommandFailsKeeps == FloppyInv /\ FloppyDrive!CommandFails => FloppyInv'
<1>. SUFFICES ASSUME FloppyInv, FloppyDrive!CommandFails PROVE FloppyInv'
  OBVIOUS
<1>0. /\ floppyPhase = "wait" /\ Head(plan) \in {"probe", "rw"}
      /\ UNCHANGED <<call, dsel, motor, hw, loaded, rate, used, debut, age, wait, nap, floppyDisk, line>>
  BY DEF FloppyDrive!CommandFails, FloppyDrive!fdc, FloppyDrive!world
<1>1. PICK r \in FloppyErrors : FloppyDrive!Failure(r, changed)
  BY DEF FloppyDrive!CommandFails, FloppyErrors
<1>2. StepFails(changed)
  BY <1>0 DEF StepFails, FloppyInv, DrivesTyped
<1>3. Head(plan) = "rw" => Same(call.d)
  <2>1. Head(plan) = "rw" => Busy /\ try = 0
    BY <1>0, CommandIs
  <2>. QED BY <1>0, <2>1 DEF FloppyInv, Known
<1>. QED BY <1>0, <1>1, <1>2, <1>3, FailureKeeps

\* Sequences of n elements, and one after the other.
Vector(T, n) == [1 .. n -> T]
Both(s, t) == s \o t
LEMMA Joined ==
  ASSUME NEW T, NEW n \in Nat, NEW m \in Nat, NEW j \in Nat, j = n + m, NEW s \in Vector(T, n), NEW t \in Vector(T, m)
  PROVE  Both(s, t) \in Vector(T, j) /\ \A i \in 1 .. j : Both(s, t)[i] = IF i <= n THEN s[i] ELSE t[i - n]
<1>. USE DEF Vector, Both
<1>1. s \in Seq(T) /\ Len(s) = n
  OBVIOUS
<1>2. t \in Seq(T) /\ Len(t) = m
  OBVIOUS
<1>3. s \o t \in Seq(T) /\ Len(s \o t) = j
  BY <1>1, <1>2
<1>4. \A i \in 1 .. n : (s \o t)[i] = s[i]
  BY <1>1, <1>2
<1>5. \A i \in n + 1 .. j : (s \o t)[i] = t[i - n]
  BY <1>1, <1>2
<1>6. s \o t \in [1 .. j -> T]
  <2>1. PICK u \in Seq(T) : u = s \o t /\ Len(u) = j
    BY <1>3
  <2>2. u \in [1 .. Len(u) -> T]
    OBVIOUS
  <2>. QED BY <2>1, <2>2
<1>7. \A i \in 1 .. j : i \in 1 .. n \/ i \in n + 1 .. j
  OBVIOUS
<1>8. (\A i \in 1 .. n : i <= n) /\ (\A i \in n + 1 .. j : ~(i <= n))
  OBVIOUS
<1>. QED BY <1>4, <1>5, <1>6, <1>7, <1>8

LEMMA SameRow ==
  ASSUME NEW T, NEW n \in Nat, NEW s \in Vector(T, n), NEW t \in Vector(T, n), \A i \in 1 .. n : s[i] = t[i]
  PROVE  s = t
BY DEF Vector

LEMMA SectorsAre ==
  ASSUME NEW k \in FloppyDisks, NEW l \in Nat, NEW n \in Nat
  PROVE  /\ Sectors(k, l, n) \in Vector({k} \X Int, n)
         /\ \A i \in 1 .. n : Sectors(k, l, n)[i] = <<k, l + i - 1>>
BY DEF Sectors, Vector

\* The sectors of a command follow those of the commands before.
LEMMA SectorsGrow ==
  \A k \in FloppyDisks : \A l, n, m, p, j \in Nat :
    p = l + n /\ j = n + m => Both(Sectors(k, l, n), Sectors(k, p, m)) = Sectors(k, l, j)
<1>. SUFFICES ASSUME NEW k \in FloppyDisks, NEW l \in Nat, NEW n \in Nat, NEW m \in Nat, NEW p \in Nat, NEW j \in Nat,
                     p = l + n, j = n + m
     PROVE  Both(Sectors(k, l, n), Sectors(k, p, m)) = Sectors(k, l, j)
  OBVIOUS
<1>0. PICK T : T = {k} \X Int
  OBVIOUS
<1>1. PICK s \in Vector(T, n) : s = Sectors(k, l, n) /\ \A i \in 1 .. n : s[i] = <<k, l + i - 1>>
  <2>1. Sectors(k, l, n) \in Vector(T, n) /\ \A i \in 1 .. n : Sectors(k, l, n)[i] = <<k, l + i - 1>>
    BY <1>0, SectorsAre
  <2>. QED BY <2>1
<1>2. PICK t \in Vector(T, m) : t = Sectors(k, p, m) /\ \A i \in 1 .. m : t[i] = <<k, p + i - 1>>
  <2>1. Sectors(k, p, m) \in Vector(T, m) /\ \A i \in 1 .. m : Sectors(k, p, m)[i] = <<k, p + i - 1>>
    BY <1>0, SectorsAre
  <2>. QED BY <2>1
<1>3. PICK u \in Vector(T, j) : u = Sectors(k, l, j) /\ \A i \in 1 .. j : u[i] = <<k, l + i - 1>>
  <2>1. Sectors(k, l, j) \in Vector(T, j) /\ \A i \in 1 .. j : Sectors(k, l, j)[i] = <<k, l + i - 1>>
    BY <1>0, SectorsAre
  <2>. QED BY <2>1
<1>4. PICK v \in Vector(T, j) : v = Both(s, t) /\ \A i \in 1 .. j : v[i] = IF i <= n THEN s[i] ELSE t[i - n]
  BY Joined
<1>5. ASSUME NEW i \in 1 .. j PROVE v[i] = u[i]
  <2>1. CASE i <= n
    BY <1>1, <1>3, <1>4, <2>1
  <2>2. CASE i > n
    <3>1. i - n \in 1 .. m /\ p + (i - n) - 1 = l + i - 1 /\ ~(i <= n)
      BY <2>2
    <3>2. t[i - n] = <<k, p + (i - n) - 1>>
      BY <1>2, <3>1
    <3>3. u[i] = <<k, l + i - 1>>
      BY <1>3
    <3>. QED BY <1>4, <3>1, <3>2, <3>3
  <2>. QED BY <2>1, <2>2
<1>6. v = u
  BY <1>5, SameRow
<1>. QED BY <1>1, <1>2, <1>3, <1>4, <1>6

LEMMA ProbeWorksKeeps ==
  ASSUME FloppyInv, FloppyDrive!CommandWorks, Head(plan) = "probe"
  PROVE  FloppyInv'
<1>0. /\ floppyPhase = "wait" /\ FloppyDrive!ProbeWorked
      /\ floppyDisk[dsel].rate = rate /\ floppyDisk[dsel] # FloppyDrive!NoDisk
      /\ UNCHANGED <<call, dsel, motor, hw, loaded, rate, used, debut, age, wait, nap, floppyDisk, line>>
      /\ UNCHANGED <<changed, first, retry, size, floppyDone, floppyGot>>
  BY DEF FloppyDrive!CommandWorks, FloppyDrive!Readable, FloppyDrive!ProbeWorked, FloppyDrive!fdc, FloppyDrive!world
<1>1. /\ Busy /\ call.d \in Drives /\ dsel = call.d /\ rate = floppyTable[call.d].rate /\ try > 0 /\ Probing /\ Tabled
      /\ ~changed[call.d]
  BY <1>0, CommandIs DEF FloppyInv, Known
<1>2. PICK k \in FloppyDisks : k = floppyDisk[call.d]
  BY <1>0, <1>1 DEF FloppyInv, DrivesTyped, Kinds
<1>3. /\ k \in [rate : 1 .. Len(FloppySpt), spt : Nat \ {0}, bpb : BOOLEAN] /\ (~k.bpb => k.spt = FloppySpt[k.rate])
      /\ k.spt \in Nat \ {0} /\ k.bpb \in BOOLEAN
  BY FloppyAssumption
<1>4. PICK t : t = FloppyDrive!Identified(call.d)
  OBVIOUS
<1>5. t \in [rate : 0 .. Len(FloppySpt), spt : Nat] /\ t.rate = rate /\ t.spt = k.spt
  <2>1. t = [floppyTable[call.d] EXCEPT !.spt = IF k.bpb THEN k.spt ELSE @]
    BY <1>2, <1>4 DEF FloppyDrive!Identified
  <2>2. floppyTable[call.d] \in [rate : 0 .. Len(FloppySpt), spt : Nat]
    BY <1>1 DEF FloppyInv, DrivesTyped
  <2>3. floppyTable[call.d].spt = FloppySpt[k.rate]
    BY <1>0, <1>1, <1>2, TabledHas
  <2>. QED BY <1>1, <1>3, <2>1, <2>2, <2>3
<1>6. /\ floppyTable' = [floppyTable EXCEPT ![call.d] = t] /\ told' = [told EXCEPT ![call.d] = k] /\ fstate' = 2 /\ try' = 0
      /\ plan' = <<>>
      /\ \/ floppyPhase' = "idle" /\ floppyResult' = "DE_MEDIA_CHANGED"
         \/ floppyPhase' = "idle" /\ floppyResult' = "ok" /\ call.kind \in {"test", "stat"}
         \/ floppyPhase' = "unit" /\ floppyResult' = floppyResult /\ call.kind \notin {"test", "stat"}
  BY <1>0, <1>2, <1>4 DEF FloppyDrive!ProbeWorked, FloppyDrive!Return
<1>7. /\ floppyTable' \in [Drives -> [rate : 0 .. Len(FloppySpt), spt : Nat]] /\ floppyTable'[call.d] = t
      /\ told' \in [Drives -> Kinds] /\ told'[call.d] = k
      /\ \A e \in Drives : e # call.d => floppyTable'[e] = floppyTable[e] /\ told'[e] = told[e]
  <2>1. k \in Kinds
    BY DEF Kinds
  <2>. QED BY <1>1, <1>5, <1>6, <2>1 DEF FloppyInv, DrivesTyped
<1>8. DriverTyped' /\ DrivesTyped'
  <2>1. try' \in Nat /\ try' <= 2 * Len(FloppySpt)
    BY <1>6, FloppyAssumption
  <2>2. DriverTyped'
    BY <1>0, <1>6, <2>1 DEF FloppyInv, DriverTyped, FloppyErrors
  <2>3. DrivesTyped'
    BY <1>0, <1>7 DEF FloppyInv, DrivesTyped
  <2>. QED BY <2>2, <2>3
<1>9. Where' /\ Rates'
  BY <1>0, <1>1, <1>5, <1>6, <1>7 DEF Where, Rates, Busy, Probing, Steps
<1>10. Motors'
  BY <1>0, <1>6 DEF FloppyInv, Motors
<1>11. Known'
  <2>1. \A e \in Drives : changed[e] \/ floppyTable'[e].spt > 0
    BY <1>3, <1>5, <1>7 DEF FloppyInv, Known
  <2>2. \A e \in Drives : ~changed[e] =>
          told'[e] \in FloppyDisks /\ floppyTable'[e].spt = told'[e].spt /\ (~line[e] => floppyDisk[e] = told'[e])
    BY <1>1, <1>2, <1>5, <1>7 DEF FloppyInv, Known
  <2>3. floppyDisk[call.d] \in {told'[call.d], FloppyDrive!NoDisk}
    BY <1>2, <1>7
  <2>. QED BY <1>0, <1>1, <1>6, <2>1, <2>2, <2>3 DEF Known, Busy, Probing, Transfer, Same, Steps
<1>12. Counted'
  <2>1. /\ floppyDone = 0 /\ floppyGot = <<>> /\ call.kind # "none" /\ call.n \in Nat
        /\ call.kind \in {"none", "rw", "test", "stat"}
    BY <1>1 DEF FloppyInv, DriverTyped, Counted
  <2>. QED BY <1>0, <1>6, <2>1, SectorsNone DEF Counted, Busy, Probing, Transfer, Steps
<1>. QED BY <1>8, <1>9, <1>10, <1>11, <1>12 DEF FloppyInv

LEMMA TransferWorksKeeps ==
  ASSUME FloppyInv, FloppyDrive!CommandWorks, Head(plan) = "rw"
  PROVE  FloppyInv'
<1>0. /\ floppyPhase = "wait" /\ floppyDisk[dsel] # FloppyDrive!NoDisk
      /\ floppyGot' = floppyGot \o FloppyDrive!Moved(FloppyDrive!Chs(call.lba + floppyDone), size)
      /\ floppyDone' = floppyDone + size /\ floppyPhase' = "unit" /\ plan' = <<>>
      /\ UNCHANGED <<call, dsel, motor, hw, loaded, rate, used, debut, age, wait, nap, floppyDisk, line>>
      /\ UNCHANGED <<try, first, retry, size, floppyResult, fstate, floppyTable, changed, told>>
  BY DEF FloppyDrive!CommandWorks, FloppyDrive!Readable, FloppyDrive!fdc, FloppyDrive!world
<1>1. Busy /\ dsel = call.d /\ rate = floppyTable[call.d].rate /\ try = 0 /\ ~Probing /\ Transfer
  BY <1>0, CommandIs
<1>2. PICK k \in FloppyDisks, s \in Nat \ {0}, l \in Nat, n \in Nat, m \in Nat, z \in Nat :
        /\ k = told[call.d] /\ s = k.spt /\ s = floppyTable[call.d].spt /\ l = call.lba /\ n = call.n
        /\ m = floppyDone /\ z = size /\ m + z <= n
  <2>1. size \in Nat /\ floppyDone + size <= call.n
    BY <1>1 DEF FloppyInv, DriverTyped, Counted
  <2>. QED BY <1>1, <2>1, TransferKnows
<1>3. floppyDisk[dsel] = k
  <2>1. Same(call.d)
    BY <1>0, <1>1 DEF FloppyInv, Known
  <2>. QED BY <1>0, <1>1, <1>2, <2>1 DEF Same
<1>4. PICK x \in Nat : x = l + m
  OBVIOUS
<1>5. FloppyDrive!Moved(FloppyDrive!Chs(call.lba + floppyDone), size) = Sectors(k, x, z)
  <2>1. PICK a : a = FloppyDrive!Chs(x)
    OBVIOUS
  <2>2. PICK q \in Nat, h \in Nat, e \in Nat : q = x \div (2 * s) /\ h = (x % (2 * s)) \div s /\ e = x % s
    <3>1. 2 * s \in Nat \ {0}
      OBVIOUS
    <3>2. x \div (2 * s) \in Nat /\ x % (2 * s) \in Nat /\ x % s \in Nat
      BY <3>1, Divided
    <3>. QED BY <3>2, Divided
  <2>3. a.c = q /\ a.h = h /\ a.s = e + 1
    BY <1>2, <2>1, <2>2 DEF FloppyDrive!Chs, FloppyDrive!Heads
  <2>4. (q * 2 + h) * s + e = x
    <3>1. 0 \in Nat
      OBVIOUS
    <3>. QED BY <2>2, <3>1, PlaceIs
  <2>5. PICK y \in Nat : y = (q * 2 + h) * s
    OBVIOUS
  <2>6. \A i \in 1 .. z : y + (e + 1) - 1 + i - 1 = x + i - 1
    BY <1>4, <2>4, <2>5
  <2>7. FloppyDrive!Moved(a, z) = [i \in 1 .. z |-> <<k, y + (e + 1) - 1 + i - 1>>]
    BY <1>2, <1>3, <2>3, <2>5 DEF FloppyDrive!Moved, FloppyDrive!Heads
  <2>8. FloppyDrive!Moved(a, z) = [i \in 1 .. z |-> <<k, x + i - 1>>]
    BY <2>6, <2>7
  <2>. QED BY <1>2, <1>4, <2>1, <2>8 DEF Sectors
<1>6. floppyGot' = Sectors(k, l, m + z)
  <2>1. floppyGot = Sectors(k, l, m)
    BY <1>1, <1>2, TransferKnows
  <2>2. PICK j \in Nat : j = m + z
    OBVIOUS
  <2>3. Both(Sectors(k, l, m), Sectors(k, x, z)) = Sectors(k, l, j)
    <3>1. x = l + m /\ j = m + z
      BY <1>4, <2>2
    <3>. QED BY <3>1, SectorsGrow
  <2>. QED BY <1>0, <1>5, <2>1, <2>2, <2>3 DEF Both
<1>7. DriverTyped' /\ DrivesTyped'
  <2>1. floppyDone' \in Nat
    BY <1>0, <1>2
  <2>2. DriverTyped'
    BY <1>0, <2>1 DEF FloppyInv, DriverTyped
  <2>3. DrivesTyped'
    BY <1>0 DEF FloppyInv, DrivesTyped
  <2>. QED BY <2>2, <2>3
<1>8. Where' /\ Rates'
  BY <1>0, <1>1 DEF Where, Rates, Busy, Probing, Steps
<1>9. Motors'
  BY <1>0 DEF FloppyInv, Motors
<1>10. Known'
  <2>1. Same(call.d) /\ ~changed[call.d]
    BY <1>0, <1>1, TransferKnows DEF FloppyInv, Known
  <2>. QED BY <1>0, <1>1, <2>1 DEF FloppyInv, Known, Busy, Probing, Transfer, Same, Steps
<1>11. Counted'
  <2>1. floppyDone' <= call'.n /\ call.kind = "rw"
    BY <1>0, <1>1, <1>2, TransferKnows
  <2>2. floppyGot' = Sectors(told[call.d], call.lba, floppyDone')
    BY <1>0, <1>2, <1>6
  <2>. QED BY <1>0, <2>1, <2>2 DEF Counted, Busy, Probing, Transfer, Steps
<1>. QED BY <1>7, <1>8, <1>9, <1>10, <1>11 DEF FloppyInv

LEMMA FloppySteps == FloppyInv /\ FloppyDrive!Next => FloppyInv'
<1>1. FloppyInv /\ FloppyDrive!CommandWorks => FloppyInv'
  BY ProbeWorksKeeps, TransferWorksKeeps DEF FloppyDrive!CommandWorks
<1>. QED BY <1>1, FloppyCallKeeps, PrepareKeeps, ResetLowKeeps, ResetLoadKeeps, ResetHighKeeps, MoveKeeps, MoveEndsKeeps,
            UnitGoesOn, CommandKeeps, CommandFailsKeeps, MotorTaskKeeps, TickKeeps, SwapKeeps
         DEF FloppyDrive!Next, FloppyDrive!Driver

LEMMA FloppyRight ==
  FloppyInv => FloppyDrive!CountedIsDisk /\ FloppyDrive!MotorRuns /\ FloppyDrive!Configured /\ FloppyDrive!TypeOK
<1>. SUFFICES ASSUME FloppyInv
     PROVE  FloppyDrive!CountedIsDisk /\ FloppyDrive!MotorRuns /\ FloppyDrive!Configured /\ FloppyDrive!TypeOK
  OBVIOUS
<1>1. FloppyDrive!CountedIsDisk
  BY DEF FloppyInv, Counted, Sectors, FloppyDrive!CountedIsDisk, FloppyDrive!Heads
<1>2. FloppyDrive!MotorRuns
  <2>. SUFFICES ASSUME floppyPhase = "wait", Head(plan) \in {"probe", "rw"}, wait < 2 PROVE call.d \in hw /\ dsel = call.d
    BY DEF FloppyDrive!MotorRuns, FloppyDrive!Limit
  <2>1. dsel = call.d /\ call.d \in Drives
    BY CommandIs
  <2>2. age[call.d] < 2 /\ motor \subseteq hw
    BY DEF FloppyInv, Motors
  <2>. QED BY <2>1, <2>2 DEF FloppyInv, Motors
<1>3. FloppyDrive!Configured
  BY CommandIs DEF FloppyDrive!Configured
<1>4. FloppyDrive!TypeOK
  <2>1. /\ floppyPhase \in {"idle", "prepare", "step", "load", "high", "wait", "unit"}
        /\ retry \in 0 .. FloppyRetries /\ first \in FloppyDrive!Errors \cup {"none"}
        /\ floppyResult \in FloppyDrive!Errors \cup {"none", "ok", "DE_UNEXPECTED"} /\ fstate \in 1 .. 2
    BY DEF FloppyInv, DriverTyped, Steps, FloppyErrors, FloppyDrive!Errors
  <2>2. try \in 0 .. 2 * Len(FloppySpt)
    <3>1. Len(FloppySpt) \in Nat /\ try \in Nat /\ try <= 2 * Len(FloppySpt)
      BY FloppyAssumption DEF FloppyInv, DriverTyped
    <3>. QED BY <3>1
  <2>3. floppyPhase # "idle" /\ plan # <<>> /\ FloppyDrive!Last(plan) = "rw" => floppyDone + size <= call.n
    <3>. SUFFICES ASSUME plan # <<>>, FloppyDrive!Last(plan) = "rw" PROVE floppyDone + size <= call.n
      OBVIOUS
    <3>1. Busy /\ plan \in Plans
      BY DEF FloppyInv, DriverTyped, Where
    <3>2. plan \notin AttemptPlans
      BY DEF AttemptPlans, FloppyDrive!Last
    <3>3. try = 0
      BY <3>1, <3>2 DEF FloppyInv, DriverTyped, Where
    <3>. QED BY <3>1, <3>3 DEF FloppyInv, Counted
  <2>4. /\ dsel \in FloppyDrive!Drive /\ motor \subseteq FloppyDrive!Drive /\ hw \subseteq FloppyDrive!Drive
        /\ loaded \subseteq FloppyDrive!Drive /\ rate \in 0 .. Len(FloppySpt)
    BY DEF FloppyInv, DrivesTyped, Drives, FloppyDrive!Drive
  <2>5. \A d \in FloppyDrive!Drive : /\ age[d] \in 0 .. FloppyDrive!Limit
                                     /\ floppyDisk[d] \in FloppyDisks \cup {FloppyDrive!NoDisk}
                                     /\ changed[d] \/ floppyTable[d].spt > 0
    BY DEF FloppyInv, DrivesTyped, Known, Kinds, Drives, FloppyDrive!Drive, FloppyDrive!Limit
  <2>6. wait \in 0 .. FloppyDrive!Limit /\ nap \in 0 .. FloppyDrive!Period
    BY DEF FloppyInv, DrivesTyped, FloppyDrive!Limit, FloppyDrive!Period
  <2>. QED BY <2>1, <2>2, <2>3, <2>4, <2>5, <2>6 DEF FloppyDrive!TypeOK
<1>. QED BY <1>1, <1>2, <1>3, <1>4

-----------------------------------------------------------------------------
(***************************************************************************)
(* What the type invariants say beyond the invariants above: the sectors   *)
(* of a unit of the IDE driver fit in its buffer between units too, and a  *)
(* write brings nothing back.                                              *)
(***************************************************************************)
IdeShape ==
  /\ idePhase \in 0 .. 6 /\ job.count \in 0 .. IdeUnit
  /\ job.step # "none" /\ Asked.wr => job.mem = <<>>

LEMMA ShapeStays == IdeShape /\ UNCHANGED ideVars => IdeShape'
BY DEF ideVars, IdeShape, Asked

LEMMA ShapeStart == IdeDisks!Init => IdeShape
<1>. SUFFICES ASSUME IdeDisks!Init PROVE IdeShape
  OBVIOUS
<1>1. idePhase = 0 /\ job.step = "none" /\ job.count = 0
  BY DEF IdeDisks!Init, IdeDisks!NoJob
<1>. QED BY <1>1, CommandAssumption DEF IdeShape

\* The request of the job is kept while there is one.
LEMMA ShapeKept ==
  ASSUME IdeInv, IdeShape, idePhase' = idePhase, job'.step # "none" => job'.t = job.t /\ req'[job.t] = req[job.t],
         job'.step # "none" => job.step # "none", job'.count \in 0 .. IdeUnit,
         job'.step # "none" /\ Asked.wr => job'.mem = job.mem
  PROVE  IdeShape'
<1>1. job'.step # "none" => Asked' = Asked
  BY DEF Asked
<1>. QED BY <1>1 DEF IdeShape

LEMMA ShapeFailed ==
  ASSUME IdeInv, IdeShape, IdeDisks!Failed, job.step # "none", idePhase' = idePhase
  PROVE  IdeShape'
<1>0. JobTyped /\ IdeUnit \in Nat \ {0}
  BY CommandAssumption DEF IdeInv, IdeTyped
<1>1. CASE job' = IdeDisks!NoJob
  <2>1. job'.step = "none" /\ job'.count = 0
    BY <1>1 DEF IdeDisks!NoJob
  <2>2. job'.count \in 0 .. IdeUnit
    BY <1>0, <2>1
  <2>. QED BY <2>1, <2>2, ShapeKept
<1>2. CASE job' = [job EXCEPT !.step = "reset", !.count = 1, !.again = TRUE] /\ UNCHANGED <<idePc, req>>
  <2>1. job'.t = job.t /\ job'.mem = job.mem /\ job'.count = 1
    BY <1>0, <1>2 DEF JobTyped
  <2>2. job'.count \in 0 .. IdeUnit
    BY <1>0, <2>1
  <2>. QED BY <1>2, <2>1, <2>2, ShapeKept
<1>. QED BY <1>1, <1>2 DEF IdeDisks!Failed, IdeDisks!Finish

LEMMA ShapeStep ==
  ASSUME IdeInv, IdeShape, NEW s \in IdeSteps \ {"none"}, job.step # "none", job' = [job EXCEPT !.step = s],
         UNCHANGED <<req, idePhase>>
  PROVE  IdeShape'
<1>1. JobTyped
  BY DEF IdeInv, IdeTyped
<1>2. job'.t = job.t /\ job'.mem = job.mem /\ job'.count = job.count
  BY <1>1 DEF JobTyped
<1>. QED BY <1>2, ShapeKept DEF IdeShape

LEMMA ShapeSteps == IdeInv /\ IdeShape /\ IdeDisks!Next => IdeShape'
<1>. SUFFICES ASSUME IdeInv, IdeShape, IdeDisks!Next PROVE IdeShape'
  OBVIOUS
<1>0. JobTyped /\ JobHeld /\ IdeTyped /\ IdeUnit \in Nat \ {0}
  BY CommandAssumption DEF IdeInv, IdeTyped
<1>1. CASE IdeDisks!Deploy
  <2>1. UNCHANGED <<req, job>>
    BY <1>1 DEF IdeDisks!Deploy
  <2>2. idePhase' \in 0 .. 6
    <3>1. ASSUME NEW i \in 0 .. 1, IdeDisks!Probe(i) PROVE idePhase' \in 0 .. 6
      <4>1. idePhase' = i + 1
        BY <3>1 DEF IdeDisks!Probe
      <4>. QED BY <4>1
    <3>2. ASSUME NEW i \in 0 .. 1, IdeDisks!Identify(i) PROVE idePhase' \in 0 .. 6
      <4>1. idePhase' = i + 3 \/ idePhase' = 6
        BY <3>2 DEF IdeDisks!Identify, IdeDisks!Off
      <4>. QED BY <4>1
    <3>3. ASSUME IdeDisks!Install PROVE idePhase' \in 0 .. 6
      <4>1. idePhase' = 5 \/ idePhase' = 6
        BY <3>3 DEF IdeDisks!Install, IdeDisks!Live, IdeDisks!Off
      <4>. QED BY <4>1
    <3>. QED BY <1>1, <3>1, <3>2, <3>3 DEF IdeDisks!Deploy, IdeDisks!Dev
  <2>. QED BY <2>1, <2>2 DEF IdeShape, Asked
<1>2. CASE \E t \in IdeTasks : IdeDisks!Call(t)
  <2>1. PICK t \in IdeTasks, q \in IdeRequests :
          idePc[t] = "idle" /\ req' = [req EXCEPT ![t] = q] /\ UNCHANGED <<job, idePhase>>
    BY <1>2 DEF IdeDisks!Call, IdeDisks!deployVars
  <2>2. job.step # "none" => req'[job.t] = req[job.t]
    BY <1>0, <2>1 DEF JobHeld, IdeTyped
  <2>. QED BY <2>1, <2>2, ShapeKept DEF IdeShape
<1>3. CASE \E t \in IdeTasks : IdeDisks!Lock(t)
  <2>1. PICK t \in IdeTasks : IdeDisks!Lock(t)
    BY <1>3
  <2>2. job = IdeDisks!NoJob /\ job.step = "none" /\ idePhase' = idePhase
    BY <2>1 DEF IdeDisks!Lock, IdeDisks!NoJob, IdeDisks!deployVars
  <2>3. CASE job' = [IdeDisks!NoJob EXCEPT !.step = "unit", !.t = t, !.d = req[t].d, !.lba = req[t].lba]
    <3>1. job'.count = 0 /\ job'.mem = <<>>
      BY <2>3 DEF IdeDisks!NoJob
    <3>2. job'.count \in 0 .. IdeUnit
      BY <1>0, <3>1
    <3>. QED BY <2>2, <3>1, <3>2 DEF IdeShape
  <2>4. CASE job' = job
    BY <2>2, <2>4 DEF IdeShape
  <2>. QED BY <2>1, <2>3, <2>4 DEF IdeDisks!Lock
<1>4. CASE IdeDisks!NextUnit
  <2>1. job.step = "unit" /\ idePhase' = idePhase
    BY <1>4 DEF IdeDisks!NextUnit, IdeDisks!deployVars
  <2>2. CASE job' = IdeDisks!NoJob
    <3>1. job'.step = "none" /\ job'.count = 0
      BY <2>2 DEF IdeDisks!NoJob
    <3>2. job'.count \in 0 .. IdeUnit
      BY <1>0, <3>1
    <3>. QED BY <2>1, <3>1, <3>2, ShapeKept
  <2>3. CASE /\ job.done < Asked.n /\ job.lba < Size(job.d) /\ req' = req
             /\ job' = [job EXCEPT !.step = "reset", !.count = IdeDisks!UnitSize, !.again = FALSE]
    <3>1. IdeDisks!UnitSize \in 0 .. IdeUnit
      BY <2>1, <2>3, UnitIs
    <3>2. job'.count \in 0 .. IdeUnit /\ job'.t = job.t /\ job'.mem = job.mem
      BY <1>0, <2>3, <3>1 DEF JobTyped
    <3>. QED BY <2>1, <2>3, <3>2, ShapeKept
  <2>. QED BY <1>4, <2>2, <2>3 DEF IdeDisks!NextUnit, IdeDisks!Finish, IdeDisks!Q, Asked, Size
<1>5. CASE IdeDisks!Reset \/ IdeDisks!Select \/ IdeDisks!Wake
  <2>1. /\ job.step # "none" /\ UNCHANGED <<req, idePhase>>
        /\ \E s \in IdeSteps \ {"none"} : job' = [job EXCEPT !.step = s]
    BY <1>5 DEF IdeDisks!Reset, IdeDisks!Select, IdeDisks!Wake, IdeDisks!deployVars, IdeSteps
  <2>. QED BY <2>1, ShapeStep
<1>6. CASE IdeDisks!Ready \/ IdeDisks!Issue \/ IdeDisks!Bad
  <2>1. job.step # "none" /\ idePhase' = idePhase
    BY <1>6 DEF IdeDisks!Ready, IdeDisks!Issue, IdeDisks!Bad, IdeDisks!deployVars
  <2>2. \/ IdeDisks!Failed
        \/ req' = req /\ \E s \in IdeSteps \ {"none"} : job' = [job EXCEPT !.step = s]
    BY <1>6 DEF IdeDisks!Ready, IdeDisks!Issue, IdeDisks!Bad, IdeSteps
  <2>. QED BY <2>1, <2>2, ShapeFailed, ShapeStep
<1>7. CASE IdeDisks!Good
  <2>1. /\ job.step = "good" /\ UNCHANGED <<req, idePhase>>
        /\ job' = [job EXCEPT !.step = "unit", !.lba = @ + job.count, !.done = @ + job.count,
                              !.mem = IF Asked.wr THEN @ ELSE @ \o SubSeq(ideBuf, 1, job.count),
                              !.odd = IF excuse THEN @ \cup (job.done + 1) .. (job.done + job.count) ELSE @]
    BY <1>7 DEF IdeDisks!Good, IdeDisks!deployVars, IdeDisks!Q, Asked
  <2>2. job'.t = job.t /\ job'.count = job.count /\ (Asked.wr => job'.mem = job.mem)
    BY <1>0, <2>1 DEF JobTyped
  <2>. QED BY <2>1, <2>2, ShapeKept DEF IdeShape
<1>8. CASE (\E d \in 0 .. 1 : IdeDisks!Done(d) \/ IdeDisks!Hang(d)) \/ IdeDisks!Irq
  <2>1. UNCHANGED <<req, job, idePhase>>
    BY <1>8 DEF IdeDisks!Done, IdeDisks!Hang, IdeDisks!Irq, IdeDisks!deployVars
  <2>. QED BY <2>1 DEF IdeShape, Asked
<1>. QED BY <1>1, <1>2, <1>3, <1>4, <1>5, <1>6, <1>7, <1>8 DEF IdeDisks!Next, IdeDisks!Step, IdeDisks!Dev

LEMMA IdeTypes == IdeInv /\ IdeShape => IdeDisks!TypeOK
<1>. SUFFICES ASSUME IdeInv, IdeShape PROVE IdeDisks!TypeOK
  OBVIOUS
<1>1. idePhase \in 0 .. IdeDisks!Off
  BY DEF IdeShape, IdeDisks!Off
<1>2. \A d \in IdeDisks!Dev : dev[d].st \in {"idle", "busy", "hung"}
  BY DEF IdeInv, IdeTyped, IdeDisks!Dev
<1>3. ASSUME job # IdeDisks!NoJob PROVE job.count \in 0 .. IdeUnit /\ Len(job.mem) \in 0 .. job.done
  <2>1. job.step # "none" /\ job.done \in Nat
    BY <1>3 DEF IdeInv, IdeTyped, JobTyped, JobHeld
  <2>2. CASE Asked.wr
    <3>1. Len(job.mem) = 0
      BY <2>1, <2>2 DEF IdeShape
    <3>. QED BY <2>1, <3>1 DEF IdeShape
  <2>3. CASE ~Asked.wr
    <3>1. Len(job.mem) = job.done
      BY <2>1, <2>3 DEF IdeInv, DonePart
    <3>. QED BY <2>1, <3>1 DEF IdeShape
  <2>. QED BY <2>2, <2>3
<1>4. ideBuf = <<>> \/ Len(ideBuf) = IdeUnit
  <2>1. CASE ideBuf \in [1 .. IdeUnit -> Marks]
    <3>1. IdeUnit \in Nat
      BY CommandAssumption
    <3>. QED BY <2>1, <3>1
  <2>. QED BY <2>1 DEF IdeInv, IdeTyped
<1>. QED BY <1>1, <1>2, <1>3, <1>4 DEF IdeDisks!TypeOK

LEMMA AhciTypes == AhciInv => AhciDisk!TypeOK
<1>. SUFFICES ASSUME AhciInv PROVE AhciDisk!TypeOK
  OBVIOUS
<1>1. /\ ahciPc \in {"boot", "stop_cr", "stop_fr", "base", "start", "idle", "unit", "slot", "busy", "issue", "wait",
                     "copy", "off"}
      /\ ahciResult \in {"none", "ok", "error", "DE_ALIGNMENT"}
  BY DEF AhciInv, AhciTyped, AhciBegin, AhciWork
<1>2. /\ op \in AhciDisk!Ops /\ ahciNreq \in 0 .. AhciRequests /\ ahciDone \in 0 .. AhciBlocks
      /\ unit \in 0 .. AhciUnit /\ slot \in AhciDisk!Slot
  BY DEF AhciInv, AhciTyped, AhciOp, AhciValue, AhciSlot, AhciDisk!Ops, AhciDisk!Slot
<1>3. /\ io \in [0 .. AhciUnit - 1 -> AhciDisk!Value] /\ ahciDisk \in [AhciDisk!Sector -> AhciDisk!Value]
  BY DEF AhciInv, AhciTyped, AhciValue, AhciSector, AhciDisk!Value, AhciDisk!Sector
<1>4. \A i \in DOMAIN ci : ci[i] \in AhciDisk!Slot /\ ahciTable[ci[i]].lba + ahciTable[ci[i]].n <= AhciSectors
  <2>1. ci \in Seq(AhciSlot) /\ \A i \in 1 .. Len(ci) : ahciTable[ci[i]].lba + ahciTable[ci[i]].n <= AhciSectors
    BY DEF AhciInv, AhciTyped, IssuedFit
  <2>2. DOMAIN ci = 1 .. Len(ci) /\ \A i \in 1 .. Len(ci) : ci[i] \in AhciSlot
    BY <2>1
  <2>3. AhciSlot = AhciDisk!Slot
    BY DEF AhciSlot, AhciDisk!Slot
  <2>. QED BY <2>1, <2>2, <2>3
<1>. QED BY <1>1, <1>2, <1>3, <1>4 DEF AhciInv, AhciBits, AhciDisk!TypeOK

LEMMA FindTypes == FindInv => PartTypeOK
<1>. SUFFICES ASSUME FindInv PROVE PartTypeOK
  OBVIOUS
<1>1. DOMAIN parts = Numbers /\ findCount \in 0 .. (Count - 5)
  BY DEF FindInv, FindTyped
<1>2. mounted \subseteq Numbers
  BY DEF FindInv, FindTyped, Used
<1>3. devices \in Nat
  <2>1. Cardinality(mounted) \in Nat
    BY FS_CardinalityType DEF FindInv, FindTyped
  <2>2. PICK c \in Nat : c = Cardinality(mounted)
    BY <2>1
  <2>3. devices = c \/ devices = c + 1
    BY <2>2 DEF FindInv, DeviceHeld
  <2>. QED BY <2>3
<1>. QED BY <1>1, <1>2, <1>3 DEF PartTypeOK

LEMMA MountTypes == MountInv => MountTypeOK
<1>. SUFFICES ASSUME MountInv PROVE MountTypeOK
  OBVIOUS
<1>1. /\ list \in Seq(devs) /\ Len(list) <= Room /\ at \in 1 .. (Len(list) + 1) /\ letter \in 0 .. Letters
      /\ named \subseteq Labels
  BY DEF MountInv, MountTyped
<1>2. PICK n \in Nat : n = Len(list)
  BY <1>1
<1>3. Room \in Nat
  BY VolumeAssumption
<1>4. at \in 1 .. (Room + 1)
  BY <1>1, <1>2, <1>3
<1>. QED BY <1>1, <1>4 DEF MountTypeOK

-----------------------------------------------------------------------------
(* The parts together: each keeps its invariant when it moves and when      *)
(* another one does.                                                        *)

StorageInv == AhciInv /\ IdeInv /\ IdeShape /\ FloppyInv /\ FindInv /\ MountInv

LEMMA StorageStart == Init => StorageInv
BY AhciStart, IdeStart, ShapeStart, FloppyStart, FindStart, MountStart DEF Init, StorageInv

LEMMA StorageStep == StorageInv /\ [Next]_vars => StorageInv'
<1>. SUFFICES ASSUME StorageInv, [Next]_vars PROVE StorageInv'
  OBVIOUS
<1>1. CASE AhciMoves /\ AhciDisk!Next
  BY <1>1, AhciSteps, IdeStays, ShapeStays, FloppyStays, FindStays, MountStays DEF StorageInv, AhciMoves
<1>2. CASE FloppyMoves /\ FloppyDrive!Next
  BY <1>2, AhciStays, IdeStays, ShapeStays, FloppySteps, FindStays, MountStays DEF StorageInv, FloppyMoves
<1>3. CASE IdeMoves /\ IdeDisks!Next
  BY <1>3, AhciStays, IdeSteps1, ShapeSteps, FloppyStays, FindStays, MountStays DEF StorageInv, IdeMoves
<1>4. CASE FindMoves /\ PartNext
  BY <1>4, AhciStays, IdeStays, ShapeStays, FloppyStays, FindNext, MountStays DEF StorageInv, FindMoves
<1>5. CASE VolumeMoves /\ MountNext
  BY <1>5, AhciStays, IdeStays, ShapeStays, FloppyStays, FindStays, MountSteps DEF StorageInv, VolumeMoves
<1>6. CASE UNCHANGED vars
  BY <1>6, AhciStays, IdeStays, ShapeStays, FloppyStays, FindStays, MountStays DEF StorageInv, vars
<1>. QED BY <1>1, <1>2, <1>3, <1>4, <1>5, <1>6 DEF Next

\* The parts keep their invariants in every behaviour (ahci.c, ide_ctrl.c,
\* floppy.c, hdd_part.c, hdd_mnt.c).
THEOREM StorageInvariant == Spec => []StorageInv
<1>1. Init => StorageInv
  BY StorageStart
<1>2. StorageInv /\ [Next]_vars => StorageInv'
  BY StorageStep
<1>. QED BY <1>1, <1>2, PTL DEF Spec

\* VolumesRight, for any tables, disks and directories: volumes, mount points,
\* letters and directories agree, and no partition outlives its disk
\* (hdd_part.c, hdd_mnt.c).
THEOREM VolumesAreRight == Spec => []VolumesRight
<1>1. StorageInv => VolumesRight
  <2>1. FindInv => DeviceHeld
    BY DEF FindInv
  <2>2. MountInv => OneEach /\ NoEmptyPlace
    BY DEF MountInv
  <2>. QED BY <2>1, <2>2, MountRight DEF StorageInv, VolumesRight
<1>. QED BY <1>1, StorageInvariant, PTL

\* SectorsRight, for any disks, requests, retries and tables: what a driver
\* says it moved is what the disk has, also when a floppy is changed between
\* calls and when units fail, and an access through a partition stays in it
\* (ahci.c, ide_ctrl.c, floppy.c, hdd_part.c).
THEOREM SectorsAreRight == Spec => []SectorsRight
<1>1. StorageInv => SectorsRight
  <2>. SUFFICES ASSUME StorageInv PROVE SectorsRight
    OBVIOUS
  <2>1. TypeOK
    BY AhciTypes, FloppyRight, IdeTypes, FindTypes, MountTypes DEF StorageInv, TypeOK
  <2>2. AhciDisk!SuccessIsReal /\ IdeDisks!DataInPlace /\ IdeDisks!CommandFits
    BY AhciRight, IdeRight DEF StorageInv
  <2>3. FloppyDrive!CountedIsDisk /\ FloppyDrive!MotorRuns /\ FloppyDrive!Configured
    BY FloppyRight DEF StorageInv
  <2>4. Disjoint /\ AccessInside
    BY MountedApart DEF StorageInv, FindInv
  <2>. QED BY <2>1, <2>2, <2>3, <2>4 DEF SectorsRight
<1>. QED BY <1>1, StorageInvariant, PTL

\* ReportsRight, for any disks and requests: the table of a command that the
\* AHCI controller may still read is not written (ahci_get_slot), and an IDE
\* call reports what was done when it returns (ide_ctrl.c), but for the units in
\* odd: those that the drive alone calls failed, by a status that ata_read_write
\* reads and drops (line 229), and those issued while an old interrupt bit was set
\* (235), whether the drive is slow, faulty or neither.
THEOREM ReportsAreRight == Spec => ReportsRight
<1>1. StorageInv /\ [Next]_vars => [AhciDisk!TablesKept /\ IdeDisks!DoneAsReported]_vars
  <2>. SUFFICES ASSUME StorageInv, Next PROVE AhciDisk!TablesKept /\ IdeDisks!DoneAsReported
    OBVIOUS
  <2>1. IdeDisks!DoneAsReported
    BY IdeReports DEF StorageInv
  <2>2. CASE AhciMoves /\ AhciDisk!Next
    BY <2>1, <2>2, AhciTables DEF StorageInv
  <2>3. CASE UNCHANGED ahciVars
    BY <2>1, <2>3 DEF AhciDisk!TablesKept, ahciVars
  <2>. QED BY <2>2, <2>3 DEF Next, FloppyMoves, IdeMoves, FindMoves, VolumeMoves
<1>. QED BY <1>1, StorageInvariant, PTL DEF Spec, ReportsRight
=============================================================================
