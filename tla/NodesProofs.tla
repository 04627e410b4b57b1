---------------------------- MODULE NodesProofs -----------------------------
(***************************************************************************)
(* Proofs about the counts of modules FileTable and Vfs: for any step of   *)
(* either, the invariants TableInv and TreeInv are kept, and they imply    *)
(* what is asked of the counts. Module FilesProofs carries this over to    *)
(* the behaviours of Files.                                                *)
(***************************************************************************)
EXTENDS FileTable, Vfs, FiniteSetTheorems, WellFoundedInduction, TLAPS

\* Every set of natural numbers that is not empty has a least element.
LEMMA LeastNat ==
  ASSUME NEW S, S \subseteq Nat, S # {}
  PROVE  \E n \in S : \A m \in S : n <= m
<1>. DEFINE R == OpToRel(<, Nat)
<1>1. IsWellFoundedOn(R, Nat)
  BY NatLessThanWellFounded
<1>. HIDE DEF R
<1>2. PICK n \in S : \A m \in S : <<m, n>> \notin R
  BY <1>1, WFMin
<1>3. \A m \in S : m < n => <<m, n>> \in R
  BY DEF R, OpToRel
<1>4. \A m \in S : ~(m < n)
  BY <1>2, <1>3
<1>5. \A m \in S : n <= m
  BY <1>4
<1>. QED BY <1>5

-----------------------------------------------------------------------------
(***************************************************************************)
(* The file table.                                                         *)
(***************************************************************************)
\* t frees e: it was the last to drop it, and has not unlocked lock[0] yet.
Going(t, e) == tablePc[t] \in {"release", "unlock"} /\ mine[t][1] = e

\* The parts of the invariant.  fte->count is exact, and there is a last one.
TableCounts(e) ==
  /\ IsFiniteSet(InTables(e)) /\ IsFiniteSet(InHands(e))
  /\ tableCount[e] = Cardinality(InTables(e)) + Cardinality(InHands(e))

\* An entry is unused, referred to, or freed by one task.
EntryFree(e) == lock0[e] = 0 => lock1[e] = NIL /\ ~tableNode[e] /\ tableCount[e] = 0
EntryKept(e) == lock0[e] = 1 => tableCount[e] > 0 \/ \E t \in Task : Going(t, e)
EntryGoing(e) ==
  /\ \A t \in Task : Going(t, e) => lock0[e] = 1 /\ tableCount[e] = 0 /\ ~tableNode[e]
  /\ \A t, u \in Task : Going(t, e) /\ Going(u, e) => t = u

\* lock[1] is held by the task that opens or uses the entry.
LockHeld(t) ==
  /\ tablePc[t] \in {"open", "io"} => lock1[mine[t][1]] = t
  /\ \A e \in Entry : lock1[e] = t => tablePc[t] \in {"open", "io"} /\ mine[t][1] = e

\* What is in a table, or will be put into one, has a node.
HasNode(t) ==
  /\ \A i \in Fd, e \in Entry : InTable(t, i, e) => tableNode[e]
  /\ tablePc[t] = "install" => \A k \in DOMAIN mine[t] : tableNode[mine[t][k]]

\* What a task uses is in its table; what it opens nobody else has.
Using(t) == tablePc[t] \in {"io", "block"} => \E i \in Fd : table[t][i] = mine[t][1]
OpensAlone(t) == tablePc[t] = "open" =>
  /\ \A u \in Task, i \in Fd : ~InTable(u, i, mine[t][1])
  /\ \A u \in Task, k \in {1, 2} : InHand(u, k, mine[t][1]) => u = t /\ k = 1

\* What a task has where it is.
Shape(t) ==
  /\ tablePc[t] \in {"idle", "dup", "clone", "exit"} =>
       Len(mine[t]) = 0 /\ fd[t] = NIL /\ then[t] = "idle"
  /\ tablePc[t] \in {"open", "second", "io", "block"} => Len(mine[t]) = 1 /\ fd[t] = NIL
  /\ tablePc[t] = "nodes" => Len(mine[t]) = 2 /\ fd[t] = NIL
  /\ tablePc[t] = "install" =>
       /\ Len(mine[t]) \in {1, 2}
       /\ fd[t] # NIL => /\ Len(mine[t]) = 1
                         /\ table[t][fd[t]] \in Entry /\ table[t][fd[t]] # mine[t][1]
  /\ tablePc[t] \in {"drop", "release", "unlock", "clear"} =>
       /\ Len(mine[t]) \in {1, 2}
       /\ fd[t] # NIL => table[t][fd[t]] = mine[t][1]
       /\ then[t] # "idle" => fd[t] # NIL /\ Len(mine[t]) = 1
  /\ tablePc[t] \in {"open", "second", "nodes", "install", "io", "block"} => then[t] = "idle"
  /\ Len(mine[t]) = 2 => mine[t][1] # mine[t][2]

\* The descriptors of file_dup.
DupShape(t) ==
  tablePc[t] = "dup" \/ then[t] = "dup" =>
    /\ tableDup[t].src \in Fd /\ tableDup[t].dst \in Fd /\ tableDup[t].src # tableDup[t].dst
    /\ table[t][tableDup[t].src] # NIL
    /\ then[t] = "dup" => fd[t] = tableDup[t].dst
    /\ tablePc[t] = "dup" => table[t][tableDup[t].dst] = NIL

\* A task that does not exist has what a parent copied for it.
ChildShape(t) ==
  /\ tablePc[t] = "clone" => child[t].to \in Task \ alive
  /\ tablePc[t] # "clone" => child[t].to = NIL
  /\ \A u \in Task : child[t].to = child[u].to /\ child[t].to # NIL => t = u
Dead(t) == t \notin alive =>
  /\ tablePc[t] = "idle"
  /\ \A i \in Fd : table[t][i] = NIL \/ \E u \in Task : child[u].to = t /\ i < child[u].i

TableInv ==
  /\ TableTypeOK
  /\ \A e \in Entry : TableCounts(e) /\ EntryFree(e) /\ EntryKept(e) /\ EntryGoing(e)
  /\ \A t \in Task : LockHeld(t) /\ HasNode(t) /\ Using(t) /\ OpensAlone(t)
  /\ \A t \in Task : Shape(t) /\ DupShape(t) /\ ChildShape(t) /\ Dead(t)

LEMMA LowestIs ==
  ASSUME NEW I \in SUBSET Fd, I # {}
  PROVE  Lowest(I) \in I /\ \A j \in I : Lowest(I) <= j
<1>1. I \subseteq Nat
  BY TableAssumption DEF Fd
<1>2. PICK n \in I : \A m \in I : n <= m
  BY <1>1, LeastNat
<1>. QED  BY <1>2 DEF Lowest

\* The sequences mine has.
LEMMA MineIs ==
  ASSUME NEW s \in Seq(Entry), Len(s) \in {1, 2}
  PROVE  /\ Head(s) = s[1] /\ s[1] \in Entry /\ DOMAIN s = 1 .. Len(s)
         /\ Tail(s) \in Seq(Entry) /\ Len(Tail(s)) = Len(s) - 1
         /\ Len(s) = 2 => s[2] \in Entry /\ Tail(s)[1] = s[2]
<1>1. Head(s) = s[1] /\ s[1] \in Entry /\ DOMAIN s = 1 .. Len(s)
  OBVIOUS
<1>2. Tail(s) \in Seq(Entry) /\ Len(Tail(s)) = Len(s) - 1
  OBVIOUS
<1>4. Len(s) = 2 => s[2] \in Entry /\ Tail(s)[1] = s[2]
  OBVIOUS
<1>. QED  BY <1>1, <1>2, <1>4

LEMMA AppendLast ==
  ASSUME NEW s \in Seq(Entry), NEW e \in Entry
  PROVE  Append(s, e)[Len(s) + 1] = e
  OBVIOUS

LEMMA AppendIs ==
  ASSUME NEW s \in Seq(Entry), NEW e \in Entry, Len(s) = 1
  PROVE  /\ Append(s, e) \in Seq(Entry) /\ Len(Append(s, e)) = 2
         /\ Append(s, e)[2] = e /\ Append(s, e)[1] = s[1]
<1>1. Append(s, e) \in Seq(Entry)  OBVIOUS
<1>2. Len(Append(s, e)) = 2  OBVIOUS
<1>3. Append(s, e)[Len(s) + 1] = e  BY AppendLast
<1>4. Append(s, e)[1] = s[1]  OBVIOUS
<1>. QED  BY <1>1, <1>2, <1>3, <1>4

-----------------------------------------------------------------------------
\* How references are counted when one of them is added, dropped or moved.
LEMMA CountSame ==
  ASSUME NEW e \in Entry, TableCounts(e), tableCount'[e] = tableCount[e],
         \A u \in Task, i \in Fd : InTable(u, i, e)' <=> InTable(u, i, e),
         \A u \in Task, k \in {1, 2} : InHand(u, k, e)' <=> InHand(u, k, e)
  PROVE  TableCounts(e)'
<1>1. InTables(e)' = InTables(e)  BY DEF InTables
<1>2. InHands(e)' = InHands(e)  BY DEF InHands
<1>. QED  BY <1>1, <1>2 DEF TableCounts

LEMMA SetAdds ==
  ASSUME NEW S, IsFiniteSet(S), NEW x, x \notin S
  PROVE  IsFiniteSet(S \cup {x}) /\ Cardinality(S \cup {x}) = Cardinality(S) + 1
  BY FS_AddElement

LEMMA SetDrops ==
  ASSUME NEW S, IsFiniteSet(S), NEW x \in S
  PROVE  IsFiniteSet(S \ {x}) /\ Cardinality(S \ {x}) = Cardinality(S) - 1
  BY FS_RemoveElement

\* t puts e in its table at i, and counts it.
LEMMA CountTable ==
  ASSUME NEW e \in Entry, TableCounts(e), tableCount'[e] = tableCount[e] + 1,
         NEW t \in Task, NEW j \in Fd, ~InTable(t, j, e),
         \A u \in Task, i \in Fd : InTable(u, i, e)' <=> InTable(u, i, e) \/ (u = t /\ i = j),
         \A u \in Task, k \in {1, 2} : InHand(u, k, e)' <=> InHand(u, k, e)
  PROVE  TableCounts(e)'
<1>1. InTables(e)' = InTables(e) \cup {<<t, j>>}  BY DEF InTables
<1>2. InHands(e)' = InHands(e)  BY DEF InHands
<1>3. <<t, j>> \notin InTables(e)  BY DEF InTables
<1>4. Cardinality(InTables(e)) \in Nat /\ Cardinality(InHands(e)) \in Nat
  BY FS_CardinalityType DEF TableCounts
<1>5. IsFiniteSet(InTables(e)') /\ Cardinality(InTables(e)') = Cardinality(InTables(e)) + 1
  BY <1>1, <1>3, SetAdds DEF TableCounts
<1>. QED  BY <1>2, <1>4, <1>5 DEF TableCounts

\* t takes e in its hands as k, and counts it.
LEMMA CountHand ==
  ASSUME NEW e \in Entry, TableCounts(e), tableCount'[e] = tableCount[e] + 1,
         NEW t \in Task, NEW j \in {1, 2}, ~InHand(t, j, e),
         \A u \in Task, i \in Fd : InTable(u, i, e)' <=> InTable(u, i, e),
         \A u \in Task, k \in {1, 2} : InHand(u, k, e)' <=> InHand(u, k, e) \/ (u = t /\ k = j)
  PROVE  TableCounts(e)'
<1>1. InTables(e)' = InTables(e)  BY DEF InTables
<1>2. InHands(e)' = InHands(e) \cup {<<t, j>>}  BY DEF InHands
<1>3. <<t, j>> \notin InHands(e)  BY DEF InHands
<1>4. Cardinality(InTables(e)) \in Nat /\ Cardinality(InHands(e)) \in Nat
  BY FS_CardinalityType DEF TableCounts
<1>5. IsFiniteSet(InHands(e)') /\ Cardinality(InHands(e)') = Cardinality(InHands(e)) + 1
  BY <1>2, <1>3, SetAdds DEF TableCounts
<1>. QED  BY <1>1, <1>4, <1>5 DEF TableCounts

\* t drops what it has at i of its table.
LEMMA CountTableDrop ==
  ASSUME NEW e \in Entry, TableCounts(e), tableCount'[e] = tableCount[e] - 1,
         NEW t \in Task, NEW j \in Fd, InTable(t, j, e),
         \A u \in Task, i \in Fd : InTable(u, i, e)' <=> InTable(u, i, e) /\ ~(u = t /\ i = j),
         \A u \in Task, k \in {1, 2} : InHand(u, k, e)' <=> InHand(u, k, e)
  PROVE  TableCounts(e)'
<1>1. InTables(e)' = InTables(e) \ {<<t, j>>}  BY DEF InTables
<1>2. InHands(e)' = InHands(e)  BY DEF InHands
<1>3. <<t, j>> \in InTables(e)  BY DEF InTables
<1>4. Cardinality(InTables(e)) \in Nat /\ Cardinality(InHands(e)) \in Nat
  BY FS_CardinalityType DEF TableCounts
<1>5. IsFiniteSet(InTables(e)') /\ Cardinality(InTables(e)') = Cardinality(InTables(e)) - 1
  BY <1>1, <1>3, SetDrops DEF TableCounts
<1>. QED  BY <1>2, <1>4, <1>5 DEF TableCounts

\* t drops what it has in its hands.
LEMMA CountHandDrop ==
  ASSUME NEW e \in Entry, TableCounts(e), tableCount'[e] = tableCount[e] - 1,
         NEW t \in Task, NEW j \in {1, 2}, InHand(t, j, e),
         \A u \in Task, i \in Fd : InTable(u, i, e)' <=> InTable(u, i, e),
         \A u \in Task, k \in {1, 2} : InHand(u, k, e)' <=> InHand(u, k, e) /\ ~(u = t /\ k = j)
  PROVE  TableCounts(e)'
<1>1. InTables(e)' = InTables(e)  BY DEF InTables
<1>2. InHands(e)' = InHands(e) \ {<<t, j>>}  BY DEF InHands
<1>3. <<t, j>> \in InHands(e)  BY DEF InHands
<1>4. Cardinality(InTables(e)) \in Nat /\ Cardinality(InHands(e)) \in Nat
  BY FS_CardinalityType DEF TableCounts
<1>5. IsFiniteSet(InHands(e)') /\ Cardinality(InHands(e)') = Cardinality(InHands(e)) - 1
  BY <1>2, <1>3, SetDrops DEF TableCounts
<1>. QED  BY <1>1, <1>4, <1>5 DEF TableCounts

\* t puts what it has in its hands as k in its table at i.
LEMMA CountInstall ==
  ASSUME NEW e \in Entry, TableCounts(e), tableCount'[e] = tableCount[e],
         NEW t \in Task, NEW h \in {1, 2}, NEW j \in Fd, ~InTable(t, j, e), InHand(t, h, e),
         \A u \in Task, i \in Fd : InTable(u, i, e)' <=> InTable(u, i, e) \/ (u = t /\ i = j),
         \A u \in Task, k \in {1, 2} : InHand(u, k, e)' <=> InHand(u, k, e) /\ ~(u = t /\ k = h)
  PROVE  TableCounts(e)'
<1>1. InTables(e)' = InTables(e) \cup {<<t, j>>} /\ <<t, j>> \notin InTables(e)
  BY DEF InTables
<1>2. InHands(e)' = InHands(e) \ {<<t, h>>} /\ <<t, h>> \in InHands(e)
  BY DEF InHands
<1>4. Cardinality(InTables(e)) \in Nat /\ Cardinality(InHands(e)) \in Nat
  BY FS_CardinalityType DEF TableCounts
<1>5. IsFiniteSet(InTables(e)') /\ Cardinality(InTables(e)') = Cardinality(InTables(e)) + 1
  BY <1>1, SetAdds DEF TableCounts
<1>6. IsFiniteSet(InHands(e)') /\ Cardinality(InHands(e)') = Cardinality(InHands(e)) - 1
  BY <1>2, SetDrops DEF TableCounts
<1>. QED  BY <1>4, <1>5, <1>6 DEF TableCounts

\* What t has in its hands as one becomes the other.
LEMMA CountMoved ==
  ASSUME NEW e \in Entry, TableCounts(e), tableCount'[e] = tableCount[e],
         NEW t \in Task, NEW h \in {1, 2}, NEW j \in {1, 2}, InHand(t, h, e), ~InHand(t, j, e),
         \A u \in Task, i \in Fd : InTable(u, i, e)' <=> InTable(u, i, e),
         \A u \in Task, k \in {1, 2} :
           InHand(u, k, e)' <=> (InHand(u, k, e) /\ ~(u = t /\ k = h)) \/ (u = t /\ k = j)
  PROVE  TableCounts(e)'
<1>1. InTables(e)' = InTables(e)  BY DEF InTables
<1>2. /\ InHands(e)' = (InHands(e) \ {<<t, h>>}) \cup {<<t, j>>}
      /\ <<t, h>> \in InHands(e) /\ <<t, j>> \notin InHands(e)
  BY DEF InHands
<1>3. /\ IsFiniteSet(InHands(e) \ {<<t, h>>})
      /\ Cardinality(InHands(e) \ {<<t, h>>}) = Cardinality(InHands(e)) - 1
  BY <1>2, SetDrops DEF TableCounts
<1>4. Cardinality(InTables(e)) \in Nat /\ Cardinality(InHands(e)) \in Nat
  BY FS_CardinalityType DEF TableCounts
<1>5. /\ IsFiniteSet(InHands(e)')
      /\ Cardinality(InHands(e)') = Cardinality(InHands(e) \ {<<t, h>>}) + 1
  <2>1. <<t, j>> \notin InHands(e) \ {<<t, h>>}
    BY <1>2, Zenon
  <2>2. /\ IsFiniteSet((InHands(e) \ {<<t, h>>}) \cup {<<t, j>>})
        /\ Cardinality((InHands(e) \ {<<t, h>>}) \cup {<<t, j>>}) = Cardinality(InHands(e) \ {<<t, h>>}) + 1
    BY <1>3, <2>1, SetAdds
  <2>. QED BY <1>2, <2>2, Zenon
<1>. QED  BY <1>1, <1>3, <1>4, <1>5 DEF TableCounts

\* What a count says of the references.
LEMMA CountedAll ==
  ASSUME NEW e \in Entry, TableCounts(e)
  PROVE  /\ tableCount[e] \in Nat
         /\ \A u \in Task, i \in Fd : InTable(u, i, e) => tableCount[e] > 0
         /\ \A u \in Task, k \in {1, 2} : InHand(u, k, e) => tableCount[e] > 0
         /\ tableCount[e] > 0 => InTables(e) # {} \/ InHands(e) # {}
<1>1. Cardinality(InTables(e)) \in Nat /\ Cardinality(InHands(e)) \in Nat
  BY FS_CardinalityType DEF TableCounts
<1>2. InTables(e) # {} => Cardinality(InTables(e)) # 0
  BY FS_EmptySet DEF TableCounts
<1>3. InHands(e) # {} => Cardinality(InHands(e)) # 0
  BY FS_EmptySet DEF TableCounts
<1>4. InTables(e) = {} => Cardinality(InTables(e)) = 0  BY FS_EmptySet
<1>5. InHands(e) = {} => Cardinality(InHands(e)) = 0  BY FS_EmptySet
<1>6. \A u \in Task, i \in Fd : InTable(u, i, e) => InTables(e) # {}
  <2>1. SUFFICES ASSUME NEW u \in Task, NEW i \in Fd, InTable(u, i, e) PROVE <<u, i>> \in InTables(e)
    OBVIOUS
  <2>. QED  BY <2>1 DEF InTables
<1>7. \A u \in Task, k \in {1, 2} : InHand(u, k, e) => InHands(e) # {}
  <2>1. SUFFICES ASSUME NEW u \in Task, NEW k \in {1, 2}, InHand(u, k, e) PROVE <<u, k>> \in InHands(e)
    OBVIOUS
  <2>. QED  BY <2>1 DEF InHands
<1>. QED  BY <1>1, <1>2, <1>3, <1>4, <1>5, <1>6, <1>7 DEF TableCounts

-----------------------------------------------------------------------------
\* Nothing of another task changes.
Only(t) ==
  \A u \in Task : u # t =>
    /\ mine'[u] = mine[u] /\ fd'[u] = fd[u] /\ then'[u] = then[u]
    /\ tablePc'[u] = tablePc[u] /\ tableDup'[u] = tableDup[u] /\ child'[u] = child[u]
    /\ table'[u] = table[u]

\* t refers to e.
Refers(t, e) == (\E i \in Fd : InTable(t, i, e)) \/ (\E k \in {1, 2} : InHand(t, k, e))

LEMMA Elsewhere ==
  ASSUME TableInv, NEW t \in Task, Only(t), NEW u \in Task, u # t
  PROVE  /\ \A i \in Fd, e \in Entry : InTable(u, i, e)' <=> InTable(u, i, e)
         /\ \A k \in {1, 2}, e \in Entry : InHand(u, k, e)' <=> InHand(u, k, e)
         /\ \A e \in Entry : Going(u, e)' <=> Going(u, e)
         /\ \A e \in Entry : Refers(u, e)' <=> Refers(u, e)
         /\ Shape(u)' /\ DupShape(u)' /\ Using(u)'
<1>0. /\ mine'[u] = mine[u] /\ fd'[u] = fd[u] /\ then'[u] = then[u]
      /\ tablePc'[u] = tablePc[u] /\ tableDup'[u] = tableDup[u] /\ child'[u] = child[u]
      /\ table'[u] = table[u]
  BY DEF Only
<1>1. \A i \in Fd, e \in Entry : InTable(u, i, e)' <=> InTable(u, i, e)
  BY <1>0 DEF InTable, Stale
<1>2. \A k \in {1, 2}, e \in Entry : InHand(u, k, e)' <=> InHand(u, k, e)
  BY <1>0 DEF InHand
<1>3. \A e \in Entry : Going(u, e)' <=> Going(u, e)
  BY <1>0 DEF Going
<1>4. Shape(u) /\ DupShape(u) /\ Using(u)
  BY DEF TableInv
<1>5. Shape(u)'
  BY <1>0, <1>4 DEF Shape
<1>6. DupShape(u)' /\ Using(u)'
  BY <1>0, <1>4 DEF DupShape, Using
<1>7. \A e \in Entry : Refers(u, e)' <=> Refers(u, e)
  BY <1>1, <1>2 DEF Refers
<1>. QED  BY <1>1, <1>2, <1>3, <1>5, <1>6, <1>7

\* A task that refers to e, and is not opening it, keeps others from opening it.
LEMMA AloneRefers ==
  ASSUME TableInv, NEW u \in Task, tablePc[u] = "open", NEW t \in Task, t # u
  PROVE  mine[u][1] \in Entry /\ ~Refers(t, mine[u][1])
<1>1. mine[u] \in Seq(Entry) /\ Len(mine[u]) = 1
  BY DEF TableInv, TableTypeOK, Shape
<1>2. mine[u][1] \in Entry
  BY <1>1, MineIs
<1>3. OpensAlone(u)
  BY DEF TableInv
<1>. QED  BY <1>2, <1>3 DEF OpensAlone, Refers

(***************************************************************************)
(* A step that changes no entry, and nothing but what task t has, keeps    *)
(* the invariant, if it does for t itself.                                 *)
(***************************************************************************)
LEMMA Quiet ==
  ASSUME TableInv, TableTypeOK', NEW t \in Task, Only(t),
         UNCHANGED <<lock0, lock1, tableCount, tableNode, alive, child>>,
         t \in alive,
         \A e \in Entry : TableCounts(e)',
         \A e \in Entry : Going(t, e)' <=> Going(t, e),
         tablePc[t] \notin {"open", "io", "clone"}, tablePc'[t] \notin {"open", "io", "clone", "block"},
         \A e \in Entry : Refers(t, e)' => Refers(t, e),
         HasNode(t)', Shape(t)', DupShape(t)'
  PROVE  TableInv'
<1>e. \A u \in Task : u # t =>
        /\ \A i \in Fd, e \in Entry : InTable(u, i, e)' <=> InTable(u, i, e)
        /\ \A k \in {1, 2}, e \in Entry : InHand(u, k, e)' <=> InHand(u, k, e)
        /\ \A e \in Entry : Going(u, e)' <=> Going(u, e)
        /\ Shape(u)' /\ DupShape(u)' /\ Using(u)'
  BY Elsewhere
<1>o. \A u \in Task : u # t => mine'[u] = mine[u] /\ tablePc'[u] = tablePc[u]
  BY DEF Only
<1>g. \A u \in Task, e \in Entry : Going(u, e)' <=> Going(u, e)
  BY <1>e
<1>1. ASSUME NEW e \in Entry PROVE EntryFree(e)' /\ EntryKept(e)' /\ EntryGoing(e)'
  <2>1. EntryFree(e) /\ EntryKept(e) /\ EntryGoing(e)  BY DEF TableInv
  <2>2. EntryFree(e)'  BY <2>1 DEF EntryFree
  <2>3. EntryKept(e)'  BY <2>1, <1>g DEF EntryKept
  <2>4. EntryGoing(e)'  BY <2>1, <1>g DEF EntryGoing
  <2>. QED  BY <2>2, <2>3, <2>4
<1>2. ASSUME NEW u \in Task PROVE LockHeld(u)'
  <2>1. LockHeld(u) /\ LockHeld(t)  BY DEF TableInv
  <2>2. CASE u = t  BY <2>1, <2>2 DEF LockHeld
  <2>3. CASE u # t  BY <2>1, <2>3, <1>o DEF LockHeld
  <2>. QED  BY <2>2, <2>3
<1>3. ASSUME NEW u \in Task PROVE HasNode(u)' /\ Using(u)'
  <2>1. CASE u = t  BY <2>1 DEF Using
  <2>2. CASE u # t
    <3>1. HasNode(u)  BY DEF TableInv
    <3>2. HasNode(u)'  BY <3>1, <2>2, <1>e, <1>o DEF HasNode
    <3>. QED  BY <3>2, <2>2, <1>e
  <2>. QED  BY <2>1, <2>2
<1>4. ASSUME NEW u \in Task, (tablePc[u] = "open")' PROVE OpensAlone(u)'
  <2>1. u # t /\ tablePc[u] = "open" /\ mine'[u] = mine[u]  BY <1>4, <1>o
  <2>2. PICK e \in Entry : mine[u][1] = e  BY <2>1, AloneRefers
  <2>3. ~Refers(t, e)'  BY <2>1, <2>2, AloneRefers
  <2>4. OpensAlone(u)  BY DEF TableInv
  <2>5. \A v \in Task, i \in Fd : ~InTable(v, i, e)'
    <3>1. ASSUME NEW v \in Task, NEW i \in Fd PROVE ~InTable(v, i, e)'
      <4>1. CASE v = t  BY <4>1, <2>3 DEF Refers
      <4>2. CASE v # t  BY <4>2, <2>1, <2>2, <2>4, <1>e DEF OpensAlone
      <4>. QED  BY <4>1, <4>2
    <3>. QED  BY <3>1
  <2>6. \A v \in Task, k \in {1, 2} : InHand(v, k, e)' => v = u /\ k = 1
    <3>1. ASSUME NEW v \in Task, NEW k \in {1, 2}, InHand(v, k, e)' PROVE v = u /\ k = 1
      <4>1. v # t  BY <3>1, <2>3 DEF Refers
      <4>2. InHand(v, k, e)  BY <3>1, <4>1, <1>e
      <4>. QED  BY <4>2, <2>1, <2>2, <2>4 DEF OpensAlone
    <3>. QED  BY <3>1
  <2>. QED  BY <2>1, <2>2, <2>5, <2>6 DEF OpensAlone
<1>5. ASSUME NEW u \in Task PROVE Shape(u)' /\ DupShape(u)'
  BY <1>e
<1>6. ASSUME NEW u \in Task PROVE ChildShape(u)'
  <2>1. ChildShape(u)  BY DEF TableInv
  <2>. QED  BY <2>1, <1>o DEF ChildShape
<1>7. ASSUME NEW u \in Task PROVE Dead(u)'
  <2>1. Dead(u)  BY DEF TableInv
  <2>2. CASE u = t  BY <2>2 DEF Dead
  <2>3. CASE u # t
    <3>1. table'[u] = table[u]  BY <2>3 DEF Only
    <3>. QED  BY <2>1, <2>3, <3>1, <1>o DEF Dead
  <2>. QED  BY <2>2, <2>3
<1>8. \A u \in Task : OpensAlone(u)'
  BY <1>4 DEF OpensAlone
<1>. QED  BY <1>1, <1>2, <1>3, <1>8, <1>5, <1>6, <1>7 DEF TableInv

LEMMA Lives ==
  ASSUME TableInv, NEW t \in Task, tablePc[t] # "idle"
  PROVE  t \in alive
  BY DEF TableInv, Dead

\* A step to another place, with the same entries in the same hands.
LEMMA QuietSame ==
  ASSUME TableInv, TableTypeOK', NEW t \in Task, Only(t),
         UNCHANGED <<lock0, lock1, tableCount, tableNode, alive, child>>, t \in alive,
         \A i \in Fd, e \in Entry : InTable(t, i, e)' <=> InTable(t, i, e),
         \A k \in {1, 2}, e \in Entry : InHand(t, k, e)' <=> InHand(t, k, e),
         \A e \in Entry : Going(t, e)' <=> Going(t, e),
         tablePc[t] \notin {"open", "io", "clone"}, tablePc'[t] \notin {"open", "io", "clone", "block"},
         tablePc'[t] = "install" => FALSE,
         Shape(t)', DupShape(t)'
  PROVE  TableInv'
<1>1. ASSUME NEW e \in Entry PROVE TableCounts(e)'
  <2>1. TableCounts(e) /\ tableCount'[e] = tableCount[e]  BY DEF TableInv
  <2>2. \A u \in Task, i \in Fd : InTable(u, i, e)' <=> InTable(u, i, e)  BY Elsewhere
  <2>3. \A u \in Task, k \in {1, 2} : InHand(u, k, e)' <=> InHand(u, k, e)  BY Elsewhere
  <2>. QED  BY <2>1, <2>2, <2>3, CountSame
<1>2. \A e \in Entry : Refers(t, e)' => Refers(t, e)  BY DEF Refers
<1>3. HasNode(t)'
  <2>1. HasNode(t)  BY DEF TableInv
  <2>. QED  BY <2>1 DEF HasNode
<1>. QED  BY <1>1, <1>2, <1>3, Quiet

LEMMA OpenDirectoryKeeps ==
  ASSUME TableInv, NEW t \in Task, OpenDirectory(t)
  PROVE  TableInv'
<1>1. /\ tablePc[t] = "install" /\ Len(mine[t]) = 1 /\ fd[t] = NIL
      /\ tablePc' = [tablePc EXCEPT ![t] = "drop"]
      /\ UNCHANGED <<lock0, lock1, tableCount, tableNode, alive, table, mine, fd, then, tableDup, child>>
  BY DEF OpenDirectory, entries, locals, Goto
<1>2. TableTypeOK  BY DEF TableInv
<1>3. TableTypeOK'  BY <1>1, <1>2 DEF TableTypeOK
<1>4. Only(t) /\ tablePc'[t] = "drop"  BY <1>1, <1>2 DEF Only, TableTypeOK
<1>5. t \in alive  BY <1>1, Lives
<1>s. Shape(t) /\ DupShape(t)  BY DEF TableInv
<1>6. mine[t] \in Seq(Entry) /\ NIL \notin Fd /\ fd[t] = NIL BY <1>1, <1>2, TableAssumption DEF TableTypeOK
<1>7. \A i \in Fd, e \in Entry : InTable(t, i, e)' <=> InTable(t, i, e)
  BY <1>1, <1>4 DEF InTable, Stale
<1>8. \A k \in {1, 2}, e \in Entry : InHand(t, k, e)' <=> InHand(t, k, e)
  BY <1>1, <1>4 DEF InHand
<1>9. \A e \in Entry : Going(t, e)' <=> Going(t, e)
  BY <1>1, <1>4 DEF Going
<1>10. Shape(t)'  BY <1>1, <1>4, <1>s DEF Shape
<1>11. DupShape(t)'  BY <1>1, <1>4, <1>s DEF Shape, DupShape
<1>. QED  BY <1>1, <1>3, <1>4, <1>5, <1>7, <1>8, <1>9, <1>10, <1>11, QuietSame

LEMMA PairNoEntryKeeps ==
  ASSUME TableInv, NEW t \in Task, PairNoEntry(t)
  PROVE  TableInv'
<1>1. /\ tablePc[t] = "second"
      /\ tablePc' = [tablePc EXCEPT ![t] = "drop"]
      /\ UNCHANGED <<lock0, lock1, tableCount, tableNode, alive, table, mine, fd, then, tableDup, child>>
  BY DEF PairNoEntry, entries, locals, Goto
<1>2. TableTypeOK  BY DEF TableInv
<1>3. TableTypeOK'  BY <1>1, <1>2 DEF TableTypeOK
<1>4. Only(t) /\ tablePc'[t] = "drop"  BY <1>1, <1>2 DEF Only, TableTypeOK
<1>5. t \in alive  BY <1>1, Lives
<1>s. Shape(t) /\ DupShape(t) /\ Len(mine[t]) = 1 /\ fd[t] = NIL
  BY <1>1 DEF TableInv, Shape
<1>7. \A i \in Fd, e \in Entry : InTable(t, i, e)' <=> InTable(t, i, e)
  BY <1>1, <1>4 DEF InTable, Stale
<1>8. \A k \in {1, 2}, e \in Entry : InHand(t, k, e)' <=> InHand(t, k, e)
  BY <1>1, <1>4, <1>s DEF InHand
<1>9. \A e \in Entry : Going(t, e)' <=> Going(t, e)
  BY <1>1, <1>4 DEF Going
<1>10. Shape(t)'  BY <1>1, <1>4, <1>s DEF Shape
<1>11. DupShape(t)'  BY <1>1, <1>4, <1>s DEF Shape, DupShape
<1>. QED  BY <1>1, <1>3, <1>4, <1>5, <1>7, <1>8, <1>9, <1>10, <1>11, QuietSame

LEMMA NodeReleaseKeeps ==
  ASSUME TableInv, NEW t \in Task, NodeRelease(t)
  PROVE  TableInv'
<1>1. /\ tablePc[t] = "release"
      /\ tablePc' = [tablePc EXCEPT ![t] = "unlock"]
      /\ UNCHANGED <<lock0, lock1, tableCount, tableNode, alive, table, mine, fd, then, tableDup, child>>
  BY DEF NodeRelease, entries, locals, Goto
<1>2. TableTypeOK  BY DEF TableInv
<1>3. TableTypeOK'  BY <1>1, <1>2 DEF TableTypeOK
<1>4. Only(t) /\ tablePc'[t] = "unlock"  BY <1>1, <1>2 DEF Only, TableTypeOK
<1>5. t \in alive  BY <1>1, Lives
<1>s. Shape(t) /\ DupShape(t)  BY DEF TableInv
<1>7. \A i \in Fd, e \in Entry : InTable(t, i, e)' <=> InTable(t, i, e)
  BY <1>1, <1>4 DEF InTable, Stale
<1>8. \A k \in {1, 2}, e \in Entry : InHand(t, k, e)' <=> InHand(t, k, e)
  BY <1>1, <1>4 DEF InHand
<1>9. \A e \in Entry : Going(t, e)' <=> Going(t, e)
  BY <1>1, <1>4 DEF Going
<1>10. Shape(t)'  BY <1>1, <1>4, <1>s DEF Shape
<1>11. DupShape(t)'  BY <1>1, <1>4, <1>s DEF DupShape
<1>. QED  BY <1>1, <1>3, <1>4, <1>5, <1>7, <1>8, <1>9, <1>10, <1>11, QuietSame

LEMMA TaskExitKeeps ==
  ASSUME TableInv, NEW t \in Task, TaskExit(t)
  PROVE  TableInv'
<1>1. /\ tablePc[t] = "idle" /\ t \in alive
      /\ tablePc' = [tablePc EXCEPT ![t] = "exit"]
      /\ UNCHANGED <<lock0, lock1, tableCount, tableNode, alive, table, mine, fd, then, tableDup, child>>
  BY DEF TaskExit, Ready, entries, locals, Goto
<1>2. TableTypeOK  BY DEF TableInv
<1>3. TableTypeOK'  BY <1>1, <1>2 DEF TableTypeOK
<1>4. Only(t) /\ tablePc'[t] = "exit"  BY <1>1, <1>2 DEF Only, TableTypeOK
<1>s. Shape(t) /\ DupShape(t)  BY DEF TableInv
<1>7. \A i \in Fd, e \in Entry : InTable(t, i, e)' <=> InTable(t, i, e)
  BY <1>1, <1>4 DEF InTable, Stale
<1>8. \A k \in {1, 2}, e \in Entry : InHand(t, k, e)' <=> InHand(t, k, e)
  BY <1>1, <1>4 DEF InHand
<1>9. \A e \in Entry : Going(t, e)' <=> Going(t, e)
  BY <1>1, <1>4 DEF Going
<1>10. Shape(t)'  BY <1>1, <1>4, <1>s DEF Shape
<1>11. DupShape(t)'  BY <1>1, <1>4, <1>s DEF DupShape
<1>. QED  BY <1>1, <1>3, <1>4, <1>7, <1>8, <1>9, <1>10, <1>11, QuietSame

\* file_close, alone or as the beginning of file_dup and fd_release_func.
LEMMA BeginCloseKeeps ==
  ASSUME TableInv, NEW t \in Task, NEW i \in Fd, NEW next \in {"idle", "dup", "exit"},
         tablePc[t] \in {"idle", "exit"}, t \in alive, BeginClose(t, i, next),
         UNCHANGED <<entries, alive, table, child>>,
         \A u \in Task : u # t => tableDup'[u] = tableDup[u],
         tableDup' \in [Task -> [src : Fd \cup {NIL}, dst : Fd \cup {NIL}]],
         next = "dup" => /\ tableDup'[t].dst = i /\ tableDup'[t].src \in Fd /\ tableDup'[t].src # i
                         /\ table[t][tableDup'[t].src] # NIL
  PROVE  TableInv'
<1>1. /\ table[t][i] # NIL
      /\ mine' = [mine EXCEPT ![t] = <<table[t][i]>>]
      /\ fd' = [fd EXCEPT ![t] = i] /\ then' = [then EXCEPT ![t] = next]
      /\ tablePc' = [tablePc EXCEPT ![t] = "drop"]
      /\ UNCHANGED <<lock0, lock1, tableCount, tableNode, alive, table, child>>
  BY DEF BeginClose, entries, Goto
<1>2. TableTypeOK  BY DEF TableInv
<1>t. table[t][i] \in Entry /\ NIL \notin Fd  BY <1>1, <1>2, TableAssumption DEF TableTypeOK
<1>3. TableTypeOK'
  <2>1. mine' \in [Task -> Seq(Entry)]  BY <1>1, <1>2, <1>t DEF TableTypeOK
  <2>. QED  BY <1>1, <1>2, <2>1 DEF TableTypeOK
<1>4. /\ Only(t) /\ tablePc'[t] = "drop" /\ mine'[t] = <<table[t][i]>>
      /\ fd'[t] = i /\ then'[t] = next
  BY <1>1, <1>2 DEF Only, TableTypeOK
<1>s. Shape(t) /\ DupShape(t) /\ Len(mine[t]) = 0
  BY DEF TableInv, Shape
<1>7. \A j \in Fd, e \in Entry : InTable(t, j, e)' <=> InTable(t, j, e)
  BY <1>1, <1>4 DEF InTable, Stale
<1>8. \A k \in {1, 2}, e \in Entry : InHand(t, k, e)' <=> InHand(t, k, e)
  <2>1. mine[t] \in Seq(Entry)  BY <1>2 DEF TableTypeOK
  <2>. QED  BY <1>1, <1>4, <1>s, <1>t, <2>1 DEF InHand
<1>9. \A e \in Entry : Going(t, e)' <=> Going(t, e)
  BY <1>1, <1>4 DEF Going
<1>10. Shape(t)'  BY <1>1, <1>4, <1>s, <1>t DEF Shape
<1>11. DupShape(t)'  BY <1>1, <1>4, <1>s DEF DupShape
<1>. QED  BY <1>1, <1>3, <1>4, <1>7, <1>8, <1>9, <1>10, <1>11, QuietSame

LEMMA FileCloseKeeps ==
  ASSUME TableInv, NEW t \in Task, NEW i \in Fd, FileClose(t, i)
  PROVE  TableInv'
<1>1. TableTypeOK  BY DEF TableInv
<1>. QED  BY <1>1, BeginCloseKeeps DEF FileClose, Ready, TableTypeOK

LEMMA FdReleaseKeeps ==
  ASSUME TableInv, NEW t \in Task, FdRelease(t)
  PROVE  TableInv'
<1>1. TableTypeOK  BY DEF TableInv
<1>2. tablePc[t] = "exit"  BY DEF FdRelease
<1>3. t \in alive  BY <1>2, Lives
<1>4. Fd \ UnusedFd(t) # {} /\ Fd \ UnusedFd(t) \in SUBSET Fd  BY DEF FdRelease
<1>5. PICK i \in Fd : i = Lowest(Fd \ UnusedFd(t))  BY <1>4, LowestIs
<1>6. BeginClose(t, i, "exit") /\ UNCHANGED <<entries, alive, table, tableDup, child>>
  BY <1>5 DEF FdRelease
<1>. QED  BY <1>1, <1>2, <1>3, <1>6, BeginCloseKeeps DEF TableTypeOK

LEMMA Dup2Keeps ==
  ASSUME TableInv, NEW t \in Task, NEW i \in Fd, NEW j \in Fd, Dup2(t, i, j)
  PROVE  TableInv'
<1>1. /\ t \in alive /\ tablePc[t] = "idle" /\ i # j /\ table[t][i] # NIL
      /\ tableDup' = [tableDup EXCEPT ![t] = [src |-> i, dst |-> j]]
      /\ UNCHANGED <<lock0, lock1, tableCount, tableNode, alive, table, child>>
  BY DEF Dup2, Ready, entries
<1>2. TableTypeOK  BY DEF TableInv
<1>3. /\ \A u \in Task : u # t => tableDup'[u] = tableDup[u]
      /\ tableDup' \in [Task -> [src : Fd \cup {NIL}, dst : Fd \cup {NIL}]]
      /\ tableDup'[t].src = i /\ tableDup'[t].dst = j
  BY <1>1, <1>2 DEF TableTypeOK
<1>4. CASE BeginClose(t, j, "dup")
  BY <1>1, <1>3, <1>4, BeginCloseKeeps DEF entries
<1>5. CASE table[t][j] = NIL /\ Goto(t, "dup") /\ UNCHANGED <<mine, fd, then>>
  <2>1. TableTypeOK'  BY <1>1, <1>2, <1>3, <1>5 DEF TableTypeOK, Goto
  <2>2. Only(t) /\ tablePc'[t] = "dup"  BY <1>1, <1>2, <1>3, <1>5 DEF Only, TableTypeOK, Goto
  <2>s. Shape(t)  BY DEF TableInv
  <2>3. \A d \in Fd, e \in Entry : InTable(t, d, e)' <=> InTable(t, d, e)
    BY <1>1, <2>2 DEF InTable, Stale
  <2>4. \A k \in {1, 2}, e \in Entry : InHand(t, k, e)' <=> InHand(t, k, e)
    BY <1>1, <1>5, <2>2 DEF InHand
  <2>5. \A e \in Entry : Going(t, e)' <=> Going(t, e)
    BY <1>1, <2>2 DEF Going
  <2>6. Shape(t)'  BY <1>1, <1>5, <2>2, <2>s DEF Shape
  <2>7. DupShape(t)'  BY <1>1, <1>3, <1>5, <2>2, <2>s DEF DupShape, Shape
  <2>. QED  BY <1>1, <2>1, <2>2, <2>3, <2>4, <2>5, <2>6, <2>7, QuietSame
<1>. QED  BY <1>4, <1>5 DEF Dup2

LEMMA DupFromKeeps ==
  ASSUME TableInv, NEW t \in Task, NEW i \in Fd, NEW min \in Fd, DupFrom(t, i, min)
  PROVE  TableInv'
<1>i. {j \in UnusedFd(t) : j >= min} \in SUBSET Fd /\ {j \in UnusedFd(t) : j >= min} # {}
  BY DEF DupFrom, UnusedFd
<1>d. PICK j \in Fd : j = Lowest({d \in UnusedFd(t) : d >= min}) /\ table[t][j] = NIL
  BY <1>i, LowestIs DEF UnusedFd
<1>1. /\ t \in alive /\ tablePc[t] = "idle" /\ table[t][i] # NIL
      /\ tableDup' = [tableDup EXCEPT ![t] = [src |-> i, dst |-> j]]
      /\ tablePc' = [tablePc EXCEPT ![t] = "dup"]
      /\ UNCHANGED <<lock0, lock1, tableCount, tableNode, alive, table, mine, fd, then, child>>
  BY <1>d DEF DupFrom, Ready, entries, Goto
<1>2. TableTypeOK  BY DEF TableInv
<1>3. TableTypeOK' /\ tableDup'[t].src = i /\ tableDup'[t].dst = j
  BY <1>1, <1>2 DEF TableTypeOK
<1>4. Only(t) /\ tablePc'[t] = "dup"  BY <1>1, <1>2 DEF Only, TableTypeOK
<1>s. Shape(t)  BY DEF TableInv
<1>7. \A d \in Fd, e \in Entry : InTable(t, d, e)' <=> InTable(t, d, e)
  BY <1>1, <1>4 DEF InTable, Stale
<1>8. \A k \in {1, 2}, e \in Entry : InHand(t, k, e)' <=> InHand(t, k, e)
  BY <1>1, <1>4 DEF InHand
<1>9. \A e \in Entry : Going(t, e)' <=> Going(t, e)
  BY <1>1, <1>4 DEF Going
<1>10. Shape(t)'  BY <1>1, <1>4, <1>s DEF Shape
<1>11. DupShape(t)'  BY <1>1, <1>3, <1>4, <1>d, <1>s DEF DupShape, Shape
<1>. QED  BY <1>1, <1>3, <1>4, <1>7, <1>8, <1>9, <1>10, <1>11, QuietSame

LEMMA InstallKeeps ==
  ASSUME TableInv, NEW t \in Task, Install(t)
  PROVE  TableInv'
<1>i. UnusedFd(t) \in SUBSET Fd /\ UnusedFd(t) # {}
  BY DEF Install, UnusedFd
<1>d. PICK j \in Fd : j = Lowest(UnusedFd(t)) /\ table[t][j] = NIL
  BY <1>i, LowestIs DEF UnusedFd
<1>2. TableTypeOK  BY DEF TableInv
<1>0. tablePc[t] = "install"  BY DEF Install
<1>s. /\ Shape(t) /\ DupShape(t) /\ HasNode(t) /\ Len(mine[t]) \in {1, 2} /\ mine[t] \in Seq(Entry)
      /\ then[t] = "idle"
  BY <1>2, <1>0 DEF TableInv, Shape, TableTypeOK
<1>m. PICK e \in Entry : e = mine[t][1] /\ Head(mine[t]) = e
  BY <1>s, MineIs
<1>1. /\ table' = [table EXCEPT ![t][j] = e]
      /\ mine' = [mine EXCEPT ![t] = Tail(@)]
      /\ UNCHANGED <<lock0, lock1, tableCount, tableNode, alive, then, tableDup, child>>
      /\ \/ /\ Len(mine[t]) = 1 /\ tablePc' = [tablePc EXCEPT ![t] = "idle"]
            /\ fd' = [fd EXCEPT ![t] = NIL]
         \/ /\ Len(mine[t]) # 1 /\ tablePc' = tablePc /\ fd' = [fd EXCEPT ![t] = j]
  BY <1>d, <1>m DEF Install, entries, Goto
<1>3. TableTypeOK'
  <2>1. mine' \in [Task -> Seq(Entry)]  BY <1>1, <1>2, <1>s, MineIs DEF TableTypeOK
  <2>2. table' \in [Task -> [Fd -> Entry \cup {NIL}]]  BY <1>1, <1>2 DEF TableTypeOK
  <2>3. CASE Len(mine[t]) = 1  BY <1>1, <1>2, <2>1, <2>2, <2>3 DEF TableTypeOK
  <2>4. CASE Len(mine[t]) # 1
    <3>1. tablePc' = tablePc /\ fd' = [fd EXCEPT ![t] = j]  BY <2>4, <1>1
    <3>. QED  BY <1>1, <1>2, <2>1, <2>2, <3>1 DEF TableTypeOK
  <2>. QED  BY <2>3, <2>4
<1>4. Only(t)  BY <1>1, <1>2 DEF Only, TableTypeOK
<1>5. t \in alive  BY <1>0, Lives
<1>6. /\ mine'[t] \in Seq(Entry) /\ Len(mine'[t]) = Len(mine[t]) - 1
      /\ Len(mine[t]) = 2 => mine'[t][1] = mine[t][2] /\ mine[t][2] \in Entry /\ mine[t][2] # e
      /\ DOMAIN mine[t] = 1 .. Len(mine[t]) /\ DOMAIN mine'[t] = 1 .. Len(mine'[t])
  <2>1. mine'[t] = Tail(mine[t])  BY <1>1, <1>2 DEF TableTypeOK
  <2>2. Len(mine[t]) = 2 => mine[t][2] # e  BY <1>s, <1>m DEF Shape
  <2>. QED  BY <2>1, <2>2, <1>s, MineIs
<1>7. /\ table'[t][j] = e /\ \A i \in Fd : i # j => table'[t][i] = table[t][i]
      /\ \/ Len(mine[t]) = 1 /\ tablePc'[t] = "idle" /\ fd'[t] = NIL
         \/ Len(mine[t]) = 2 /\ tablePc'[t] = "install" /\ fd'[t] = j
  BY <1>0, <1>1, <1>2, <1>s DEF TableTypeOK
<1>8. \A i \in Fd, f \in Entry : InTable(t, i, f)' <=> InTable(t, i, f) \/ (i = j /\ f = e)
  <2>1. NIL \notin Entry  BY TableAssumption
  <2>. QED  BY <1>0, <1>7, <1>d, <2>1 DEF InTable, Stale
<1>9. /\ \A k \in {1, 2} : InHand(t, k, e) <=> k = 1
      /\ \A k \in {1, 2} : ~InHand(t, k, e)'
  BY <1>0, <1>6, <1>7, <1>s, <1>m DEF InHand
<1>10. ASSUME NEW f \in Entry, f # e PROVE
         \/ \A k \in {1, 2} : InHand(t, k, f)' <=> InHand(t, k, f)
         \/ /\ InHand(t, 2, f) /\ ~InHand(t, 1, f)
            /\ \A k \in {1, 2} : InHand(t, k, f)' <=> k = 1
  <2>1. CASE Len(mine[t]) = 2 /\ f = mine[t][2]
    BY <2>1, <1>0, <1>6, <1>7, <1>10, <1>m DEF InHand
  <2>2. CASE ~(Len(mine[t]) = 2 /\ f = mine[t][2])
    BY <2>2, <1>0, <1>6, <1>7, <1>10, <1>m, <1>s DEF InHand
  <2>. QED  BY <2>1, <2>2
<1>o. /\ \A u \in Task, i \in Fd, f \in Entry : u # t => (InTable(u, i, f)' <=> InTable(u, i, f))
      /\ \A u \in Task, k \in {1, 2}, f \in Entry : u # t => (InHand(u, k, f)' <=> InHand(u, k, f))
  BY <1>4, Elsewhere
<1>n. \A i \in Fd : ~InTable(t, j, e)
  <2>1. NIL \notin Entry  BY TableAssumption
  <2>. QED  BY <1>d, <2>1 DEF InTable
<1>11. ASSUME NEW f \in Entry PROVE TableCounts(f)'
  <2>1. TableCounts(f) /\ tableCount'[f] = tableCount[f]  BY <1>1 DEF TableInv
  <2>2. CASE f = e
    <3>1. \A u \in Task, i \in Fd : InTable(u, i, e)' <=> InTable(u, i, e) \/ (u = t /\ i = j)
      BY <1>8, <1>o
    <3>2. \A u \in Task, k \in {1, 2} : InHand(u, k, e)' <=> InHand(u, k, e) /\ ~(u = t /\ k = 1)
      BY <1>9, <1>o
    <3>3. ~InTable(t, j, e) /\ InHand(t, 1, e)  BY <1>n, <1>9
    <3>4. TableCounts(e) /\ tableCount'[e] = tableCount[e]  BY <2>1, <2>2
    <3>5. TableCounts(e)'  BY <3>1, <3>2, <3>3, <3>4, CountInstall
    <3>. QED  BY <3>5, <2>2
  <2>3. CASE f # e
    <3>1. \A u \in Task, i \in Fd : InTable(u, i, f)' <=> InTable(u, i, f)
      BY <1>8, <1>o, <2>3
    <3>2. CASE \A k \in {1, 2} : InHand(t, k, f)' <=> InHand(t, k, f)
      <4>1. \A u \in Task, k \in {1, 2} : InHand(u, k, f)' <=> InHand(u, k, f)
        BY <3>2, <1>o
      <4>. QED  BY <4>1, <3>1, <2>1, CountSame
    <3>3. CASE /\ InHand(t, 2, f) /\ ~InHand(t, 1, f)
               /\ \A k \in {1, 2} : InHand(t, k, f)' <=> k = 1
      <4>1. \A u \in Task, k \in {1, 2} :
              InHand(u, k, f)' <=> (InHand(u, k, f) /\ ~(u = t /\ k = 2)) \/ (u = t /\ k = 1)
        BY <3>3, <1>o
      <4>. QED  BY <4>1, <3>1, <3>3, <2>1, CountMoved
    <3>. QED  BY <3>2, <3>3, <2>3, <1>10
  <2>. QED  BY <2>2, <2>3
<1>12. \A f \in Entry : Refers(t, f)' => Refers(t, f)
  BY <1>8, <1>9, <1>10 DEF Refers
<1>13. HasNode(t)'
  <2>1. tableNode[e] /\ (Len(mine[t]) = 2 => tableNode[mine[t][2]])
    BY <1>0, <1>6, <1>m, <1>s DEF HasNode
  <2>2. \A i \in Fd, f \in Entry : InTable(t, i, f)' => tableNode'[f]
    BY <2>1, <1>1, <1>8, <1>s DEF HasNode
  <2>3. tablePc'[t] = "install" => \A k \in DOMAIN mine'[t] : tableNode'[mine'[t][k]]
    BY <2>1, <1>1, <1>6, <1>7
  <2>. QED  BY <2>2, <2>3 DEF HasNode
<1>14. Shape(t)'
  BY <1>1, <1>6, <1>7, <1>m, <1>s DEF Shape
<1>15. DupShape(t)'
  BY <1>1, <1>7, <1>s DEF DupShape
<1>16. \A f \in Entry : Going(t, f)' <=> Going(t, f)
  BY <1>0, <1>7 DEF Going
<1>. QED  BY <1>0, <1>1, <1>3, <1>4, <1>5, <1>7, <1>11, <1>12, <1>13, <1>14, <1>15, <1>16, Quiet

LEMMA InstallFullKeeps ==
  ASSUME TableInv, NEW t \in Task, InstallFull(t)
  PROVE  TableInv'
<1>1. /\ tablePc[t] = "install"
      /\ mine' = [mine EXCEPT ![t] = Undo(t)]
      /\ tablePc' = [tablePc EXCEPT ![t] = "drop"]
      /\ UNCHANGED <<lock0, lock1, tableCount, tableNode, alive, table, fd, then, tableDup, child>>
  BY DEF InstallFull, entries, Goto
<1>2. TableTypeOK  BY DEF TableInv
<1>s. /\ Shape(t) /\ DupShape(t) /\ Len(mine[t]) \in {1, 2} /\ mine[t] \in Seq(Entry)
      /\ then[t] = "idle" /\ HasNode(t)
  BY <1>2, <1>1 DEF TableInv, Shape, TableTypeOK
<1>m. mine[t][1] \in Entry /\ DOMAIN mine[t] = 1 .. Len(mine[t])
  BY <1>s, MineIs
<1>3. \/ fd[t] = NIL /\ Undo(t) = mine[t]
      \/ /\ fd[t] \in Fd /\ Len(mine[t]) = 1 /\ Undo(t) \in Seq(Entry) /\ Len(Undo(t)) = 2
         /\ table[t][fd[t]] \in Entry /\ table[t][fd[t]] # mine[t][1]
         /\ Undo(t)[1] = table[t][fd[t]] /\ Undo(t)[2] = mine[t][1]
  <2>1. CASE fd[t] = NIL  BY <2>1 DEF Undo
  <2>2. CASE fd[t] # NIL
    <3>1. /\ fd[t] \in Fd /\ Len(mine[t]) = 1
          /\ table[t][fd[t]] \in Entry /\ table[t][fd[t]] # mine[t][1]
      BY <2>2, <1>1, <1>2, <1>s DEF TableTypeOK, Shape
    <3>2. Undo(t) = <<table[t][fd[t]]>> \o mine[t]  BY <2>2 DEF Undo
    <3>. QED  BY <3>1, <3>2, <1>s, <1>m
  <2>. QED  BY <2>1, <2>2
<1>4. TableTypeOK'
  <2>1. mine' \in [Task -> Seq(Entry)]  BY <1>1, <1>2, <1>3 DEF TableTypeOK
  <2>. QED  BY <1>1, <1>2, <2>1 DEF TableTypeOK
<1>5. Only(t) /\ tablePc'[t] = "drop" /\ mine'[t] = Undo(t)
  BY <1>1, <1>2 DEF Only, TableTypeOK
<1>6. t \in alive  BY <1>1, Lives
<1>7. \A i \in Fd, f \in Entry : InTable(t, i, f)' <=> InTable(t, i, f)
  BY <1>1, <1>5 DEF InTable, Stale
<1>o. /\ \A u \in Task, i \in Fd, f \in Entry : u # t => (InTable(u, i, f)' <=> InTable(u, i, f))
      /\ \A u \in Task, k \in {1, 2}, f \in Entry : u # t => (InHand(u, k, f)' <=> InHand(u, k, f))
  BY <1>5, Elsewhere
<1>8. ASSUME NEW f \in Entry PROVE
         \/ \A k \in {1, 2} : InHand(t, k, f)' <=> InHand(t, k, f)
         \/ /\ InHand(t, 1, f) /\ ~InHand(t, 2, f)
            /\ \A k \in {1, 2} : InHand(t, k, f)' <=> k = 2
  <2>1. CASE fd[t] = NIL
    <3>1. mine'[t] = mine[t] /\ fd'[t] = NIL
      <4>1. NIL \notin Fd  BY TableAssumption
      <4>. QED  BY <2>1, <4>1, <1>1, <1>3, <1>5
    <3>. QED  BY <3>1, <1>1, <1>5 DEF InHand
  <2>2. CASE fd[t] # NIL /\ f = mine[t][1]
    BY <2>2, <1>1, <1>3, <1>5, <1>m DEF InHand
  <2>3. CASE fd[t] # NIL /\ f # mine[t][1]
    BY <2>3, <1>1, <1>3, <1>5, <1>m DEF InHand
  <2>. QED  BY <2>1, <2>2, <2>3
<1>9. ASSUME NEW f \in Entry PROVE TableCounts(f)'
  <2>1. TableCounts(f) /\ tableCount'[f] = tableCount[f]  BY <1>1 DEF TableInv
  <2>2. \A u \in Task, i \in Fd : InTable(u, i, f)' <=> InTable(u, i, f)
    BY <1>7, <1>o
  <2>3. CASE \A k \in {1, 2} : InHand(t, k, f)' <=> InHand(t, k, f)
    <3>1. \A u \in Task, k \in {1, 2} : InHand(u, k, f)' <=> InHand(u, k, f)
      BY <2>3, <1>o
    <3>. QED  BY <3>1, <2>1, <2>2, CountSame
  <2>4. CASE /\ InHand(t, 1, f) /\ ~InHand(t, 2, f)
             /\ \A k \in {1, 2} : InHand(t, k, f)' <=> k = 2
    <3>1. \A u \in Task, k \in {1, 2} :
            InHand(u, k, f)' <=> (InHand(u, k, f) /\ ~(u = t /\ k = 1)) \/ (u = t /\ k = 2)
      BY <2>4, <1>o
    <3>. QED  BY <3>1, <2>1, <2>2, <2>4, CountMoved
  <2>. QED  BY <2>3, <2>4, <1>8
<1>10. \A f \in Entry : Refers(t, f)' => Refers(t, f)
  BY <1>7, <1>8 DEF Refers
<1>11. HasNode(t)'
  BY <1>1, <1>5, <1>7, <1>s DEF HasNode
<1>12. Shape(t)'
  BY <1>1, <1>3, <1>5, <1>s DEF Shape
<1>13. DupShape(t)'
  BY <1>1, <1>5, <1>s DEF DupShape
<1>14. \A f \in Entry : Going(t, f)' <=> Going(t, f)
  BY <1>1, <1>5 DEF Going
<1>. QED  BY <1>1, <1>4, <1>5, <1>6, <1>9, <1>10, <1>11, <1>12, <1>13, <1>14, Quiet

LEMMA FdClearKeeps ==
  ASSUME TableInv, NEW t \in Task, FdClear(t)
  PROVE  TableInv'
<1>0. tablePc[t] = "clear"  BY DEF FdClear
<1>2. TableTypeOK  BY DEF TableInv
<1>s. /\ Shape(t) /\ DupShape(t) /\ Len(mine[t]) \in {1, 2} /\ mine[t] \in Seq(Entry)
      /\ HasNode(t) /\ then[t] \in {"idle", "dup", "exit"}
      /\ (fd[t] # NIL => table[t][fd[t]] = mine[t][1]) /\ fd[t] \in Fd \cup {NIL}
  BY <1>2, <1>0 DEF TableInv, Shape, TableTypeOK
<1>1. /\ table' = IF fd[t] = NIL THEN table ELSE [table EXCEPT ![t][fd[t]] = NIL]
      /\ fd' = [fd EXCEPT ![t] = NIL]
      /\ mine' = [mine EXCEPT ![t] = Tail(@)]
      /\ UNCHANGED <<lock0, lock1, tableCount, tableNode, alive, tableDup, child>>
      /\ \/ /\ Len(mine[t]) = 2 /\ tablePc' = [tablePc EXCEPT ![t] = "drop"] /\ then' = then
         \/ /\ Len(mine[t]) = 1 /\ tablePc' = [tablePc EXCEPT ![t] = then[t]]
            /\ then' = [then EXCEPT ![t] = "idle"]
  <2>1. CASE Len(mine[t]) = 1  BY <2>1 DEF FdClear, entries, Goto
  <2>2. CASE Len(mine[t]) = 2  BY <2>2 DEF FdClear, entries, Goto
  <2>. QED  BY <2>1, <2>2, <1>s
<1>3. TableTypeOK'
  <2>1. mine' \in [Task -> Seq(Entry)]  BY <1>1, <1>2, <1>s, MineIs DEF TableTypeOK
  <2>2. table' \in [Task -> [Fd -> Entry \cup {NIL}]]
    <3>1. CASE fd[t] = NIL  BY <3>1, <1>1, <1>2 DEF TableTypeOK
    <3>2. CASE fd[t] # NIL
      <4>1. table' = [table EXCEPT ![t] = [table[t] EXCEPT ![fd[t]] = NIL]]  BY <3>2, <1>1
      <4>2. [table[t] EXCEPT ![fd[t]] = NIL] \in [Fd -> Entry \cup {NIL}]
        BY <1>2 DEF TableTypeOK
      <4>. QED  BY <4>1, <4>2, <1>2 DEF TableTypeOK
    <3>. QED  BY <3>1, <3>2
  <2>3. then[t] \in {"idle", "dup", "exit"}  BY <1>s
  <2>4. CASE Len(mine[t]) = 1
    <3>1. /\ tablePc' = [tablePc EXCEPT ![t] = then[t]] /\ then' = [then EXCEPT ![t] = "idle"]
      BY <2>4, <1>1
    <3>. QED  BY <1>1, <1>2, <2>1, <2>2, <2>3, <3>1 DEF TableTypeOK
  <2>5. CASE Len(mine[t]) # 1
    <3>1. tablePc' = [tablePc EXCEPT ![t] = "drop"] /\ then' = then
      BY <2>5, <1>1
    <3>. QED  BY <1>1, <1>2, <2>1, <2>2, <3>1 DEF TableTypeOK
  <2>. QED  BY <2>4, <2>5
<1>4. Only(t)
  <2>1. \A u \in Task : u # t => table'[u] = table[u]
    BY <1>1, <1>2 DEF TableTypeOK
  <2>. QED  BY <2>1, <1>1, <1>2 DEF Only, TableTypeOK
<1>5. t \in alive  BY <1>0, Lives
<1>6. /\ mine'[t] \in Seq(Entry) /\ Len(mine'[t]) = Len(mine[t]) - 1
      /\ Len(mine[t]) = 2 => mine'[t][1] = mine[t][2] /\ mine[t][2] \in Entry /\ mine[t][2] # mine[t][1]
      /\ DOMAIN mine[t] = 1 .. Len(mine[t]) /\ DOMAIN mine'[t] = 1 .. Len(mine'[t])
  <2>1. mine'[t] = Tail(mine[t])  BY <1>1, <1>2 DEF TableTypeOK
  <2>2. Len(mine[t]) = 2 => mine[t][2] # mine[t][1]  BY <1>s DEF Shape
  <2>. QED  BY <2>1, <2>2, <1>s, MineIs
<1>7. /\ \A i \in Fd : table'[t][i] = IF i = fd[t] THEN NIL ELSE table[t][i]
      /\ fd'[t] = NIL
      /\ \/ Len(mine[t]) = 1 /\ tablePc'[t] = then[t] /\ then'[t] = "idle"
         \/ Len(mine[t]) = 2 /\ tablePc'[t] = "drop" /\ then'[t] = then[t]
  <2>1. \A i \in Fd : table'[t][i] = IF i = fd[t] THEN NIL ELSE table[t][i]
    <3>1. NIL \notin Fd  BY TableAssumption
    <3>. QED  BY <3>1, <1>1, <1>2 DEF TableTypeOK
  <2>. QED  BY <2>1, <1>1, <1>2 DEF TableTypeOK
<1>8. \A i \in Fd, f \in Entry : InTable(t, i, f)' <=> InTable(t, i, f)
  <2>1. NIL \notin Entry  BY TableAssumption
  <2>. QED  BY <1>0, <1>7, <1>s, <2>1 DEF InTable, Stale
<1>9. ASSUME NEW f \in Entry PROVE
         \/ \A k \in {1, 2} : InHand(t, k, f)' <=> InHand(t, k, f)
         \/ /\ InHand(t, 2, f) /\ ~InHand(t, 1, f)
            /\ \A k \in {1, 2} : InHand(t, k, f)' <=> k = 1
  <2>1. CASE Len(mine[t]) = 2 /\ f = mine[t][2]
    BY <2>1, <1>0, <1>6, <1>7 DEF InHand
  <2>2. CASE ~(Len(mine[t]) = 2 /\ f = mine[t][2])
    BY <2>2, <1>0, <1>6, <1>7, <1>s DEF InHand
  <2>. QED  BY <2>1, <2>2
<1>o. /\ \A u \in Task, i \in Fd, f \in Entry : u # t => (InTable(u, i, f)' <=> InTable(u, i, f))
      /\ \A u \in Task, k \in {1, 2}, f \in Entry : u # t => (InHand(u, k, f)' <=> InHand(u, k, f))
  BY <1>4, Elsewhere
<1>11. ASSUME NEW f \in Entry PROVE TableCounts(f)'
  <2>1. TableCounts(f) /\ tableCount'[f] = tableCount[f]  BY <1>1 DEF TableInv
  <2>2. \A u \in Task, i \in Fd : InTable(u, i, f)' <=> InTable(u, i, f)
    BY <1>8, <1>o
  <2>3. CASE \A k \in {1, 2} : InHand(t, k, f)' <=> InHand(t, k, f)
    <3>1. \A u \in Task, k \in {1, 2} : InHand(u, k, f)' <=> InHand(u, k, f)
      BY <2>3, <1>o
    <3>. QED  BY <3>1, <2>1, <2>2, CountSame
  <2>4. CASE /\ InHand(t, 2, f) /\ ~InHand(t, 1, f)
             /\ \A k \in {1, 2} : InHand(t, k, f)' <=> k = 1
    <3>1. \A u \in Task, k \in {1, 2} :
            InHand(u, k, f)' <=> (InHand(u, k, f) /\ ~(u = t /\ k = 2)) \/ (u = t /\ k = 1)
      BY <2>4, <1>o
    <3>. QED  BY <3>1, <2>1, <2>2, <2>4, CountMoved
  <2>. QED  BY <2>3, <2>4, <1>9
<1>12. \A f \in Entry : Refers(t, f)' => Refers(t, f)
  BY <1>8, <1>9 DEF Refers
<1>13. HasNode(t)'
  BY <1>1, <1>7, <1>8, <1>s DEF HasNode
<1>14. Shape(t)'
  BY <1>0, <1>1, <1>6, <1>7, <1>s DEF Shape
<1>15. DupShape(t)'
  <2>1. CASE then[t] = "dup" /\ Len(mine[t]) = 1
    BY <2>1, <1>0, <1>1, <1>7, <1>s DEF DupShape
  <2>2. CASE ~(then[t] = "dup" /\ Len(mine[t]) = 1)
    BY <2>2, <1>0, <1>1, <1>7, <1>s DEF DupShape, Shape
  <2>. QED  BY <2>1, <2>2
<1>16. \A f \in Entry : Going(t, f)' <=> Going(t, f)
  BY <1>0, <1>7, <1>s DEF Going
<1>. QED  BY <1>0, <1>1, <1>3, <1>4, <1>5, <1>7, <1>s, <1>11, <1>12, <1>13, <1>14, <1>15, <1>16, Quiet

-----------------------------------------------------------------------------
\* An entry that can be allocated: nobody has it.
LEMMA FreshEntry ==
  ASSUME TableInv, NEW e \in Entry, lock0[e] = 0
  PROVE  /\ lock1[e] = NIL /\ ~tableNode[e] /\ tableCount[e] = 0
         /\ \A u \in Task : ~Refers(u, e) /\ ~Going(u, e)
<1>1. TableCounts(e) /\ EntryFree(e) /\ EntryGoing(e)  BY DEF TableInv
<1>2. lock1[e] = NIL /\ ~tableNode[e] /\ tableCount[e] = 0  BY <1>1 DEF EntryFree
<1>3. \A u \in Task : ~Going(u, e)  BY <1>1 DEF EntryGoing
<1>4. \A u \in Task : ~Refers(u, e)  BY <1>1, <1>2, CountedAll DEF Refers
<1>. QED  BY <1>2, <1>3, <1>4

\* An entry that somebody refers to.
LEMMA ReferredEntry ==
  ASSUME TableInv, NEW e \in Entry, NEW u \in Task, Refers(u, e)
  PROVE  /\ lock0[e] = 1 /\ tableCount[e] \in Nat /\ tableCount[e] > 0
         /\ \A v \in Task : ~Going(v, e)
<1>1. TableCounts(e) /\ EntryFree(e) /\ EntryGoing(e) /\ lock0[e] \in {0, 1}
  BY DEF TableInv, TableTypeOK
<1>2. tableCount[e] > 0 /\ tableCount[e] \in Nat  BY <1>1, CountedAll DEF Refers
<1>3. lock0[e] # 0  BY <1>1, <1>2 DEF EntryFree
<1>4. \A v \in Task : ~Going(v, e)  BY <1>1, <1>2 DEF EntryGoing
<1>. QED  BY <1>1, <1>2, <1>3, <1>4

\* What task t does keeps what the invariant says of another task.
LEMMA OthersKeep ==
  ASSUME TableInv, NEW t \in Task, Only(t),
         \A e \in Entry : lock1'[e] = lock1[e] \/ (lock1[e] \in {NIL, t} /\ lock1'[e] \in {NIL, t}),
         \A e \in Entry : tableNode'[e] = tableNode[e] \/ tableNode'[e] = TRUE
                            \/ \A u \in Task : u # t => ~Refers(u, e),
         \A e \in Entry : Refers(t, e)' => Refers(t, e)
                            \/ \A u \in Task : u # t => ~(tablePc[u] = "open" /\ mine[u][1] = e)
  PROVE  \A u \in Task : u # t =>
           LockHeld(u)' /\ HasNode(u)' /\ Using(u)' /\ OpensAlone(u)' /\ Shape(u)' /\ DupShape(u)'
<1>. SUFFICES ASSUME NEW u \in Task, u # t
              PROVE  LockHeld(u)' /\ HasNode(u)' /\ Using(u)' /\ OpensAlone(u)' /\ Shape(u)' /\ DupShape(u)'
  OBVIOUS
<1>0. TableTypeOK  BY DEF TableInv
<1>e. /\ \A v \in Task, i \in Fd, e \in Entry : v # t => (InTable(v, i, e)' <=> InTable(v, i, e))
      /\ \A v \in Task, k \in {1, 2}, e \in Entry : v # t => (InHand(v, k, e)' <=> InHand(v, k, e))
      /\ Shape(u)' /\ DupShape(u)' /\ Using(u)'
  BY Elsewhere
<1>o. mine'[u] = mine[u] /\ tablePc'[u] = tablePc[u]  BY DEF Only
<1>1. LockHeld(u)'
  <2>1. LockHeld(u)  BY DEF TableInv
  <2>2. \A e \in Entry : lock1[e] = u <=> lock1'[e] = u
    <3>1. u # NIL  BY TableAssumption
    <3>. QED  BY <3>1
  <2>3. tablePc[u] \in {"open", "io"} => mine[u][1] \in Entry
    <3>1. tablePc[u] \in {"open", "io"} => Len(mine[u]) = 1 /\ mine[u] \in Seq(Entry)
      BY <1>0 DEF TableInv, Shape, TableTypeOK
    <3>. QED  BY <3>1, MineIs
  <2>. QED  BY <2>1, <2>2, <2>3, <1>o DEF LockHeld
<1>2. HasNode(u)'
  <2>1. HasNode(u)  BY DEF TableInv
  <2>2. \A e \in Entry : Refers(u, e) /\ tableNode[e] => tableNode'[e]
    OBVIOUS
  <2>3. ASSUME NEW i \in Fd, NEW e \in Entry, InTable(u, i, e)' PROVE tableNode'[e]
    <3>1. InTable(u, i, e)  BY <1>e, <2>3
    <3>. QED  BY <3>1, <2>1, <2>2 DEF HasNode, Refers
  <2>4. ASSUME tablePc'[u] = "install", NEW k \in DOMAIN mine'[u] PROVE tableNode'[mine'[u][k]]
    <3>1. /\ Len(mine[u]) \in {1, 2} /\ mine[u] \in Seq(Entry) /\ tablePc[u] = "install"
      BY <1>0, <1>o, <2>4 DEF TableInv, Shape, TableTypeOK
    <3>2. k \in {1, 2} /\ mine[u][k] \in Entry /\ k \in DOMAIN mine[u]
      BY <3>1, <1>o, <2>4
    <3>3. InHand(u, k, mine[u][k])  BY <3>1, <3>2 DEF InHand
    <3>4. tableNode[mine[u][k]]  BY <3>1, <3>2, <2>1 DEF HasNode
    <3>. QED  BY <3>2, <3>3, <3>4, <2>2, <1>o DEF Refers
  <2>. QED  BY <2>3, <2>4 DEF HasNode
<1>3. OpensAlone(u)'
  <2>. SUFFICES ASSUME tablePc'[u] = "open" PROVE OpensAlone(u)'
    BY DEF OpensAlone
  <2>1. tablePc[u] = "open"  BY <1>o
  <2>2. PICK e \in Entry : mine[u][1] = e  BY <2>1, AloneRefers
  <2>3. ~Refers(t, e)  BY <2>1, <2>2, AloneRefers
  <2>4. ~Refers(t, e)'  BY <2>1, <2>2, <2>3
  <2>5. OpensAlone(u)  BY DEF TableInv
  <2>6. \A v \in Task, i \in Fd : ~InTable(v, i, e)'
    <3>1. ASSUME NEW v \in Task, NEW i \in Fd PROVE ~InTable(v, i, e)'
      <4>1. CASE v = t  BY <4>1, <2>4 DEF Refers
      <4>2. CASE v # t  BY <4>2, <2>1, <2>2, <2>5, <1>e DEF OpensAlone
      <4>. QED  BY <4>1, <4>2
    <3>. QED  BY <3>1
  <2>7. \A v \in Task, k \in {1, 2} : InHand(v, k, e)' => v = u /\ k = 1
    <3>1. ASSUME NEW v \in Task, NEW k \in {1, 2}, InHand(v, k, e)' PROVE v = u /\ k = 1
      <4>1. v # t  BY <3>1, <2>4 DEF Refers
      <4>2. InHand(v, k, e)  BY <3>1, <4>1, <1>e
      <4>. QED  BY <4>2, <2>1, <2>2, <2>5 DEF OpensAlone
    <3>. QED  BY <3>1
  <2>. QED  BY <2>1, <2>2, <2>6, <2>7, <1>o DEF OpensAlone
<1>. QED  BY <1>1, <1>2, <1>3, <1>e

LEMMA ChildKeeps ==
  ASSUME TableInv, NEW t \in Task, Only(t), alive' = alive, child' = child, t \in alive,
         tablePc[t] # "clone", tablePc'[t] # "clone"
  PROVE  \A u \in Task : ChildShape(u)' /\ Dead(u)'
<1>. SUFFICES ASSUME NEW u \in Task PROVE ChildShape(u)' /\ Dead(u)'
  OBVIOUS
<1>0. ChildShape(u) /\ Dead(u)  BY DEF TableInv
<1>1. CASE u = t  BY <1>0, <1>1 DEF ChildShape, Dead
<1>2. CASE u # t
  <2>1. tablePc'[u] = tablePc[u] /\ table'[u] = table[u]  BY <1>2 DEF Only
  <2>. QED  BY <1>0, <1>2, <2>1 DEF ChildShape, Dead
<1>. QED  BY <1>1, <1>2

\* file_open, and the first entry of file_pipe and file_openpty.
LEMMA FirstKeeps ==
  ASSUME TableInv, NEW t \in Task, NEW e \in Entry, Ready(t), Alloc(t, e),
         NEW l \in {"open", "second"}, Goto(t, l),
         lock1' = IF l = "open" THEN [lock1 EXCEPT ![e] = t] ELSE lock1,
         UNCHANGED <<tableNode, alive, table, fd, then, tableDup, child>>
  PROVE  TableInv'
<1>1. /\ t \in alive /\ tablePc[t] = "idle" /\ lock0[e] = 0
      /\ lock0' = [lock0 EXCEPT ![e] = 1] /\ tableCount' = [tableCount EXCEPT ![e] = 1]
      /\ mine' = [mine EXCEPT ![t] = Append(@, e)]
      /\ tablePc' = [tablePc EXCEPT ![t] = l]
  BY DEF Ready, Alloc, Goto
<1>2. TableTypeOK  BY DEF TableInv
<1>s. /\ Shape(t) /\ DupShape(t) /\ HasNode(t) /\ Len(mine[t]) = 0 /\ mine[t] \in Seq(Entry)
      /\ fd[t] = NIL /\ then[t] = "idle"
  BY <1>1, <1>2 DEF TableInv, Shape, TableTypeOK
<1>3. TableTypeOK'
  <2>1. mine' \in [Task -> Seq(Entry)]  BY <1>1, <1>2 DEF TableTypeOK
  <2>2. lock1' \in [Entry -> Task \cup {NIL}]  BY <1>2 DEF TableTypeOK
  <2>. QED  BY <1>1, <1>2, <2>1, <2>2 DEF TableTypeOK
<1>4. /\ Only(t) /\ tablePc'[t] = l /\ Len(mine'[t]) = 1 /\ mine'[t][1] = e
      /\ fd'[t] = NIL /\ then'[t] = "idle" /\ mine'[t] \in Seq(Entry) /\ DOMAIN mine'[t] = 1 .. 1
  BY <1>1, <1>2, <1>s DEF Only, TableTypeOK
<1>5. /\ lock0'[e] = 1 /\ tableCount'[e] = 1 /\ (l = "open" => lock1'[e] = t)
      /\ \A f \in Entry : f # e => /\ lock0'[f] = lock0[f] /\ tableCount'[f] = tableCount[f]
                                   /\ lock1'[f] = lock1[f]
      /\ l # "open" => lock1' = lock1
  BY <1>1, <1>2 DEF TableTypeOK
<1>6. /\ lock1[e] = NIL /\ ~tableNode[e] /\ tableCount[e] = 0
      /\ \A u \in Task : ~Refers(u, e) /\ ~Going(u, e)
  BY <1>1, FreshEntry
<1>7. \A i \in Fd, f \in Entry : InTable(t, i, f)' <=> InTable(t, i, f)
  BY <1>1, <1>4 DEF InTable, Stale
<1>8. \A k \in {1, 2}, f \in Entry : InHand(t, k, f)' <=> k = 1 /\ f = e
  BY <1>4 DEF InHand
<1>9. \A k \in {1, 2}, f \in Entry : ~InHand(t, k, f)
  BY <1>1 DEF InHand
<1>o. /\ \A u \in Task, i \in Fd, f \in Entry : u # t => (InTable(u, i, f)' <=> InTable(u, i, f))
      /\ \A u \in Task, k \in {1, 2}, f \in Entry : u # t => (InHand(u, k, f)' <=> InHand(u, k, f))
      /\ \A u \in Task, f \in Entry : u # t => (Going(u, f)' <=> Going(u, f))
  BY <1>4, Elsewhere
<1>10. ASSUME NEW f \in Entry PROVE TableCounts(f)'
  <2>1. TableCounts(f)  BY DEF TableInv
  <2>2. \A u \in Task, i \in Fd : InTable(u, i, f)' <=> InTable(u, i, f)
    BY <1>7, <1>o
  <2>3. CASE f = e
    <3>1. \A u \in Task, k \in {1, 2} : InHand(u, k, f)' <=> InHand(u, k, f) \/ (u = t /\ k = 1)
      BY <2>3, <1>8, <1>9, <1>o
    <3>2. ~InHand(t, 1, f)  BY <1>9
    <3>3. tableCount'[f] = tableCount[f] + 1  BY <2>3, <1>5, <1>6
    <3>. QED  BY <2>1, <2>2, <3>1, <3>2, <3>3, CountHand
  <2>4. CASE f # e
    <3>1. \A u \in Task, k \in {1, 2} : InHand(u, k, f)' <=> InHand(u, k, f)
      BY <2>4, <1>8, <1>9, <1>o
    <3>. QED  BY <2>1, <2>2, <3>1, <2>4, <1>5, CountSame
  <2>. QED  BY <2>3, <2>4
<1>g. \A u \in Task, f \in Entry : Going(u, f)' <=> Going(u, f)
  <2>1. \A f \in Entry : ~Going(t, f)' /\ ~Going(t, f)  BY <1>1, <1>4 DEF Going
  <2>. QED  BY <2>1, <1>o
<1>11. ASSUME NEW f \in Entry PROVE EntryFree(f)' /\ EntryKept(f)' /\ EntryGoing(f)'
  <2>1. EntryFree(f) /\ EntryKept(f) /\ EntryGoing(f)  BY DEF TableInv
  <2>2. CASE f = e
    BY <2>2, <1>5, <1>6, <1>g DEF EntryFree, EntryKept, EntryGoing
  <2>3. CASE f # e
    <3>1. EntryFree(f)'  BY <2>1, <2>3, <1>5 DEF EntryFree
    <3>2. EntryKept(f)'  BY <2>1, <2>3, <1>5, <1>g DEF EntryKept
    <3>3. EntryGoing(f)'  BY <2>1, <2>3, <1>5, <1>g DEF EntryGoing
    <3>. QED  BY <3>1, <3>2, <3>3
  <2>. QED  BY <2>2, <2>3
<1>12. \A u \in Task : u # t => ~(tablePc[u] = "open" /\ mine[u][1] = e)
  <2>1. SUFFICES ASSUME NEW u \in Task, tablePc[u] = "open", mine[u][1] = e PROVE Refers(u, e)
    BY <1>6
  <2>2. Len(mine[u]) = 1 /\ mine[u] \in Seq(Entry)
    BY <2>1, <1>2 DEF TableInv, Shape, TableTypeOK
  <2>3. InHand(u, 1, e)  BY <2>1, <2>2 DEF InHand
  <2>. QED  BY <2>3 DEF Refers
<1>13. \A u \in Task : u # t =>
         LockHeld(u)' /\ HasNode(u)' /\ Using(u)' /\ OpensAlone(u)' /\ Shape(u)' /\ DupShape(u)'
  <2>1. \A f \in Entry : lock1'[f] = lock1[f] \/ (lock1[f] \in {NIL, t} /\ lock1'[f] \in {NIL, t})
    BY <1>5, <1>6
  <2>2. \A f \in Entry : Refers(t, f)' => Refers(t, f)
                            \/ \A u \in Task : u # t => ~(tablePc[u] = "open" /\ mine[u][1] = f)
    BY <1>7, <1>8, <1>12 DEF Refers
  <2>. QED  BY <1>4, <2>1, <2>2, OthersKeep
<1>14. LockHeld(t)'
  <2>1. LockHeld(t) /\ t # NIL  BY TableAssumption DEF TableInv
  <2>. QED  BY <2>1, <1>1, <1>4, <1>5, <1>6 DEF LockHeld
<1>15. HasNode(t)'
  BY <1>4, <1>7, <1>s DEF HasNode
<1>16. Using(t)' /\ Shape(t)' /\ DupShape(t)'
  BY <1>4, <1>1, <1>s DEF Using, Shape, DupShape
<1>17. OpensAlone(t)'
  <2>1. \A u \in Task, i \in Fd : ~InTable(u, i, e)'
    BY <1>6, <1>7, <1>o DEF Refers
  <2>2. \A u \in Task, k \in {1, 2} : InHand(u, k, e)' => u = t /\ k = 1
    BY <1>6, <1>8, <1>o DEF Refers
  <2>. QED  BY <2>1, <2>2, <1>4 DEF OpensAlone
<1>18. \A u \in Task : ChildShape(u)' /\ Dead(u)'
  BY <1>1, <1>4, ChildKeeps
<1>. QED  BY <1>3, <1>10, <1>11, <1>13, <1>14, <1>15, <1>16, <1>17, <1>18 DEF TableInv

LEMMA FileOpenKeeps ==
  ASSUME TableInv, NEW t \in Task, NEW e \in Entry, FileOpen(t, e)
  PROVE  TableInv'
  BY FirstKeeps DEF FileOpen

LEMMA PairKeeps ==
  ASSUME TableInv, NEW t \in Task, NEW e \in Entry, Pair(t, e)
  PROVE  TableInv'
<1>1. lock1' = lock1  BY DEF Pair
<1>. QED  BY <1>1, FirstKeeps DEF Pair

LEMMA PairSecondKeeps ==
  ASSUME TableInv, NEW t \in Task, NEW e \in Entry, PairSecond(t, e)
  PROVE  TableInv'
<1>1. /\ tablePc[t] = "second" /\ lock0[e] = 0
      /\ lock0' = [lock0 EXCEPT ![e] = 1] /\ tableCount' = [tableCount EXCEPT ![e] = 1]
      /\ mine' = [mine EXCEPT ![t] = Append(@, e)]
      /\ tablePc' = [tablePc EXCEPT ![t] = "nodes"]
      /\ UNCHANGED <<lock1, tableNode, alive, table, fd, then, tableDup, child>>
  BY DEF PairSecond, Alloc, Goto
<1>2. TableTypeOK  BY DEF TableInv
<1>s. /\ Shape(t) /\ DupShape(t) /\ HasNode(t) /\ Len(mine[t]) = 1 /\ mine[t] \in Seq(Entry)
      /\ fd[t] = NIL /\ then[t] = "idle"
  BY <1>1, <1>2 DEF TableInv, Shape, TableTypeOK
<1>3. TableTypeOK'
  <2>1. mine' \in [Task -> Seq(Entry)]  BY <1>1, <1>2 DEF TableTypeOK
  <2>. QED  BY <1>1, <1>2, <2>1 DEF TableTypeOK
<1>m. mine[t][1] \in Entry /\ DOMAIN mine[t] = 1 .. 1  BY <1>s, MineIs
<1>4. /\ Only(t) /\ tablePc'[t] = "nodes" /\ Len(mine'[t]) = 2 /\ mine'[t][2] = e
      /\ mine'[t][1] = mine[t][1]
      /\ fd'[t] = NIL /\ then'[t] = "idle" /\ mine'[t] \in Seq(Entry) /\ DOMAIN mine'[t] = 1 .. 2
  <2>1. Only(t) /\ tablePc'[t] = "nodes" /\ mine'[t] = Append(mine[t], e)
    BY <1>1, <1>2 DEF Only, TableTypeOK
  <2>2. PICK s \in Seq(Entry) : s = mine[t] /\ Len(s) = 1
    BY <1>s
  <2>3. /\ Append(s, e) \in Seq(Entry) /\ Len(Append(s, e)) = 2
        /\ Append(s, e)[2] = e /\ Append(s, e)[1] = s[1]
    BY <2>2, AppendIs
  <2>5. DOMAIN Append(s, e) = 1 .. 2
    BY <2>3, MineIs
  <2>4. fd'[t] = NIL /\ then'[t] = "idle"
    BY <1>1, <1>s
  <2>. QED  BY <2>1, <2>2, <2>3, <2>4, <2>5
<1>5. /\ lock0'[e] = 1 /\ tableCount'[e] = 1
      /\ \A f \in Entry : f # e => lock0'[f] = lock0[f] /\ tableCount'[f] = tableCount[f]
  BY <1>1, <1>2 DEF TableTypeOK
<1>6. /\ lock1[e] = NIL /\ ~tableNode[e] /\ tableCount[e] = 0
      /\ \A u \in Task : ~Refers(u, e) /\ ~Going(u, e)
  BY <1>1, FreshEntry
<1>7. \A i \in Fd, f \in Entry : InTable(t, i, f)' <=> InTable(t, i, f)
  BY <1>1, <1>4 DEF InTable, Stale
<1>8. \A k \in {1, 2}, f \in Entry : InHand(t, k, f)' <=> InHand(t, k, f) \/ (k = 2 /\ f = e)
  BY <1>1, <1>4, <1>m DEF InHand
<1>9. /\ \A f \in Entry : ~InHand(t, 2, f)
      /\ mine[t][1] # e
  <2>1. \A f \in Entry : ~InHand(t, 2, f)  BY <1>m DEF InHand
  <2>2. InHand(t, 1, mine[t][1])  BY <1>1, <1>m DEF InHand
  <2>. QED  BY <2>1, <2>2, <1>6 DEF Refers
<1>o. /\ \A u \in Task, i \in Fd, f \in Entry : u # t => (InTable(u, i, f)' <=> InTable(u, i, f))
      /\ \A u \in Task, k \in {1, 2}, f \in Entry : u # t => (InHand(u, k, f)' <=> InHand(u, k, f))
      /\ \A u \in Task, f \in Entry : u # t => (Going(u, f)' <=> Going(u, f))
  BY <1>4, Elsewhere
<1>10. ASSUME NEW f \in Entry PROVE TableCounts(f)'
  <2>1. TableCounts(f)  BY DEF TableInv
  <2>2. \A u \in Task, i \in Fd : InTable(u, i, f)' <=> InTable(u, i, f)
    BY <1>7, <1>o
  <2>3. CASE f = e
    <3>1. \A u \in Task, k \in {1, 2} : InHand(u, k, f)' <=> InHand(u, k, f) \/ (u = t /\ k = 2)
      BY <2>3, <1>8, <1>o
    <3>2. ~InHand(t, 2, f)  BY <1>9
    <3>3. tableCount'[f] = tableCount[f] + 1  BY <2>3, <1>5, <1>6
    <3>. QED  BY <2>1, <2>2, <3>1, <3>2, <3>3, CountHand
  <2>4. CASE f # e
    <3>1. \A u \in Task, k \in {1, 2} : InHand(u, k, f)' <=> InHand(u, k, f)
      BY <2>4, <1>8, <1>o
    <3>. QED  BY <2>1, <2>2, <3>1, <2>4, <1>5, CountSame
  <2>. QED  BY <2>3, <2>4
<1>g. \A u \in Task, f \in Entry : Going(u, f)' <=> Going(u, f)
  <2>1. \A f \in Entry : ~Going(t, f)' /\ ~Going(t, f)  BY <1>1, <1>4 DEF Going
  <2>. QED  BY <2>1, <1>o
<1>11. ASSUME NEW f \in Entry PROVE EntryFree(f)' /\ EntryKept(f)' /\ EntryGoing(f)'
  <2>1. EntryFree(f) /\ EntryKept(f) /\ EntryGoing(f)  BY DEF TableInv
  <2>2. CASE f = e
    BY <2>2, <1>5, <1>6, <1>g DEF EntryFree, EntryKept, EntryGoing
  <2>3. CASE f # e
    <3>1. EntryFree(f)'  BY <2>1, <2>3, <1>1, <1>5 DEF EntryFree
    <3>2. EntryKept(f)'  BY <2>1, <2>3, <1>5, <1>g DEF EntryKept
    <3>3. EntryGoing(f)'  BY <2>1, <2>3, <1>1, <1>5, <1>g DEF EntryGoing
    <3>. QED  BY <3>1, <3>2, <3>3
  <2>. QED  BY <2>2, <2>3
<1>12. \A u \in Task : u # t => ~(tablePc[u] = "open" /\ mine[u][1] = e)
  <2>1. SUFFICES ASSUME NEW u \in Task, tablePc[u] = "open", mine[u][1] = e PROVE Refers(u, e)
    BY <1>6
  <2>2. Len(mine[u]) = 1 /\ mine[u] \in Seq(Entry)
    BY <2>1, <1>2 DEF TableInv, Shape, TableTypeOK
  <2>3. InHand(u, 1, e)  BY <2>1, <2>2 DEF InHand
  <2>. QED  BY <2>3 DEF Refers
<1>13. \A u \in Task : u # t =>
         LockHeld(u)' /\ HasNode(u)' /\ Using(u)' /\ OpensAlone(u)' /\ Shape(u)' /\ DupShape(u)'
  <2>1. \A f \in Entry : Refers(t, f)' => Refers(t, f)
                            \/ \A u \in Task : u # t => ~(tablePc[u] = "open" /\ mine[u][1] = f)
    BY <1>7, <1>8, <1>12 DEF Refers
  <2>. QED  BY <1>1, <1>4, <2>1, OthersKeep
<1>14. LockHeld(t)'
  <2>1. LockHeld(t)  BY DEF TableInv
  <2>. QED  BY <2>1, <1>1, <1>4 DEF LockHeld
<1>15. HasNode(t)'
  BY <1>1, <1>4, <1>7, <1>s DEF HasNode
<1>16. Using(t)' /\ Shape(t)' /\ DupShape(t)' /\ OpensAlone(t)'
  BY <1>4, <1>1, <1>s, <1>9 DEF Using, Shape, DupShape, OpensAlone
<1>17. t \in alive  BY <1>1, Lives
<1>18. \A u \in Task : ChildShape(u)' /\ Dead(u)'
  BY <1>1, <1>4, <1>17, ChildKeeps
<1>. QED  BY <1>3, <1>10, <1>11, <1>13, <1>14, <1>15, <1>16, <1>18 DEF TableInv

\* vfs_open returns.
LEMMA FileOpenDoneKeeps ==
  ASSUME TableInv, NEW t \in Task, NEW ok \in BOOLEAN, FileOpenDone(t, ok)
  PROVE  TableInv'
<1>0. tablePc[t] = "open"  BY DEF FileOpenDone
<1>2. TableTypeOK  BY DEF TableInv
<1>s. /\ Shape(t) /\ DupShape(t) /\ HasNode(t) /\ LockHeld(t) /\ OpensAlone(t)
      /\ Len(mine[t]) = 1 /\ mine[t] \in Seq(Entry) /\ fd[t] = NIL /\ then[t] = "idle"
  BY <1>0, <1>2 DEF TableInv, Shape, TableTypeOK
<1>m. PICK e \in Entry : e = mine[t][1] /\ e = Head(mine[t]) /\ DOMAIN mine[t] = 1 .. 1
  BY <1>s, MineIs
<1>l. PICK l \in {"install", "drop"} : l = IF ok THEN "install" ELSE "drop"
  OBVIOUS
<1>1. /\ lock1' = [lock1 EXCEPT ![e] = NIL] /\ tableNode' = [tableNode EXCEPT ![e] = ok]
      /\ tablePc' = [tablePc EXCEPT ![t] = l]
      /\ UNCHANGED <<lock0, tableCount, alive, table, mine, fd, then, tableDup, child>>
  BY <1>m, <1>l DEF FileOpenDone, Goto, locals
<1>3. TableTypeOK'
  BY <1>1, <1>2 DEF TableTypeOK
<1>4. /\ Only(t) /\ tablePc'[t] = l /\ lock1'[e] = NIL /\ tableNode'[e] = ok
      /\ \A f \in Entry : f # e => lock1'[f] = lock1[f] /\ tableNode'[f] = tableNode[f]
  BY <1>1, <1>2 DEF Only, TableTypeOK
<1>5. t \in alive  BY <1>0, Lives
<1>6. /\ \A u \in Task, i \in Fd : ~InTable(u, i, e)
      /\ \A u \in Task, k \in {1, 2} : InHand(u, k, e) => u = t /\ k = 1
      /\ Refers(t, e)
  <2>1. InHand(t, 1, e)  BY <1>0, <1>m DEF InHand
  <2>. QED  BY <2>1, <1>0, <1>s, <1>m DEF OpensAlone, Refers
<1>7. lock0[e] = 1 /\ tableCount[e] > 0 /\ \A v \in Task : ~Going(v, e)
  BY <1>6, ReferredEntry
<1>8. \A i \in Fd, f \in Entry : InTable(t, i, f)' <=> InTable(t, i, f)
  BY <1>0, <1>1, <1>4 DEF InTable, Stale
<1>9. \A k \in {1, 2}, f \in Entry : InHand(t, k, f)' <=> InHand(t, k, f)
  BY <1>0, <1>1, <1>4, <1>s, <1>m DEF InHand
<1>o. /\ \A u \in Task, i \in Fd, f \in Entry : InTable(u, i, f)' <=> InTable(u, i, f)
      /\ \A u \in Task, k \in {1, 2}, f \in Entry : InHand(u, k, f)' <=> InHand(u, k, f)
  BY <1>4, <1>8, <1>9, Elsewhere
<1>g. \A u \in Task, f \in Entry : Going(u, f)' <=> Going(u, f)
  <2>1. \A f \in Entry : ~Going(t, f)' /\ ~Going(t, f)  BY <1>0, <1>4 DEF Going
  <2>. QED  BY <2>1, <1>4, Elsewhere
<1>10. ASSUME NEW f \in Entry PROVE TableCounts(f)'
  <2>1. TableCounts(f)  BY DEF TableInv
  <2>. QED  BY <2>1, <1>1, <1>o, CountSame
<1>11. ASSUME NEW f \in Entry PROVE EntryFree(f)' /\ EntryKept(f)' /\ EntryGoing(f)'
  <2>1. EntryFree(f) /\ EntryKept(f) /\ EntryGoing(f)  BY DEF TableInv
  <2>2. EntryFree(f)'  BY <2>1, <1>1, <1>4, <1>7 DEF EntryFree
  <2>3. EntryKept(f)'  BY <2>1, <1>1, <1>g DEF EntryKept
  <2>4. EntryGoing(f)'  BY <2>1, <1>1, <1>4, <1>7, <1>g DEF EntryGoing
  <2>. QED  BY <2>2, <2>3, <2>4
<1>12. \A u \in Task : u # t =>
         LockHeld(u)' /\ HasNode(u)' /\ Using(u)' /\ OpensAlone(u)' /\ Shape(u)' /\ DupShape(u)'
  <2>1. \A f \in Entry : lock1'[f] = lock1[f] \/ (lock1[f] \in {NIL, t} /\ lock1'[f] \in {NIL, t})
    BY <1>0, <1>4, <1>s, <1>m DEF LockHeld
  <2>2. \A f \in Entry : tableNode'[f] = tableNode[f] \/ tableNode'[f] = TRUE
                            \/ \A u \in Task : u # t => ~Refers(u, f)
    BY <1>4, <1>6 DEF Refers
  <2>3. \A f \in Entry : Refers(t, f)' => Refers(t, f)
    BY <1>o DEF Refers
  <2>. QED  BY <1>4, <2>1, <2>2, <2>3, OthersKeep
<1>13. LockHeld(t)'
  <2>1. t # NIL  BY TableAssumption
  <2>. QED  BY <2>1, <1>1, <1>4, <1>s, <1>m DEF LockHeld
<1>14. HasNode(t)'
  <2>1. \A i \in Fd, f \in Entry : InTable(t, i, f)' => tableNode'[f]
    BY <1>4, <1>6, <1>8, <1>s DEF HasNode
  <2>2. tablePc'[t] = "install" => \A k \in DOMAIN mine'[t] : tableNode'[mine'[t][k]]
    BY <1>1, <1>4, <1>l, <1>m
  <2>. QED  BY <2>1, <2>2 DEF HasNode
<1>15. Shape(t)' /\ DupShape(t)'
  BY <1>1, <1>4, <1>s DEF Shape, DupShape
<1>16. Using(t)' /\ OpensAlone(t)'
  BY <1>4 DEF Using, OpensAlone
<1>17. \A u \in Task : ChildShape(u)' /\ Dead(u)'
  BY <1>0, <1>1, <1>4, <1>5, ChildKeeps
<1>. QED  BY <1>3, <1>10, <1>11, <1>12, <1>13, <1>14, <1>15, <1>16, <1>17 DEF TableInv

\* vfs_pipe or pty_create returns.
LEMMA PairNodesKeeps ==
  ASSUME TableInv, NEW t \in Task, NEW ok \in BOOLEAN, PairNodes(t, ok)
  PROVE  TableInv'
<1>0. tablePc[t] = "nodes"  BY DEF PairNodes
<1>2. TableTypeOK  BY DEF TableInv
<1>s. /\ Shape(t) /\ DupShape(t) /\ HasNode(t) /\ LockHeld(t)
      /\ Len(mine[t]) = 2 /\ mine[t] \in Seq(Entry) /\ fd[t] = NIL /\ then[t] = "idle"
  BY <1>0, <1>2 DEF TableInv, Shape, TableTypeOK
<1>m. mine[t][1] \in Entry /\ mine[t][2] \in Entry /\ DOMAIN mine[t] = 1 .. 2
  BY <1>s, MineIs
<1>l. PICK l \in {"install", "drop"} : l = IF ok THEN "install" ELSE "drop"
  OBVIOUS
<1>1. /\ tableNode' = [e \in Entry |-> tableNode[e] \/ (ok /\ \E k \in 1 .. 2 : e = mine[t][k])]
      /\ tablePc' = [tablePc EXCEPT ![t] = l]
      /\ UNCHANGED <<lock0, lock1, tableCount, alive, table, mine, fd, then, tableDup, child>>
  BY <1>l DEF PairNodes, Goto, locals
<1>3. TableTypeOK'
  <2>1. tableNode' \in [Entry -> BOOLEAN]  BY <1>1, <1>2 DEF TableTypeOK
  <2>. QED  BY <1>1, <1>2, <2>1 DEF TableTypeOK
<1>4. Only(t) /\ tablePc'[t] = l
  BY <1>1, <1>2 DEF Only, TableTypeOK
<1>5. t \in alive  BY <1>0, Lives
<1>6. \A k \in 1 .. 2 : Refers(t, mine[t][k])
  <2>1. \A k \in {1, 2} : InHand(t, k, mine[t][k])  BY <1>0, <1>m DEF InHand
  <2>. QED  BY <2>1 DEF Refers
<1>7. \A f \in Entry : \/ tableNode'[f] = tableNode[f]
                       \/ /\ tableNode'[f] = TRUE
                          /\ lock0[f] = 1 /\ \A v \in Task : ~Going(v, f)
  <2>1. SUFFICES ASSUME NEW f \in Entry, tableNode'[f] # tableNode[f]
                 PROVE  tableNode'[f] = TRUE /\ lock0[f] = 1 /\ \A v \in Task : ~Going(v, f)
    OBVIOUS
  <2>2. tableNode'[f] = TRUE /\ \E k \in 1 .. 2 : f = mine[t][k]
    BY <2>1, <1>1, <1>2 DEF TableTypeOK
  <2>. QED  BY <2>2, <1>6, ReferredEntry
<1>8. \A i \in Fd, f \in Entry : InTable(t, i, f)' <=> InTable(t, i, f)
  BY <1>0, <1>1, <1>4 DEF InTable, Stale
<1>9. \A k \in {1, 2}, f \in Entry : InHand(t, k, f)' <=> InHand(t, k, f)
  BY <1>0, <1>1, <1>4, <1>s, <1>m DEF InHand
<1>o. /\ \A u \in Task, i \in Fd, f \in Entry : InTable(u, i, f)' <=> InTable(u, i, f)
      /\ \A u \in Task, k \in {1, 2}, f \in Entry : InHand(u, k, f)' <=> InHand(u, k, f)
  BY <1>4, <1>8, <1>9, Elsewhere
<1>g. \A u \in Task, f \in Entry : Going(u, f)' <=> Going(u, f)
  <2>1. \A f \in Entry : ~Going(t, f)' /\ ~Going(t, f)  BY <1>0, <1>4 DEF Going
  <2>. QED  BY <2>1, <1>4, Elsewhere
<1>10. ASSUME NEW f \in Entry PROVE TableCounts(f)'
  <2>1. TableCounts(f)  BY DEF TableInv
  <2>. QED  BY <2>1, <1>1, <1>o, CountSame
<1>11. ASSUME NEW f \in Entry PROVE EntryFree(f)' /\ EntryKept(f)' /\ EntryGoing(f)'
  <2>1. EntryFree(f) /\ EntryKept(f) /\ EntryGoing(f)  BY DEF TableInv
  <2>2. EntryFree(f)'  BY <2>1, <1>1, <1>7 DEF EntryFree
  <2>3. EntryKept(f)'  BY <2>1, <1>1, <1>g DEF EntryKept
  <2>4. EntryGoing(f)'  BY <2>1, <1>1, <1>7, <1>g DEF EntryGoing
  <2>. QED  BY <2>2, <2>3, <2>4
<1>12. \A u \in Task : u # t =>
         LockHeld(u)' /\ HasNode(u)' /\ Using(u)' /\ OpensAlone(u)' /\ Shape(u)' /\ DupShape(u)'
  <2>1. \A f \in Entry : tableNode'[f] = tableNode[f] \/ tableNode'[f] = TRUE
    BY <1>7
  <2>2. \A f \in Entry : Refers(t, f)' => Refers(t, f)
    BY <1>o DEF Refers
  <2>. QED  BY <1>1, <1>4, <2>1, <2>2, OthersKeep
<1>13. LockHeld(t)'
  BY <1>0, <1>1, <1>4, <1>s DEF LockHeld
<1>14. HasNode(t)'
  <2>1. \A i \in Fd, f \in Entry : InTable(t, i, f)' => tableNode'[f]
    BY <1>7, <1>8, <1>s DEF HasNode
  <2>2. tablePc'[t] = "install" => \A k \in DOMAIN mine'[t] : tableNode'[mine'[t][k]]
    BY <1>1, <1>4, <1>l, <1>m
  <2>. QED  BY <2>1, <2>2 DEF HasNode
<1>15. Shape(t)' /\ DupShape(t)'
  BY <1>1, <1>4, <1>s DEF Shape, DupShape
<1>16. Using(t)' /\ OpensAlone(t)'
  BY <1>4 DEF Using, OpensAlone
<1>17. \A u \in Task : ChildShape(u)' /\ Dead(u)'
  BY <1>0, <1>1, <1>4, <1>5, ChildKeeps
<1>. QED  BY <1>3, <1>10, <1>11, <1>12, <1>13, <1>14, <1>15, <1>16, <1>17 DEF TableInv

-----------------------------------------------------------------------------
\* file_decrement_count.
LEMMA DropKeeps ==
  ASSUME TableInv, NEW t \in Task, Drop(t)
  PROVE  TableInv'
<1>0. tablePc[t] = "drop"  BY DEF Drop
<1>2. TableTypeOK  BY DEF TableInv
<1>s. /\ Shape(t) /\ DupShape(t) /\ HasNode(t) /\ LockHeld(t)
      /\ Len(mine[t]) \in {1, 2} /\ mine[t] \in Seq(Entry)
      /\ fd[t] \in Fd \cup {NIL} /\ NIL \notin Fd /\ NIL \notin Entry
  BY <1>0, <1>2, TableAssumption DEF TableInv, Shape, TableTypeOK
<1>m. PICK e \in Entry : e = mine[t][1] /\ e = Head(mine[t]) /\ DOMAIN mine[t] = 1 .. Len(mine[t])
  BY <1>s, MineIs
<1>r. /\ fd[t] = NIL => InHand(t, 1, e)
      /\ fd[t] # NIL => fd[t] \in Fd /\ InTable(t, fd[t], e) /\ table[t][fd[t]] = e
  BY <1>0, <1>s, <1>m DEF InHand, InTable, Stale, Shape
<1>7. lock0[e] = 1 /\ tableCount[e] \in Nat /\ tableCount[e] > 0 /\ \A v \in Task : ~Going(v, e)
  <2>1. Refers(t, e)  BY <1>r DEF Refers
  <2>. QED  BY <2>1, ReferredEntry
<1>c. PICK c \in Nat : c = tableCount[e] - 1  BY <1>7
<1>l. PICK l \in {"release", "unlock", "clear"} :
        l = IF ~Gone(e) THEN "clear" ELSE IF tableNode[e] THEN "release" ELSE "unlock"
  OBVIOUS
<1>1. /\ lock1[e] = NIL
      /\ tableCount' = [tableCount EXCEPT ![e] = c]
      /\ tableNode' = [tableNode EXCEPT ![e] = NodeAfter(e)]
      /\ tablePc' = [tablePc EXCEPT ![t] = l]
      /\ UNCHANGED <<lock0, lock1, alive, table, mine, fd, then, tableDup, child>>
  BY <1>2, <1>m, <1>c, <1>l, <1>7 DEF Drop, Goto, locals, TableTypeOK
<1>3. TableTypeOK'
  <2>1. NodeAfter(e) \in BOOLEAN  BY <1>2 DEF NodeAfter, TableTypeOK
  <2>. QED  BY <1>1, <1>2, <2>1 DEF TableTypeOK
<1>4. /\ Only(t) /\ tablePc'[t] = l /\ tableCount'[e] = c
      /\ \A f \in Entry : f # e => tableCount'[f] = tableCount[f] /\ tableNode'[f] = tableNode[f]
  BY <1>1, <1>2 DEF Only, TableTypeOK
<1>5. t \in alive  BY <1>0, Lives
<1>6. \/ c = 0 /\ l \in {"release", "unlock"} /\ tableNode'[e] = FALSE
      \/ c > 0 /\ l = "clear" /\ tableNode'[e] = tableNode[e]
  <2>1. tableNode'[e] = NodeAfter(e) /\ tableNode[e] \in BOOLEAN
    BY <1>1, <1>2 DEF TableTypeOK
  <2>2. Gone(e) <=> c = 0
    BY <1>c, <1>7 DEF Gone
  <2>3. CASE Gone(e)
    BY <2>1, <2>2, <2>3, <1>l DEF NodeAfter
  <2>4. CASE ~Gone(e)
    BY <2>1, <2>2, <2>4, <1>l DEF NodeAfter
  <2>. QED  BY <2>3, <2>4
<1>8. \A i \in Fd, f \in Entry : InTable(t, i, f)' <=> InTable(t, i, f) /\ i # fd[t]
  BY <1>0, <1>1, <1>4 DEF InTable, Stale
<1>9. \A k \in {1, 2}, f \in Entry : InHand(t, k, f)' <=> InHand(t, k, f) /\ k # 1
  BY <1>0, <1>1, <1>4 DEF InHand
<1>h. /\ \A i \in Fd, f \in Entry : InTable(t, i, f) /\ i = fd[t] => f = e
      /\ \A f \in Entry : InHand(t, 1, f) => f = e /\ fd[t] = NIL
  <2>1. \A i \in Fd, f \in Entry : InTable(t, i, f) /\ i = fd[t] => f = e
    BY <1>r, <1>s DEF InTable
  <2>2. \A f \in Entry : InHand(t, 1, f) => f = e /\ fd[t] = NIL
    BY <1>0, <1>m DEF InHand
  <2>. QED  BY <2>1, <2>2
<1>o. /\ \A u \in Task, i \in Fd, f \in Entry : u # t => (InTable(u, i, f)' <=> InTable(u, i, f))
      /\ \A u \in Task, k \in {1, 2}, f \in Entry : u # t => (InHand(u, k, f)' <=> InHand(u, k, f))
      /\ \A u \in Task, f \in Entry : u # t => (Refers(u, f)' <=> Refers(u, f))
      /\ \A u \in Task, f \in Entry : u # t => (Going(u, f)' <=> Going(u, f))
  BY <1>4, Elsewhere
<1>10. ASSUME NEW f \in Entry PROVE TableCounts(f)'
  <2>1. TableCounts(f)  BY DEF TableInv
  <2>2. CASE f # e
    <3>1. \A u \in Task, i \in Fd : InTable(u, i, f)' <=> InTable(u, i, f)
      BY <2>2, <1>8, <1>h, <1>o
    <3>2. \A u \in Task, k \in {1, 2} : InHand(u, k, f)' <=> InHand(u, k, f)
      BY <2>2, <1>9, <1>h, <1>o
    <3>. QED  BY <2>1, <2>2, <3>1, <3>2, <1>4, CountSame
  <2>3. CASE f = e /\ fd[t] = NIL
    <3>1. \A u \in Task, i \in Fd : InTable(u, i, f)' <=> InTable(u, i, f)
      BY <2>3, <1>8, <1>s, <1>o
    <3>2. \A u \in Task, k \in {1, 2} : InHand(u, k, f)' <=> InHand(u, k, f) /\ ~(u = t /\ k = 1)
      BY <1>9, <1>o
    <3>3. tableCount'[f] = tableCount[f] - 1 /\ InHand(t, 1, f)  BY <2>3, <1>4, <1>c, <1>r
    <3>. QED  BY <2>1, <3>1, <3>2, <3>3, CountHandDrop
  <2>4. CASE f = e /\ fd[t] # NIL
    <3>0. PICK j \in Fd : j = fd[t]  BY <2>4, <1>r
    <3>1. \A u \in Task, i \in Fd : InTable(u, i, f)' <=> InTable(u, i, f) /\ ~(u = t /\ i = j)
      BY <3>0, <1>8, <1>o
    <3>2. \A u \in Task, k \in {1, 2} : InHand(u, k, f)' <=> InHand(u, k, f)
      BY <2>4, <1>9, <1>h, <1>o
    <3>3. tableCount'[f] = tableCount[f] - 1 /\ InTable(t, j, f)  BY <2>4, <3>0, <1>4, <1>c, <1>r
    <3>. QED  BY <2>1, <3>1, <3>2, <3>3, CountTableDrop
  <2>. QED  BY <2>2, <2>3, <2>4
\* The last one that drops the entry leaves no reference to it.
<1>z. c = 0 => /\ \A u \in Task, i \in Fd : ~InTable(u, i, e)'
               /\ \A u \in Task, k \in {1, 2} : ~InHand(u, k, e)'
  <2>1. SUFFICES ASSUME c = 0, NEW u \in Task
                 PROVE  /\ \A i \in Fd : ~InTable(u, i, e)'
                        /\ \A k \in {1, 2} : ~InHand(u, k, e)'
    OBVIOUS
  <2>2. /\ IsFiniteSet(InTables(e)') /\ IsFiniteSet(InHands(e)')
        /\ Cardinality(InTables(e)') + Cardinality(InHands(e)') = 0
    BY <2>1, <1>4, <1>10 DEF TableCounts
  <2>3. Cardinality(InTables(e)') = 0 /\ Cardinality(InHands(e)') = 0
    BY <2>2, FS_CardinalityType
  <2>4. InTables(e)' = {} /\ InHands(e)' = {}
    BY <2>2, <2>3, FS_EmptySet
  <2>5. ASSUME NEW i \in Fd PROVE ~InTable(u, i, e)'
    <3>1. <<u, i>> \notin InTables(e)'  BY <2>4
    <3>. QED  BY <3>1 DEF InTables
  <2>6. ASSUME NEW k \in {1, 2} PROVE ~InHand(u, k, e)'
    <3>1. <<u, k>> \notin InHands(e)'  BY <2>4
    <3>. QED  BY <3>1 DEF InHands
  <2>. QED  BY <2>5, <2>6
<1>g. \A f \in Entry : ~Going(t, f) /\ (Going(t, f)' <=> f = e /\ c = 0)
  BY <1>0, <1>1, <1>4, <1>6, <1>m DEF Going
<1>11. ASSUME NEW f \in Entry PROVE EntryFree(f)' /\ EntryKept(f)' /\ EntryGoing(f)'
  <2>1. EntryFree(f) /\ EntryKept(f) /\ EntryGoing(f)  BY DEF TableInv
  <2>2. CASE f # e
    <3>1. EntryFree(f)'  BY <2>1, <2>2, <1>1, <1>4 DEF EntryFree
    <3>2. EntryKept(f)'
      <4>1. \A u \in Task : Going(u, f) => Going(u, f)'  BY <1>g, <1>o
      <4>. QED  BY <2>1, <2>2, <4>1, <1>1, <1>4 DEF EntryKept
    <3>3. EntryGoing(f)'
      <4>1. \A u \in Task : Going(u, f)' => Going(u, f)  BY <2>2, <1>g, <1>o
      <4>. QED  BY <2>1, <2>2, <4>1, <1>1, <1>4 DEF EntryGoing
    <3>. QED  BY <3>1, <3>2, <3>3
  <2>3. CASE f = e
    <3>0. \A u \in Task : Going(u, e)' <=> u = t /\ c = 0
      BY <1>7, <1>g, <1>o
    <3>1. EntryFree(e)'  BY <1>1, <1>7 DEF EntryFree
    <3>2. EntryKept(e)'
      <4>1. c = 0 => Going(t, e)'  BY <3>0
      <4>2. c # 0 => tableCount'[e] > 0  BY <1>4
      <4>. QED  BY <4>1, <4>2 DEF EntryKept
    <3>3. EntryGoing(e)'  BY <3>0, <1>1, <1>4, <1>6, <1>7 DEF EntryGoing
    <3>. QED  BY <2>3, <3>1, <3>2, <3>3
  <2>. QED  BY <2>2, <2>3
<1>12. \A u \in Task : u # t =>
         LockHeld(u)' /\ HasNode(u)' /\ Using(u)' /\ OpensAlone(u)' /\ Shape(u)' /\ DupShape(u)'
  <2>1. \A f \in Entry : tableNode'[f] = tableNode[f] \/ tableNode'[f] = TRUE
                            \/ \A u \in Task : u # t => ~Refers(u, f)
    <3>1. c = 0 => \A u \in Task : u # t => ~Refers(u, e)
      BY <1>z, <1>o DEF Refers
    <3>. QED  BY <3>1, <1>4, <1>6
  <2>2. \A f \in Entry : Refers(t, f)' => Refers(t, f)
    BY <1>8, <1>9 DEF Refers
  <2>. QED  BY <1>1, <1>4, <2>1, <2>2, OthersKeep
<1>13. LockHeld(t)'
  BY <1>0, <1>1, <1>4, <1>s DEF LockHeld
<1>14. HasNode(t)'
  <2>1. \A i \in Fd, f \in Entry : InTable(t, i, f)' => tableNode'[f]
    <3>1. ASSUME NEW i \in Fd, NEW f \in Entry, InTable(t, i, f)' PROVE tableNode'[f]
      <4>1. InTable(t, i, f)  BY <3>1, <1>8
      <4>2. tableNode[f]  BY <4>1, <1>s DEF HasNode
      <4>3. f = e => c > 0  BY <3>1, <1>z
      <4>. QED  BY <4>2, <4>3, <1>4, <1>6
    <3>. QED  BY <3>1
  <2>. QED  BY <2>1, <1>4 DEF HasNode
<1>15. Shape(t)' /\ DupShape(t)'
  BY <1>0, <1>1, <1>4, <1>s DEF Shape, DupShape
<1>16. Using(t)' /\ OpensAlone(t)'
  BY <1>4 DEF Using, OpensAlone
<1>17. \A u \in Task : ChildShape(u)' /\ Dead(u)'
  BY <1>0, <1>1, <1>4, <1>5, ChildKeeps
<1>. QED  BY <1>3, <1>10, <1>11, <1>12, <1>13, <1>14, <1>15, <1>16, <1>17 DEF TableInv

\* lock[0] is unlocked at last.
LEMMA UnlockKeeps ==
  ASSUME TableInv, NEW t \in Task, Unlock(t)
  PROVE  TableInv'
<1>0. tablePc[t] = "unlock"  BY DEF Unlock
<1>2. TableTypeOK  BY DEF TableInv
<1>s. /\ Shape(t) /\ DupShape(t) /\ HasNode(t) /\ LockHeld(t)
      /\ Len(mine[t]) \in {1, 2} /\ mine[t] \in Seq(Entry)
  BY <1>0, <1>2 DEF TableInv, Shape, TableTypeOK
<1>m. PICK e \in Entry : e = mine[t][1] /\ e = Head(mine[t])
  BY <1>s, MineIs
<1>1. /\ lock0' = [lock0 EXCEPT ![e] = 0]
      /\ tablePc' = [tablePc EXCEPT ![t] = "clear"]
      /\ UNCHANGED <<lock1, tableCount, tableNode, alive, table, mine, fd, then, tableDup, child>>
  BY <1>m DEF Unlock, Goto, locals
<1>3. TableTypeOK'
  BY <1>1, <1>2 DEF TableTypeOK
<1>4. /\ Only(t) /\ tablePc'[t] = "clear" /\ lock0'[e] = 0
      /\ \A f \in Entry : f # e => lock0'[f] = lock0[f]
  BY <1>1, <1>2 DEF Only, TableTypeOK
<1>5. t \in alive  BY <1>0, Lives
<1>6. /\ tableCount[e] = 0 /\ ~tableNode[e] /\ \A u \in Task : Going(u, e) <=> u = t
      /\ \A u \in Task : ~Refers(u, e)
  <2>1. Going(t, e)  BY <1>0, <1>m DEF Going
  <2>2. EntryGoing(e)  BY DEF TableInv
  <2>3. \A u \in Task : ~Refers(u, e)  BY <2>1, ReferredEntry
  <2>. QED  BY <2>1, <2>2, <2>3 DEF EntryGoing
<1>7. lock1[e] = NIL
  <2>1. SUFFICES ASSUME NEW u \in Task, lock1[e] = u PROVE FALSE
    BY <1>2 DEF TableTypeOK
  <2>2. LockHeld(u) /\ Using(u)  BY DEF TableInv
  <2>3. tablePc[u] \in {"open", "io"} /\ mine[u][1] = e
    BY <2>1, <2>2 DEF LockHeld
  <2>4. Len(mine[u]) = 1 /\ mine[u] \in Seq(Entry)
    BY <2>3, <1>2 DEF TableInv, Shape, TableTypeOK
  <2>5. CASE tablePc[u] = "open"
    <3>1. InHand(u, 1, e)  BY <2>3, <2>4, <2>5 DEF InHand
    <3>. QED  BY <3>1, <1>6 DEF Refers
  <2>6. CASE tablePc[u] = "io"
    <3>1. PICK i \in Fd : table[u][i] = e  BY <2>2, <2>3, <2>6 DEF Using
    <3>2. InTable(u, i, e)  BY <3>1, <2>6 DEF InTable, Stale
    <3>. QED  BY <3>2, <1>6 DEF Refers
  <2>. QED  BY <2>3, <2>5, <2>6
<1>8. \A i \in Fd, f \in Entry : InTable(t, i, f)' <=> InTable(t, i, f)
  BY <1>0, <1>1, <1>4 DEF InTable, Stale
<1>9. \A k \in {1, 2}, f \in Entry : InHand(t, k, f)' <=> InHand(t, k, f)
  BY <1>0, <1>1, <1>4 DEF InHand
<1>o. /\ \A u \in Task, i \in Fd, f \in Entry : InTable(u, i, f)' <=> InTable(u, i, f)
      /\ \A u \in Task, k \in {1, 2}, f \in Entry : InHand(u, k, f)' <=> InHand(u, k, f)
      /\ \A u \in Task, f \in Entry : u # t => (Going(u, f)' <=> Going(u, f))
  BY <1>4, <1>8, <1>9, Elsewhere
<1>g. \A f \in Entry : ~Going(t, f)' /\ (Going(t, f) => f = e)
  BY <1>4, <1>m DEF Going
<1>10. ASSUME NEW f \in Entry PROVE TableCounts(f)'
  <2>1. TableCounts(f)  BY DEF TableInv
  <2>. QED  BY <2>1, <1>1, <1>o, CountSame
<1>11. ASSUME NEW f \in Entry PROVE EntryFree(f)' /\ EntryKept(f)' /\ EntryGoing(f)'
  <2>1. EntryFree(f) /\ EntryKept(f) /\ EntryGoing(f)  BY DEF TableInv
  <2>2. EntryFree(f)'  BY <2>1, <1>1, <1>4, <1>6, <1>7 DEF EntryFree
  <2>3. EntryKept(f)'
    <3>1. CASE f = e  BY <3>1, <1>4 DEF EntryKept
    <3>2. CASE f # e
      <4>1. \A u \in Task : Going(u, f) => Going(u, f)'  BY <3>2, <1>g, <1>o
      <4>. QED  BY <2>1, <3>2, <4>1, <1>1, <1>4 DEF EntryKept
    <3>. QED  BY <3>1, <3>2
  <2>4. EntryGoing(f)'
    <3>1. \A u \in Task : Going(u, f)' => Going(u, f) /\ f # e
      BY <1>6, <1>g, <1>o
    <3>. QED  BY <2>1, <3>1, <1>1, <1>4 DEF EntryGoing
  <2>. QED  BY <2>2, <2>3, <2>4
<1>12. \A u \in Task : u # t =>
         LockHeld(u)' /\ HasNode(u)' /\ Using(u)' /\ OpensAlone(u)' /\ Shape(u)' /\ DupShape(u)'
  <2>1. \A f \in Entry : Refers(t, f)' => Refers(t, f)
    BY <1>8, <1>9 DEF Refers
  <2>. QED  BY <1>1, <1>4, <2>1, OthersKeep
<1>13. LockHeld(t)'
  BY <1>0, <1>1, <1>4, <1>s DEF LockHeld
<1>14. HasNode(t)'
  BY <1>1, <1>4, <1>8, <1>s DEF HasNode
<1>15. Shape(t)' /\ DupShape(t)'
  BY <1>0, <1>1, <1>4, <1>s DEF Shape, DupShape
<1>16. Using(t)' /\ OpensAlone(t)'
  BY <1>4 DEF Using, OpensAlone
<1>17. \A u \in Task : ChildShape(u)' /\ Dead(u)'
  BY <1>0, <1>1, <1>4, <1>5, ChildKeeps
<1>. QED  BY <1>3, <1>10, <1>11, <1>12, <1>13, <1>14, <1>15, <1>16, <1>17 DEF TableInv

-----------------------------------------------------------------------------
\* file_dup makes the copy.
LEMMA FileDupKeeps ==
  ASSUME TableInv, NEW t \in Task, FileDup(t)
  PROVE  TableInv'
<1>0. tablePc[t] = "dup"  BY DEF FileDup
<1>2. TableTypeOK  BY DEF TableInv
<1>s. /\ Shape(t) /\ DupShape(t) /\ HasNode(t) /\ LockHeld(t)
      /\ Len(mine[t]) = 0 /\ mine[t] \in Seq(Entry) /\ fd[t] = NIL /\ then[t] = "idle"
      /\ NIL \notin Fd /\ NIL \notin Entry
  BY <1>0, <1>2, TableAssumption DEF TableInv, Shape, TableTypeOK
<1>d. PICK s \in Fd, j \in Fd : /\ s = tableDup[t].src /\ j = tableDup[t].dst
                                /\ table[t][s] # NIL /\ table[t][j] = NIL
  BY <1>0, <1>s DEF DupShape
<1>e. PICK e \in Entry : e = table[t][s]  BY <1>2, <1>d DEF TableTypeOK
<1>1. /\ lock1[e] = NIL
      /\ table' = [table EXCEPT ![t][j] = e]
      /\ tableCount' = [tableCount EXCEPT ![e] = @ + 1]
      /\ tableDup' = [tableDup EXCEPT ![t] = NoDup]
      /\ tablePc' = [tablePc EXCEPT ![t] = "idle"]
      /\ UNCHANGED <<lock0, lock1, tableNode, alive, mine, fd, then, child>>
  BY <1>d, <1>e DEF FileDup, Goto, Counted
<1>3. TableTypeOK'
  <2>1. table' \in [Task -> [Fd -> Entry \cup {NIL}]]  BY <1>1, <1>2 DEF TableTypeOK
  <2>2. tableCount' \in [Entry -> Nat]  BY <1>1, <1>2 DEF TableTypeOK
  <2>3. tableDup' \in [Task -> [src : Fd \cup {NIL}, dst : Fd \cup {NIL}]]
    BY <1>1, <1>2 DEF TableTypeOK, NoDup
  <2>. QED  BY <1>1, <1>2, <2>1, <2>2, <2>3 DEF TableTypeOK
<1>4. /\ Only(t) /\ tablePc'[t] = "idle" /\ tableCount'[e] = tableCount[e] + 1
      /\ \A f \in Entry : f # e => tableCount'[f] = tableCount[f]
      /\ table'[t][j] = e /\ \A i \in Fd : i # j => table'[t][i] = table[t][i]
  BY <1>1, <1>2 DEF Only, TableTypeOK
<1>5. t \in alive  BY <1>0, Lives
<1>6. InTable(t, s, e) /\ ~InTable(t, j, e) /\ Refers(t, e) /\ tableNode[e]
  <2>1. InTable(t, s, e) /\ ~InTable(t, j, e)  BY <1>0, <1>d, <1>e, <1>s DEF InTable, Stale
  <2>. QED  BY <2>1, <1>s DEF Refers, HasNode
<1>7. lock0[e] = 1 /\ tableCount[e] \in Nat /\ tableCount[e] > 0 /\ \A v \in Task : ~Going(v, e)
  BY <1>6, ReferredEntry
<1>8. \A i \in Fd, f \in Entry : InTable(t, i, f)' <=> InTable(t, i, f) \/ (i = j /\ f = e)
  BY <1>0, <1>4, <1>d, <1>s DEF InTable, Stale
<1>9. \A k \in {1, 2}, f \in Entry : InHand(t, k, f)' <=> InHand(t, k, f)
  BY <1>0, <1>1, <1>4 DEF InHand
<1>o. /\ \A u \in Task, i \in Fd, f \in Entry : u # t => (InTable(u, i, f)' <=> InTable(u, i, f))
      /\ \A u \in Task, k \in {1, 2}, f \in Entry : InHand(u, k, f)' <=> InHand(u, k, f)
  BY <1>4, <1>9, Elsewhere
<1>g. \A u \in Task, f \in Entry : Going(u, f)' <=> Going(u, f)
  <2>1. \A f \in Entry : ~Going(t, f)' /\ ~Going(t, f)  BY <1>0, <1>4 DEF Going
  <2>. QED  BY <2>1, <1>4, Elsewhere
<1>10. ASSUME NEW f \in Entry PROVE TableCounts(f)'
  <2>1. TableCounts(f)  BY DEF TableInv
  <2>2. \A u \in Task, k \in {1, 2} : InHand(u, k, f)' <=> InHand(u, k, f)  BY <1>o
  <2>3. CASE f = e
    <3>1. \A u \in Task, i \in Fd : InTable(u, i, f)' <=> InTable(u, i, f) \/ (u = t /\ i = j)
      BY <2>3, <1>8, <1>o
    <3>2. ~InTable(t, j, f) /\ tableCount'[f] = tableCount[f] + 1  BY <2>3, <1>4, <1>6
    <3>. QED  BY <2>1, <2>2, <3>1, <3>2, CountTable
  <2>4. CASE f # e
    <3>1. \A u \in Task, i \in Fd : InTable(u, i, f)' <=> InTable(u, i, f)
      BY <2>4, <1>8, <1>o
    <3>. QED  BY <2>1, <2>2, <3>1, <2>4, <1>4, CountSame
  <2>. QED  BY <2>3, <2>4
<1>11. ASSUME NEW f \in Entry PROVE EntryFree(f)' /\ EntryKept(f)' /\ EntryGoing(f)'
  <2>1. EntryFree(f) /\ EntryKept(f) /\ EntryGoing(f)  BY DEF TableInv
  <2>2. EntryFree(f)'  BY <2>1, <1>1, <1>4, <1>7 DEF EntryFree
  <2>3. EntryKept(f)'
    <3>1. f = e => tableCount'[f] > 0  BY <1>4, <1>7
    <3>. QED  BY <2>1, <3>1, <1>1, <1>4, <1>g DEF EntryKept
  <2>4. EntryGoing(f)'  BY <2>1, <1>1, <1>4, <1>7, <1>g DEF EntryGoing
  <2>. QED  BY <2>2, <2>3, <2>4
<1>12. \A u \in Task : u # t =>
         LockHeld(u)' /\ HasNode(u)' /\ Using(u)' /\ OpensAlone(u)' /\ Shape(u)' /\ DupShape(u)'
  <2>1. \A f \in Entry : Refers(t, f)' => Refers(t, f)
    BY <1>6, <1>8, <1>9 DEF Refers
  <2>. QED  BY <1>1, <1>4, <2>1, OthersKeep
<1>13. LockHeld(t)'
  BY <1>0, <1>1, <1>4, <1>s DEF LockHeld
<1>14. HasNode(t)'
  BY <1>1, <1>4, <1>6, <1>8, <1>s DEF HasNode
<1>15. Shape(t)' /\ DupShape(t)'
  BY <1>0, <1>1, <1>4, <1>s DEF Shape, DupShape
<1>16. Using(t)' /\ OpensAlone(t)'
  BY <1>4 DEF Using, OpensAlone
<1>17. \A u \in Task : ChildShape(u)' /\ Dead(u)'
  BY <1>0, <1>1, <1>4, <1>5, ChildKeeps
<1>. QED  BY <1>3, <1>10, <1>11, <1>12, <1>13, <1>14, <1>15, <1>16, <1>17 DEF TableInv

\* A step that changes no entry, and moves a task with empty hands.
LEMMA EmptyHands ==
  ASSUME TableInv, TableTypeOK', NEW t \in Task, Only(t),
         UNCHANGED <<lock0, lock1, tableCount, tableNode, table, mine, fd, then, tableDup>>,
         tablePc[t] \in {"idle", "clone", "exit"}, tablePc'[t] \in {"idle", "clone", "exit"},
         \A u \in Task : ChildShape(u)' /\ Dead(u)'
  PROVE  TableInv'
<1>s. /\ Shape(t) /\ DupShape(t) /\ HasNode(t) /\ LockHeld(t)  BY DEF TableInv
<1>8. \A i \in Fd, f \in Entry : InTable(t, i, f)' <=> InTable(t, i, f)
  BY DEF InTable, Stale
<1>9. \A k \in {1, 2}, f \in Entry : InHand(t, k, f)' <=> InHand(t, k, f)
  BY DEF InHand
<1>o. /\ \A u \in Task, i \in Fd, f \in Entry : InTable(u, i, f)' <=> InTable(u, i, f)
      /\ \A u \in Task, k \in {1, 2}, f \in Entry : InHand(u, k, f)' <=> InHand(u, k, f)
  BY <1>8, <1>9, Elsewhere
<1>g. \A u \in Task, f \in Entry : Going(u, f)' <=> Going(u, f)
  <2>1. \A f \in Entry : ~Going(t, f)' /\ ~Going(t, f)  BY DEF Going
  <2>. QED  BY <2>1, Elsewhere
<1>10. ASSUME NEW f \in Entry PROVE TableCounts(f)'
  <2>1. TableCounts(f)  BY DEF TableInv
  <2>. QED  BY <2>1, <1>o, CountSame
<1>11. ASSUME NEW f \in Entry PROVE EntryFree(f)' /\ EntryKept(f)' /\ EntryGoing(f)'
  <2>1. EntryFree(f) /\ EntryKept(f) /\ EntryGoing(f)  BY DEF TableInv
  <2>2. EntryFree(f)'  BY <2>1 DEF EntryFree
  <2>3. EntryKept(f)'  BY <2>1, <1>g DEF EntryKept
  <2>4. EntryGoing(f)'  BY <2>1, <1>g DEF EntryGoing
  <2>. QED  BY <2>2, <2>3, <2>4
<1>12. \A u \in Task : u # t =>
         LockHeld(u)' /\ HasNode(u)' /\ Using(u)' /\ OpensAlone(u)' /\ Shape(u)' /\ DupShape(u)'
  <2>1. \A f \in Entry : Refers(t, f)' => Refers(t, f)
    BY <1>8, <1>9 DEF Refers
  <2>. QED  BY <2>1, OthersKeep
<1>13. LockHeld(t)'
  BY <1>s DEF LockHeld
<1>14. HasNode(t)'
  BY <1>8, <1>s DEF HasNode
<1>15. Shape(t)' /\ DupShape(t)'
  BY <1>s DEF Shape, DupShape
<1>16. Using(t)' /\ OpensAlone(t)'
  BY DEF Using, OpensAlone
<1>. QED  BY <1>10, <1>11, <1>12, <1>13, <1>14, <1>15, <1>16 DEF TableInv

LEMMA FdCloneKeeps ==
  ASSUME TableInv, NEW t \in Task, NEW u \in Task, FdClone(t, u)
  PROVE  TableInv'
<1>1. /\ t \in alive /\ tablePc[t] = "idle" /\ u \notin alive
      /\ \A v \in Task : child[v].to # u
      /\ child' = [child EXCEPT ![t] = [to |-> u, i |-> 0]]
      /\ tablePc' = [tablePc EXCEPT ![t] = "clone"]
      /\ UNCHANGED <<lock0, lock1, tableCount, tableNode, alive, table, mine, fd, then, tableDup>>
  BY DEF FdClone, Ready, Goto, entries
<1>2. TableTypeOK  BY DEF TableInv
<1>3. TableTypeOK'
  <2>1. child' \in [Task -> [to : Task \cup {NIL}, i : 0 .. MaxFd]]
    BY <1>1, <1>2, TableAssumption DEF TableTypeOK
  <2>. QED  BY <1>1, <1>2, <2>1 DEF TableTypeOK
<1>4. Only(t) /\ tablePc'[t] = "clone" /\ child'[t].to = u
  BY <1>1, <1>2 DEF Only, TableTypeOK
<1>o. \A v \in Task : v # t => child'[v] = child[v] /\ tablePc'[v] = tablePc[v]
  BY <1>4 DEF Only
<1>n. NIL \notin Task /\ child[t].to = NIL
  BY <1>1, TableAssumption DEF TableInv, ChildShape
<1>5. ASSUME NEW v \in Task PROVE ChildShape(v)'
  <2>1. ChildShape(v)  BY DEF TableInv
  <2>2. CASE v = t
    BY <2>2, <1>1, <1>4, <1>o DEF ChildShape
  <2>3. CASE v # t
    BY <2>1, <2>3, <1>1, <1>4, <1>o DEF ChildShape
  <2>. QED  BY <2>2, <2>3
<1>6. ASSUME NEW v \in Task PROVE Dead(v)'
  <2>1. Dead(v)  BY DEF TableInv
  <2>2. \A w \in Task : child[w].to = v => child'[w] = child[w]
    BY <1>n, <1>o
  <2>. QED  BY <2>1, <2>2, <1>1, <1>o DEF Dead
<1>. QED  BY <1>1, <1>3, <1>4, <1>5, <1>6, EmptyHands

LEMMA FdCloneDoneKeeps ==
  ASSUME TableInv, NEW t \in Task, FdCloneDone(t)
  PROVE  TableInv'
<1>1. /\ tablePc[t] = "clone"
      /\ alive' = alive \cup {child[t].to}
      /\ child' = [child EXCEPT ![t] = NoChild]
      /\ tablePc' = [tablePc EXCEPT ![t] = "idle"]
      /\ UNCHANGED <<lock0, lock1, tableCount, tableNode, table, mine, fd, then, tableDup>>
  BY DEF FdCloneDone, Goto, entries
<1>2. TableTypeOK  BY DEF TableInv
<1>c. PICK u \in Task : u = child[t].to /\ u \notin alive
  BY <1>1 DEF TableInv, ChildShape
<1>3. TableTypeOK'
  <2>1. child' \in [Task -> [to : Task \cup {NIL}, i : 0 .. MaxFd]]
    BY <1>1, <1>2, TableAssumption DEF TableTypeOK, NoChild
  <2>. QED  BY <1>1, <1>2, <1>c, <2>1 DEF TableTypeOK
<1>4. Only(t) /\ tablePc'[t] = "idle" /\ child'[t].to = NIL
  BY <1>1, <1>2 DEF Only, TableTypeOK, NoChild
<1>o. \A v \in Task : v # t => child'[v] = child[v] /\ tablePc'[v] = tablePc[v] /\ child[v].to # u
  <2>1. \A v \in Task : v # t => child'[v] = child[v] /\ tablePc'[v] = tablePc[v]
    BY <1>4 DEF Only
  <2>2. u # NIL /\ ChildShape(t)  BY TableAssumption DEF TableInv
  <2>. QED  BY <2>1, <2>2, <1>c DEF ChildShape
<1>5. ASSUME NEW v \in Task PROVE ChildShape(v)'
  <2>1. ChildShape(v)  BY DEF TableInv
  <2>2. CASE v = t
    BY <2>2, <1>4 DEF ChildShape
  <2>3. CASE v # t
    <3>1. tablePc'[v] = "clone" => child'[v].to \in Task \ alive'
      BY <2>1, <2>3, <1>1, <1>c, <1>o DEF ChildShape
    <3>2. tablePc'[v] # "clone" => child'[v].to = NIL
      BY <2>1, <2>3, <1>o DEF ChildShape
    <3>3. \A w \in Task : child'[v].to = child'[w].to /\ child'[v].to # NIL => v = w
      BY <2>1, <2>3, <1>4, <1>o DEF ChildShape
    <3>. QED  BY <3>1, <3>2, <3>3 DEF ChildShape
  <2>. QED  BY <2>2, <2>3
<1>6. ASSUME NEW v \in Task PROVE Dead(v)'
  <2>1. Dead(v)  BY DEF TableInv
  <2>2. v \notin alive' => v \notin alive /\ v # u /\ v # t
    <3>1. t \in alive  BY <1>1, Lives
    <3>. QED  BY <3>1, <1>1, <1>c
  <2>3. v # u => \A w \in Task : child[w].to = v => child'[w] = child[w]
    BY <1>c, <1>o
  <2>. QED  BY <2>1, <2>2, <2>3, <1>1, <1>o DEF Dead
<1>. QED  BY <1>1, <1>3, <1>4, <1>5, <1>6, EmptyHands

LEMMA FdReleasedKeeps ==
  ASSUME TableInv, NEW t \in Task, FdReleased(t)
  PROVE  TableInv'
<1>1. /\ tablePc[t] = "exit" /\ Fd \ UnusedFd(t) = {}
      /\ alive' = alive \ {t}
      /\ tablePc' = [tablePc EXCEPT ![t] = "idle"]
      /\ UNCHANGED <<lock0, lock1, tableCount, tableNode, table, mine, fd, then, tableDup, child>>
  BY DEF FdReleased, Goto, entries, locals
<1>2. TableTypeOK  BY DEF TableInv
<1>3. TableTypeOK'  BY <1>1, <1>2 DEF TableTypeOK
<1>4. Only(t) /\ tablePc'[t] = "idle"
  BY <1>1, <1>2 DEF Only, TableTypeOK
<1>5. ASSUME NEW v \in Task PROVE ChildShape(v)'
  <2>1. ChildShape(v)  BY DEF TableInv
  <2>2. CASE v = t  BY <2>1, <2>2, <1>1, <1>4 DEF ChildShape
  <2>3. CASE v # t
    <3>1. tablePc'[v] = tablePc[v]  BY <2>3, <1>4 DEF Only
    <3>. QED  BY <2>1, <3>1, <1>1 DEF ChildShape
  <2>. QED  BY <2>2, <2>3
<1>6. ASSUME NEW v \in Task PROVE Dead(v)'
  <2>1. Dead(v)  BY DEF TableInv
  <2>2. CASE v = t
    <3>1. \A i \in Fd : table[t][i] = NIL  BY <1>1 DEF UnusedFd
    <3>. QED  BY <3>1, <2>2, <1>1, <1>4 DEF Dead
  <2>3. CASE v # t
    <3>1. tablePc'[v] = tablePc[v]  BY <2>3, <1>4 DEF Only
    <3>. QED  BY <2>1, <2>3, <3>1, <1>1 DEF Dead
  <2>. QED  BY <2>2, <2>3
<1>. QED  BY <1>1, <1>3, <1>4, <1>5, <1>6, EmptyHands

\* fd_clone_func copies one descriptor into the table of the new task.
LEMMA FdCloneNextKeeps ==
  ASSUME TableInv, NEW t \in Task, FdCloneNext(t)
  PROVE  TableInv'
<1>0. tablePc[t] = "clone"  BY DEF FdCloneNext
<1>2. TableTypeOK  BY DEF TableInv
<1>c. PICK u \in Task, i \in Fd : u = child[t].to /\ i = child[t].i /\ u \notin alive
  <2>1. child[t].to \in Task \ alive  BY <1>0 DEF TableInv, ChildShape
  <2>2. child[t].i \in 0 .. MaxFd /\ child[t].i < MaxFd  BY <1>2 DEF FdCloneNext, TableTypeOK
  <2>. QED  BY <2>1, <2>2, TableAssumption DEF Fd
<1>u. /\ t \in alive /\ u # t /\ tablePc[u] = "idle" /\ table[u][i] = NIL
      /\ NIL \notin Entry /\ NIL \notin Fd /\ NIL \notin Task
  <2>1. t \in alive  BY <1>0, Lives
  <2>2. Dead(u) /\ ChildShape(t)  BY DEF TableInv
  <2>3. \A v \in Task : child[v].to = u => v = t
    <3>1. u # NIL  BY TableAssumption
    <3>. QED  BY <3>1, <2>2, <1>c DEF ChildShape
  <2>4. ~(i < child[t].i)  BY <1>c, TableAssumption DEF Fd
  <2>. QED  BY <2>1, <2>2, <2>3, <2>4, <1>c, TableAssumption DEF Dead
<1>1. /\ child' = [child EXCEPT ![t].i = i + 1]
      /\ UNCHANGED <<lock0, lock1, tableNode, alive, tablePc, mine, fd, then, tableDup>>
      /\ \/ table[t][i] = NIL /\ UNCHANGED <<table, tableCount>>
         \/ /\ table[t][i] # NIL
            /\ table' = [table EXCEPT ![u][i] = table[t][i]]
            /\ tableCount' = [tableCount EXCEPT ![table[t][i]] = @ + 1]
  BY <1>c DEF FdCloneNext, Counted
<1>x. /\ child'[t].to = u /\ child'[t].i = i + 1
      /\ \A v \in Task : v # t => child'[v] = child[v]
      /\ child' \in [Task -> [to : Task \cup {NIL}, i : 0 .. MaxFd]]
  <2>1. i + 1 \in 0 .. MaxFd  BY TableAssumption DEF Fd
  <2>2. child \in [Task -> [to : Task \cup {NIL}, i : 0 .. MaxFd]]  BY <1>2 DEF TableTypeOK
  <2>3. child' = [child EXCEPT ![t] = [child[t] EXCEPT !.i = i + 1]]  BY <1>1, <2>2
  <2>4. [child[t] EXCEPT !.i = i + 1] = [to |-> u, i |-> i + 1]  BY <2>2, <1>c
  <2>. QED  BY <2>1, <2>2, <2>3, <2>4
\* Either nothing is copied, or one entry.
<1>3. \/ UNCHANGED <<table, tableCount>>
      \/ \E e \in Entry :
           /\ InTable(t, i, e) /\ tableCount'[e] = tableCount[e] + 1
           /\ \A f \in Entry : f # e => tableCount'[f] = tableCount[f]
           /\ table'[u][i] = e /\ \A j \in Fd : j # i => table'[u][j] = table[u][j]
           /\ \A v \in Task : v # u => table'[v] = table[v]
           /\ table' \in [Task -> [Fd -> Entry \cup {NIL}]] /\ tableCount' \in [Entry -> Nat]
  <2>1. CASE table[t][i] = NIL  BY <2>1, <1>1
  <2>2. CASE table[t][i] # NIL
    <3>1. PICK e \in Entry : e = table[t][i]  BY <2>2, <1>2 DEF TableTypeOK
    <3>2. InTable(t, i, e)  BY <3>1, <1>0 DEF InTable, Stale
    <3>3. /\ table' = [table EXCEPT ![u][i] = e]
          /\ tableCount' = [tableCount EXCEPT ![e] = @ + 1]
      BY <2>2, <3>1, <1>1
    <3>4. /\ tableCount'[e] = tableCount[e] + 1
          /\ \A f \in Entry : f # e => tableCount'[f] = tableCount[f]
          /\ tableCount' \in [Entry -> Nat]
      BY <3>3, <1>2 DEF TableTypeOK
    <3>5. /\ table'[u][i] = e /\ \A j \in Fd : j # i => table'[u][j] = table[u][j]
          /\ \A v \in Task : v # u => table'[v] = table[v]
          /\ table' \in [Task -> [Fd -> Entry \cup {NIL}]]
      BY <3>3, <1>2 DEF TableTypeOK
    <3>. QED  BY <3>2, <3>4, <3>5
  <2>. QED  BY <2>1, <2>2
<1>4. TableTypeOK'
  BY <1>1, <1>2, <1>3, <1>x DEF TableTypeOK
<1>h. /\ \A v \in Task, k \in {1, 2}, f \in Entry : InHand(v, k, f)' <=> InHand(v, k, f)
      /\ \A v \in Task, f \in Entry : Going(v, f)' <=> Going(v, f)
      /\ \A v \in Task : Stale(v)' = Stale(v)
  BY <1>1 DEF InHand, Going, Stale
<1>v. \A v \in Task : v # u => table'[v] = table[v]
  BY <1>3
<1>w. \A v \in Task, j \in Fd : table[v][j] # NIL => table'[v][j] = table[v][j]
  BY <1>3, <1>u
\* The references after the step: one more, at most.
<1>5. \/ /\ \A v \in Task, j \in Fd, f \in Entry : InTable(v, j, f)' <=> InTable(v, j, f)
         /\ tableCount' = tableCount
      \/ \E e \in Entry :
           /\ InTable(t, i, e) /\ ~InTable(u, i, e) /\ tableCount'[e] = tableCount[e] + 1
           /\ \A f \in Entry : f # e => tableCount'[f] = tableCount[f]
           /\ \A v \in Task, j \in Fd, f \in Entry :
                InTable(v, j, f)' <=> InTable(v, j, f) \/ (v = u /\ j = i /\ f = e)
  <2>1. CASE UNCHANGED <<table, tableCount>>
    <3>1. \A v \in Task, j \in Fd, f \in Entry : InTable(v, j, f)' <=> InTable(v, j, f)
      BY <2>1, <1>h DEF InTable
    <3>. QED  BY <2>1, <3>1
  <2>2. ASSUME NEW e \in Entry,
               InTable(t, i, e) /\ tableCount'[e] = tableCount[e] + 1,
               \A f \in Entry : f # e => tableCount'[f] = tableCount[f],
               table'[u][i] = e /\ \A j \in Fd : j # i => table'[u][j] = table[u][j],
               \A v \in Task : v # u => table'[v] = table[v]
        PROVE  /\ ~InTable(u, i, e)
               /\ \A v \in Task, j \in Fd, f \in Entry :
                    InTable(v, j, f)' <=> InTable(v, j, f) \/ (v = u /\ j = i /\ f = e)
    <3>1. ~InTable(u, i, e)  BY <1>u DEF InTable
    <3>2. Stale(u) = {} /\ Stale(u)' = {}  BY <1>u, <1>1 DEF Stale
    <3>3. ASSUME NEW v \in Task, NEW j \in Fd, NEW f \in Entry
          PROVE  InTable(v, j, f)' <=> InTable(v, j, f) \/ (v = u /\ j = i /\ f = e)
      <4>1. CASE v # u  BY <4>1, <2>2, <1>h DEF InTable
      <4>2. CASE v = u /\ j # i  BY <4>2, <2>2, <3>2 DEF InTable
      <4>3. CASE v = u /\ j = i  BY <4>3, <2>2, <3>2, <1>u DEF InTable
      <4>. QED  BY <4>1, <4>2, <4>3
    <3>. QED  BY <3>1, <3>3
  <2>. QED  BY <2>1, <2>2, <1>3
<1>6. ASSUME NEW f \in Entry
      PROVE  /\ TableCounts(f)'
             /\ tableCount'[f] = tableCount[f]
                  \/ (InTable(t, i, f) /\ tableCount'[f] = tableCount[f] + 1)
  <2>1. TableCounts(f)  BY DEF TableInv
  <2>2. CASE /\ \A v \in Task, j \in Fd, g \in Entry : InTable(v, j, g)' <=> InTable(v, j, g)
             /\ tableCount' = tableCount
    BY <2>1, <2>2, <1>h, CountSame
  <2>3. ASSUME NEW e \in Entry,
               InTable(t, i, e) /\ ~InTable(u, i, e) /\ tableCount'[e] = tableCount[e] + 1,
               \A g \in Entry : g # e => tableCount'[g] = tableCount[g],
               \A v \in Task, j \in Fd, g \in Entry :
                 InTable(v, j, g)' <=> InTable(v, j, g) \/ (v = u /\ j = i /\ g = e)
        PROVE  /\ TableCounts(f)'
               /\ tableCount'[f] = tableCount[f]
                    \/ (InTable(t, i, f) /\ tableCount'[f] = tableCount[f] + 1)
    <3>1. CASE f = e
      <4>1. \A v \in Task, j \in Fd : InTable(v, j, f)' <=> InTable(v, j, f) \/ (v = u /\ j = i)
        BY <2>3, <3>1
      <4>. QED  BY <2>1, <2>3, <3>1, <4>1, <1>h, CountTable
    <3>2. CASE f # e
      <4>1. \A v \in Task, j \in Fd : InTable(v, j, f)' <=> InTable(v, j, f)
        BY <2>3, <3>2
      <4>. QED  BY <2>1, <2>3, <3>2, <4>1, <1>h, CountSame
    <3>. QED  BY <3>1, <3>2
  <2>. QED  BY <2>2, <2>3, <1>5
<1>7. ASSUME NEW f \in Entry PROVE EntryFree(f)' /\ EntryKept(f)' /\ EntryGoing(f)'
  <2>1. EntryFree(f) /\ EntryKept(f) /\ EntryGoing(f)  BY DEF TableInv
  <2>2. CASE tableCount'[f] = tableCount[f]
    <3>1. EntryFree(f)'  BY <2>1, <2>2, <1>1 DEF EntryFree
    <3>2. EntryKept(f)'  BY <2>1, <2>2, <1>1, <1>h DEF EntryKept
    <3>3. EntryGoing(f)'  BY <2>1, <2>2, <1>1, <1>h DEF EntryGoing
    <3>. QED  BY <3>1, <3>2, <3>3
  <2>3. CASE InTable(t, i, f) /\ tableCount'[f] = tableCount[f] + 1
    <3>1. Refers(t, f)  BY <2>3 DEF Refers
    <3>2. lock0[f] = 1 /\ tableCount[f] \in Nat /\ \A v \in Task : ~Going(v, f)
      BY <3>1, ReferredEntry
    <3>3. tableCount'[f] > 0  BY <2>3, <3>2
    <3>. QED  BY <3>2, <3>3, <1>1, <1>h DEF EntryFree, EntryKept, EntryGoing
  <2>. QED  BY <2>2, <2>3, <1>6
\* What is in a table now was in one already.
<1>8. \A v \in Task, j \in Fd, f \in Entry : InTable(v, j, f)' => \E w \in Task, k \in Fd : InTable(w, k, f)
  BY <1>5
<1>9. ASSUME NEW v \in Task PROVE LockHeld(v)' /\ HasNode(v)' /\ Using(v)' /\ OpensAlone(v)'
  <2>1. LockHeld(v) /\ HasNode(v) /\ Using(v) /\ OpensAlone(v)  BY DEF TableInv
  <2>2. LockHeld(v)'  BY <2>1, <1>1 DEF LockHeld
  <2>3. HasNode(v)'
    <3>1. \A w \in Task, k \in Fd, f \in Entry : InTable(w, k, f) => tableNode[f]
      BY DEF TableInv, HasNode
    <3>2. \A j \in Fd, f \in Entry : InTable(v, j, f)' => tableNode'[f]
      BY <3>1, <1>8, <1>1
    <3>3. tablePc'[v] = "install" => \A k \in DOMAIN mine'[v] : tableNode'[mine'[v][k]]
      BY <2>1, <1>1 DEF HasNode
    <3>. QED  BY <3>2, <3>3 DEF HasNode
  <2>4. Using(v)'
    <3>1. SUFFICES ASSUME tablePc[v] \in {"io", "block"} PROVE \E j \in Fd : table'[v][j] = mine[v][1]
      BY <1>1 DEF Using
    <3>2. v # u  BY <3>1, <1>u
    <3>. QED  BY <2>1, <3>1, <3>2, <1>v DEF Using
  <2>5. OpensAlone(v)'
    <3>1. SUFFICES ASSUME tablePc[v] = "open" PROVE OpensAlone(v)'
      BY <1>1 DEF OpensAlone
    <3>2. Len(mine[v]) = 1 /\ mine[v] \in Seq(Entry)
      BY <3>1, <1>2 DEF TableInv, Shape, TableTypeOK
    <3>3. PICK e \in Entry : e = mine[v][1]  BY <3>2, MineIs
    <3>4. \A w \in Task, j \in Fd : ~InTable(w, j, e)'
      BY <2>1, <3>1, <3>3, <1>8 DEF OpensAlone
    <3>5. \A w \in Task, k \in {1, 2} : InHand(w, k, e)' => w = v /\ k = 1
      BY <2>1, <3>1, <3>3, <1>h DEF OpensAlone
    <3>. QED  BY <3>3, <3>4, <3>5, <1>1 DEF OpensAlone
  <2>. QED  BY <2>2, <2>3, <2>4, <2>5
<1>10. ASSUME NEW v \in Task PROVE Shape(v)' /\ DupShape(v)'
  <2>1. Shape(v) /\ DupShape(v)  BY DEF TableInv
  <2>2. CASE v = u
    <3>1. tablePc[v] = "idle" /\ tablePc'[v] = "idle" /\ then[v] = "idle" /\ then'[v] = "idle"
      BY <2>1, <2>2, <1>u, <1>1 DEF Shape
    <3>. QED  BY <2>1, <3>1, <1>1 DEF Shape, DupShape
  <2>3. CASE v # u
    <3>1. table'[v] = table[v]  BY <2>3, <1>v
    <3>. QED  BY <2>1, <3>1, <1>1 DEF Shape, DupShape
  <2>. QED  BY <2>2, <2>3
<1>11. ASSUME NEW v \in Task PROVE ChildShape(v)'
  <2>1. ChildShape(v)  BY DEF TableInv
  <2>2. \A w \in Task : child'[w].to = child[w].to  BY <1>x, <1>c
  <2>. QED  BY <2>1, <2>2, <1>1 DEF ChildShape
<1>12. ASSUME NEW v \in Task PROVE Dead(v)'
  <2>1. Dead(v)  BY DEF TableInv
  <2>2. SUFFICES ASSUME v \notin alive, NEW j \in Fd
                 PROVE  /\ tablePc[v] = "idle"
                        /\ table'[v][j] = NIL \/ \E w \in Task : child'[w].to = v /\ j < child'[w].i
    BY <1>1 DEF Dead
  <2>3. tablePc[v] = "idle"  BY <2>1, <2>2 DEF Dead
  <2>4. CASE \E w \in Task : child[w].to = v /\ j < child[w].i
    <3>1. PICK w \in Task : child[w].to = v /\ j < child[w].i  BY <2>4
    <3>2. CASE w = t
      <4>1. j < i + 1  BY <3>1, <3>2, <1>c, TableAssumption DEF Fd
      <4>. QED  BY <2>3, <3>1, <3>2, <4>1, <1>c, <1>x
    <3>3. CASE w # t  BY <2>3, <3>1, <3>3, <1>x
    <3>. QED  BY <3>2, <3>3
  <2>5. CASE table[v][j] = NIL
    <3>1. CASE v = u /\ j = i
      <4>1. i < i + 1  BY TableAssumption DEF Fd
      <4>. QED  BY <2>3, <3>1, <4>1, <1>x
    <3>2. CASE ~(v = u /\ j = i)
      <4>1. table'[v][j] = table[v][j]  BY <3>2, <1>3
      <4>. QED  BY <2>3, <2>5, <4>1
    <3>. QED  BY <3>1, <3>2
  <2>. QED  BY <2>1, <2>2, <2>4, <2>5 DEF Dead
<1>. QED  BY <1>4, <1>6, <1>7, <1>9, <1>10, <1>11, <1>12 DEF TableInv

-----------------------------------------------------------------------------
\* file_read and the like, up to the call of the node.
LEMMA FileUseKeeps ==
  ASSUME TableInv, NEW t \in Task, NEW i \in Fd, NEW blocking \in BOOLEAN, FileUse(t, i, blocking)
  PROVE  TableInv'
<1>2. TableTypeOK  BY DEF TableInv
<1>e. PICK e \in Entry : e = table[t][i]  BY <1>2 DEF FileUse, TableTypeOK
<1>l. PICK l \in {"io", "block"} : l = IF blocking THEN "block" ELSE "io"
  OBVIOUS
<1>1. /\ t \in alive /\ tablePc[t] = "idle" /\ lock1[e] = NIL
      /\ mine' = [mine EXCEPT ![t] = <<e>>]
      /\ lock1' = [lock1 EXCEPT ![e] = IF l = "block" THEN NIL ELSE t]
      /\ tablePc' = [tablePc EXCEPT ![t] = l]
      /\ UNCHANGED <<lock0, tableCount, tableNode, alive, table, fd, then, tableDup, child>>
  BY <1>e, <1>l DEF FileUse, Ready, Goto
<1>s. /\ Shape(t) /\ DupShape(t) /\ HasNode(t) /\ LockHeld(t)
      /\ fd[t] = NIL /\ then[t] = "idle" /\ NIL # t
  BY <1>1, <1>2, TableAssumption DEF TableInv, Shape
<1>3. TableTypeOK'
  <2>1. mine' \in [Task -> Seq(Entry)]  BY <1>1, <1>2 DEF TableTypeOK
  <2>2. lock1' \in [Entry -> Task \cup {NIL}]  BY <1>1, <1>2 DEF TableTypeOK
  <2>. QED  BY <1>1, <1>2, <2>1, <2>2 DEF TableTypeOK
<1>4. /\ Only(t) /\ tablePc'[t] = l /\ mine'[t] = <<e>>
      /\ lock1'[e] = IF l = "block" THEN NIL ELSE t
      /\ \A f \in Entry : f # e => lock1'[f] = lock1[f]
  BY <1>1, <1>2 DEF Only, TableTypeOK
<1>6. InTable(t, i, e)
  BY <1>1, <1>e DEF InTable, Stale
<1>7. lock0[e] = 1
  BY <1>6, ReferredEntry DEF Refers
<1>8. \A j \in Fd, f \in Entry : InTable(t, j, f)' <=> InTable(t, j, f)
  BY <1>1, <1>4 DEF InTable, Stale
<1>9. \A k \in {1, 2}, f \in Entry : InHand(t, k, f)' <=> InHand(t, k, f)
  BY <1>1, <1>4 DEF InHand
<1>o. /\ \A u \in Task, j \in Fd, f \in Entry : InTable(u, j, f)' <=> InTable(u, j, f)
      /\ \A u \in Task, k \in {1, 2}, f \in Entry : InHand(u, k, f)' <=> InHand(u, k, f)
  BY <1>4, <1>8, <1>9, Elsewhere
<1>g. \A u \in Task, f \in Entry : Going(u, f)' <=> Going(u, f)
  <2>1. \A f \in Entry : ~Going(t, f)' /\ ~Going(t, f)  BY <1>1, <1>4 DEF Going
  <2>. QED  BY <2>1, <1>4, Elsewhere
<1>10. ASSUME NEW f \in Entry PROVE TableCounts(f)'
  <2>1. TableCounts(f)  BY DEF TableInv
  <2>. QED  BY <2>1, <1>1, <1>o, CountSame
<1>11. ASSUME NEW f \in Entry PROVE EntryFree(f)' /\ EntryKept(f)' /\ EntryGoing(f)'
  <2>1. EntryFree(f) /\ EntryKept(f) /\ EntryGoing(f)  BY DEF TableInv
  <2>2. EntryFree(f)'  BY <2>1, <1>1, <1>4, <1>7 DEF EntryFree
  <2>3. EntryKept(f)'  BY <2>1, <1>1, <1>g DEF EntryKept
  <2>4. EntryGoing(f)'  BY <2>1, <1>1, <1>g DEF EntryGoing
  <2>. QED  BY <2>2, <2>3, <2>4
<1>12. \A u \in Task : u # t =>
         LockHeld(u)' /\ HasNode(u)' /\ Using(u)' /\ OpensAlone(u)' /\ Shape(u)' /\ DupShape(u)'
  <2>1. \A f \in Entry : lock1'[f] = lock1[f] \/ (lock1[f] \in {NIL, t} /\ lock1'[f] \in {NIL, t})
    BY <1>1, <1>4
  <2>2. \A f \in Entry : Refers(t, f)' => Refers(t, f)
    BY <1>8, <1>9 DEF Refers
  <2>. QED  BY <1>1, <1>4, <2>1, <2>2, OthersKeep
<1>13. LockHeld(t)'
  <2>1. \A f \in Entry : lock1'[f] = t => l = "io" /\ f = e
    BY <1>1, <1>4, <1>s DEF LockHeld
  <2>. QED  BY <2>1, <1>1, <1>4 DEF LockHeld
<1>14. HasNode(t)'
  BY <1>1, <1>4, <1>8, <1>s DEF HasNode
<1>15. Shape(t)' /\ DupShape(t)'
  BY <1>1, <1>4, <1>s DEF Shape, DupShape
<1>16. Using(t)' /\ OpensAlone(t)'
  BY <1>1, <1>4, <1>e DEF Using, OpensAlone
<1>17. \A u \in Task : ChildShape(u)' /\ Dead(u)'
  BY <1>1, <1>4, ChildKeeps
<1>. QED  BY <1>3, <1>10, <1>11, <1>12, <1>13, <1>14, <1>15, <1>16, <1>17 DEF TableInv

\* ... and after it.
LEMMA FileUseDoneKeeps ==
  ASSUME TableInv, NEW t \in Task, FileUseDone(t)
  PROVE  TableInv'
<1>1. /\ tablePc[t] \in {"io", "block"}
      /\ lock1' = [e \in Entry |-> IF lock1[e] = t THEN NIL ELSE lock1[e]]
      /\ mine' = [mine EXCEPT ![t] = <<>>]
      /\ tablePc' = [tablePc EXCEPT ![t] = "idle"]
      /\ UNCHANGED <<lock0, tableCount, tableNode, alive, table, fd, then, tableDup, child>>
  BY DEF FileUseDone, Goto
<1>2. TableTypeOK  BY DEF TableInv
<1>s. /\ Shape(t) /\ DupShape(t) /\ HasNode(t) /\ LockHeld(t)
      /\ fd[t] = NIL /\ then[t] = "idle" /\ NIL # t
  BY <1>1, <1>2, TableAssumption DEF TableInv, Shape
<1>3. TableTypeOK'
  <2>1. mine' \in [Task -> Seq(Entry)]  BY <1>1, <1>2 DEF TableTypeOK
  <2>2. lock1' \in [Entry -> Task \cup {NIL}]  BY <1>1, <1>2 DEF TableTypeOK
  <2>. QED  BY <1>1, <1>2, <2>1, <2>2 DEF TableTypeOK
<1>4. /\ Only(t) /\ tablePc'[t] = "idle" /\ Len(mine'[t]) = 0 /\ DOMAIN mine'[t] = {}
      /\ \A f \in Entry : lock1'[f] = IF lock1[f] = t THEN NIL ELSE lock1[f]
  BY <1>1, <1>2 DEF Only, TableTypeOK
<1>5. t \in alive  BY <1>1, Lives
<1>8. \A j \in Fd, f \in Entry : InTable(t, j, f)' <=> InTable(t, j, f)
  BY <1>1, <1>4 DEF InTable, Stale
<1>9. \A k \in {1, 2}, f \in Entry : InHand(t, k, f)' <=> InHand(t, k, f)
  BY <1>1, <1>4 DEF InHand
<1>o. /\ \A u \in Task, j \in Fd, f \in Entry : InTable(u, j, f)' <=> InTable(u, j, f)
      /\ \A u \in Task, k \in {1, 2}, f \in Entry : InHand(u, k, f)' <=> InHand(u, k, f)
  BY <1>4, <1>8, <1>9, Elsewhere
<1>g. \A u \in Task, f \in Entry : Going(u, f)' <=> Going(u, f)
  <2>1. \A f \in Entry : ~Going(t, f)' /\ ~Going(t, f)  BY <1>1, <1>4 DEF Going
  <2>. QED  BY <2>1, <1>4, Elsewhere
<1>10. ASSUME NEW f \in Entry PROVE TableCounts(f)'
  <2>1. TableCounts(f)  BY DEF TableInv
  <2>. QED  BY <2>1, <1>1, <1>o, CountSame
<1>11. ASSUME NEW f \in Entry PROVE EntryFree(f)' /\ EntryKept(f)' /\ EntryGoing(f)'
  <2>1. EntryFree(f) /\ EntryKept(f) /\ EntryGoing(f)  BY DEF TableInv
  <2>2. EntryFree(f)'  BY <2>1, <1>1, <1>4 DEF EntryFree
  <2>3. EntryKept(f)'  BY <2>1, <1>1, <1>g DEF EntryKept
  <2>4. EntryGoing(f)'  BY <2>1, <1>1, <1>g DEF EntryGoing
  <2>. QED  BY <2>2, <2>3, <2>4
<1>12. \A u \in Task : u # t =>
         LockHeld(u)' /\ HasNode(u)' /\ Using(u)' /\ OpensAlone(u)' /\ Shape(u)' /\ DupShape(u)'
  <2>1. \A f \in Entry : lock1'[f] = lock1[f] \/ (lock1[f] \in {NIL, t} /\ lock1'[f] \in {NIL, t})
    BY <1>4
  <2>2. \A f \in Entry : Refers(t, f)' => Refers(t, f)
    BY <1>8, <1>9 DEF Refers
  <2>. QED  BY <1>1, <1>4, <2>1, <2>2, OthersKeep
<1>13. LockHeld(t)'
  BY <1>4, <1>s DEF LockHeld
<1>14. HasNode(t)'
  BY <1>1, <1>4, <1>8, <1>s DEF HasNode
<1>15. Shape(t)' /\ DupShape(t)'
  BY <1>1, <1>4, <1>s DEF Shape, DupShape
<1>16. Using(t)' /\ OpensAlone(t)'
  BY <1>4 DEF Using, OpensAlone
<1>17. \A u \in Task : ChildShape(u)' /\ Dead(u)'
  BY <1>1, <1>4, <1>5, ChildKeeps
<1>. QED  BY <1>3, <1>10, <1>11, <1>12, <1>13, <1>14, <1>15, <1>16, <1>17 DEF TableInv

-----------------------------------------------------------------------------
LEMMA TableStarts == TableInit => TableInv
<1>. SUFFICES ASSUME TableInit PROVE TableInv
  OBVIOUS
<1>0. First \in Task /\ MaxFd \in Nat /\ NIL \notin Task /\ NIL \notin Entry /\ NIL \notin Fd
  BY TableAssumption
<1>1. TableTypeOK
  <2>1. mine \in [Task -> Seq(Entry)]  BY DEF TableInit
  <2>2. child \in [Task -> [to : Task \cup {NIL}, i : 0 .. MaxFd]]  BY <1>0 DEF TableInit, NoChild
  <2>3. tableDup \in [Task -> [src : Fd \cup {NIL}, dst : Fd \cup {NIL}]]  BY DEF TableInit, NoDup
  <2>. QED  BY <1>0, <2>1, <2>2, <2>3 DEF TableInit, TableTypeOK
<1>2. \A t \in Task, e \in Entry : /\ \A i \in Fd : ~InTable(t, i, e)
                                   /\ \A k \in {1, 2} : ~InHand(t, k, e)
                                   /\ ~Going(t, e)
  BY <1>0 DEF TableInit, InTable, InHand, Going
<1>3. ASSUME NEW e \in Entry PROVE TableCounts(e) /\ EntryFree(e) /\ EntryKept(e) /\ EntryGoing(e)
  <2>1. InTables(e) = {} /\ InHands(e) = {}  BY <1>2 DEF InTables, InHands
  <2>2. TableCounts(e)  BY <2>1, FS_EmptySet DEF TableCounts, TableInit
  <2>. QED  BY <2>2, <1>2 DEF EntryFree, EntryKept, EntryGoing, TableInit
<1>4. ASSUME NEW t \in Task PROVE LockHeld(t) /\ HasNode(t) /\ Using(t) /\ OpensAlone(t)
  BY <1>0, <1>2 DEF LockHeld, HasNode, Using, OpensAlone, TableInit
<1>5. ASSUME NEW t \in Task PROVE Shape(t) /\ DupShape(t) /\ ChildShape(t) /\ Dead(t)
  BY <1>0 DEF Shape, DupShape, ChildShape, Dead, TableInit, NoChild, NoDup
<1>. QED  BY <1>1, <1>3, <1>4, <1>5 DEF TableInv

LEMMA TableSteps == TableInv /\ TableNext => TableInv'
<1>. SUFFICES ASSUME TableInv, NEW t \in Task,
                     OpenStep(t) \/ CloseStep(t) \/ ShareStep(t) \/ UseStep(t)
              PROVE  TableInv'
  BY DEF TableNext
<1>1. CASE OpenStep(t)
  BY <1>1, FileOpenKeeps, PairKeeps, PairSecondKeeps, FileOpenDoneKeeps, PairNodesKeeps,
     OpenDirectoryKeeps, PairNoEntryKeeps, InstallKeeps, InstallFullKeeps DEF OpenStep
<1>2. CASE CloseStep(t)
  BY <1>2, FileCloseKeeps, DropKeeps, NodeReleaseKeeps, UnlockKeeps, FdClearKeeps,
     TaskExitKeeps, FdReleaseKeeps, FdReleasedKeeps DEF CloseStep
<1>3. CASE ShareStep(t)
  BY <1>3, Dup2Keeps, DupFromKeeps, FdCloneKeeps, FileDupKeeps, FdCloneNextKeeps,
     FdCloneDoneKeeps DEF ShareStep
<1>4. CASE UseStep(t)
  BY <1>4, FileUseKeeps, FileUseDoneKeeps DEF UseStep
<1>. QED  BY <1>1, <1>2, <1>3, <1>4

LEMMA TableStays == TableInv /\ UNCHANGED tableVars => TableInv'
<1>. SUFFICES ASSUME TableInv, UNCHANGED tableVars PROVE TableInv'
  OBVIOUS
<1>0. UNCHANGED <<lock0, lock1, tableCount, tableNode, alive, table, tablePc, mine, fd, then,
                  tableDup, child>>
  BY DEF tableVars, entries, locals
<1>1. TableTypeOK'  BY <1>0 DEF TableInv, TableTypeOK
<1>2. \A t \in Task, e \in Entry : /\ \A i \in Fd : InTable(t, i, e)' <=> InTable(t, i, e)
                                   /\ \A k \in {1, 2} : InHand(t, k, e)' <=> InHand(t, k, e)
                                   /\ Going(t, e)' <=> Going(t, e)
  BY <1>0 DEF InTable, InHand, Going, Stale
<1>3. ASSUME NEW e \in Entry PROVE TableCounts(e)' /\ EntryFree(e)' /\ EntryKept(e)' /\ EntryGoing(e)'
  <2>1. TableCounts(e) /\ EntryFree(e) /\ EntryKept(e) /\ EntryGoing(e)  BY DEF TableInv
  <2>2. TableCounts(e)'  BY <2>1, <1>0, <1>2, CountSame
  <2>. QED  BY <2>1, <2>2, <1>0, <1>2 DEF EntryFree, EntryKept, EntryGoing
<1>4. ASSUME NEW t \in Task PROVE LockHeld(t)' /\ HasNode(t)' /\ Using(t)' /\ OpensAlone(t)'
  <2>1. LockHeld(t) /\ HasNode(t) /\ Using(t) /\ OpensAlone(t)  BY DEF TableInv
  <2>2. LockHeld(t)' /\ Using(t)'  BY <2>1, <1>0 DEF LockHeld, Using
  <2>3. HasNode(t)'  BY <2>1, <1>0, <1>2 DEF HasNode
  <2>4. OpensAlone(t)'
    <3>1. SUFFICES ASSUME tablePc[t] = "open" PROVE OpensAlone(t)'
      BY <1>0 DEF OpensAlone
    <3>2. Len(mine[t]) = 1 /\ mine[t] \in Seq(Entry)
      BY <3>1 DEF TableInv, Shape, TableTypeOK
    <3>3. mine[t][1] \in Entry  BY <3>2, MineIs
    <3>. QED  BY <2>1, <3>3, <1>0, <1>2 DEF OpensAlone
  <2>. QED  BY <2>2, <2>3, <2>4
<1>5. ASSUME NEW t \in Task PROVE Shape(t)' /\ DupShape(t)' /\ ChildShape(t)' /\ Dead(t)'
  <2>1. Shape(t) /\ DupShape(t) /\ ChildShape(t) /\ Dead(t)  BY DEF TableInv
  <2>. QED  BY <2>1, <1>0 DEF Shape, DupShape, ChildShape, Dead
<1>. QED  BY <1>1, <1>3, <1>4, <1>5 DEF TableInv

LEMMA TableRight ==
  TableInv => CountIsReferences /\ AllocatedFresh /\ NodeWhileUsed /\ NoEntryLost
<1>. SUFFICES ASSUME TableInv PROVE CountIsReferences /\ AllocatedFresh /\ NodeWhileUsed /\ NoEntryLost
  OBVIOUS
<1>0. TableTypeOK  BY DEF TableInv
<1>1. CountIsReferences  BY DEF TableInv, TableCounts, CountIsReferences
<1>2. AllocatedFresh  BY DEF TableInv, EntryFree, AllocatedFresh
<1>3. ASSUME NEW t \in Task, tablePc[t] \in {"io", "block"} PROVE tableNode[Head(mine[t])]
  <2>1. Len(mine[t]) = 1 /\ mine[t] \in Seq(Entry) /\ Using(t) /\ HasNode(t)
    BY <1>0, <1>3 DEF TableInv, Shape, TableTypeOK
  <2>2. PICK e \in Entry : e = mine[t][1] /\ e = Head(mine[t])  BY <2>1, MineIs
  <2>3. PICK i \in Fd : table[t][i] = e  BY <2>1, <2>2, <1>3 DEF Using
  <2>4. InTable(t, i, e)  BY <2>3, <1>3 DEF InTable, Stale
  <2>. QED  BY <2>1, <2>2, <2>4 DEF HasNode
<1>4. ASSUME NEW t \in Task, NEW i \in Fd, table[t][i] # NIL, i \notin Stale(t)
      PROVE  tableNode[table[t][i]]
  <2>1. table[t][i] \in Entry  BY <1>0, <1>4 DEF TableTypeOK
  <2>2. InTable(t, i, table[t][i])  BY <1>4 DEF InTable
  <2>. QED  BY <2>1, <2>2 DEF TableInv, HasNode
<1>5. ASSUME NEW e \in Entry, lock0[e] = 1
      PROVE  \/ InTables(e) # {} \/ InHands(e) # {}
             \/ \E t \in Task : tablePc[t] \in {"release", "unlock"} /\ Head(mine[t]) = e
  <2>1. EntryKept(e) /\ TableCounts(e)  BY DEF TableInv
  <2>2. CASE tableCount[e] > 0  BY <2>1, <2>2, CountedAll
  <2>3. ASSUME NEW t \in Task, Going(t, e)
        PROVE  tablePc[t] \in {"release", "unlock"} /\ Head(mine[t]) = e
    <3>1. Len(mine[t]) \in {1, 2} /\ mine[t] \in Seq(Entry)
      BY <1>0, <2>3 DEF TableInv, Shape, TableTypeOK, Going
    <3>. QED  BY <3>1, <2>3, MineIs DEF Going
  <2>. QED  BY <2>1, <2>2, <2>3, <1>5 DEF EntryKept
<1>6. NodeWhileUsed  BY <1>3, <1>4 DEF NodeWhileUsed
<1>7. NoEntryLost  BY <1>5 DEF NoEntryLost
<1>. QED  BY <1>1, <1>2, <1>6, <1>7

-----------------------------------------------------------------------------
(***************************************************************************)
(* The tree of the virtual file system. The invariant TreeInv says that    *)
(* the tree has no gaps, that what is in it is counted exactly, and that a *)
(* node that waits to be mounted is not in it.                             *)
(***************************************************************************)
\* The users of n, when hd says who holds what.
UsersOf(hd, n) == {t \in Users : hd[t] = n}

\* The tree hangs together, nobody holds what is not in it, and what is in it
\* is counted exactly.  at, nd and hd are treeAt, treeNode and hold.
RootStays(at, nd) == at[Root] # NONE /\ nd[at[Root]].mount_state = 1
AtOnce(at) == \A p, q \in Path : at[p] # NONE /\ at[p] = at[q] => p = q
NoGap(at) == \A p \in Path \ {Root} : at[p] # NONE => at[SubSeq(p, 1, Len(p) - 1)] # NONE
HeldInTree(at, hd) == \A t \in Users : hd[t] # NONE => \E p \in Path : at[p] = hd[t]
NodeCounted(nd, hd, n) ==
  /\ nd[n].count = Cardinality(UsersOf(hd, n)) + 1 /\ nd[n].n_release
  /\ nd[n].mount_state = 0 => nd[n].tree_state = Cardinality(UsersOf(hd, n))
Sound(at, nd, hd) ==
  /\ RootStays(at, nd) /\ AtOnce(at) /\ NoGap(at) /\ HeldInTree(at, hd)
  /\ \A p \in Path : at[p] # NONE => NodeCounted(nd, hd, at[p])

\* A node below the root has a reason to be there.
Needed(at, nd, hd, p) ==
  \/ Children(at, p) # {} \/ nd[at[p]].mount_state = 1 \/ Cardinality(UsersOf(hd, at[p])) > 0
Tidy(at, nd, hd) == \A p \in Path \ {Root} : at[p] # NONE => Needed(at, nd, hd, p)

\* What is on the volume is what was opened; dk is disk.
ForeignIn(at, nd, p) ==
  \E q \in Prefixes(p) \ {Root, p} : at[q] # NONE /\ nd[at[q]].mount_state = 1
OnDisk(at, nd, dk) ==
  \A p \in Path : at[p] # NONE /\ nd[at[p]].mount_state = 0 /\ ~ForeignIn(at, nd, p) =>
    dk[p] = nd[at[p]].type

\* An exclusive file has one user who does more than look; pc is treePc.
OneUser(nd, hd, pc) ==
  \A n \in Nodes : nd[n].exclusive /\ nd[n].type = "file" =>
    \A t, u \in Users : hd[t] = n /\ hd[u] = n /\ pc[t] # "stat_only" /\ pc[u] # "stat_only" => t = u
\* A mounted node is not exclusive.
MountShared(at, nd) == \A p \in Path : at[p] # NONE /\ nd[at[p]].mount_state = 1 => ~nd[at[p]].exclusive

\* A node that waits to be mounted is the driver's alone; new is treeNew.
Waits(at, nd, new) ==
  /\ \A t \in Users, p \in Path : new[t] # NONE => at[p] # new[t]
  /\ \A t, u \in Users : new[t] # NONE /\ new[t] = new[u] => t = u
  /\ \A t \in Users : new[t] # NONE =>
       nd[new[t]].count = 1 /\ nd[new[t]].mount_state = 0 /\ ~nd[new[t]].exclusive

\* What a task has where it is.
Places(hd, new, pc) ==
  \A t \in Users : (pc[t] # "idle" => hd[t] # NONE) /\ (pc[t] = "mount" => new[t] # NONE)

\* The parts of the invariant.
TreeParts(at, nd, hd, dk, pc, new) ==
  /\ Sound(at, nd, hd) /\ Tidy(at, nd, hd) /\ OnDisk(at, nd, dk)
  /\ OneUser(nd, hd, pc) /\ MountShared(at, nd) /\ Waits(at, nd, new)
TreeInv ==
  /\ VfsTypeOK
  /\ TreeParts(treeAt, treeNode, hold, disk, treePc, treeNew)
  /\ Places(hold, treeNew, treePc)

-----------------------------------------------------------------------------
\* Paths and their prefixes.
LEMMA PathIs ==
  ASSUME NEW p \in Path
  PROVE  /\ p \in Seq(Names) /\ Len(p) \in Nat /\ DOMAIN p = 1 .. Len(p)
         /\ SubSeq(p, 1, Len(p)) = p /\ SubSeq(p, 1, 0) = Root
         /\ Len(p) = 0 <=> p = Root
         /\ \A k \in 0 .. Len(p) : SubSeq(p, 1, k) \in Path /\ Len(SubSeq(p, 1, k)) = k
<1>1. p \in Seq(Names)
  BY VfsAssumption
<1>2. Len(p) \in Nat /\ DOMAIN p = 1 .. Len(p)
  BY <1>1
<1>3. SubSeq(p, 1, Len(p)) = p /\ SubSeq(p, 1, 0) = Root
  BY <1>1, <1>2 DEF Root
<1>4. Len(p) = 0 <=> p = Root
  BY <1>1 DEF Root
<1>5. \A k \in 0 .. Len(p) : SubSeq(p, 1, k) \in Path
  BY VfsAssumption, Zenon DEF Prefixes
<1>6. \A k \in 0 .. Len(p) : Len(SubSeq(p, 1, k)) = k
  BY <1>1, <1>2
<1>. QED BY <1>1, <1>2, <1>3, <1>4, <1>5, <1>6

LEMMA PrefixOfPrefix ==
  ASSUME NEW p \in Path, NEW k \in 0 .. Len(p), NEW j \in 0 .. k
  PROVE  SubSeq(SubSeq(p, 1, k), 1, j) = SubSeq(p, 1, j)
<1>1. p \in Seq(Names)
  BY VfsAssumption
<1>. QED BY <1>1

LEMMA PrefixIs ==
  ASSUME NEW p \in Path
  PROVE  /\ \A q \in Prefixes(p) : q \in Path /\ Len(q) \in 0 .. Len(p) /\ q = SubSeq(p, 1, Len(q))
         /\ \A k \in 0 .. Len(p) : SubSeq(p, 1, k) \in Prefixes(p)
         /\ p \in Prefixes(p) /\ Root \in Prefixes(p) /\ Root \in Path
<1>1. \A k \in 0 .. Len(p) : SubSeq(p, 1, k) \in Prefixes(p)
  BY Zenon DEF Prefixes
<1>2. ASSUME NEW q \in Prefixes(p) PROVE q \in Path /\ Len(q) \in 0 .. Len(p) /\ q = SubSeq(p, 1, Len(q))
  <2>1. PICK k \in 0 .. Len(p) : q = SubSeq(p, 1, k)
    BY <1>2, Zenon DEF Prefixes
  <2>2. Len(q) = k /\ q \in Path
    BY <2>1, PathIs, Zenon
  <2>. QED BY <2>1, <2>2, Zenon
<1>3. Len(p) \in 0 .. Len(p) /\ 0 \in 0 .. Len(p)
  BY PathIs
<1>4. p \in Prefixes(p) /\ Root \in Prefixes(p)
  BY <1>1, <1>3, PathIs, Zenon
<1>5. Root \in Path
  BY VfsAssumption
<1>. QED BY <1>1, <1>2, <1>4, <1>5, Zenon

\* Prefixes of one path are prefixes of each other.
LEMMA PrefixOrder ==
  ASSUME NEW p \in Path, NEW q \in Prefixes(p)
  PROVE  /\ Prefixes(q) \subseteq Prefixes(p)
         /\ \A r \in Prefixes(p) : Len(r) <= Len(q) => r \in Prefixes(q)
         /\ \A r \in Prefixes(p) : Len(r) = Len(q) => r = q
<1>1. q \in Path /\ Len(q) \in 0 .. Len(p) /\ q = SubSeq(p, 1, Len(q)) /\ Len(p) \in Nat
  BY PrefixIs, PathIs, Zenon
<1>2. ASSUME NEW r \in Prefixes(q) PROVE r \in Prefixes(p)
  <2>1. r \in Path /\ Len(r) \in 0 .. Len(q) /\ r = SubSeq(q, 1, Len(r))
    BY <1>1, <1>2, PrefixIs, Zenon
  <2>2. r = SubSeq(p, 1, Len(r))
    BY <1>1, <2>1, PrefixOfPrefix, Zenon
  <2>3. Len(r) \in 0 .. Len(p)
    BY <1>1, <2>1
  <2>. QED BY <2>2, <2>3, Zenon DEF Prefixes
<1>3. ASSUME NEW r \in Prefixes(p), Len(r) <= Len(q) PROVE r \in Prefixes(q)
  <2>1. r \in Path /\ Len(r) \in 0 .. Len(p) /\ r = SubSeq(p, 1, Len(r))
    BY PrefixIs, Zenon
  <2>2. Len(r) \in 0 .. Len(q)
    BY <1>1, <1>3, <2>1
  <2>3. r = SubSeq(q, 1, Len(r))
    BY <1>1, <2>1, <2>2, PrefixOfPrefix, Zenon
  <2>. QED BY <2>2, <2>3, Zenon DEF Prefixes
<1>4. \A r \in Prefixes(p) : Len(r) = Len(q) => r = q
  BY <1>1, PrefixIs, Zenon
<1>. QED BY <1>2, <1>3, <1>4, Zenon

\* The directory a path is in.
Parent(p) == SubSeq(p, 1, Len(p) - 1)
LEMMA ParentIs ==
  ASSUME NEW p \in Path, p # Root
  PROVE  /\ Parent(p) \in Prefixes(p) /\ Parent(p) \in Path
         /\ Len(Parent(p)) = Len(p) - 1 /\ Len(p) \in Nat /\ Len(p) > 0 /\ Parent(p) # p
         /\ \A q \in Prefixes(p) : q # p => q \in Prefixes(Parent(p))
<1>1. Len(p) \in Nat /\ Len(p) > 0 /\ Len(p) - 1 \in 0 .. Len(p)
  BY PathIs
<1>2. Parent(p) \in Prefixes(p) /\ Parent(p) \in Path /\ Len(Parent(p)) = Len(p) - 1
  BY <1>1, PrefixIs, PathIs, Zenon DEF Parent
<1>3. Parent(p) # p
  BY <1>1, <1>2
<1>4. ASSUME NEW q \in Prefixes(p), q # p PROVE q \in Prefixes(Parent(p))
  <2>1. Len(q) \in 0 .. Len(p) /\ q \in Path
    BY PrefixIs, Zenon
  <2>2. Len(q) # Len(p)
    BY <1>4, PrefixOrder, PrefixIs, Zenon
  <2>3. Len(q) <= Len(Parent(p))
    BY <1>1, <1>2, <2>1, <2>2
  <2>. QED BY <1>2, <2>3, PrefixOrder, Zenon
<1>. QED BY <1>1, <1>2, <1>3, <1>4, Zenon

\* The children of a path are those whose parent it is.
LEMMA ChildIs ==
  ASSUME NEW at, NEW p \in Path, NEW q \in Path
  PROVE  q \in Children(at, p) <=> q # Root /\ Parent(q) = p /\ at[q] # NONE
<1>1. Len(p) \in Nat /\ Len(q) \in Nat
  BY PathIs, Zenon
<1>2. ASSUME Len(q) = Len(p) + 1, p \in Prefixes(q) PROVE q # Root /\ Parent(q) = p
  <2>1. q # Root
    BY <1>1, <1>2, PathIs
  <2>2. Len(p) = Len(q) - 1
    BY <1>1, <1>2
  <2>3. p = SubSeq(q, 1, Len(p))
    BY <1>2, PrefixIs, Zenon
  <2>. QED BY <2>1, <2>2, <2>3, Zenon DEF Parent
<1>3. ASSUME q # Root, Parent(q) = p PROVE Len(q) = Len(p) + 1 /\ p \in Prefixes(q)
  <2>1. Parent(q) \in Prefixes(q) /\ Len(Parent(q)) = Len(q) - 1
    BY <1>3, ParentIs, Zenon
  <2>2. Len(q) = Len(p) + 1
    BY <1>1, <1>3, <2>1
  <2>. QED BY <1>3, <2>1, <2>2, Zenon
<1>. QED BY <1>2, <1>3, Zenon DEF Children

-----------------------------------------------------------------------------
\* The users of a node, when one comes or goes.
Holder == [Users -> Nodes \cup {NONE}]
LEMMA UsersFinite ==
  ASSUME NEW hd, NEW n
  PROVE  /\ IsFiniteSet(UsersOf(hd, n)) /\ Cardinality(UsersOf(hd, n)) \in Nat
         /\ Cardinality(UsersOf(hd, n)) = 0 <=> UsersOf(hd, n) = {}
<1>1. UsersOf(hd, n) \in SUBSET Users
  BY DEF UsersOf
<1>2. IsFiniteSet(UsersOf(hd, n))
  BY <1>1, VfsAssumption, FS_Subset
<1>. QED BY <1>2, FS_CardinalityType, FS_EmptySet

LEMMA UsersTake ==
  ASSUME NEW hd \in Holder, NEW hd2 \in Holder, NEW t \in Users, NEW n \in Nodes,
         hd[t] = NONE, hd2 = [hd EXCEPT ![t] = n]
  PROVE  /\ Cardinality(UsersOf(hd2, n)) = Cardinality(UsersOf(hd, n)) + 1
         /\ \A m \in Nodes : m # n => UsersOf(hd2, m) = UsersOf(hd, m)
<1>1. NONE \notin Nodes
  BY VfsAssumption
<1>2. UsersOf(hd2, n) = UsersOf(hd, n) \cup {t} /\ t \notin UsersOf(hd, n)
  BY <1>1 DEF UsersOf, Holder
<1>3. \A m \in Nodes : m # n => UsersOf(hd2, m) = UsersOf(hd, m)
  BY <1>1 DEF UsersOf, Holder
<1>4. Cardinality(UsersOf(hd2, n)) = Cardinality(UsersOf(hd, n)) + 1
  BY <1>2, UsersFinite, FS_AddElement
<1>. QED BY <1>3, <1>4

LEMMA UsersDrop ==
  ASSUME NEW hd \in Holder, NEW hd2 \in Holder, NEW t \in Users, NEW n \in Nodes,
         hd[t] = n, hd2 = [hd EXCEPT ![t] = NONE]
  PROVE  /\ Cardinality(UsersOf(hd, n)) > 0
         /\ Cardinality(UsersOf(hd2, n)) = Cardinality(UsersOf(hd, n)) - 1
         /\ \A m \in Nodes : m # n => UsersOf(hd2, m) = UsersOf(hd, m)
<1>1. NONE \notin Nodes
  BY VfsAssumption
<1>2. UsersOf(hd2, n) = UsersOf(hd, n) \ {t} /\ t \in UsersOf(hd, n)
  BY <1>1 DEF UsersOf, Holder
<1>3. \A m \in Nodes : m # n => UsersOf(hd2, m) = UsersOf(hd, m)
  BY <1>1 DEF UsersOf, Holder
<1>4. Cardinality(UsersOf(hd2, n)) = Cardinality(UsersOf(hd, n)) - 1
  BY <1>2, UsersFinite, FS_RemoveElement
<1>5. Cardinality(UsersOf(hd, n)) > 0
  BY <1>2, UsersFinite
<1>. QED BY <1>3, <1>4, <1>5

-----------------------------------------------------------------------------
\* The last number of a set that is bounded.
LEMMA LastNat ==
  ASSUME NEW S, S \subseteq Nat, NEW b \in Nat, \A m \in S : m <= b, S # {}
  PROVE  \E n \in S : \A m \in S : m <= n
<1>. DEFINE T == {b - m : m \in S}
<1>1. T \subseteq Nat /\ T # {}
  <2>1. ASSUME NEW m \in S PROVE b - m \in Nat
    OBVIOUS
  <2>2. T \subseteq Nat
    BY <2>1, Zenon
  <2>3. T # {}
    BY Zenon
  <2>. QED BY <2>2, <2>3
<1>2. PICK k \in T : \A j \in T : k <= j
  BY <1>1, LeastNat
<1>3. PICK n \in S : k = b - n
  BY <1>2
<1>4. \A m \in S : b - n <= b - m
  BY <1>2, <1>3
<1>5. \A m \in S : m <= n
  BY <1>4
<1>. QED BY <1>5

\* As many unused structures as there are can be told apart.
LEMMA FreeFinite ==
  /\ Free \subseteq Nodes /\ Nodes \subseteq Nat /\ IsFiniteSet(Free) /\ Cardinality(Free) \in Nat
  /\ \A n \in Free : n <= NodeCount
<1>1. Free \subseteq Nodes /\ Nodes \subseteq Nat /\ \A n \in Free : n <= NodeCount
  BY VfsAssumption DEF Free, Nodes
<1>2. IsFiniteSet(Nodes)
  BY VfsAssumption, FS_Interval DEF Nodes
<1>3. IsFiniteSet(Free)
  BY <1>1, <1>2, FS_Subset
<1>. QED BY <1>1, <1>3, FS_CardinalityType

Below(n) == {m \in Free : m < n}
LEMMA BelowIs ==
  ASSUME NEW n
  PROVE  IsFiniteSet(Below(n)) /\ Cardinality(Below(n)) \in Nat /\ Below(n) \subseteq Free
<1>1. Below(n) \in SUBSET Free
  BY DEF Below
<1>. QED BY <1>1, FreeFinite, FS_Subset, FS_CardinalityType

LEMMA UnusedIs ==
  /\ \A i \in 1 .. Cardinality(Free) : Unused(i) \in Free
  /\ \A i, j \in 1 .. Cardinality(Free) : Unused(i) = Unused(j) => i = j
<1>1. ASSUME NEW i \in 1 .. Cardinality(Free)
      PROVE  Unused(i) \in Free /\ Cardinality(Below(Unused(i))) = i - 1
  <2>. DEFINE S == {n \in Free : Cardinality(Below(n)) >= i - 1}
  <2>0. Cardinality(Free) \in Nat /\ Cardinality(Free) >= i /\ i \in Nat /\ i >= 1
    BY FreeFinite
  <2>1. Free # {}
    BY <2>0, FreeFinite, FS_EmptySet
  <2>2. PICK n \in Free : \A m \in Free : m <= n
    BY <2>1, FreeFinite, LastNat, VfsAssumption
  <2>3. Below(n) = Free \ {n}
    <3>1. \A m \in Free : m \in Nat
      BY FreeFinite
    <3>2. \A m \in Free : m < n <=> m # n
      BY <2>2, <3>1
    <3>. QED BY <3>2 DEF Below
  <2>4. Cardinality(Below(n)) = Cardinality(Free) - 1
    BY <2>2, <2>3, FreeFinite, FS_RemoveElement
  <2>5. n \in S
    BY <2>0, <2>2, <2>4
  <2>6. S \subseteq Nat
    BY FreeFinite
  <2>7. PICK k \in S : \A m \in S : k <= m
    BY <2>5, <2>6, LeastNat
  <2>8. k \in Free /\ Cardinality(Below(k)) >= i - 1 /\ Cardinality(Below(k)) \in Nat /\ k \in Nat
    BY <2>7, BelowIs, FreeFinite
  <2>9. Cardinality(Below(k)) <= i - 1
    <3>. SUFFICES ASSUME Cardinality(Below(k)) > i - 1 PROVE FALSE
      BY <2>0, <2>8
    <3>0. Below(k) # {}
      <4>1. Cardinality(Below(k)) # 0
        BY <2>0, <2>8
      <4>. QED BY <4>1, FS_EmptySet
    <3>1. Below(k) # {} /\ Below(k) \subseteq Nat /\ \A m \in Below(k) : m <= k
      <4>1. \A m \in Free : m \in Nat
        BY FreeFinite
      <4>2. \A m \in Below(k) : m \in Free /\ m < k
        BY DEF Below
      <4>3. ASSUME NEW m \in Below(k) PROVE m \in Nat /\ m <= k
        <5>1. m \in Nat /\ m < k /\ k \in Nat
          BY <2>8, <4>1, <4>2, Zenon
        <5>. QED BY <5>1
      <4>. QED BY <3>0, <4>3
    <3>2. PICK j \in Below(k) : \A m \in Below(k) : m <= j
      BY <2>8, <3>1, LastNat
    <3>3. j \in Free /\ j < k /\ j \in Nat
      BY <3>1, <3>2 DEF Below
    <3>4. Below(j) = Below(k) \ {j}
      <4>1. \A m \in Free : m \in Nat
        BY FreeFinite
      <4>2. \A m \in Free : m < k /\ m # j => m < j
        BY <3>2, <3>3, <4>1 DEF Below
      <4>3. \A m \in Free : m < j => m < k /\ m # j
        BY <2>8, <3>3, <4>1
      <4>. QED BY <4>2, <4>3 DEF Below
    <3>5. Cardinality(Below(j)) = Cardinality(Below(k)) - 1
      BY <3>2, <3>4, BelowIs, FS_RemoveElement
    <3>6. j \in S
      BY <2>0, <2>8, <3>3, <3>5
    <3>. QED BY <2>7, <2>8, <3>3, <3>6
  <2>10. Cardinality(Below(k)) = i - 1
    BY <2>0, <2>8, <2>9
  <2>11. Cardinality({m \in Free : m < k}) = i - 1
    BY <2>10 DEF Below
  <2>12. Unused(i) \in Free /\ Cardinality({m \in Free : m < Unused(i)}) = i - 1
    BY <2>8, <2>11, Zenon DEF Unused
  <2>. QED BY <2>12 DEF Below
<1>. QED BY <1>1, FreeFinite

-----------------------------------------------------------------------------
\* find_node finds the longest prefix that is in the tree.
LEMMA FoundIs ==
  ASSUME treeAt[Root] # NONE, NEW p \in Path
  PROVE  /\ VfsFound(p) \in 0 .. Len(p)
         /\ treeAt[SubSeq(p, 1, VfsFound(p))] # NONE
         /\ \A j \in 0 .. Len(p) : treeAt[SubSeq(p, 1, j)] # NONE => j <= VfsFound(p)
<1>. DEFINE S == {k \in 0 .. Len(p) : treeAt[SubSeq(p, 1, k)] # NONE}
<1>1. Len(p) \in Nat /\ SubSeq(p, 1, 0) = Root
  BY PathIs
<1>2. 0 \in S
  <2>1. 0 \in 0 .. Len(p)
    BY <1>1
  <2>. QED BY <1>1, <2>1, Zenon
<1>3. S \subseteq Nat /\ \A m \in S : m <= Len(p)
  BY <1>1
<1>4. PICK n \in S : \A m \in S : m <= n
  <2>. HIDE DEF S
  <2>. QED BY <1>1, <1>2, <1>3, LastNat
<1>5. \E k \in 0 .. Len(p) : treeAt[SubSeq(p, 1, k)] # NONE /\ \A j \in 0 .. Len(p) : treeAt[SubSeq(p, 1, j)] # NONE => j <= k
  BY <1>4
<1>. QED BY <1>5, Zenon DEF VfsFound

-----------------------------------------------------------------------------
\* A tree, and its nodes.
Trees == [Path -> Nodes \cup {NONE}]
NodeStates == [count : Nat, tree_state : Nat, mount_state : {0, 1},
               n_release : BOOLEAN, exclusive : BOOLEAN, type : {"dir", "file"}]
Records == [Nodes -> NodeStates]

\* A tree without gaps has every directory above what it has.
LEMMA AboveInTree ==
  ASSUME NEW at, NoGap(at), NEW p \in Path, at[p] # NONE, NEW q \in Prefixes(p)
  PROVE  at[q] # NONE
<1>. DEFINE S == {k \in 0 .. Len(p) : at[SubSeq(p, 1, k)] = NONE}
<1>. SUFFICES ASSUME at[q] = NONE PROVE FALSE
  OBVIOUS
<1>1. Len(p) \in Nat /\ q \in Path /\ Len(q) \in 0 .. Len(p) /\ q = SubSeq(p, 1, Len(q))
  BY PathIs, PrefixIs, Zenon
<1>2. Len(q) \in S
  BY <1>1, Zenon
<1>3. S \subseteq Nat /\ \A m \in S : m <= Len(p)
  BY <1>1
<1>4. PICK k \in S : \A m \in S : m <= k
  <2>. HIDE DEF S
  <2>. QED BY <1>1, <1>2, <1>3, LastNat
<1>5. k \in 0 .. Len(p) /\ at[SubSeq(p, 1, k)] = NONE
  BY <1>4
<1>6. k # Len(p)
  BY <1>5, PathIs, Zenon
<1>7. k + 1 \in 0 .. Len(p) /\ k \in 0 .. k + 1 /\ (k + 1) - 1 = k /\ ~(k + 1 <= k) /\ k + 1 # 0
  BY <1>1, <1>5, <1>6
<1>8. k + 1 \notin S
  BY <1>4, <1>7
<1>. DEFINE r == SubSeq(p, 1, k + 1)
<1>9. r \in Path /\ Len(r) = k + 1 /\ at[r] # NONE
  BY <1>7, <1>8, PathIs, Zenon
<1>10. r # Root
  BY <1>7, <1>9, PathIs, Zenon
<1>11. SubSeq(r, 1, Len(r) - 1) = SubSeq(p, 1, k)
  BY <1>7, <1>9, PrefixOfPrefix, Zenon
<1>. QED BY <1>5, <1>9, <1>10, <1>11, Zenon DEF NoGap

-----------------------------------------------------------------------------
(***************************************************************************)
(* Removing directories nobody needs.                                      *)
(***************************************************************************)
\* A tree with less in it: what is left is as it was.
Less(at, nd, at2, nd2) ==
  /\ \A q \in Path : at2[q] = at[q] \/ at2[q] = NONE
  /\ \A q \in Path : at2[q] # NONE => nd2[at[q]] = nd[at[q]]
  /\ \A q \in Path : at[q] # NONE /\ at2[q] = NONE => nd[at[q]].mount_state = 0
  /\ \A n \in Nodes : (\A q \in Path : at[q] # n) => nd2[n] = nd[n]
  /\ \A n \in Nodes : nd2[n].exclusive = nd[n].exclusive /\ nd2[n].type = nd[n].type

Pruned(at, nd, p, at2, nd2) ==
  /\ at2 = [q \in Path |-> IF q \in Doomed(at, nd, p) THEN NONE ELSE at[q]]
  /\ nd2 = [n \in Nodes |-> IF n \in {at[q] : q \in Doomed(at, nd, p)}
                              THEN [Decrement(nd[n]) EXCEPT !.n_release = FALSE] ELSE nd[n]]

LEMMA DoomedIs ==
  ASSUME NEW at \in Trees, NEW nd \in Records, NEW hd \in Holder, NEW p \in Path, at[p] # NONE,
         Sound(at, nd, hd), NEW q \in Doomed(at, nd, p)
  PROVE  /\ q \in Prefixes(p) /\ q # Root /\ q \in Path /\ at[q] \in Nodes
         /\ Cardinality(UsersOf(hd, at[q])) = 0
         /\ nd[at[q]].count = 1 /\ nd[at[q]].tree_state = 0 /\ nd[at[q]].mount_state = 0
         /\ Children(at, q) \subseteq Prefixes(p)
         /\ \A r \in Prefixes(p) : Len(r) >= Len(q) => r \in Doomed(at, nd, p)
<1>1. q \in Prefixes(p) /\ q # Root /\ q \in Path
  BY PrefixIs, Zenon DEF Doomed
<1>2. at[q] \in Nodes
  <2>1. at[q] # NONE
    BY <1>1, AboveInTree, Zenon DEF Sound
  <2>. QED BY <1>1, <2>1 DEF Trees
<1>3. Len(q) \in Nat /\ Len(q) >= Len(q) /\ Len(q) # 0
  BY <1>1, PathIs
<1>4. Idle(nd[at[q]]) /\ Children(at, q) \subseteq Prefixes(p)
  BY <1>1, <1>3, Zenon DEF Doomed
<1>5. NodeCounted(nd, hd, at[q])
  <2>1. at[q] # NONE
    BY <1>1, AboveInTree, Zenon DEF Sound
  <2>. QED BY <1>1, <2>1, Zenon DEF Sound
<1>6. nd[at[q]].tree_state = 0 /\ nd[at[q]].mount_state = 0
  BY <1>4, Zenon DEF Idle
<1>7. Cardinality(UsersOf(hd, at[q])) = 0
  BY <1>5, <1>6, Zenon DEF NodeCounted
<1>8. nd[at[q]].count = 1
  BY <1>5, <1>7 DEF NodeCounted
<1>9. ASSUME NEW r \in Prefixes(p), Len(r) >= Len(q) PROVE r \in Doomed(at, nd, p)
  <2>1. r \in Path /\ Len(r) \in Nat
    BY PrefixIs, PathIs, Zenon
  <2>2. r # Root
    <3>1. Len(r) # 0
      BY <1>3, <1>9, <2>1
    <3>. QED BY <2>1, <3>1, PathIs, Zenon
  <2>3. ASSUME NEW s \in Prefixes(p), Len(s) >= Len(r) PROVE Idle(nd[at[s]]) /\ Children(at, s) \subseteq Prefixes(p)
    <3>1. Len(s) \in Nat
      BY PrefixIs, PathIs, Zenon
    <3>2. Len(s) >= Len(q)
      BY <1>3, <1>9, <2>1, <2>3, <3>1
    <3>. QED BY <3>2, Zenon DEF Doomed
  <2>. QED BY <2>2, <2>3, Zenon DEF Doomed
<1>. QED BY <1>1, <1>2, <1>4, <1>6, <1>7, <1>8, <1>9, Zenon

LEMMA UnlinkedIs ==
  ASSUME NEW x \in NodeStates, x.count = 1, x.tree_state = 0
  PROVE  LET y == [Decrement(x) EXCEPT !.n_release = FALSE] IN
           y \in NodeStates /\ y.exclusive = x.exclusive /\ y.type = x.type
<1>1. Decrement(x) = [x EXCEPT !.count = 0, !.tree_state = 0]
  BY DEF Decrement, NodeStates
<1>. QED BY <1>1 DEF NodeStates

LEMMA PrunedIs ==
  ASSUME NEW at \in Trees, NEW nd \in Records, NEW hd \in Holder, NEW p \in Path, at[p] # NONE,
         Sound(at, nd, hd), NEW at2, NEW nd2, Pruned(at, nd, p, at2, nd2)
  PROVE  /\ at2 \in Trees /\ nd2 \in Records /\ Less(at, nd, at2, nd2)
         /\ \A q \in Path : at2[q] = NONE <=> at[q] = NONE \/ q \in Doomed(at, nd, p)
<1>. DEFINE D == Doomed(at, nd, p)
<1>1. \A q \in D : q \in Path /\ at[q] \in Nodes
  BY DoomedIs, Zenon
<1>0. \A q \in D : nd[at[q]].count = 1 /\ nd[at[q]].tree_state = 0
  BY DoomedIs
<1>2. ASSUME NEW q \in Path PROVE at2[q] = IF q \in D THEN NONE ELSE at[q]
  BY Zenon DEF Pruned
<1>3. ASSUME NEW n \in Nodes
      PROVE  nd2[n] = IF n \in {at[q] : q \in D} THEN [Decrement(nd[n]) EXCEPT !.n_release = FALSE] ELSE nd[n]
  BY Zenon DEF Pruned
<1>4. at2 \in Trees
  <2>1. \A q \in Path : at[q] \in Nodes \cup {NONE}
    BY DEF Trees
  <2>2. \A q \in Path : at2[q] \in Nodes \cup {NONE}
    BY <1>2, <2>1
  <2>. QED BY <2>2, Zenon DEF Trees, Pruned
<1>5. ASSUME NEW n \in Nodes
      PROVE /\ nd2[n] \in NodeStates
            /\ nd2[n].exclusive = nd[n].exclusive /\ nd2[n].type = nd[n].type
  <2>1. nd[n] \in NodeStates
    BY DEF Records
  <2>2. CASE n \in {at[q] : q \in D}
    <3>0. PICK q \in D : n = at[q]
      BY <2>2
    <3>1. nd[n].count = 1 /\ nd[n].tree_state = 0
      BY <1>0, <3>0, Zenon
    <3>2. nd2[n] = [Decrement(nd[n]) EXCEPT !.n_release = FALSE]
      BY <1>3, <2>2, Zenon
    <3>3. PICK x \in NodeStates : x = nd[n]
      BY <2>1, Zenon
    <3>. QED BY <3>1, <3>2, <3>3, UnlinkedIs, Zenon
  <2>3. CASE n \notin {at[q] : q \in D}
    BY <1>3, <2>1, <2>3
  <2>. QED BY <2>2, <2>3
<1>6. nd2 \in Records
  BY <1>5, Zenon DEF Records, Pruned
<1>7. \A q \in Path : at2[q] = NONE <=> at[q] = NONE \/ q \in D
  BY <1>2, Zenon
<1>8. ASSUME NEW q \in Path, at2[q] # NONE PROVE nd2[at[q]] = nd[at[q]]
  <2>1. q \notin D /\ at[q] # NONE /\ at[q] \in Nodes
    BY <1>2, <1>8 DEF Trees
  <2>2. at[q] \notin {at[r] : r \in D}
    <3>. SUFFICES ASSUME NEW r \in D, at[q] = at[r] PROVE FALSE
      BY Zenon
    <3>1. q = r
      BY <1>1, <2>1, Zenon DEF Sound, AtOnce
    <3>. QED BY <2>1, <3>1, Zenon
  <2>. QED BY <1>3, <2>1, <2>2, Zenon
<1>9. \A q \in Path : at[q] # NONE /\ at2[q] = NONE => nd[at[q]].mount_state = 0
  BY <1>7, DoomedIs, Zenon
<1>10. ASSUME NEW n \in Nodes, \A q \in Path : at[q] # n PROVE nd2[n] = nd[n]
  <2>1. n \notin {at[q] : q \in D}
    BY <1>1, <1>10, Zenon
  <2>. QED BY <1>3, <2>1, Zenon
<1>11. Less(at, nd, at2, nd2)
  <2>1. \A q \in Path : at2[q] = at[q] \/ at2[q] = NONE
    BY <1>2, Zenon
  <2>. QED BY <1>5, <1>8, <1>9, <1>10, <2>1, Zenon DEF Less
<1>. QED BY <1>4, <1>6, <1>7, <1>11, Zenon

LEMMA PruneSound ==
  ASSUME NEW at \in Trees, NEW nd \in Records, NEW hd \in Holder, NEW p \in Path, at[p] # NONE,
         Sound(at, nd, hd), NEW at2, NEW nd2, Pruned(at, nd, p, at2, nd2)
  PROVE  Sound(at2, nd2, hd)
<1>. DEFINE D == Doomed(at, nd, p)
<1>1. /\ at2 \in Trees /\ nd2 \in Records /\ Less(at, nd, at2, nd2)
      /\ \A q \in Path : at2[q] = NONE <=> at[q] = NONE \/ q \in D
  BY PrunedIs, Zenon
<1>0. \A q \in D : Cardinality(UsersOf(hd, at[q])) = 0
  BY DoomedIs
<1>2. \A q \in Path : at2[q] # NONE => at2[q] = at[q] /\ nd2[at[q]] = nd[at[q]]
  BY <1>1, Zenon DEF Less
<1>3. RootStays(at2, nd2)
  <2>1. Root \in Path /\ Root \notin D /\ RootStays(at, nd)
    BY VfsAssumption, DoomedIs, Zenon DEF Sound
  <2>2. at2[Root] # NONE
    BY <1>1, <2>1, Zenon DEF RootStays
  <2>. QED BY <1>2, <2>1, <2>2, Zenon DEF RootStays
<1>4. AtOnce(at2)
  BY <1>2, Zenon DEF Sound, AtOnce
<1>5. NoGap(at2)
  <2>. SUFFICES ASSUME NEW q \in Path \ {Root}, at2[q] # NONE, at2[Parent(q)] = NONE PROVE FALSE
    BY Zenon DEF NoGap, Parent
  <2>1. q \in Path /\ q # Root
    OBVIOUS
  <2>2. Parent(q) \in Path /\ Len(Parent(q)) = Len(q) - 1 /\ Len(q) \in Nat
    BY <2>1, ParentIs, Zenon
  <2>3. at[q] # NONE /\ q \notin D
    BY <1>1, <2>1, Zenon
  <2>4. at[Parent(q)] # NONE
    BY <2>1, <2>3, Zenon DEF Sound, NoGap, Parent
  <2>5. Parent(q) \in D
    BY <1>1, <2>2, <2>4, Zenon
  <2>6. q \in Children(at, Parent(q))
    BY <2>1, <2>2, <2>3, ChildIs, Zenon
  <2>7. q \in Prefixes(p)
    BY <2>5, <2>6, DoomedIs, Zenon
  <2>8. Len(q) >= Len(Parent(q))
    BY <2>2
  <2>. QED BY <2>3, <2>5, <2>7, <2>8, DoomedIs, Zenon
<1>6. HeldInTree(at2, hd)
  <2>. SUFFICES ASSUME NEW t \in Users, hd[t] # NONE PROVE \E q \in Path : at2[q] = hd[t]
    BY Zenon DEF HeldInTree
  <2>1. PICK q \in Path : at[q] = hd[t]
    BY Zenon DEF Sound, HeldInTree
  <2>2. q \notin D
    <3>. SUFFICES ASSUME q \in D PROVE FALSE
      OBVIOUS
    <3>1. UsersOf(hd, at[q]) = {}
      BY <1>0, UsersFinite
    <3>2. t \in UsersOf(hd, at[q])
      BY <2>1 DEF UsersOf
    <3>. QED BY <3>1, <3>2
  <2>3. at2[q] # NONE
    BY <1>1, <2>1, <2>2, Zenon
  <2>. QED BY <1>2, <2>1, <2>3, Zenon
<1>7. \A q \in Path : at2[q] # NONE => NodeCounted(nd2, hd, at2[q])
  <2>. SUFFICES ASSUME NEW q \in Path, at2[q] # NONE PROVE NodeCounted(nd2, hd, at2[q])
    OBVIOUS
  <2>1. at2[q] = at[q] /\ nd2[at[q]] = nd[at[q]]
    BY <1>2, Zenon
  <2>2. NodeCounted(nd, hd, at[q])
    BY <2>1, Zenon DEF Sound
  <2>. QED BY <2>1, <2>2, Zenon DEF NodeCounted
<1>. QED BY <1>3, <1>4, <1>5, <1>6, <1>7, Zenon DEF Sound

LEMMA PruneTidy ==
  ASSUME NEW at \in Trees, NEW nd \in Records, NEW hd \in Holder, NEW p \in Path, at[p] # NONE,
         Sound(at, nd, hd), NEW at2, NEW nd2, Pruned(at, nd, p, at2, nd2),
         \A q \in Path \ {Root} : at[q] # NONE /\ q # p => Needed(at, nd, hd, q)
  PROVE  Tidy(at2, nd2, hd)
<1>. DEFINE D == Doomed(at, nd, p)
<1>1. /\ at2 \in Trees /\ nd2 \in Records /\ Less(at, nd, at2, nd2)
      /\ \A q \in Path : at2[q] = NONE <=> at[q] = NONE \/ q \in D
  BY PrunedIs, Zenon
<1>. SUFFICES ASSUME NEW q \in Path, q # Root, at2[q] # NONE PROVE Needed(at2, nd2, hd, q)
  BY Zenon DEF Tidy
<1>2. at[q] # NONE /\ q \notin D /\ at2[q] = at[q] /\ nd2[at[q]] = nd[at[q]]
  BY <1>1, Zenon DEF Less
<1>3. ASSUME NEW c \in Path, c \in Children(at, q), c \notin D PROVE Needed(at2, nd2, hd, q)
  <2>1. c # Root /\ Parent(c) = q /\ at[c] # NONE
    BY <1>3, ChildIs, Zenon
  <2>2. at2[c] # NONE
    BY <1>1, <1>3, <2>1, Zenon
  <2>3. c \in Children(at2, q)
    BY <2>1, <2>2, ChildIs, Zenon
  <2>4. Children(at2, q) # {}
    BY <2>3
  <2>. QED BY <2>4, Zenon DEF Needed
<1>4. CASE q \notin Prefixes(p)
  <2>1. q # p
    BY <1>4, PrefixIs, Zenon
  <2>2. Needed(at, nd, hd, q)
    BY <1>2, <2>1, Zenon
  <2>3. ASSUME Children(at, q) # {} PROVE Needed(at2, nd2, hd, q)
    <3>1. PICK c \in Path : c \in Children(at, q)
      BY <2>3 DEF Children
    <3>2. c # Root /\ Parent(c) = q
      BY <3>1, ChildIs, Zenon
    <3>3. q \in Prefixes(c)
      BY <3>2, ParentIs, Zenon
    <3>4. c \notin D
      <4>. SUFFICES ASSUME c \in D PROVE FALSE
        OBVIOUS
      <4>1. c \in Prefixes(p)
        BY DoomedIs
      <4>. QED BY <1>4, <3>3, <4>1, PrefixOrder
    <3>. QED BY <1>3, <3>1, <3>4
  <2>4. nd[at[q]].mount_state = 1 \/ Cardinality(UsersOf(hd, at[q])) > 0 => Needed(at2, nd2, hd, q)
    BY <1>2, Zenon DEF Needed
  <2>. QED BY <2>2, <2>3, <2>4, Zenon DEF Needed
<1>5. CASE q \in Prefixes(p)
  <2>1. PICK r \in Prefixes(p) : Len(r) >= Len(q) /\ ~(Idle(nd[at[r]]) /\ Children(at, r) \subseteq Prefixes(p))
    BY <1>2, <1>5, Zenon DEF Doomed
  <2>2. Len(r) \in 0 .. Len(p) /\ Len(q) \in 0 .. Len(p) /\ Len(p) \in Nat /\ r \in Path
    BY <1>5, PrefixIs, PathIs, Zenon
  <2>3. CASE Len(r) = Len(q)
    <3>1. r = q
      BY <1>5, <2>3, PrefixOrder, Zenon
    <3>2. CASE ~Idle(nd[at[q]])
      <4>1. NodeCounted(nd, hd, at[q])
        BY <1>2, Zenon DEF Sound
      <4>2. at[q] \in Nodes /\ nd[at[q]].mount_state \in {0, 1} /\ Cardinality(UsersOf(hd, at[q])) \in Nat
        <5>1. at[q] \in Nodes
          BY <1>2 DEF Trees
        <5>2. nd[at[q]] \in NodeStates
          BY <5>1 DEF Records
        <5>. QED BY <5>1, <5>2, UsersFinite DEF NodeStates
      <4>3. nd[at[q]].mount_state = 1 \/ Cardinality(UsersOf(hd, at[q])) > 0
        BY <3>2, <4>1, <4>2 DEF NodeCounted, Idle
      <4>. QED BY <1>2, <4>3, Zenon DEF Needed
    <3>3. CASE ~(Children(at, q) \subseteq Prefixes(p))
      <4>1. PICK c \in Children(at, q) : c \notin Prefixes(p)
        BY <3>3
      <4>2. c \in Path
        BY DEF Children
      <4>3. c \notin D
        BY <4>1, DoomedIs
      <4>. QED BY <1>3, <4>2, <4>3
    <3>. QED BY <2>1, <3>1, <3>2, <3>3, Zenon
  <2>4. CASE Len(r) # Len(q)
    <3>. DEFINE c == SubSeq(p, 1, Len(q) + 1)
    <3>1. Len(q) + 1 \in 0 .. Len(p) /\ Len(r) >= Len(q) + 1 /\ Len(q) + 1 # 0 /\ (Len(q) + 1) - 1 = Len(q) /\ Len(q) \in 0 .. Len(q) + 1
      BY <2>1, <2>2, <2>4
    <3>2. c \in Path /\ Len(c) = Len(q) + 1 /\ c \in Prefixes(p)
      BY <3>1, PathIs, PrefixIs, Zenon
    <3>3. c # Root
      BY <3>1, <3>2, PathIs, Zenon
    <3>4. Parent(c) = SubSeq(p, 1, Len(q))
      BY <3>1, <3>2, PrefixOfPrefix, Zenon DEF Parent
    <3>5. Parent(c) = q
      BY <1>5, <3>4, PrefixIs, Zenon
    <3>6. at[c] # NONE
      BY <3>2, AboveInTree, Zenon DEF Sound
    <3>7. c \in Children(at, q)
      BY <3>2, <3>3, <3>5, <3>6, ChildIs, Zenon
    <3>8. c \notin D
      <4>. SUFFICES ASSUME c \in D PROVE FALSE
        OBVIOUS
      <4>1. Len(r) >= Len(c)
        BY <3>1, <3>2, Zenon
      <4>. QED BY <2>1, <4>1, Zenon DEF Doomed
    <3>. QED BY <1>3, <3>2, <3>7, <3>8
  <2>. QED BY <2>3, <2>4
<1>. QED BY <1>4, <1>5

-----------------------------------------------------------------------------
\* With less in the tree, the rest of the invariant stays.
LEMMA LessForeign ==
  ASSUME NEW at, NEW nd, NEW at2, NEW nd2, Less(at, nd, at2, nd2), NEW p \in Path, ForeignIn(at, nd, p)
  PROVE  ForeignIn(at2, nd2, p)
<1>1. PICK q \in Prefixes(p) \ {Root, p} : at[q] # NONE /\ nd[at[q]].mount_state = 1
  BY Zenon DEF ForeignIn
<1>2. q \in Path
  BY PrefixIs, Zenon
<1>3. 1 # 0
  OBVIOUS
<1>4. at2[q] # NONE /\ at2[q] = at[q] /\ nd2[at[q]] = nd[at[q]]
  BY <1>1, <1>2, <1>3, Zenon DEF Less
<1>. QED BY <1>1, <1>4, Zenon DEF ForeignIn

LEMMA LessKeeps ==
  ASSUME NEW at, NEW nd, NEW at2, NEW nd2, Less(at, nd, at2, nd2)
  PROVE  /\ \A dk : OnDisk(at, nd, dk) => OnDisk(at2, nd2, dk)
         /\ \A hd, pc : OneUser(nd, hd, pc) => OneUser(nd2, hd, pc)
         /\ MountShared(at, nd) => MountShared(at2, nd2)
         /\ \A new \in Holder : Waits(at, nd, new) => Waits(at2, nd2, new)
<1>1. \A q \in Path : at2[q] # NONE => at2[q] = at[q] /\ nd2[at2[q]] = nd[at2[q]]
  BY Zenon DEF Less
<1>2. ASSUME NEW dk, OnDisk(at, nd, dk) PROVE OnDisk(at2, nd2, dk)
  <2>. SUFFICES ASSUME NEW p \in Path, at2[p] # NONE, nd2[at2[p]].mount_state = 0, ~ForeignIn(at2, nd2, p)
                PROVE  dk[p] = nd2[at2[p]].type
    BY Zenon DEF OnDisk
  <2>1. ~ForeignIn(at, nd, p)
    BY LessForeign, Zenon
  <2>. QED BY <1>1, <1>2, <2>1, Zenon DEF OnDisk
<1>3. ASSUME NEW hd, NEW pc, OneUser(nd, hd, pc) PROVE OneUser(nd2, hd, pc)
  BY <1>3, Zenon DEF OneUser, Less
<1>4. MountShared(at, nd) => MountShared(at2, nd2)
  BY <1>1, Zenon DEF MountShared
<1>5. ASSUME NEW new \in Holder, Waits(at, nd, new) PROVE Waits(at2, nd2, new)
  <2>1. \A t \in Users, p \in Path : new[t] # NONE => at2[p] # new[t]
    BY <1>1, <1>5, Zenon DEF Waits
  <2>2. ASSUME NEW t \in Users, new[t] # NONE PROVE nd2[new[t]] = nd[new[t]]
    <3>1. new[t] \in Nodes
      BY <2>2 DEF Holder
    <3>2. \A q \in Path : at[q] # new[t]
      BY <1>5, <2>2, Zenon DEF Waits
    <3>. QED BY <3>1, <3>2, Zenon DEF Less
  <2>. QED BY <1>5, <2>1, <2>2, Zenon DEF Waits
<1>. QED BY <1>2, <1>3, <1>4, <1>5, Zenon

-----------------------------------------------------------------------------
(***************************************************************************)
(* Steps of nodes, and of who holds them.                                  *)
(***************************************************************************)
\* Nodes that are not in the tree can change.
LEMMA OutsideKeeps ==
  ASSUME NEW at, NEW nd, NEW nd2, \A p \in Path : at[p] # NONE => nd2[at[p]] = nd[at[p]]
  PROVE  /\ \A hd : Sound(at, nd, hd) => Sound(at, nd2, hd)
         /\ \A hd : Sound(at, nd, hd) /\ Tidy(at, nd, hd) => Tidy(at, nd2, hd)
         /\ \A dk : OnDisk(at, nd, dk) => OnDisk(at, nd2, dk)
         /\ MountShared(at, nd) => MountShared(at, nd2)
<1>1. ASSUME NEW hd, Sound(at, nd, hd) PROVE Sound(at, nd2, hd)
  <2>1. RootStays(at, nd2)
    BY <1>1, VfsAssumption, Zenon DEF Sound, RootStays
  <2>2. \A p \in Path : at[p] # NONE => NodeCounted(nd2, hd, at[p])
    BY <1>1, Zenon DEF Sound, NodeCounted
  <2>. QED BY <1>1, <2>1, <2>2, Zenon DEF Sound
<1>2. ASSUME NEW hd, Tidy(at, nd, hd) PROVE Tidy(at, nd2, hd)
  BY <1>2, Zenon DEF Tidy, Needed
<1>3. \A p \in Path : ForeignIn(at, nd, p) <=> ForeignIn(at, nd2, p)
  <2>. SUFFICES ASSUME NEW p \in Path PROVE ForeignIn(at, nd, p) <=> ForeignIn(at, nd2, p)
    OBVIOUS
  <2>1. \A q \in Prefixes(p) : q \in Path
    BY PrefixIs, Zenon
  <2>. QED BY <2>1, Zenon DEF ForeignIn
<1>4. ASSUME NEW dk, OnDisk(at, nd, dk) PROVE OnDisk(at, nd2, dk)
  BY <1>3, <1>4, Zenon DEF OnDisk
<1>5. MountShared(at, nd) => MountShared(at, nd2)
  BY Zenon DEF MountShared
<1>. QED BY <1>1, <1>2, <1>4, <1>5, Zenon

\* What a count does not change.
Like(nd, nd2) ==
  \A n \in Nodes : /\ nd2[n].mount_state = nd[n].mount_state /\ nd2[n].type = nd[n].type
                   /\ nd2[n].exclusive = nd[n].exclusive /\ nd2[n].n_release = nd[n].n_release
LEMMA LikeKeeps ==
  ASSUME NEW at \in Trees, NEW nd, NEW nd2, Like(nd, nd2)
  PROVE  /\ \A dk : OnDisk(at, nd, dk) => OnDisk(at, nd2, dk)
         /\ MountShared(at, nd) => MountShared(at, nd2)
         /\ RootStays(at, nd) => RootStays(at, nd2)
<1>0. \A p \in Path : at[p] # NONE => at[p] \in Nodes
  BY DEF Trees
<1>1. \A p \in Path : at[p] # NONE => nd2[at[p]].mount_state = nd[at[p]].mount_state /\ nd2[at[p]].type = nd[at[p]].type /\ nd2[at[p]].exclusive = nd[at[p]].exclusive
  BY <1>0, Zenon DEF Like
<1>3. \A p \in Path : ForeignIn(at, nd, p) <=> ForeignIn(at, nd2, p)
  <2>. SUFFICES ASSUME NEW p \in Path PROVE ForeignIn(at, nd, p) <=> ForeignIn(at, nd2, p)
    OBVIOUS
  <2>1. \A q \in Prefixes(p) : q \in Path
    BY PrefixIs, Zenon
  <2>. QED BY <1>1, <2>1, Zenon DEF ForeignIn
<1>4. ASSUME NEW dk, OnDisk(at, nd, dk) PROVE OnDisk(at, nd2, dk)
  BY <1>1, <1>3, <1>4, Zenon DEF OnDisk
<1>5. MountShared(at, nd) => MountShared(at, nd2)
  BY <1>1, Zenon DEF MountShared
<1>6. RootStays(at, nd) => RootStays(at, nd2)
  BY <1>1, VfsAssumption, Zenon DEF RootStays
<1>. QED BY <1>4, <1>5, <1>6, Zenon

LEMMA DecrementIs ==
  ASSUME NEW x \in NodeStates, x.count > 0
  PROVE  /\ Decrement(x) \in NodeStates /\ Decrement(x).count = x.count - 1
         /\ Decrement(x).tree_state = IF x.tree_state > 0 THEN x.tree_state - 1 ELSE 0
         /\ Decrement(x).mount_state = x.mount_state /\ Decrement(x).type = x.type
         /\ Decrement(x).exclusive = x.exclusive /\ Decrement(x).n_release = x.n_release
<1>. DEFINE y == [x EXCEPT !.count = x.count - 1, !.tree_state = IF x.tree_state > 0 THEN x.tree_state - 1 ELSE x.tree_state]
<1>1. x.count \in Nat /\ x.tree_state \in Nat
  BY DEF NodeStates
<1>2. Decrement(x) = y
  BY DEF Decrement, NodeStates
<1>3. PICK c \in Nat : c = x.count - 1
  BY <1>1
<1>4. PICK s \in Nat : s = IF x.tree_state > 0 THEN x.tree_state - 1 ELSE x.tree_state
  BY <1>1
<1>5. y = [x EXCEPT !.count = c, !.tree_state = s]
  BY <1>3, <1>4
<1>6. s = IF x.tree_state > 0 THEN x.tree_state - 1 ELSE 0
  BY <1>1, <1>4
<1>. HIDE DEF y
<1>7. /\ y \in NodeStates /\ y.count = c /\ y.tree_state = s
      /\ y.mount_state = x.mount_state /\ y.type = x.type
      /\ y.exclusive = x.exclusive /\ y.n_release = x.n_release
  BY <1>5 DEF NodeStates
<1>. QED BY <1>2, <1>3, <1>6, <1>7, Zenon

\* The node a task holds is where it is in the tree.
LEMMA HeldIs ==
  ASSUME NEW at \in Trees, NEW nd, NEW hd \in Holder, Sound(at, nd, hd), NEW t \in Users, hd[t] # NONE
  PROVE  hd[t] \in Nodes /\ \E p \in Path : at[p] = hd[t]
BY DEF Sound, HeldInTree, Holder

LEMMA TreeNodeIs ==
  ASSUME NEW at \in Trees, NEW nd \in Records, NEW hd, Sound(at, nd, hd), NEW p \in Path, at[p] # NONE
  PROVE  /\ at[p] \in Nodes /\ nd[at[p]] \in NodeStates /\ nd[at[p]].count > 0
         /\ NodeCounted(nd, hd, at[p])
<1>1. at[p] \in Nodes /\ nd[at[p]] \in NodeStates
  BY DEF Trees, Records
<1>2. NodeCounted(nd, hd, at[p])
  BY Zenon DEF Sound
<1>. QED BY <1>1, <1>2, UsersFinite DEF NodeCounted

\* A task gives back what it has: the node stays in the tree for now.
Dropped(nd, hd, t, nd2, hd2) ==
  hd2 = [hd EXCEPT ![t] = NONE] /\ nd2 = [nd EXCEPT ![hd[t]] = Decrement(@)]
LEMMA GiveKeeps ==
  ASSUME NEW at \in Trees, NEW nd \in Records, NEW hd \in Holder, Sound(at, nd, hd),
         NEW t \in Users, hd[t] # NONE, NEW hd2, NEW nd2,
         Dropped(nd, hd, t, nd2, hd2)
  PROVE  /\ hd2 \in Holder /\ nd2 \in Records /\ Like(nd, nd2) /\ Sound(at, nd2, hd2)
         /\ \A m \in Nodes : m # hd[t] => nd2[m] = nd[m]
         /\ \A q \in Path : at[q] # NONE /\ at[q] # hd[t] /\ Needed(at, nd, hd, q) => Needed(at, nd2, hd2, q)
<1>0. hd2 = [hd EXCEPT ![t] = NONE] /\ nd2 = [nd EXCEPT ![hd[t]] = Decrement(@)]
  BY Zenon DEF Dropped
<1>1. PICK n \in Nodes : n = hd[t]
  BY HeldIs, Zenon
<1>2. PICK p \in Path : at[p] = n
  BY <1>1, HeldIs, Zenon
<1>3. n # NONE
  BY <1>1, Zenon
<1>4. nd[n] \in NodeStates /\ nd[n].count > 0 /\ NodeCounted(nd, hd, n)
  BY <1>2, <1>3, TreeNodeIs, Zenon
<1>5. hd2 \in Holder
  BY <1>0 DEF Holder
<1>6. nd2[n] = Decrement(nd[n]) /\ \A m \in Nodes : m # n => nd2[m] = nd[m]
  BY <1>0, <1>1 DEF Records
<1>7. nd2[n] \in NodeStates
  BY <1>4, <1>6, DecrementIs, Zenon
<1>8. nd2 \in Records
  BY <1>0, <1>1, <1>6, <1>7 DEF Records
<1>9. Like(nd, nd2)
  <2>1. /\ nd2[n].mount_state = nd[n].mount_state /\ nd2[n].type = nd[n].type
        /\ nd2[n].exclusive = nd[n].exclusive /\ nd2[n].n_release = nd[n].n_release
    BY <1>4, <1>6, DecrementIs, Zenon
  <2>. QED BY <1>6, <2>1, Zenon DEF Like
<1>10. /\ Cardinality(UsersOf(hd, n)) > 0 /\ Cardinality(UsersOf(hd2, n)) = Cardinality(UsersOf(hd, n)) - 1
       /\ \A m \in Nodes : m # n => UsersOf(hd2, m) = UsersOf(hd, m)
  BY <1>0, <1>1, <1>5, UsersDrop
<1>11. ASSUME NEW q \in Path, at[q] # NONE, at[q] # n
       PROVE  nd2[at[q]] = nd[at[q]] /\ UsersOf(hd2, at[q]) = UsersOf(hd, at[q])
  <2>1. at[q] \in Nodes
    BY <1>11 DEF Trees
  <2>. QED BY <1>6, <1>10, <1>11, <2>1, Zenon
<1>12. NodeCounted(nd2, hd2, n)
  <2>1. /\ nd2[n].count = nd[n].count - 1 /\ nd2[n].tree_state = IF nd[n].tree_state > 0 THEN nd[n].tree_state - 1 ELSE 0
        /\ nd2[n].mount_state = nd[n].mount_state /\ nd2[n].n_release = nd[n].n_release
    BY <1>4, <1>6, DecrementIs, Zenon
  <2>2. Cardinality(UsersOf(hd, n)) \in Nat
    BY UsersFinite
  <2>3. nd[n].count \in Nat /\ nd[n].tree_state \in Nat
    BY <1>4 DEF NodeStates
  <2>4. nd2[n].count = Cardinality(UsersOf(hd2, n)) + 1
    BY <1>4, <1>10, <2>1, <2>2, <2>3 DEF NodeCounted
  <2>5. nd2[n].n_release
    BY <1>4, <2>1 DEF NodeCounted
  <2>6. nd2[n].mount_state = 0 => nd2[n].tree_state = Cardinality(UsersOf(hd2, n))
    BY <1>4, <1>10, <2>1, <2>2, <2>3 DEF NodeCounted
  <2>. QED BY <2>4, <2>5, <2>6 DEF NodeCounted
<1>13. Sound(at, nd2, hd2)
  <2>1. RootStays(at, nd2)
    BY <1>9, LikeKeeps, Zenon DEF Sound
  <2>2. HeldInTree(at, hd2)
    <3>. SUFFICES ASSUME NEW u \in Users, hd2[u] # NONE PROVE \E q \in Path : at[q] = hd2[u]
      BY Zenon DEF HeldInTree
    <3>1. hd2[u] = hd[u]
      BY <1>0 DEF Holder
    <3>. QED BY <3>1, Zenon DEF Sound, HeldInTree
  <2>3. ASSUME NEW q \in Path, at[q] # NONE PROVE NodeCounted(nd2, hd2, at[q])
    <3>1. CASE at[q] = n
      BY <1>12, <3>1, Zenon
    <3>2. CASE at[q] # n
      <4>1. NodeCounted(nd, hd, at[q])
        BY <2>3, Zenon DEF Sound
      <4>. QED BY <1>11, <2>3, <3>2, <4>1, Zenon DEF NodeCounted
    <3>. QED BY <3>1, <3>2
  <2>. QED BY <2>1, <2>2, <2>3, Zenon DEF Sound
<1>14. \A q \in Path : at[q] # NONE /\ at[q] # n /\ Needed(at, nd, hd, q) => Needed(at, nd2, hd2, q)
  BY <1>11, Zenon DEF Needed
<1>. QED BY <1>1, <1>5, <1>6, <1>8, <1>9, <1>13, <1>14, Zenon

\* n_release of vfs.c gives back what a task has.
LEMMA ReleaseKeeps ==
  ASSUME NEW at \in Trees, NEW nd \in Records, NEW hd \in Holder, NEW new \in Holder, NEW dk,
         NEW pc, pc \in [Users -> Types \cup {"idle", "truncate", "stat_only", "mount"}],
         TreeParts(at, nd, hd, dk, pc, new), NEW t \in Users, hd[t] # NONE,
         NEW hd2, NEW pc2, pc2 = [pc EXCEPT ![t] = "idle"],
         NEW mid, Dropped(nd, hd, t, mid, hd2),
         NEW p \in Path, at[p] = hd[t], NEW at2, NEW nd2,
         IF nd[hd[t]].mount_state = 1 THEN at2 = at /\ nd2 = mid ELSE Pruned(at, mid, p, at2, nd2)
  PROVE  at2 \in Trees /\ nd2 \in Records /\ hd2 \in Holder /\ TreeParts(at2, nd2, hd2, dk, pc2, new)
<1>1. /\ Sound(at, nd, hd) /\ Tidy(at, nd, hd) /\ OnDisk(at, nd, dk)
      /\ OneUser(nd, hd, pc) /\ MountShared(at, nd) /\ Waits(at, nd, new)
  BY Zenon DEF TreeParts
<1>2. /\ hd2 \in Holder /\ mid \in Records /\ Like(nd, mid) /\ Sound(at, mid, hd2)
      /\ \A m \in Nodes : m # hd[t] => mid[m] = nd[m]
      /\ \A q \in Path : at[q] # NONE /\ at[q] # hd[t] /\ Needed(at, nd, hd, q) => Needed(at, mid, hd2, q)
  BY <1>1, GiveKeeps, Zenon
<1>3. at[p] # NONE
  BY Zenon
<1>4. \A q \in Path \ {Root} : at[q] # NONE /\ q # p => Needed(at, mid, hd2, q)
  <2>1. \A q \in Path : at[q] # NONE /\ q # p => at[q] # hd[t]
    BY <1>1, Zenon DEF Sound, AtOnce
  <2>. QED BY <1>1, <1>2, <2>1, Zenon DEF Tidy
<1>5. OnDisk(at, mid, dk) /\ MountShared(at, mid)
  BY <1>1, <1>2, LikeKeeps, Zenon
<1>6. OneUser(mid, hd2, pc2)
  <2>. SUFFICES ASSUME NEW n \in Nodes, mid[n].exclusive, mid[n].type = "file", NEW u \in Users, NEW v \in Users,
                       hd2[u] = n, hd2[v] = n, pc2[u] # "stat_only", pc2[v] # "stat_only"
                PROVE  u = v
    BY Zenon DEF OneUser
  <2>1. nd[n].exclusive /\ nd[n].type = "file"
    BY <1>2, Zenon DEF Like
  <2>2. n # NONE
    BY VfsAssumption
  <2>3. u # t /\ v # t
    BY <2>2 DEF Holder, Dropped
  <2>4. hd[u] = n /\ hd[v] = n /\ pc[u] # "stat_only" /\ pc[v] # "stat_only"
    BY <2>3 DEF Holder, Dropped
  <2>. QED BY <1>1, <2>1, <2>4, Zenon DEF OneUser
<1>7. Waits(at, mid, new)
  <2>1. ASSUME NEW u \in Users, new[u] # NONE PROVE mid[new[u]] = nd[new[u]]
    <3>1. new[u] \in Nodes
      BY <2>1 DEF Holder
    <3>2. new[u] # hd[t]
      BY <1>1, <2>1, Zenon DEF Waits
    <3>. QED BY <1>2, <3>1, <3>2, Zenon
  <2>. QED BY <1>1, <2>1, Zenon DEF Waits
<1>8. CASE nd[hd[t]].mount_state = 1
  <2>1. at2 = at /\ nd2 = mid
    BY <1>8, Zenon
  <2>2. Tidy(at, mid, hd2)
    <3>1. hd[t] \in Nodes
      BY <1>1, HeldIs, Zenon
    <3>2. mid[at[p]].mount_state = 1
      BY <1>2, <1>8, <3>1, Zenon DEF Like
    <3>3. Needed(at, mid, hd2, p)
      BY <3>2, Zenon DEF Needed
    <3>. QED BY <1>4, <3>3, Zenon DEF Tidy
  <2>. QED BY <1>2, <1>5, <1>6, <1>7, <2>1, <2>2, Zenon DEF TreeParts
<1>9. CASE nd[hd[t]].mount_state # 1
  <2>1. Pruned(at, mid, p, at2, nd2)
    BY <1>9, Zenon
  <2>2. at2 \in Trees /\ nd2 \in Records /\ Less(at, mid, at2, nd2)
    BY <1>2, <1>3, <2>1, PrunedIs, Zenon
  <2>3. Sound(at2, nd2, hd2)
    BY <1>2, <1>3, <2>1, PruneSound, Zenon
  <2>4. Tidy(at2, nd2, hd2)
    BY <1>2, <1>3, <1>4, <2>1, PruneTidy, Zenon
  <2>5. OnDisk(at2, nd2, dk) /\ OneUser(nd2, hd2, pc2)
    BY <1>5, <1>6, <2>2, LessKeeps
  <2>6. MountShared(at2, nd2) /\ Waits(at2, nd2, new)
    BY <1>5, <1>7, <2>2, LessKeeps
  <2>. QED BY <1>2, <2>2, <2>3, <2>4, <2>5, <2>6, Zenon DEF TreeParts
<1>. QED BY <1>8, <1>9

\* A driver frees the node that it could not mount.
Discarded(nd, new, t, nd2, new2) ==
  nd2 = [nd EXCEPT ![new[t]].count = 0] /\ new2 = [new EXCEPT ![t] = NONE]
LEMMA DiscardKeeps ==
  ASSUME NEW at \in Trees, NEW nd \in Records, NEW hd \in Holder, NEW new \in Holder, NEW dk, NEW pc,
         TreeParts(at, nd, hd, dk, pc, new), NEW t \in Users, new[t] # NONE,
         NEW nd2, NEW new2, Discarded(nd, new, t, nd2, new2)
  PROVE  nd2 \in Records /\ new2 \in Holder /\ TreeParts(at, nd2, hd, dk, pc, new2)
<1>1. /\ Sound(at, nd, hd) /\ Tidy(at, nd, hd) /\ OnDisk(at, nd, dk)
      /\ OneUser(nd, hd, pc) /\ MountShared(at, nd) /\ Waits(at, nd, new)
  BY Zenon DEF TreeParts
<1>2. PICK n \in Nodes : n = new[t]
  BY DEF Holder
<1>3. nd[n] \in NodeStates
  BY DEF Records
<1>4. nd2 = [nd EXCEPT ![n] = [nd[n] EXCEPT !.count = 0]]
  BY <1>2 DEF Discarded
<1>5. /\ nd2 \in Records /\ \A m \in Nodes : m # n => nd2[m] = nd[m]
      /\ nd2[n].exclusive = nd[n].exclusive /\ nd2[n].type = nd[n].type
  <2>1. PICK x \in NodeStates : x = [nd[n] EXCEPT !.count = 0]
    BY <1>3 DEF NodeStates
  <2>2. x.exclusive = nd[n].exclusive /\ x.type = nd[n].type
    BY <1>3, <2>1 DEF NodeStates
  <2>. QED BY <1>4, <2>1, <2>2 DEF Records
<1>6. new2 \in Holder /\ new2[t] = NONE /\ \A u \in Users : u # t => new2[u] = new[u]
  BY DEF Holder, Discarded
<1>7. \A p \in Path : at[p] # NONE => nd2[at[p]] = nd[at[p]]
  <2>. SUFFICES ASSUME NEW p \in Path, at[p] # NONE PROVE nd2[at[p]] = nd[at[p]]
    OBVIOUS
  <2>1. at[p] \in Nodes
    BY DEF Trees
  <2>2. at[p] # n
    BY <1>1, <1>2, Zenon DEF Waits
  <2>. QED BY <1>5, <2>1, <2>2, Zenon
<1>8. Sound(at, nd2, hd) /\ Tidy(at, nd2, hd) /\ OnDisk(at, nd2, dk) /\ MountShared(at, nd2)
  BY <1>1, <1>7, OutsideKeeps, Zenon
<1>9. OneUser(nd2, hd, pc)
  <2>1. \A m \in Nodes : nd2[m].exclusive = nd[m].exclusive /\ nd2[m].type = nd[m].type
    BY <1>5, Zenon
  <2>. QED BY <1>1, <2>1, Zenon DEF OneUser
<1>10. Waits(at, nd2, new2)
  <2>1. ASSUME NEW u \in Users, new2[u] # NONE PROVE new2[u] = new[u] /\ new[u] # NONE /\ nd2[new2[u]] = nd[new[u]]
    <3>1. u # t /\ new2[u] = new[u]
      BY <1>6, <2>1, Zenon
    <3>2. new[u] \in Nodes /\ new[u] # NONE
      BY <2>1, <3>1 DEF Holder
    <3>3. new[u] # n
      BY <1>1, <1>2, <3>1, <3>2, Zenon DEF Waits
    <3>. QED BY <1>5, <3>1, <3>2, <3>3, Zenon
  <2>2. \A u \in Users, p \in Path : new2[u] # NONE => at[p] # new2[u]
    <3>1. \A u \in Users, p \in Path : new[u] # NONE => at[p] # new[u]
      BY <1>1, Zenon DEF Waits
    <3>. QED BY <2>1, <3>1
  <2>3. \A u, v \in Users : new2[u] # NONE /\ new2[u] = new2[v] => u = v
    <3>1. \A u, v \in Users : new[u] # NONE /\ new[u] = new[v] => u = v
      BY <1>1, Zenon DEF Waits
    <3>. QED BY <2>1, <3>1
  <2>4. \A u \in Users : new2[u] # NONE => nd2[new2[u]].count = 1 /\ nd2[new2[u]].mount_state = 0 /\ ~nd2[new2[u]].exclusive
    BY <1>1, <2>1, Zenon DEF Waits
  <2>. QED BY <2>2, <2>3, <2>4, Zenon DEF Waits
<1>. QED BY <1>5, <1>6, <1>8, <1>9, <1>10, Zenon DEF TreeParts

-----------------------------------------------------------------------------
\* A user comes: both counts of a node grow.
Grown(x, y) ==
  /\ y \in NodeStates /\ y.count = x.count + 1 /\ y.mount_state = x.mount_state
  /\ y.type = x.type /\ y.exclusive = x.exclusive /\ y.n_release = x.n_release
  /\ x.mount_state = 0 => y.tree_state = x.tree_state + 1
LEMMA GrownIs ==
  ASSUME NEW x \in NodeStates
  PROVE  /\ x.tree_state > 0 \/ x.mount_state = 1 => Grown(x, Increment(x))
         /\ Grown(x, SetTreeState(Increment(x)))
<1>. DEFINE y == [x EXCEPT !.count = x.count + 1, !.tree_state = IF x.tree_state > 0 THEN x.tree_state + 1 ELSE x.tree_state]
<1>. DEFINE z == [y EXCEPT !.tree_state = IF y.tree_state = 0 THEN 1 ELSE y.tree_state]
<1>1. x.count \in Nat /\ x.tree_state \in Nat
  BY DEF NodeStates
<1>2. Increment(x) = y /\ SetTreeState(Increment(x)) = z
  BY DEF Increment, SetTreeState, NodeStates
<1>3. PICK c \in Nat : c = x.count + 1
  BY <1>1
<1>4. PICK s \in Nat : s = IF x.tree_state > 0 THEN x.tree_state + 1 ELSE x.tree_state
  BY <1>1
<1>5. y = [x EXCEPT !.count = c, !.tree_state = s]
  BY <1>3, <1>4
<1>6. PICK yy : yy = y
  OBVIOUS
<1>7. /\ yy \in NodeStates /\ yy.count = c /\ yy.tree_state = s
      /\ yy.mount_state = x.mount_state /\ yy.type = x.type
      /\ yy.exclusive = x.exclusive /\ yy.n_release = x.n_release
  <2>. HIDE DEF y, z
  <2>. QED BY <1>5, <1>6 DEF NodeStates
<1>8. PICK r \in Nat : r = IF s = 0 THEN 1 ELSE s
  BY <1>4
<1>9. z = [yy EXCEPT !.tree_state = r]
  <2>1. z = [yy EXCEPT !.tree_state = IF yy.tree_state = 0 THEN 1 ELSE yy.tree_state]
    <3>. HIDE DEF y
    <3>. QED BY <1>6, Zenon
  <2>2. r = IF yy.tree_state = 0 THEN 1 ELSE yy.tree_state
    BY <1>7, <1>8, Zenon
  <2>. HIDE DEF z
  <2>. QED BY <2>1, <2>2, Zenon
<1>. HIDE DEF y, z
<1>10. /\ z \in NodeStates /\ z.count = c /\ z.tree_state = r
       /\ z.mount_state = x.mount_state /\ z.type = x.type
       /\ z.exclusive = x.exclusive /\ z.n_release = x.n_release
  BY <1>7, <1>9 DEF NodeStates
<1>11. r = x.tree_state + 1
  BY <1>1, <1>4, <1>8
<1>12. x.tree_state > 0 => s = x.tree_state + 1
  BY <1>1, <1>4
<1>13. Grown(x, z)
  BY <1>3, <1>10, <1>11, Zenon DEF Grown
<1>14. x.tree_state > 0 \/ x.mount_state = 1 => Grown(x, y)
  <2>1. x.mount_state = 1 => x.mount_state # 0
    OBVIOUS
  <2>. QED BY <1>3, <1>6, <1>7, <1>12, <2>1, Zenon DEF Grown
<1>. QED BY <1>2, <1>13, <1>14, Zenon

\* A task takes a node that is in the tree.
Taken(nd, hd, t, n, nd2, hd2) ==
  /\ hd2 = [hd EXCEPT ![t] = n] /\ nd2 = [nd EXCEPT ![n] = nd2[n]] /\ Grown(nd[n], nd2[n])
LEMMA TakeKeeps ==
  ASSUME NEW at \in Trees, NEW nd \in Records, NEW hd \in Holder, Sound(at, nd, hd),
         NEW t \in Users, hd[t] = NONE, NEW n \in Nodes, NEW p \in Path, at[p] = n,
         \A q \in Path \ {Root} : at[q] # NONE /\ q # p => Needed(at, nd, hd, q),
         NEW nd2, NEW hd2, Taken(nd, hd, t, n, nd2, hd2)
  PROVE  /\ hd2 \in Holder /\ nd2 \in Records /\ Like(nd, nd2) /\ hd2[t] = n
         /\ Sound(at, nd2, hd2) /\ Tidy(at, nd2, hd2)
         /\ \A m \in Nodes : m # n => nd2[m] = nd[m]
         /\ \A u \in Users : u # t => hd2[u] = hd[u]
<1>0. hd2 = [hd EXCEPT ![t] = n] /\ nd2 = [nd EXCEPT ![n] = nd2[n]] /\ Grown(nd[n], nd2[n])
  BY Zenon DEF Taken
<1>3. n # NONE
  BY VfsAssumption
<1>4. nd[n] \in NodeStates /\ nd[n].count > 0 /\ NodeCounted(nd, hd, n)
  BY <1>3, TreeNodeIs, Zenon
<1>5. hd2 \in Holder /\ hd2[t] = n /\ \A u \in Users : u # t => hd2[u] = hd[u]
  BY <1>0 DEF Holder
<1>6. \A m \in Nodes : m # n => nd2[m] = nd[m]
  BY <1>0 DEF Records
<1>7. nd2[n] \in NodeStates
  BY <1>0, Zenon DEF Grown
<1>8. nd2 \in Records
  BY <1>0, <1>6, <1>7 DEF Records
<1>9. Like(nd, nd2)
  BY <1>0, <1>6, Zenon DEF Like, Grown
<1>10. /\ Cardinality(UsersOf(hd2, n)) = Cardinality(UsersOf(hd, n)) + 1
       /\ \A m \in Nodes : m # n => UsersOf(hd2, m) = UsersOf(hd, m)
  <2>1. n \in Nodes /\ hd[t] = NONE /\ hd2 = [hd EXCEPT ![t] = n]
    BY <1>0, Zenon
  <2>. QED BY <1>5, <2>1, UsersTake, Zenon
<1>11. ASSUME NEW q \in Path, at[q] # NONE, at[q] # n
       PROVE  nd2[at[q]] = nd[at[q]] /\ UsersOf(hd2, at[q]) = UsersOf(hd, at[q])
  <2>1. at[q] \in Nodes
    BY <1>11 DEF Trees
  <2>. QED BY <1>6, <1>10, <1>11, <2>1, Zenon
<1>12. NodeCounted(nd2, hd2, n)
  <2>1. /\ nd2[n].count = nd[n].count + 1 /\ nd[n].mount_state = 0 => nd2[n].tree_state = nd[n].tree_state + 1
        /\ nd2[n].mount_state = nd[n].mount_state /\ nd2[n].n_release = nd[n].n_release
    BY <1>0, Zenon DEF Grown
  <2>2. Cardinality(UsersOf(hd, n)) \in Nat
    BY UsersFinite
  <2>3. nd2[n].count = nd[n].count + 1
    BY <1>0, Zenon DEF Grown
  <2>4. nd2[n].count = Cardinality(UsersOf(hd2, n)) + 1
    BY <1>4, <1>10, <2>2, <2>3 DEF NodeCounted
  <2>5. nd2[n].n_release
    BY <1>0, <1>4, Zenon DEF NodeCounted, Grown
  <2>6. nd2[n].mount_state = 0 => nd2[n].tree_state = Cardinality(UsersOf(hd2, n))
    BY <1>0, <1>4, <1>10, <2>2 DEF NodeCounted, Grown
  <2>. QED BY <2>4, <2>5, <2>6 DEF NodeCounted
<1>13. Sound(at, nd2, hd2)
  <2>1. RootStays(at, nd2)
    BY <1>9, LikeKeeps, Zenon DEF Sound
  <2>2. HeldInTree(at, hd2)
    <3>. SUFFICES ASSUME NEW u \in Users, hd2[u] # NONE PROVE \E q \in Path : at[q] = hd2[u]
      BY Zenon DEF HeldInTree
    <3>1. CASE u = t
      BY <1>5, <3>1
    <3>2. CASE u # t
      BY <1>5, <3>2, Zenon DEF Sound, HeldInTree
    <3>. QED BY <3>1, <3>2
  <2>3. ASSUME NEW q \in Path, at[q] # NONE PROVE NodeCounted(nd2, hd2, at[q])
    <3>1. CASE at[q] = n
      BY <1>12, <3>1, Zenon
    <3>2. CASE at[q] # n
      <4>1. NodeCounted(nd, hd, at[q])
        BY <2>3, Zenon DEF Sound
      <4>. QED BY <1>11, <2>3, <3>2, <4>1, Zenon DEF NodeCounted
    <3>. QED BY <3>1, <3>2
  <2>. QED BY <2>1, <2>2, <2>3, Zenon DEF Sound
<1>14. ASSUME NEW q \in Path, q # Root, at[q] # NONE PROVE Needed(at, nd2, hd2, q)
  <2>1. CASE at[q] = n
    <3>1. Cardinality(UsersOf(hd2, at[q])) > 0
      BY <1>10, <2>1, UsersFinite
    <3>. QED BY <3>1, Zenon DEF Needed
  <2>2. CASE at[q] # n
    <3>1. Needed(at, nd, hd, q)
      BY <1>14, <2>2, Zenon
    <3>. QED BY <1>11, <1>14, <2>2, <3>1, Zenon DEF Needed
  <2>. QED BY <2>1, <2>2
<1>15. Tidy(at, nd2, hd2)
  BY <1>14, Zenon DEF Tidy
<1>. QED BY <1>5, <1>6, <1>8, <1>9, <1>13, <1>15, Zenon

-----------------------------------------------------------------------------
LEMMA TypesAre ==
  ASSUME TreeInv
  PROVE  /\ treeAt \in Trees /\ treeNode \in Records /\ hold \in Holder /\ treeNew \in Holder
         /\ treePc \in [Users -> Types \cup {"idle", "truncate", "stat_only", "mount"}]
         /\ disk \in [Path -> {"dir", "file", "none"}]
         /\ TreeParts(treeAt, treeNode, hold, disk, treePc, treeNew)
         /\ Places(hold, treeNew, treePc)
         /\ Sound(treeAt, treeNode, hold) /\ Tidy(treeAt, treeNode, hold)
BY Zenon DEF TreeInv, VfsTypeOK, Trees, Records, NodeStates, Holder, TreeParts

\* An unused structure is nobody's.
LEMMA FreeIs ==
  ASSUME TreeInv, NEW n \in Free
  PROVE  /\ n \in Nodes /\ n # NONE /\ treeNode[n].count = 0
         /\ \A q \in Path : treeAt[q] # n
         /\ \A t \in Users : hold[t] # n /\ treeNew[t] # n
         /\ Cardinality(UsersOf(hold, n)) = 0
<1>1. n \in Nodes /\ treeNode[n].count = 0 /\ n # NONE
  BY VfsAssumption DEF Free
<1>2. ASSUME NEW q \in Path, treeAt[q] = n PROVE FALSE
  <2>1. treeNode[treeAt[q]].count > 0
    BY <1>1, <1>2, TypesAre, TreeNodeIs, Zenon
  <2>. QED BY <1>1, <1>2, <2>1
<1>3. ASSUME NEW t \in Users, hold[t] = n PROVE FALSE
  <2>1. hold[t] # NONE
    BY <1>1, <1>3, Zenon
  <2>2. \E q \in Path : treeAt[q] = hold[t]
    BY <2>1, TypesAre, HeldIs, Zenon
  <2>. QED BY <1>2, <1>3, <2>2, Zenon
<1>4. ASSUME NEW t \in Users, treeNew[t] = n PROVE FALSE
  <2>1. treeNode[treeNew[t]].count = 1
    BY <1>1, <1>4, TypesAre, Zenon DEF TreeParts, Waits
  <2>. QED BY <1>1, <1>4, <2>1
<1>5. UsersOf(hold, n) = {}
  BY <1>3 DEF UsersOf
<1>6. Cardinality(UsersOf(hold, n)) = 0
  BY <1>5, UsersFinite
<1>. QED BY <1>1, <1>2, <1>3, <1>4, <1>6, Zenon

-----------------------------------------------------------------------------
(***************************************************************************)
(* The walk of vfs_open adds a node for every directory it comes to.       *)
(***************************************************************************)
Added(p, f) == {q \in Prefixes(p) : Len(q) \in VfsFound(p) + 1 .. f}
FreshOf(p, q) == Unused(Len(q) - VfsFound(p))
Walks(p, f) == f \in VfsFound(p) .. Len(p) /\ f - VfsFound(p) <= Cardinality(Free)
Unshared(x) == x.count = 1 /\ x.tree_state = 0 /\ x.mount_state = 0 /\ x.n_release
Walked(p, f, at2, nd2) ==
  /\ at2 = [q \in Path |-> IF q \in Added(p, f) THEN FreshOf(p, q) ELSE treeAt[q]]
  /\ nd2 \in Records
  /\ \A q \in Added(p, f) : Unshared(nd2[FreshOf(p, q)])
  /\ \A n \in Nodes : (\A q \in Added(p, f) : n # FreshOf(p, q)) => nd2[n] = treeNode[n]

LEMMA AddedIs ==
  ASSUME TreeInv, NEW p \in Path, NEW f, Walks(p, f)
  PROVE  /\ VfsFound(p) \in 0 .. Len(p) /\ f \in 0 .. Len(p) /\ VfsFound(p) <= f
         /\ \A q \in Added(p, f) : /\ q \in Prefixes(p) /\ q \in Path /\ q # Root /\ treeAt[q] = NONE
                                   /\ Len(q) \in VfsFound(p) + 1 .. f /\ FreshOf(p, q) \in Free
         /\ \A q, r \in Added(p, f) : FreshOf(p, q) = FreshOf(p, r) => q = r
         /\ \A q \in Prefixes(p) : Len(q) <= f => q \in Added(p, f) \/ treeAt[q] # NONE
<1>0. treeAt[Root] # NONE /\ NoGap(treeAt)
  BY TypesAre, Zenon DEF Sound, RootStays
<1>1. /\ VfsFound(p) \in 0 .. Len(p) /\ treeAt[SubSeq(p, 1, VfsFound(p))] # NONE
      /\ \A j \in 0 .. Len(p) : treeAt[SubSeq(p, 1, j)] # NONE => j <= VfsFound(p)
  BY <1>0, FoundIs, Zenon
<1>2. Len(p) \in Nat
  BY PathIs, Zenon
<1>3. PICK d \in Nat : d = VfsFound(p)
  BY <1>1, <1>2
<1>4. PICK c \in Nat : c = Cardinality(Free)
  BY FreeFinite, Zenon
<1>5. f \in d .. Len(p) /\ f - d <= c
  BY <1>3, <1>4, Zenon DEF Walks
<1>6. f \in 0 .. Len(p) /\ d <= f
  BY <1>2, <1>5
<1>7. ASSUME NEW q \in Added(p, f)
      PROVE /\ q \in Prefixes(p) /\ q \in Path /\ q # Root /\ treeAt[q] = NONE
            /\ Len(q) \in d + 1 .. f /\ Len(q) - d \in 1 .. c
  <2>1. q \in Prefixes(p) /\ Len(q) \in d + 1 .. f
    BY <1>3, <1>7, Zenon DEF Added
  <2>2. q \in Path /\ Len(q) \in 0 .. Len(p) /\ q = SubSeq(p, 1, Len(q))
    BY <2>1, PrefixIs, Zenon
  <2>3. Len(q) - d \in 1 .. c /\ Len(q) # 0 /\ ~(Len(q) <= d)
    BY <1>5, <2>1, <1>2
  <2>4. q # Root
    BY <2>2, <2>3, PathIs, Zenon
  <2>5. treeAt[q] = NONE
    BY <1>1, <1>3, <2>2, <2>3, Zenon
  <2>. QED BY <2>1, <2>2, <2>3, <2>4, <2>5, Zenon
<1>8. ASSUME NEW q \in Added(p, f) PROVE FreshOf(p, q) \in Free
  <2>1. Len(q) - d \in 1 .. c
    BY <1>7
  <2>. QED BY <1>3, <1>4, <2>1, UnusedIs, Zenon DEF FreshOf
<1>9. ASSUME NEW q \in Added(p, f), NEW r \in Added(p, f), FreshOf(p, q) = FreshOf(p, r) PROVE q = r
  <2>1. Len(q) - d \in 1 .. c /\ Len(r) - d \in 1 .. c
    BY <1>7
  <2>2. Len(q) - d = Len(r) - d
    BY <1>3, <1>4, <1>9, <2>1, UnusedIs, Zenon DEF FreshOf
  <2>3. Len(q) \in d + 1 .. f /\ Len(r) \in d + 1 .. f /\ q \in Prefixes(p) /\ r \in Prefixes(p)
    BY <1>7, Zenon
  <2>4. Len(q) = Len(r)
    BY <2>2, <2>3, <1>5, <1>2
  <2>. QED BY <2>3, <2>4, PrefixOrder, Zenon
<1>10. ASSUME NEW q \in Prefixes(p), Len(q) <= f, q \notin Added(p, f) PROVE treeAt[q] # NONE
  <2>1. q \in Path /\ Len(q) \in 0 .. Len(p)
    BY PrefixIs, Zenon
  <2>2. ~(Len(q) \in d + 1 .. f)
    BY <1>3, <1>10, Zenon DEF Added
  <2>3. Len(q) <= d
    BY <1>2, <1>5, <1>10, <2>1, <2>2
  <2>4. SubSeq(p, 1, d) \in Path /\ SubSeq(p, 1, d) \in Prefixes(p) /\ Len(SubSeq(p, 1, d)) = d
    BY <1>1, <1>3, PathIs, PrefixIs, Zenon
  <2>5. q \in Prefixes(SubSeq(p, 1, d))
    <3>1. Len(q) <= Len(SubSeq(p, 1, d))
      BY <2>3, <2>4, Zenon
    <3>. QED BY <2>4, <3>1, PrefixOrder, Zenon
  <2>6. treeAt[SubSeq(p, 1, d)] # NONE
    BY <1>1, <1>3, Zenon
  <2>. QED BY <1>0, <2>4, <2>5, <2>6, AboveInTree, Zenon
<1>. QED BY <1>1, <1>3, <1>6, <1>7, <1>8, <1>9, <1>10, Zenon

\* The tree with what the walk has added to it.
WalkParts(p, f, at2, nd2) ==
  /\ at2 \in Trees /\ nd2 \in Records
  /\ \A q \in Path : treeAt[q] # NONE => at2[q] = treeAt[q] /\ nd2[at2[q]] = treeNode[treeAt[q]]
  /\ \A q \in Path : treeAt[q] = NONE /\ at2[q] # NONE => q \in Added(p, f)
  /\ \A q \in Added(p, f) : /\ at2[q] = FreshOf(p, q) /\ at2[q] \in Free /\ at2[q] # NONE
                            /\ Unshared(nd2[at2[q]])
  /\ \A n \in Nodes : n \notin Free => nd2[n] = treeNode[n]
LEMMA WalkIs ==
  ASSUME TreeInv, NEW p \in Path, NEW f, Walks(p, f), NEW at2, NEW nd2, Walked(p, f, at2, nd2)
  PROVE  WalkParts(p, f, at2, nd2)
<1>1. /\ \A q \in Added(p, f) : q \in Path /\ treeAt[q] = NONE /\ FreshOf(p, q) \in Free
      /\ \A q, r \in Added(p, f) : FreshOf(p, q) = FreshOf(p, r) => q = r
  BY AddedIs, Zenon
<1>2. \A q \in Path : at2[q] = IF q \in Added(p, f) THEN FreshOf(p, q) ELSE treeAt[q]
  BY Zenon DEF Walked
<1>3. \A n \in Nodes : n \notin Free => nd2[n] = treeNode[n]
  BY <1>1, Zenon DEF Walked
<1>4. \A q \in Path : treeAt[q] \in Nodes \cup {NONE}
  BY TypesAre DEF Trees
<1>5. at2 \in Trees
  <2>1. \A q \in Path : at2[q] \in Nodes \cup {NONE}
    <3>1. Free \subseteq Nodes
      BY FreeFinite, Zenon
    <3>. QED BY <1>1, <1>2, <1>4, <3>1
  <2>. QED BY <2>1, Zenon DEF Trees, Walked
<1>6. ASSUME NEW q \in Path, treeAt[q] # NONE PROVE at2[q] = treeAt[q] /\ nd2[at2[q]] = treeNode[treeAt[q]]
  <2>1. at2[q] = treeAt[q]
    BY <1>1, <1>2, <1>6, Zenon
  <2>2. treeAt[q] \in Nodes
    BY <1>4, <1>6
  <2>3. treeAt[q] \notin Free
    BY FreeIs, Zenon
  <2>4. nd2[treeAt[q]] = treeNode[treeAt[q]]
    BY <1>3, <2>2, <2>3, Zenon
  <2>. QED BY <2>1, <2>4, Zenon
<1>7. \A q \in Path : treeAt[q] = NONE /\ at2[q] # NONE => q \in Added(p, f)
  BY <1>2, Zenon
<1>8. \A q \in Added(p, f) : at2[q] = FreshOf(p, q) /\ at2[q] \in Free /\ at2[q] # NONE /\ Unshared(nd2[at2[q]])
  BY <1>1, <1>2, FreeIs, Zenon DEF Walked
<1>9. nd2 \in Records
  BY Zenon DEF Walked
<1>. QED BY <1>3, <1>5, <1>6, <1>7, <1>8, <1>9, Zenon DEF WalkParts

LEMMA WalkSound ==
  ASSUME TreeInv, NEW p \in Path, NEW f, Walks(p, f), NEW at2, NEW nd2, Walked(p, f, at2, nd2)
  PROVE  /\ Sound(at2, nd2, hold) /\ at2[SubSeq(p, 1, f)] # NONE
         /\ \A q \in Path \ {Root} : at2[q] # NONE /\ q # SubSeq(p, 1, f) => Needed(at2, nd2, hold, q)
<1>1. /\ at2 \in Trees /\ nd2 \in Records
      /\ \A q \in Path : treeAt[q] # NONE => at2[q] = treeAt[q] /\ nd2[at2[q]] = treeNode[treeAt[q]]
      /\ \A q \in Path : treeAt[q] = NONE /\ at2[q] # NONE => q \in Added(p, f)
      /\ \A q \in Added(p, f) : at2[q] = FreshOf(p, q) /\ at2[q] \in Free /\ at2[q] # NONE /\ Unshared(nd2[at2[q]])
  <2>1. WalkParts(p, f, at2, nd2)
    BY WalkIs, Zenon
  <2>. QED BY <2>1, Zenon DEF WalkParts
<1>2. /\ f \in 0 .. Len(p)
      /\ \A q \in Added(p, f) : /\ q \in Prefixes(p) /\ q \in Path /\ q # Root /\ treeAt[q] = NONE
                                /\ Len(q) \in VfsFound(p) + 1 .. f
      /\ \A q, r \in Added(p, f) : FreshOf(p, q) = FreshOf(p, r) => q = r
      /\ \A q \in Prefixes(p) : Len(q) <= f => q \in Added(p, f) \/ treeAt[q] # NONE
      /\ VfsFound(p) \in 0 .. Len(p)
  BY AddedIs, Zenon
<1>3. Sound(treeAt, treeNode, hold) /\ Tidy(treeAt, treeNode, hold) /\ Len(p) \in Nat
  BY TypesAre, PathIs, Zenon
<1>4. \A q \in Prefixes(p) : Len(q) <= f => at2[q] # NONE
  <2>1. \A q \in Prefixes(p) : q \in Path
    BY PrefixIs, Zenon
  <2>. QED BY <1>1, <1>2, <2>1, Zenon
<1>5. RootStays(at2, nd2)
  BY <1>1, <1>3, VfsAssumption, Zenon DEF Sound, RootStays
<1>6. AtOnce(at2)
  <2>. SUFFICES ASSUME NEW q \in Path, NEW r \in Path, at2[q] # NONE, at2[q] = at2[r] PROVE q = r
    BY Zenon DEF AtOnce
  <2>1. CASE q \in Added(p, f) /\ r \in Added(p, f)
    <3>1. FreshOf(p, q) = FreshOf(p, r)
      BY <1>1, <2>1, Zenon
    <3>. QED BY <1>2, <2>1, <3>1, Zenon
  <2>2. CASE q \in Added(p, f) /\ r \notin Added(p, f)
    <3>1. treeAt[r] # NONE
      BY <1>1, <2>2, Zenon
    <3>2. treeAt[r] = at2[q]
      BY <1>1, <3>1, Zenon
    <3>. QED BY <1>1, <2>2, <3>2, FreeIs, Zenon
  <2>3. CASE q \notin Added(p, f) /\ r \in Added(p, f)
    <3>1. treeAt[q] # NONE
      BY <1>1, <2>3, Zenon
    <3>2. treeAt[q] = at2[r]
      BY <1>1, <3>1, Zenon
    <3>. QED BY <1>1, <2>3, <3>2, FreeIs, Zenon
  <2>4. CASE q \notin Added(p, f) /\ r \notin Added(p, f)
    <3>1. treeAt[q] # NONE /\ treeAt[r] # NONE
      BY <1>1, <2>4, Zenon
    <3>2. treeAt[q] = treeAt[r]
      BY <1>1, <3>1, Zenon
    <3>. QED BY <1>3, <3>1, <3>2, Zenon DEF Sound, AtOnce
  <2>. QED BY <2>1, <2>2, <2>3, <2>4, Zenon
<1>7. NoGap(at2)
  <2>. SUFFICES ASSUME NEW q \in Path, q # Root, at2[q] # NONE PROVE at2[Parent(q)] # NONE
    BY Zenon DEF NoGap, Parent
  <2>0. Parent(q) \in Prefixes(q) /\ Parent(q) \in Path /\ Len(Parent(q)) = Len(q) - 1 /\ Len(q) \in Nat
    BY ParentIs, Zenon
  <2>1. CASE q \in Added(p, f)
    <3>1. Parent(q) \in Prefixes(p)
      BY <1>2, <2>0, <2>1, PrefixOrder, Zenon
    <3>2. Len(q) \in VfsFound(p) + 1 .. f
      BY <1>2, <2>1, Zenon
    <3>3. Len(Parent(q)) <= f
      BY <1>2, <1>3, <2>0, <3>2
    <3>. QED BY <1>4, <3>1, <3>3, Zenon
  <2>2. CASE q \notin Added(p, f)
    <3>1. treeAt[q] # NONE
      BY <1>1, <2>2, Zenon
    <3>2. treeAt[Parent(q)] # NONE
      BY <1>3, <3>1, Zenon DEF Sound, NoGap, Parent
    <3>. QED BY <1>1, <2>0, <3>2, Zenon
  <2>. QED BY <2>1, <2>2
<1>8. HeldInTree(at2, hold)
  <2>. SUFFICES ASSUME NEW t \in Users, hold[t] # NONE PROVE \E q \in Path : at2[q] = hold[t]
    BY Zenon DEF HeldInTree
  <2>1. PICK q \in Path : treeAt[q] = hold[t]
    BY <1>3, Zenon DEF Sound, HeldInTree
  <2>. QED BY <1>1, <2>1, Zenon
<1>9. \A q \in Path : at2[q] # NONE => NodeCounted(nd2, hold, at2[q])
  <2>. SUFFICES ASSUME NEW q \in Path, at2[q] # NONE PROVE NodeCounted(nd2, hold, at2[q])
    OBVIOUS
  <2>1. CASE q \in Added(p, f)
    <3>1. at2[q] \in Free /\ Unshared(nd2[at2[q]])
      BY <1>1, <2>1, Zenon
    <3>2. Cardinality(UsersOf(hold, at2[q])) = 0
      BY <3>1, FreeIs
    <3>. QED BY <3>1, <3>2 DEF NodeCounted, Unshared
  <2>2. CASE q \notin Added(p, f)
    <3>1. treeAt[q] # NONE
      BY <1>1, <2>2, Zenon
    <3>2. NodeCounted(treeNode, hold, treeAt[q])
      BY <1>3, <3>1, Zenon DEF Sound
    <3>. QED BY <1>1, <3>1, <3>2, Zenon DEF NodeCounted
  <2>. QED BY <2>1, <2>2
<1>10. at2[SubSeq(p, 1, f)] # NONE
  <2>0. f \in 0 .. Len(p) /\ f <= f
    BY <1>2, <1>3, PathIs
  <2>1. SubSeq(p, 1, f) \in Prefixes(p) /\ Len(SubSeq(p, 1, f)) = f /\ f <= f
    BY <2>0, PathIs, PrefixIs, Zenon
  <2>2. Len(SubSeq(p, 1, f)) <= f
    BY <2>1, Zenon
  <2>. QED BY <1>4, <2>1, <2>2, Zenon
<1>11. ASSUME NEW q \in Path, q # Root, at2[q] # NONE, q # SubSeq(p, 1, f) PROVE Needed(at2, nd2, hold, q)
  <2>1. CASE q \in Added(p, f)
    <3>1. q \in Prefixes(p) /\ Len(q) \in VfsFound(p) + 1 .. f
      BY <1>2, <2>1, Zenon
    <3>2. q = SubSeq(p, 1, Len(q)) /\ Len(q) \in 0 .. Len(p)
      BY <3>1, PrefixIs, Zenon
    <3>3. Len(q) # f
      BY <1>11, <3>2, Zenon
    <3>4. Len(q) + 1 \in 0 .. Len(p) /\ Len(q) + 1 <= f /\ Len(q) + 1 # 0 /\ Len(q) \in 0 .. Len(q) + 1 /\ (Len(q) + 1) - 1 = Len(q)
      <4>1. f \in 0 .. Len(p) /\ VfsFound(p) \in 0 .. Len(p) /\ Len(p) \in Nat
        BY <1>2, <1>3, Zenon
      <4>2. Len(q) \in 0 .. Len(p)
        BY <3>2, Zenon
      <4>3. PICK l \in Nat : l = Len(q)
        BY <4>1, <4>2
      <4>. QED BY <3>1, <3>3, <4>1, <4>2, <4>3
    <3>. DEFINE c == SubSeq(p, 1, Len(q) + 1)
    <3>5. c \in Path /\ c \in Prefixes(p) /\ Len(c) = Len(q) + 1
      BY <3>4, PathIs, PrefixIs, Zenon
    <3>6. c # Root
      BY <3>4, <3>5, PathIs, Zenon
    <3>7. Parent(c) = q
      BY <3>2, <3>4, <3>5, PrefixOfPrefix, Zenon DEF Parent
    <3>8. at2[c] # NONE
      BY <1>4, <3>4, <3>5, Zenon
    <3>9. c \in Children(at2, q)
      BY <3>5, <3>6, <3>7, <3>8, ChildIs, Zenon
    <3>10. Children(at2, q) # {}
      BY <3>9
    <3>. QED BY <3>10, Zenon DEF Needed
  <2>2. CASE q \notin Added(p, f)
    <3>1. treeAt[q] # NONE
      BY <1>1, <1>11, <2>2, Zenon
    <3>2. Needed(treeAt, treeNode, hold, q)
      BY <1>3, <1>11, <3>1, Zenon DEF Tidy
    <3>3. ASSUME Children(treeAt, q) # {} PROVE Children(at2, q) # {}
      <4>1. PICK c \in Path : c \in Children(treeAt, q)
        BY <3>3 DEF Children
      <4>2. c # Root /\ Parent(c) = q /\ treeAt[c] # NONE
        BY <4>1, ChildIs, Zenon
      <4>3. at2[c] # NONE
        BY <1>1, <4>2, Zenon
      <4>4. c \in Children(at2, q)
        BY <4>2, <4>3, ChildIs, Zenon
      <4>. QED BY <4>4
    <3>. QED BY <1>1, <3>1, <3>2, <3>3, Zenon DEF Needed
  <2>. QED BY <2>1, <2>2
<1>. QED BY <1>5, <1>6, <1>7, <1>8, <1>9, <1>10, <1>11, Zenon DEF Sound

\* The walk mounts nothing and opens nothing.
LEMMA WalkKeeps ==
  ASSUME TreeInv, NEW p \in Path, NEW f, Walks(p, f), NEW at2, NEW nd2, Walked(p, f, at2, nd2)
  PROVE  /\ MountShared(at2, nd2) /\ Waits(at2, nd2, treeNew) /\ OneUser(nd2, hold, treePc)
         /\ \A q \in Path : ForeignIn(at2, nd2, q) <=> ForeignIn(treeAt, treeNode, q)
<1>1. /\ \A q \in Path : treeAt[q] # NONE => at2[q] = treeAt[q] /\ nd2[at2[q]] = treeNode[treeAt[q]]
      /\ \A q \in Path : treeAt[q] = NONE /\ at2[q] # NONE => q \in Added(p, f)
      /\ \A q \in Added(p, f) : at2[q] \in Free /\ at2[q] # NONE /\ Unshared(nd2[at2[q]])
      /\ \A n \in Nodes : n \notin Free => nd2[n] = treeNode[n]
  <2>1. WalkParts(p, f, at2, nd2)
    BY WalkIs, Zenon
  <2>. QED BY <2>1, Zenon DEF WalkParts
<1>2. /\ MountShared(treeAt, treeNode) /\ Waits(treeAt, treeNode, treeNew) /\ OneUser(treeNode, hold, treePc)
      /\ hold \in Holder /\ treeNew \in Holder
  BY TypesAre, Zenon DEF TreeParts
<1>3. \A q \in Path : at2[q] # NONE /\ nd2[at2[q]].mount_state = 1 =>
        treeAt[q] # NONE /\ at2[q] = treeAt[q] /\ nd2[at2[q]] = treeNode[treeAt[q]]
  <2>1. 1 # 0
    OBVIOUS
  <2>. QED BY <1>1, <2>1, Zenon DEF Unshared
<1>4. MountShared(at2, nd2)
  BY <1>2, <1>3, Zenon DEF MountShared
<1>5. Waits(at2, nd2, treeNew)
  <2>1. ASSUME NEW t \in Users, treeNew[t] # NONE PROVE nd2[treeNew[t]] = treeNode[treeNew[t]] /\ \A q \in Path : at2[q] # treeNew[t]
    <3>1. treeNew[t] \in Nodes
      BY <1>2, <2>1 DEF Holder
    <3>2. treeNew[t] \notin Free
      BY FreeIs, Zenon
    <3>3. \A q \in Path : at2[q] # treeNew[t]
      BY <1>1, <1>2, <2>1, <3>2, Zenon DEF Waits
    <3>. QED BY <1>1, <3>1, <3>2, <3>3, Zenon
  <2>2. \A t \in Users, q \in Path : treeNew[t] # NONE => at2[q] # treeNew[t]
    BY <2>1, Zenon
  <2>3. \A t \in Users : treeNew[t] # NONE => nd2[treeNew[t]] = treeNode[treeNew[t]]
    BY <2>1, Zenon
  <2>. QED BY <1>2, <2>2, <2>3, Zenon DEF Waits
<1>6. OneUser(nd2, hold, treePc)
  <2>. SUFFICES ASSUME NEW n \in Nodes, nd2[n].exclusive, nd2[n].type = "file", NEW u \in Users, NEW v \in Users,
                       hold[u] = n, hold[v] = n, treePc[u] # "stat_only", treePc[v] # "stat_only"
                PROVE  u = v
    BY Zenon DEF OneUser
  <2>1. n \notin Free
    BY FreeIs, Zenon
  <2>. QED BY <1>1, <1>2, <2>1, Zenon DEF OneUser
<1>7. ASSUME NEW q \in Path PROVE ForeignIn(at2, nd2, q) <=> ForeignIn(treeAt, treeNode, q)
  <2>1. \A r \in Prefixes(q) : r \in Path
    BY PrefixIs, Zenon
  <2>. QED BY <1>1, <1>3, <2>1, Zenon DEF ForeignIn
<1>. QED BY <1>4, <1>5, <1>6, <1>7, Zenon

\* What the walk finds, or makes, is on the volume.
LEMMA WalkOnDisk ==
  ASSUME TreeInv, NEW p \in Path, NEW f, Walks(p, f), NEW at2, NEW nd2, Walked(p, f, at2, nd2), NEW dk,
         \A q \in Path : treeAt[q] # NONE => dk[q] = disk[q],
         \A q \in Added(p, f) : ~ForeignIn(treeAt, treeNode, q) => dk[q] = nd2[FreshOf(p, q)].type
  PROVE  OnDisk(at2, nd2, dk)
<1>1. /\ \A q \in Path : treeAt[q] # NONE => at2[q] = treeAt[q] /\ nd2[at2[q]] = treeNode[treeAt[q]]
      /\ \A q \in Path : treeAt[q] = NONE /\ at2[q] # NONE => q \in Added(p, f)
      /\ \A q \in Added(p, f) : at2[q] = FreshOf(p, q)
  <2>1. WalkParts(p, f, at2, nd2)
    BY WalkIs, Zenon
  <2>. QED BY <2>1, Zenon DEF WalkParts
<1>2. \A q \in Path : ForeignIn(at2, nd2, q) <=> ForeignIn(treeAt, treeNode, q)
  BY WalkKeeps, Zenon
<1>3. OnDisk(treeAt, treeNode, disk)
  BY TypesAre, Zenon DEF TreeParts
<1>. SUFFICES ASSUME NEW q \in Path, at2[q] # NONE, nd2[at2[q]].mount_state = 0, ~ForeignIn(at2, nd2, q)
              PROVE  dk[q] = nd2[at2[q]].type
  BY Zenon DEF OnDisk
<1>4. CASE treeAt[q] # NONE
  BY <1>1, <1>2, <1>3, <1>4, Zenon DEF OnDisk
<1>5. CASE treeAt[q] = NONE
  BY <1>1, <1>2, <1>5, Zenon
<1>. QED BY <1>4, <1>5

-----------------------------------------------------------------------------
(***************************************************************************)
(* The steps of the tree.                                                  *)
(***************************************************************************)
LEMMA TreeInvNext ==
  ASSUME NEW at \in Trees, NEW nd \in Records, NEW hd \in Holder, NEW new \in Holder,
         NEW dk \in [Path -> {"dir", "file", "none"}],
         NEW pc \in [Users -> Types \cup {"idle", "truncate", "stat_only", "mount"}],
         treeAt' = at, treeNode' = nd, hold' = hd, treeNew' = new, disk' = dk, treePc' = pc,
         TreeParts(at, nd, hd, dk, pc, new), Places(hd, new, pc)
  PROVE  TreeInv'
<1>1. VfsTypeOK'
  BY Zenon DEF VfsTypeOK, Trees, Records, NodeStates, Holder
<1>2. TreeParts(treeAt, treeNode, hold, disk, treePc, treeNew)'
  BY Zenon
<1>3. Places(hold, treeNew, treePc)'
  BY Zenon
<1>. QED BY <1>1, <1>2, <1>3, Zenon DEF TreeInv

\* n_open looks at the directory that it opens in.
LEMMA CanOpenIs ==
  ASSUME TreeInv, NEW c \in Path, c # Root, treeAt[Parent(c)] = NONE, NEW m, CanOpen(c, m),
         ~ForeignIn(treeAt, treeNode, Parent(c))
  PROVE  disk[Parent(c)] = "dir"
<1>. SUFFICES ASSUME Foreign(c) PROVE FALSE
  BY Zenon DEF CanOpen, Parent
<1>1. PICK r \in Prefixes(c) \ {Root, c} : treeAt[r] # NONE /\ treeNode[treeAt[r]].mount_state = 1
  BY Zenon DEF Foreign
<1>2. r \in Prefixes(Parent(c))
  BY <1>1, ParentIs, Zenon
<1>3. r # Parent(c)
  BY <1>1, Zenon
<1>. QED BY <1>1, <1>2, <1>3, Zenon DEF ForeignIn

LEMMA WalkDirs ==
  ASSUME TreeInv, NEW p \in Path, NEW f, Walks(p, f),
         \A q \in Added(p, f) : \E m : CanOpen(q, m)
  PROVE  \A q \in Added(p, f) : Len(q) < f /\ ~ForeignIn(treeAt, treeNode, q) => disk[q] = "dir"
<1>. SUFFICES ASSUME NEW q \in Added(p, f), Len(q) < f, ~ForeignIn(treeAt, treeNode, q) PROVE disk[q] = "dir"
  BY Zenon
<1>1. /\ f \in 0 .. Len(p) /\ q \in Prefixes(p) /\ q \in Path /\ treeAt[q] = NONE
      /\ Len(q) \in VfsFound(p) + 1 .. f /\ VfsFound(p) \in 0 .. Len(p)
  BY AddedIs, Zenon
<1>2. q = SubSeq(p, 1, Len(q))
  BY <1>1, PrefixIs, Zenon
<1>3. PICK l : l = Len(q)
  OBVIOUS
<1>4. Len(p) \in Nat
  BY PathIs, Zenon
<1>5. PICK d \in Nat : d = VfsFound(p)
  BY <1>1, <1>4
<1>6. l \in d + 1 .. f /\ l < f /\ f \in 0 .. Len(p)
  BY <1>1, <1>3, <1>5, Zenon
<1>7. l + 1 \in 0 .. Len(p) /\ l + 1 \in d + 1 .. f /\ l + 1 # 0 /\ l \in 0 .. l + 1 /\ (l + 1) - 1 = l
  BY <1>4, <1>6
<1>. DEFINE c == SubSeq(p, 1, l + 1)
<1>8. c \in Path /\ c \in Prefixes(p) /\ Len(c) = l + 1
  BY <1>7, PathIs, PrefixIs, Zenon
<1>9. c # Root
  BY <1>7, <1>8, PathIs, Zenon
<1>10. Parent(c) = q
  BY <1>2, <1>3, <1>7, <1>8, PrefixOfPrefix, Zenon DEF Parent
<1>11. c \in Added(p, f)
  BY <1>5, <1>7, <1>8, Zenon DEF Added
<1>12. PICK m : CanOpen(c, m)
  BY <1>11, Zenon
<1>. QED BY <1>1, <1>8, <1>9, <1>10, <1>12, CanOpenIs, Zenon

\* vfs_open takes what the walk has come to.
OpenFits(t, p, nd2, dk, pc) ==
  /\ \A u \in Users : u # t => pc[u] = treePc[u]
  /\ \A q \in Path : treeAt[q] # NONE => dk[q] = disk[q]
  /\ \A q \in Added(p, Len(p)) : ~ForeignIn(treeAt, treeNode, q) => dk[q] = nd2[FreshOf(p, q)].type
  /\ pc[t] # "stat_only" /\ treeAt[p] # NONE => ~treeNode[treeAt[p]].exclusive
OpenRight(t, at, nd, hd, dk, pc) ==
  /\ at \in Trees /\ nd \in Records /\ hd \in Holder
  /\ TreeParts(at, nd, hd, dk, pc, treeNew)
  /\ hd[t] # NONE /\ \A u \in Users : u # t => hd[u] = hold[u]
LEMMA OpenKeeps ==
  ASSUME TreeInv, NEW t \in Users, hold[t] = NONE, NEW p \in Path, Walks(p, Len(p)),
         NEW at2, NEW nd2, Walked(p, Len(p), at2, nd2),
         NEW nd3, NEW hd3, Taken(nd2, hold, t, at2[p], nd3, hd3), NEW dk, NEW pc, OpenFits(t, p, nd2, dk, pc)
  PROVE  OpenRight(t, at2, nd3, hd3, dk, pc)
<1>1. WalkParts(p, Len(p), at2, nd2) /\ hold \in Holder /\ treeNew \in Holder
  BY WalkIs, TypesAre, Zenon
<1>2. at2 \in Trees /\ nd2 \in Records
  BY <1>1, Zenon DEF WalkParts
<1>3. /\ Sound(at2, nd2, hold) /\ at2[p] # NONE
      /\ \A q \in Path \ {Root} : at2[q] # NONE /\ q # p => Needed(at2, nd2, hold, q)
  <2>1. SubSeq(p, 1, Len(p)) = p
    BY PathIs, Zenon
  <2>2. /\ Sound(at2, nd2, hold) /\ at2[SubSeq(p, 1, Len(p))] # NONE
        /\ \A q \in Path \ {Root} : at2[q] # NONE /\ q # SubSeq(p, 1, Len(p)) => Needed(at2, nd2, hold, q)
    BY WalkSound, Zenon
  <2>. QED BY <2>1, <2>2, Zenon
<1>4. PICK n \in Nodes : n = at2[p]
  BY <1>2, <1>3 DEF Trees
<1>5. /\ hd3 \in Holder /\ nd3 \in Records /\ Like(nd2, nd3) /\ hd3[t] = n
      /\ Sound(at2, nd3, hd3) /\ Tidy(at2, nd3, hd3)
      /\ \A m \in Nodes : m # n => nd3[m] = nd2[m]
      /\ \A u \in Users : u # t => hd3[u] = hold[u]
  <2>1. Taken(nd2, hold, t, n, nd3, hd3)
    BY <1>4, Zenon
  <2>2. at2[p] = n /\ Sound(at2, nd2, hold) /\ n \in Nodes /\ hold \in Holder
    BY <1>1, <1>3, <1>4, Zenon
  <2>3. \A q \in Path \ {Root} : at2[q] # NONE /\ q # p => Needed(at2, nd2, hold, q)
    BY <1>3, Zenon
  <2>. QED BY <1>2, <2>1, <2>2, <2>3, TakeKeeps
<1>6. OnDisk(at2, nd2, dk)
  BY WalkOnDisk, Zenon DEF OpenFits
<1>7. MountShared(at2, nd2) /\ Waits(at2, nd2, treeNew) /\ OneUser(nd2, hold, treePc)
  BY WalkKeeps, Zenon
<1>8. OnDisk(at2, nd3, dk) /\ MountShared(at2, nd3)
  BY <1>2, <1>5, <1>6, <1>7, LikeKeeps, Zenon
<1>9. Waits(at2, nd3, treeNew)
  <2>1. \A u \in Users : treeNew[u] # NONE => nd3[treeNew[u]] = nd2[treeNew[u]]
    <3>. SUFFICES ASSUME NEW u \in Users, treeNew[u] # NONE PROVE nd3[treeNew[u]] = nd2[treeNew[u]]
      OBVIOUS
    <3>1. treeNew[u] \in Nodes
      BY <1>1 DEF Holder
    <3>2. treeNew[u] # n
      BY <1>4, <1>7, Zenon DEF Waits
    <3>. QED BY <1>5, <3>1, <3>2, Zenon
  <2>. QED BY <1>7, <2>1, Zenon DEF Waits
<1>10. OneUser(nd3, hd3, pc)
  <2>. SUFFICES ASSUME NEW m \in Nodes, nd3[m].exclusive, nd3[m].type = "file", NEW u \in Users, NEW v \in Users,
                       hd3[u] = m, hd3[v] = m, pc[u] # "stat_only", pc[v] # "stat_only"
                PROVE  u = v
    BY Zenon DEF OneUser
  <2>1. nd2[m].exclusive /\ nd2[m].type = "file"
    BY <1>5, Zenon DEF Like
  <2>2. ASSUME NEW x \in Users, NEW y \in Users, x = t, y # t, hd3[x] = m, hd3[y] = m, pc[x] # "stat_only" PROVE FALSE
    <3>1. m = n /\ hold[y] = n
      BY <1>5, <2>2, Zenon
    <3>2. n \notin Free
      BY <3>1, FreeIs, Zenon
    <3>3. treeAt[p] # NONE
      <4>. SUFFICES ASSUME treeAt[p] = NONE PROVE FALSE
        OBVIOUS
      <4>1. p \in Added(p, Len(p))
        BY <1>1, <1>3, Zenon DEF WalkParts
      <4>2. at2[p] \in Free
        BY <1>1, <4>1, Zenon DEF WalkParts
      <4>. QED BY <1>4, <3>2, <4>2, Zenon
    <3>4. at2[p] = treeAt[p] /\ nd2[at2[p]] = treeNode[treeAt[p]]
      BY <1>1, <3>3, Zenon DEF WalkParts
    <3>5. ~treeNode[treeAt[p]].exclusive
      BY <2>2, <3>3, Zenon DEF OpenFits
    <3>. QED BY <1>4, <2>1, <3>1, <3>4, <3>5, Zenon
  <2>3. CASE u # t /\ v # t
    <3>1. hold[u] = m /\ hold[v] = m /\ treePc[u] # "stat_only" /\ treePc[v] # "stat_only"
      BY <1>5, <2>3, Zenon DEF OpenFits
    <3>. QED BY <1>7, <2>1, <3>1, Zenon DEF OneUser
  <2>. QED BY <2>2, <2>3, Zenon
<1>11. n # NONE
  BY <1>3, <1>4, Zenon
<1>. QED BY <1>2, <1>5, <1>8, <1>9, <1>10, <1>11, Zenon DEF TreeParts, OpenRight

\* A step that changes only the tree and its nodes.
LEMMA TreeInvSame ==
  ASSUME TreeInv, NEW at \in Trees, NEW nd \in Records, treeAt' = at, treeNode' = nd,
         hold' = hold, disk' = disk, treePc' = treePc, treeNew' = treeNew,
         TreeParts(at, nd, hold, disk, treePc, treeNew)
  PROVE  TreeInv'
<1>1. /\ hold \in Holder /\ treeNew \in Holder /\ Places(hold, treeNew, treePc)
      /\ treePc \in [Users -> Types \cup {"idle", "truncate", "stat_only", "mount"}]
      /\ disk \in [Path -> {"dir", "file", "none"}]
  BY TypesAre, Zenon
<1>2. PICK hd, new, pc, dk : hd = hold /\ new = treeNew /\ pc = treePc /\ dk = disk
  OBVIOUS
<1>3. /\ hd \in Holder /\ new \in Holder /\ Places(hd, new, pc)
      /\ pc \in [Users -> Types \cup {"idle", "truncate", "stat_only", "mount"}]
      /\ dk \in [Path -> {"dir", "file", "none"}]
      /\ TreeParts(at, nd, hd, dk, pc, new)
  BY <1>1, <1>2, Zenon
<1>4. treeAt' = at /\ treeNode' = nd /\ hold' = hd /\ disk' = dk /\ treePc' = pc /\ treeNew' = new
  BY <1>2, Zenon
<1>. QED BY <1>3, <1>4, TreeInvNext, Zenon

\* A node that the walk makes.
LEMMA FreshIs ==
  ASSUME NEW type \in {"dir", "file"}, NEW b \in BOOLEAN
  PROVE  LET x == [Fresh(type, b) EXCEPT !.n_release = TRUE] IN
           x \in NodeStates /\ Unshared(x) /\ x.type = type /\ x.exclusive = b
BY DEF Fresh, NodeStates, Unshared

\* What OpenTree does, once the walk and the last component are told apart.
Opened(p, mode, made, at2, nd2) ==
  /\ at2 = [q \in Path |-> IF q \in Added(p, Len(p)) THEN FreshOf(p, q) ELSE treeAt[q]]
  /\ nd2 = [m \in Nodes |->
       IF \E q \in Added(p, Len(p)) : m = FreshOf(p, q)
         THEN [Fresh(IF m = at2[p] THEN made ELSE "dir", m = at2[p] /\ "exclusive" \in mode)
                 EXCEPT !.n_release = TRUE]
         ELSE treeNode[m]]
Kinds == {"dir", "file"}
MadeLast(p, made, nd2) ==
  \A q \in Added(p, Len(p)) : nd2[FreshOf(p, q)].type = IF q = p THEN made ELSE "dir"
LEMMA OpenedIs ==
  ASSUME TreeInv, NEW p \in Path, Walks(p, Len(p)), NEW mode, NEW made \in Kinds,
         NEW at2, NEW nd2, Opened(p, mode, made, at2, nd2)
  PROVE  Walked(p, Len(p), at2, nd2) /\ MadeLast(p, made, nd2)
<1>1. /\ \A q \in Added(p, Len(p)) : q \in Prefixes(p) /\ FreshOf(p, q) \in Free /\ q \in Path
      /\ \A q, r \in Added(p, Len(p)) : FreshOf(p, q) = FreshOf(p, r) => q = r
      /\ \A q \in Prefixes(p) : Len(q) <= Len(p) => q \in Added(p, Len(p)) \/ treeAt[q] # NONE
  BY AddedIs, Zenon
<1>2. \A q \in Added(p, Len(p)) : FreshOf(p, q) \in Nodes /\ \A r \in Path : treeAt[r] # FreshOf(p, q)
  BY <1>1, FreeIs, Zenon
<1>3. at2 = [q \in Path |-> IF q \in Added(p, Len(p)) THEN FreshOf(p, q) ELSE treeAt[q]]
  BY Zenon DEF Opened
<1>4. \A m \in Nodes : nd2[m] =
        IF \E q \in Added(p, Len(p)) : m = FreshOf(p, q)
          THEN [Fresh(IF m = at2[p] THEN made ELSE "dir", m = at2[p] /\ "exclusive" \in mode)
                  EXCEPT !.n_release = TRUE]
          ELSE treeNode[m]
  BY Zenon DEF Opened
<1>5. ASSUME NEW q \in Added(p, Len(p))
      PROVE /\ nd2[FreshOf(p, q)] \in NodeStates /\ Unshared(nd2[FreshOf(p, q)])
            /\ nd2[FreshOf(p, q)].type = IF q = p THEN made ELSE "dir"
  <2>1. PICK m \in Nodes : m = FreshOf(p, q)
    BY <1>2, Zenon
  <2>2. PICK type \in {"dir", "file"} : type = IF m = at2[p] THEN made ELSE "dir"
    <3>1. made \in {"dir", "file"} /\ "dir" \in {"dir", "file"}
      BY DEF Kinds
    <3>2. CASE m = at2[p]
      BY <3>1, <3>2, Zenon
    <3>3. CASE m # at2[p]
      BY <3>1, <3>3, Zenon
    <3>. QED BY <3>2, <3>3
  <2>3. PICK b \in BOOLEAN : b = (m = at2[p] /\ "exclusive" \in mode)
    OBVIOUS
  <2>4. nd2[m] = [Fresh(type, b) EXCEPT !.n_release = TRUE]
    <3>1. \E r \in Added(p, Len(p)) : m = FreshOf(p, r)
      BY <2>1, Zenon
    <3>. QED BY <1>4, <2>2, <2>3, <3>1, Zenon
  <2>5. nd2[m] \in NodeStates /\ Unshared(nd2[m]) /\ nd2[m].type = type
    BY <2>4, FreshIs, Zenon
  <2>6. m = at2[p] <=> q = p
    <3>1. p \in Path
      OBVIOUS
    <3>2. CASE p \in Added(p, Len(p))
      <4>1. at2[p] = FreshOf(p, p)
        BY <1>3, <3>2, Zenon
      <4>. QED BY <1>1, <2>1, <3>2, <4>1, Zenon
    <3>3. CASE p \notin Added(p, Len(p))
      <4>1. at2[p] = treeAt[p]
        BY <1>3, <3>3, Zenon
      <4>. QED BY <1>2, <2>1, <3>3, <4>1, Zenon
    <3>. QED BY <3>2, <3>3
  <2>. QED BY <2>1, <2>2, <2>5, <2>6, Zenon
<1>6. nd2 \in Records
  <2>1. treeNode \in Records
    BY TypesAre, Zenon
  <2>2. ASSUME NEW m \in Nodes PROVE nd2[m] \in NodeStates
    <3>1. treeNode[m] \in NodeStates
      BY <2>1 DEF Records
    <3>. QED BY <1>4, <1>5, <3>1, Zenon
  <2>. QED BY <2>2, Zenon DEF Records, Opened
<1>7. \A n \in Nodes : (\A q \in Added(p, Len(p)) : n # FreshOf(p, q)) => nd2[n] = treeNode[n]
  BY <1>4, Zenon
<1>. QED BY <1>3, <1>5, <1>6, <1>7, Zenon DEF Walked, MadeLast

LEMMA OpenTreeIs ==
  ASSUME TreeInv, NEW t \in Users, NEW p \in Path, NEW type \in Types, NEW mode, OpenTree(t, p, type, mode)
  PROVE  /\ Walks(p, Len(p)) /\ \A q \in Added(p, Len(p)) : \E m : CanOpen(q, m)
         /\ VfsFound(p) = Len(p) /\ p # Root => ~Busy(treeAt[p], mode)
         /\ VfsFound(p) < Len(p) <=> p \in Added(p, Len(p))
         /\ VfsFound(p) < Len(p) <=> treeAt[p] = NONE
         /\ \E made \in {"dir", "file"} : \E nd2 :
              /\ Opened(p, mode, made, treeAt', nd2)
              /\ treeNode' = [nd2 EXCEPT ![treeAt'[p]] = SetTreeState(Increment(nd2[treeAt'[p]]))]
              /\ hold' = [hold EXCEPT ![t] = treeAt'[p]]
              /\ disk' = IF treeAt[p] = NONE /\ ~Foreign(p) THEN [disk EXCEPT ![p] = made] ELSE disk
<1>0. treeAt[Root] # NONE /\ disk \in [Path -> {"dir", "file", "none"}]
  BY TypesAre, Zenon DEF Sound, RootStays
<1>1. /\ VfsFound(p) \in 0 .. Len(p) /\ treeAt[SubSeq(p, 1, VfsFound(p))] # NONE
      /\ \A j \in 0 .. Len(p) : treeAt[SubSeq(p, 1, j)] # NONE => j <= VfsFound(p)
  BY <1>0, FoundIs, Zenon
<1>2. Len(p) \in Nat /\ p \in Prefixes(p)
  BY PathIs, PrefixIs, Zenon
<1>p. SubSeq(p, 1, Len(p)) = p
  BY PathIs, Zenon
<1>3. PICK d \in Nat : d = VfsFound(p)
  BY <1>1, <1>2
<1>4. d < Len(p) <=> treeAt[p] = NONE
  <2>1. Len(p) \in 0 .. Len(p) /\ d \in 0 .. Len(p)
    BY <1>1, <1>2, <1>3
  <2>2. treeAt[p] # NONE => Len(p) <= d
    BY <1>1, <1>p, <1>3, <2>1, Zenon
  <2>3. d = Len(p) => treeAt[p] # NONE
    BY <1>1, <1>p, <1>3, Zenon
  <2>. QED BY <1>2, <2>1, <2>2, <2>3
<1>5. Walks(p, Len(p))
  <2>1. d < Len(p) => Len(p) - d <= Cardinality(Free)
    BY <1>3, Zenon DEF OpenTree
  <2>2. Cardinality(Free) \in Nat
    BY FreeFinite, Zenon
  <2>3. d \in 0 .. Len(p)
    BY <1>1, <1>3, Zenon
  <2>4. Len(p) \in d .. Len(p) /\ Len(p) - d <= Cardinality(Free)
    BY <1>2, <2>1, <2>2, <2>3
  <2>. QED BY <1>3, <2>4, Zenon DEF Walks
<1>6. \A q \in Prefixes(p) : q \in Added(p, Len(p)) <=> Len(q) > d
  <2>. SUFFICES ASSUME NEW q \in Prefixes(p) PROVE q \in Added(p, Len(p)) <=> Len(q) > d
    OBVIOUS
  <2>1. Len(q) \in 0 .. Len(p)
    BY PrefixIs, Zenon
  <2>2. Len(q) \in d + 1 .. Len(p) <=> Len(q) > d
    BY <1>2, <2>1
  <2>. QED BY <1>3, <2>2, Zenon DEF Added
<1>8. d < Len(p) <=> p \in Added(p, Len(p))
  <2>1. p \in Added(p, Len(p)) <=> Len(p) > d
    BY <1>2, <1>6, Zenon
  <2>. QED BY <1>2, <2>1
<1>9. ASSUME NEW q \in Added(p, Len(p)) PROVE \E m : CanOpen(q, m)
  <2>1. q \in Prefixes(p) /\ Len(q) \in d + 1 .. Len(p)
    BY <1>3, <1>9, Zenon DEF Added
  <2>2. q = SubSeq(p, 1, Len(q))
    BY <2>1, PrefixIs, Zenon
  <2>3. PICK l : l = Len(q)
    OBVIOUS
  <2>4. l \in d + 1 .. Len(p) /\ q = SubSeq(p, 1, l)
    BY <2>1, <2>2, <2>3, Zenon
  <2>5. CASE l = Len(p)
    <3>0. q = p
      BY <1>p, <2>4, <2>5, Zenon
    <3>1. d < Len(p)
      <4>1. l \in d + 1 .. Len(p)
        BY <2>4, Zenon
      <4>. QED BY <1>2, <2>5, <4>1
    <3>2. CanOpen(p, mode)
      BY <1>3, <3>1, Zenon DEF OpenTree
    <3>. QED BY <3>0, <3>2, Zenon
  <2>6. CASE l # Len(p)
    <3>1. l \in d + 1 .. Len(p) - 1
      <4>1. l \in d + 1 .. Len(p)
        BY <2>4, Zenon
      <4>. QED BY <1>2, <2>6, <4>1
    <3>2. CanOpen(SubSeq(p, 1, l), {})
      BY <1>3, <3>1, Zenon DEF OpenTree
    <3>. QED BY <2>4, <3>2, Zenon
  <2>. QED BY <2>5, <2>6
<1>10. d = Len(p) /\ p # Root => ~Busy(treeAt[p], mode)
  BY <1>3, Zenon DEF OpenTree
<1>. DEFINE N == IF VfsFound(p) = Len(p) THEN treeAt[p] ELSE Unused(Len(p) - VfsFound(p))
            ND(made) == [m \in Nodes |->
              IF \E q \in Added(p, Len(p)) : m = FreshOf(p, q)
                THEN [Fresh(IF m = N THEN made ELSE "dir", m = N /\ "exclusive" \in mode)
                        EXCEPT !.n_release = TRUE]
                ELSE treeNode[m]]
<1>11. PICK made \in Made(p, type) :
         /\ treeAt' = [q \in Path |-> IF q \in Added(p, Len(p)) THEN FreshOf(p, q) ELSE treeAt[q]]
         /\ treeNode' = [ND(made) EXCEPT ![N] = SetTreeState(Increment(@))]
         /\ hold' = [hold EXCEPT ![t] = N]
         /\ disk' = IF VfsFound(p) < Len(p) /\ ~Foreign(p) THEN [disk EXCEPT ![p] = made] ELSE disk
  BY Zenon DEF OpenTree, FreshOf, Added
<1>12. N = treeAt'[p]
  <2>1. CASE d = Len(p)
    <3>1. p \notin Added(p, Len(p))
      BY <1>2, <1>8, <2>1
    <3>. QED BY <1>3, <1>11, <2>1, <3>1, Zenon
  <2>2. CASE d # Len(p)
    <3>1. p \in Added(p, Len(p))
      BY <1>1, <1>2, <1>3, <1>8, <2>2
    <3>2. FreshOf(p, p) = Unused(Len(p) - d)
      BY <1>3, Zenon DEF FreshOf
    <3>. QED BY <1>3, <1>11, <2>2, <3>1, <3>2, Zenon
  <2>. QED BY <2>1, <2>2
<1>13. made \in {"dir", "file"}
  <2>1. disk[p] \in {"dir", "file", "none"}
    BY <1>0
  <2>. QED BY <1>11, <2>1 DEF Made, Types
<1>. HIDE DEF N
<1>14. PICK nd2 : nd2 = ND(made)
  OBVIOUS
<1>15. Opened(p, mode, made, treeAt', nd2)
  BY <1>11, <1>12, <1>14, Zenon DEF Opened
<1>. HIDE DEF ND
<1>16. treeNode' = [nd2 EXCEPT ![treeAt'[p]] = SetTreeState(Increment(nd2[treeAt'[p]]))]
  BY <1>11, <1>12, <1>14, Zenon
<1>17. hold' = [hold EXCEPT ![t] = treeAt'[p]]
  BY <1>11, <1>12, Zenon
<1>18. disk' = IF treeAt[p] = NONE /\ ~Foreign(p) THEN [disk EXCEPT ![p] = made] ELSE disk
  BY <1>3, <1>4, <1>11, Zenon
<1>. QED BY <1>3, <1>4, <1>5, <1>8, <1>9, <1>10, <1>13, <1>15, <1>16, <1>17, <1>18, Zenon

\* vfs_open and vfs_mount open a node; pc says where the task is then.
LEMMA OpenTreeKeeps ==
  ASSUME TreeInv, NEW t \in Users, hold[t] = NONE, NEW p \in Path, NEW type \in Types, NEW mode,
         OpenTree(t, p, type, mode), NEW pc, \A u \in Users : u # t => pc[u] = treePc[u],
         pc[t] # "stat_only" => "stat_only" \notin mode
  PROVE  /\ treeAt' \in Trees /\ treeNode' \in Records /\ hold' \in Holder
         /\ disk' \in [Path -> {"dir", "file", "none"}]
         /\ TreeParts(treeAt', treeNode', hold', disk', pc, treeNew)
         /\ hold'[t] # NONE /\ \A u \in Users : u # t => hold'[u] = hold[u]
<1>1. /\ Walks(p, Len(p)) /\ \A q \in Added(p, Len(p)) : \E m : CanOpen(q, m)
      /\ VfsFound(p) = Len(p) /\ p # Root => ~Busy(treeAt[p], mode)
      /\ VfsFound(p) < Len(p) <=> p \in Added(p, Len(p))
      /\ VfsFound(p) < Len(p) <=> treeAt[p] = NONE
  BY OpenTreeIs, Zenon
<1>m. PICK made \in {"dir", "file"} : \E nd2 :
        /\ Opened(p, mode, made, treeAt', nd2)
        /\ treeNode' = [nd2 EXCEPT ![treeAt'[p]] = SetTreeState(Increment(nd2[treeAt'[p]]))]
        /\ hold' = [hold EXCEPT ![t] = treeAt'[p]]
        /\ disk' = IF treeAt[p] = NONE /\ ~Foreign(p) THEN [disk EXCEPT ![p] = made] ELSE disk
  BY OpenTreeIs, Zenon
<1>2. PICK nd2 :
        /\ Opened(p, mode, made, treeAt', nd2)
        /\ treeNode' = [nd2 EXCEPT ![treeAt'[p]] = SetTreeState(Increment(nd2[treeAt'[p]]))]
        /\ hold' = [hold EXCEPT ![t] = treeAt'[p]]
        /\ disk' = IF treeAt[p] = NONE /\ ~Foreign(p) THEN [disk EXCEPT ![p] = made] ELSE disk
  BY <1>m, Zenon
<1>3. PICK at2, nd3, hd3, dk : at2 = treeAt' /\ nd3 = treeNode' /\ hd3 = hold' /\ dk = disk'
  OBVIOUS
<1>4. /\ Opened(p, mode, made, at2, nd2)
      /\ nd3 = [nd2 EXCEPT ![at2[p]] = SetTreeState(Increment(nd2[at2[p]]))]
      /\ hd3 = [hold EXCEPT ![t] = at2[p]]
      /\ dk = IF treeAt[p] = NONE /\ ~Foreign(p) THEN [disk EXCEPT ![p] = made] ELSE disk
  BY <1>2, <1>3, Zenon
<1>5. Walked(p, Len(p), at2, nd2) /\ MadeLast(p, made, nd2)
  <2>1. Walks(p, Len(p)) /\ Opened(p, mode, made, at2, nd2)
    BY <1>1, <1>4, Zenon
  <2>2. made \in Kinds
    BY <1>m DEF Kinds
  <2>. QED BY <2>1, <2>2, OpenedIs, Zenon
<1>6. disk \in [Path -> {"dir", "file", "none"}] /\ Sound(treeAt, treeNode, hold) /\ MountShared(treeAt, treeNode)
      /\ treeNode \in Records /\ treeAt \in Trees
  BY TypesAre, Zenon DEF TreeParts
<1>7. /\ dk \in [Path -> {"dir", "file", "none"}]
      /\ \A q \in Path : q # p => dk[q] = disk[q]
      /\ treeAt[p] # NONE => dk[p] = disk[p]
      /\ treeAt[p] = NONE /\ ~Foreign(p) => dk[p] = made
  BY <1>4, <1>6
<1>8. /\ \A q \in Added(p, Len(p)) : /\ q \in Path /\ q \in Prefixes(p) /\ treeAt[q] = NONE
                                     /\ Len(q) \in VfsFound(p) + 1 .. Len(p)
      /\ VfsFound(p) \in 0 .. Len(p)
  BY <1>1, AddedIs, Zenon
<1>9. \A q \in Path : treeAt[q] # NONE => dk[q] = disk[q]
  BY <1>7, Zenon
<1>10. ASSUME NEW q \in Added(p, Len(p)), ~ForeignIn(treeAt, treeNode, q) PROVE dk[q] = nd2[FreshOf(p, q)].type
  <2>1. CASE q = p
    <3>1. treeAt[p] = NONE /\ ~Foreign(p)
      BY <1>8, <1>10, <2>1, Zenon DEF Foreign, ForeignIn
    <3>. QED BY <1>5, <1>7, <2>1, <3>1, Zenon DEF MadeLast
  <2>2. CASE q # p
    <3>1. Len(q) < Len(p)
      <4>1. Len(q) # Len(p)
        BY <1>8, <2>2, PrefixOrder, PrefixIs, Zenon
      <4>2. Len(q) \in 0 .. Len(p) /\ Len(p) \in Nat
        BY <1>8, PrefixIs, PathIs, Zenon
      <4>. QED BY <4>1, <4>2
    <3>2. disk[q] = "dir"
      BY <1>1, <1>10, <3>1, WalkDirs, Zenon
    <3>. QED BY <1>5, <1>7, <1>8, <2>2, <3>2, Zenon DEF MadeLast
  <2>. QED BY <2>1, <2>2
<1>11. ASSUME pc[t] # "stat_only", treeAt[p] # NONE, treeNode[treeAt[p]].exclusive PROVE FALSE
  <2>1. treeAt[p] \in Nodes /\ treeNode[treeAt[p]].mount_state \in {0, 1}
    <3>1. treeAt[p] \in Nodes
      BY <1>6, <1>11 DEF Trees
    <3>2. treeNode[treeAt[p]] \in NodeStates
      BY <1>6, <3>1 DEF Records
    <3>. QED BY <3>1, <3>2 DEF NodeStates
  <2>2. treeNode[treeAt[p]].mount_state # 1
    BY <1>6, <1>11, Zenon DEF MountShared
  <2>3. p # Root
    BY <1>6, <2>2, Zenon DEF Sound, RootStays
  <2>4. VfsFound(p) = Len(p)
    <3>1. ~(VfsFound(p) < Len(p)) /\ VfsFound(p) \in 0 .. Len(p) /\ Len(p) \in Nat
      BY <1>1, <1>8, <1>11, PathIs, Zenon
    <3>. QED BY <3>1
  <2>5. ~Busy(treeAt[p], mode)
    BY <1>1, <2>3, <2>4, Zenon
  <2>. QED BY <1>11, <2>2, <2>5, Zenon DEF Busy
<1>12. Taken(nd2, hold, t, at2[p], nd3, hd3)
  <2>1. WalkParts(p, Len(p), at2, nd2)
    BY <1>1, <1>5, WalkIs, Zenon
  <2>2. at2 \in Trees /\ nd2 \in Records
    BY <2>1, Zenon DEF WalkParts
  <2>3. at2[p] # NONE
    <3>1. at2[SubSeq(p, 1, Len(p))] # NONE
      BY <1>1, <1>5, WalkSound, Zenon
    <3>2. SubSeq(p, 1, Len(p)) = p
      BY PathIs, Zenon
    <3>. QED BY <3>1, <3>2, Zenon
  <2>4. PICK n \in Nodes : n = at2[p]
    BY <2>2, <2>3 DEF Trees
  <2>5. nd2[n] \in NodeStates
    BY <2>2 DEF Records
  <2>6. Grown(nd2[n], SetTreeState(Increment(nd2[n])))
    BY <2>5, GrownIs, Zenon
  <2>7. PICK x : x = SetTreeState(Increment(nd2[n]))
    OBVIOUS
  <2>8. nd3 = [nd2 EXCEPT ![n] = x] /\ hd3 = [hold EXCEPT ![t] = n]
    BY <1>4, <2>4, <2>7, Zenon
  <2>9. nd3[n] = x
    BY <2>2, <2>8 DEF Records
  <2>10. Taken(nd2, hold, t, n, nd3, hd3)
    BY <2>6, <2>7, <2>8, <2>9, Zenon DEF Taken
  <2>. QED BY <2>4, <2>10, Zenon
<1>13. OpenRight(t, at2, nd3, hd3, dk, pc)
  <2>1. Walks(p, Len(p)) /\ Walked(p, Len(p), at2, nd2) /\ Taken(nd2, hold, t, at2[p], nd3, hd3)
    BY <1>1, <1>5, <1>12, Zenon
  <2>2. OpenFits(t, p, nd2, dk, pc)
    BY <1>9, <1>10, <1>11, Zenon DEF OpenFits
  <2>. QED BY <2>1, <2>2, OpenKeeps, Zenon
<1>. QED BY <1>3, <1>7, <1>13, Zenon DEF OpenRight

LEMMA VfsOpenStep ==
  ASSUME TreeInv, NEW t \in Users, NEW p \in Path, NEW type \in Types, NEW mode \in Modes,
         VfsOpen(t, p, type, mode)
  PROVE  TreeInv'
<1>0. /\ treePc \in [Users -> Types \cup {"idle", "truncate", "stat_only", "mount"}]
      /\ treeNew \in Holder /\ Places(hold, treeNew, treePc)
  BY TypesAre, Zenon
<1>1. /\ treePc[t] = "idle" /\ hold[t] = NONE /\ OpenTree(t, p, type, mode) /\ treeNew' = treeNew
      /\ treePc' = [treePc EXCEPT ![t] = IF mode \in {{"stat_only"}, {"truncate"}} THEN CHOOSE m \in mode : TRUE ELSE type]
  BY Zenon DEF VfsOpen
<1>2. PICK x \in Types \cup {"truncate", "stat_only"} :
        /\ x = IF mode \in {{"stat_only"}, {"truncate"}} THEN CHOOSE m \in mode : TRUE ELSE type
        /\ x # "stat_only" => "stat_only" \notin mode
  <2>1. CASE mode = {"stat_only"}
    <3>1. (CHOOSE m \in mode : TRUE) = "stat_only"
      BY <2>1
    <3>. QED BY <2>1, <3>1
  <2>2. CASE mode = {"truncate"}
    <3>1. (CHOOSE m \in mode : TRUE) = "truncate"
      BY <2>2
    <3>. QED BY <2>2, <3>1
  <2>3. CASE mode # {"stat_only"} /\ mode # {"truncate"}
    <3>1. "stat_only" \notin mode
      BY <2>3 DEF Modes
    <3>. QED BY <2>3, <3>1
  <2>. QED BY <2>1, <2>2, <2>3
<1>3. PICK pc : pc = treePc'
  OBVIOUS
<1>4. pc = [treePc EXCEPT ![t] = x]
  BY <1>1, <1>2, <1>3, Zenon
<1>5. /\ pc \in [Users -> Types \cup {"idle", "truncate", "stat_only", "mount"}]
      /\ pc[t] = x /\ \A u \in Users : u # t => pc[u] = treePc[u]
  BY <1>0, <1>2, <1>4
<1>6. /\ treeAt' \in Trees /\ treeNode' \in Records /\ hold' \in Holder
      /\ disk' \in [Path -> {"dir", "file", "none"}]
      /\ TreeParts(treeAt', treeNode', hold', disk', pc, treeNew)
      /\ hold'[t] # NONE /\ \A u \in Users : u # t => hold'[u] = hold[u]
  BY <1>1, <1>2, <1>5, OpenTreeKeeps, Zenon
<1>7. PICK at, nd, hd, dk : at = treeAt' /\ nd = treeNode' /\ hd = hold' /\ dk = disk'
  OBVIOUS
<1>8. Places(hd, treeNew, pc)
  <2>1. pc[t] # "mount"
    BY <1>2, <1>5 DEF Types
  <2>. QED BY <1>0, <1>5, <1>6, <1>7, <2>1, Zenon DEF Places
<1>9. /\ at \in Trees /\ nd \in Records /\ hd \in Holder /\ dk \in [Path -> {"dir", "file", "none"}]
      /\ TreeParts(at, nd, hd, dk, pc, treeNew)
  BY <1>6, <1>7, Zenon
<1>10. PICK new \in Holder : new = treeNew
  BY <1>0
<1>. QED BY <1>1, <1>3, <1>5, <1>7, <1>8, <1>9, <1>10, TreeInvNext, Zenon

LEMMA MountOpenStep ==
  ASSUME TreeInv, NEW t \in Users, NEW p \in Path, MountOpen(t, p)
  PROVE  TreeInv'
<1>0. /\ treePc \in [Users -> Types \cup {"idle", "truncate", "stat_only", "mount"}]
      /\ treeNew \in Holder /\ Places(hold, treeNew, treePc)
  BY TypesAre, Zenon
<1>1. /\ hold[t] = NONE /\ treeNew[t] # NONE /\ OpenTree(t, p, "any", {}) /\ treeNew' = treeNew
      /\ treePc' = [treePc EXCEPT ![t] = "mount"]
  BY Zenon DEF MountOpen
<1>3. PICK pc : pc = treePc'
  OBVIOUS
<1>5. /\ pc \in [Users -> Types \cup {"idle", "truncate", "stat_only", "mount"}]
      /\ pc[t] = "mount" /\ \A u \in Users : u # t => pc[u] = treePc[u]
  BY <1>0, <1>1, <1>3
<1>6. /\ treeAt' \in Trees /\ treeNode' \in Records /\ hold' \in Holder
      /\ disk' \in [Path -> {"dir", "file", "none"}]
      /\ TreeParts(treeAt', treeNode', hold', disk', pc, treeNew)
      /\ hold'[t] # NONE /\ \A u \in Users : u # t => hold'[u] = hold[u]
  <2>1. pc[t] # "stat_only" => "stat_only" \notin {}
    OBVIOUS
  <2>2. "any" \in Types
    BY DEF Types
  <2>3. PICK mode : mode = {}
    OBVIOUS
  <2>4. OpenTree(t, p, "any", mode) /\ "stat_only" \notin mode
    BY <1>1, <2>3
  <2>. QED BY <1>1, <1>5, <2>2, <2>4, OpenTreeKeeps, Zenon
<1>7. PICK at, nd, hd, dk : at = treeAt' /\ nd = treeNode' /\ hd = hold' /\ dk = disk'
  OBVIOUS
<1>8. Places(hd, treeNew, pc)
  BY <1>0, <1>1, <1>5, <1>6, <1>7, Zenon DEF Places
<1>9. /\ at \in Trees /\ nd \in Records /\ hd \in Holder /\ dk \in [Path -> {"dir", "file", "none"}]
      /\ TreeParts(at, nd, hd, dk, pc, treeNew)
  BY <1>6, <1>7, Zenon
<1>10. PICK new \in Holder : new = treeNew
  BY <1>0
<1>. QED BY <1>1, <1>3, <1>5, <1>7, <1>8, <1>9, <1>10, TreeInvNext, Zenon

\* A walk that fails leaves the tree without what it has added.
LEMMA FailKeeps ==
  ASSUME TreeInv, NEW p \in Path, NEW g, Walks(p, g), NEW mid, NEW nd2, Walked(p, g, mid, nd2),
         NEW c, c = SubSeq(p, 1, g), NEW at3, NEW nd3, Pruned(mid, nd2, c, at3, nd3)
  PROVE  at3 \in Trees /\ nd3 \in Records /\ TreeParts(at3, nd3, hold, disk, treePc, treeNew)
<1>1. /\ mid \in Trees /\ nd2 \in Records
      /\ \A q \in Path : treeAt[q] # NONE => mid[q] = treeAt[q] /\ nd2[mid[q]] = treeNode[treeAt[q]]
      /\ \A q \in Path : treeAt[q] = NONE /\ mid[q] # NONE => q \in Added(p, g)
      /\ \A q \in Added(p, g) : Unshared(nd2[mid[q]])
  <2>1. WalkParts(p, g, mid, nd2)
    BY WalkIs, Zenon
  <2>. QED BY <2>1, Zenon DEF WalkParts
<1>2. /\ g \in 0 .. Len(p) /\ VfsFound(p) \in 0 .. Len(p)
      /\ \A q \in Added(p, g) : /\ q \in Prefixes(p) /\ q \in Path /\ q # Root /\ treeAt[q] = NONE
                                /\ Len(q) \in VfsFound(p) + 1 .. g
  BY AddedIs, Zenon
<1>3. PICK e : e = c
  OBVIOUS
<1>4. e \in Path /\ e \in Prefixes(p) /\ Len(e) = g
  BY <1>2, <1>3, PathIs, PrefixIs, Zenon
<1>5. Pruned(mid, nd2, e, at3, nd3)
  BY <1>3, Zenon
<1>6. /\ Sound(mid, nd2, hold) /\ mid[e] # NONE
      /\ \A q \in Path \ {Root} : mid[q] # NONE /\ q # e => Needed(mid, nd2, hold, q)
  <2>1. /\ Sound(mid, nd2, hold) /\ mid[SubSeq(p, 1, g)] # NONE
        /\ \A q \in Path \ {Root} : mid[q] # NONE /\ q # SubSeq(p, 1, g) => Needed(mid, nd2, hold, q)
    BY WalkSound, Zenon
  <2>. QED BY <1>3, <2>1, Zenon
<1>7. /\ MountShared(mid, nd2) /\ Waits(mid, nd2, treeNew) /\ OneUser(nd2, hold, treePc)
      /\ \A q \in Path : ForeignIn(mid, nd2, q) <=> ForeignIn(treeAt, treeNode, q)
  BY WalkKeeps, Zenon
<1>8. /\ hold \in Holder /\ treeNew \in Holder /\ OnDisk(treeAt, treeNode, disk) /\ NoGap(treeAt)
  BY TypesAre, Zenon DEF TreeParts, Sound
<1>9. /\ at3 \in Trees /\ nd3 \in Records /\ Less(mid, nd2, at3, nd3)
      /\ \A q \in Path : at3[q] = NONE <=> mid[q] = NONE \/ q \in Doomed(mid, nd2, e)
  BY <1>1, <1>4, <1>5, <1>6, <1>8, PrunedIs, Zenon
<1>10. Sound(at3, nd3, hold)
  BY <1>1, <1>4, <1>5, <1>6, <1>8, PruneSound, Zenon
<1>11. Tidy(at3, nd3, hold)
  BY <1>1, <1>4, <1>5, <1>6, <1>8, PruneTidy, Zenon
<1>12. OneUser(nd3, hold, treePc) /\ MountShared(at3, nd3)
  BY <1>7, <1>9, LessKeeps
<1>13. Waits(at3, nd3, treeNew)
  BY <1>7, <1>8, <1>9, LessKeeps
<1>14. ASSUME NEW q \in Added(p, g) PROVE q \in Prefixes(e)
  <2>1. q \in Prefixes(p) /\ Len(q) \in VfsFound(p) + 1 .. g
    BY <1>2, Zenon
  <2>2. Len(q) \in 0 .. Len(p) /\ Len(p) \in Nat
    BY <2>1, PrefixIs, PathIs, Zenon
  <2>3. Len(q) <= g
    <3>1. PICK l : l = Len(q)
      OBVIOUS
    <3>2. l \in VfsFound(p) + 1 .. g
      BY <2>1, <3>1, Zenon
    <3>. QED BY <1>2, <2>2, <3>1, <3>2
  <2>4. Len(q) <= Len(e)
    BY <1>4, <2>3, Zenon
  <2>. QED BY <1>4, <2>1, <2>4, PrefixOrder, Zenon
<1>15. ASSUME NEW q \in Added(p, g) PROVE q \in Doomed(mid, nd2, e)
  <2>1. ASSUME NEW r \in Prefixes(e), Len(r) >= Len(q) PROVE Idle(nd2[mid[r]]) /\ Children(mid, r) \subseteq Prefixes(e)
    <3>1. r \in Prefixes(p) /\ r \in Path /\ Len(r) \in 0 .. Len(e)
      BY <1>4, PrefixOrder, PrefixIs, Zenon
    <3>2. r \in Added(p, g)
      <4>1. PICK d \in Nat : d = VfsFound(p)
        BY <1>2, PathIs
      <4>2. PICK l \in Nat : l = Len(r)
        BY <3>1
      <4>3. PICK m : m = Len(q)
        OBVIOUS
      <4>4. m \in d + 1 .. g /\ l >= m /\ l \in 0 .. g
        BY <1>2, <1>4, <2>1, <3>1, <4>1, <4>2, <4>3, Zenon
      <4>5. g \in Nat
        BY <1>2, PathIs
      <4>6. l \in d + 1 .. g
        BY <4>4, <4>5
      <4>. QED BY <3>1, <4>1, <4>2, <4>6, Zenon DEF Added
    <3>3. Idle(nd2[mid[r]])
      BY <1>1, <3>2, Zenon DEF Idle, Unshared
    <3>4. ASSUME NEW s \in Children(mid, r) PROVE s \in Prefixes(e)
      <4>0. s \in Path
        BY DEF Children
      <4>1. s # Root /\ Parent(s) = r /\ mid[s] # NONE
        BY <3>1, <4>0, ChildIs, Zenon
      <4>2. treeAt[r] = NONE
        BY <1>2, <3>2, Zenon
      <4>3. treeAt[s] = NONE
        BY <1>8, <4>0, <4>1, <4>2, Zenon DEF NoGap, Parent
      <4>4. s \in Added(p, g)
        BY <1>1, <4>0, <4>1, <4>3, Zenon
      <4>. QED BY <1>14, <4>4, Zenon
    <3>. QED BY <3>3, <3>4
  <2>2. q \in Prefixes(e) /\ q # Root
    BY <1>2, <1>14, Zenon
  <2>. QED BY <2>1, <2>2, Zenon DEF Doomed
<1>16. OnDisk(at3, nd3, disk)
  <2>. SUFFICES ASSUME NEW q \in Path, at3[q] # NONE, nd3[at3[q]].mount_state = 0, ~ForeignIn(at3, nd3, q)
                PROVE  disk[q] = nd3[at3[q]].type
    BY Zenon DEF OnDisk
  <2>1. mid[q] # NONE /\ q \notin Added(p, g)
    BY <1>9, <1>15, Zenon
  <2>2. treeAt[q] # NONE
    BY <1>1, <2>1, Zenon
  <2>3. mid[q] = treeAt[q] /\ nd2[mid[q]] = treeNode[treeAt[q]]
    BY <1>1, <2>2, Zenon
  <2>4. at3[q] = mid[q] /\ nd3[mid[q]] = nd2[mid[q]]
    BY <1>9, Zenon DEF Less
  <2>5. ~ForeignIn(treeAt, treeNode, q)
    BY <1>7, <1>9, LessForeign, Zenon
  <2>6. nd3[at3[q]] = treeNode[treeAt[q]]
    BY <2>3, <2>4, Zenon
  <2>. QED BY <1>8, <2>2, <2>5, <2>6, Zenon DEF OnDisk
<1>. QED BY <1>9, <1>10, <1>11, <1>12, <1>13, <1>16, Zenon DEF TreeParts

LEMMA OpenFailsStep ==
  ASSUME TreeInv, NEW t \in Users, NEW p \in Path, NEW f \in 1 .. Len(p), OpenFails(t, p, f)
  PROVE  TreeInv'
<1>. DEFINE g == f - 1
<1>2. Walks(p, g)
  <2>1. f \in VfsFound(p) + 1 .. Len(p) /\ f - 1 - VfsFound(p) <= Cardinality(Free)
    BY Zenon DEF OpenFails
  <2>2. treeAt[Root] # NONE
    BY TypesAre, Zenon DEF Sound, RootStays
  <2>3. VfsFound(p) \in 0 .. Len(p) /\ Len(p) \in Nat
    BY <2>2, FoundIs, PathIs, Zenon
  <2>4. PICK d \in Nat : d = VfsFound(p)
    BY <2>3
  <2>5. f \in d + 1 .. Len(p) /\ f - 1 - d <= Cardinality(Free)
    BY <2>1, <2>4, Zenon
  <2>6. g \in d .. Len(p) /\ g - d <= Cardinality(Free)
    BY <2>3, <2>5
  <2>. QED BY <2>4, <2>6, Zenon DEF Walks
<1>3. PICK mid : mid = [q \in Path |-> IF q \in Added(p, g) THEN FreshOf(p, q) ELSE treeAt[q]]
  OBVIOUS
<1>4. PICK nd2 : nd2 = [m \in Nodes |-> IF \E q \in Added(p, g) : m = FreshOf(p, q)
                                          THEN [Fresh("dir", FALSE) EXCEPT !.n_release = TRUE]
                                          ELSE treeNode[m]]
  OBVIOUS
<1>5. PICK c : c = SubSeq(p, 1, g)
  OBVIOUS
<1>6. /\ Prune([q \in Path |-> IF q \in Added(p, f - 1) THEN FreshOf(p, q) ELSE treeAt[q]],
               [m \in Nodes |-> IF \E q \in Added(p, f - 1) : m = FreshOf(p, q)
                                  THEN [Fresh("dir", FALSE) EXCEPT !.n_release = TRUE]
                                  ELSE treeNode[m]],
               SubSeq(p, 1, f - 1))
      /\ disk' = disk /\ hold' = hold /\ treeNew' = treeNew /\ treePc' = treePc
  BY Zenon DEF OpenFails, Added, FreshOf
<1>7. Pruned(mid, nd2, c, treeAt', treeNode')
  <2>1. Prune(mid, nd2, c)
    BY <1>3, <1>4, <1>5, <1>6, Zenon
  <2>. QED BY <2>1, Zenon DEF Prune, Pruned
<1>8. Walked(p, g, mid, nd2)
  <2>1. \A q \in Added(p, g) : FreshOf(p, q) \in Nodes
    BY <1>2, AddedIs, FreeIs, Zenon
  <2>2. \A m \in Nodes : nd2[m] = IF \E q \in Added(p, g) : m = FreshOf(p, q)
                                    THEN [Fresh("dir", FALSE) EXCEPT !.n_release = TRUE]
                                    ELSE treeNode[m]
    BY <1>4, Zenon
  <2>3. PICK x : x = [Fresh("dir", FALSE) EXCEPT !.n_release = TRUE]
    OBVIOUS
  <2>4. x \in NodeStates /\ Unshared(x)
    BY <2>3 DEF Fresh, NodeStates, Unshared
  <2>5. \A m \in Nodes : nd2[m] = IF \E q \in Added(p, g) : m = FreshOf(p, q) THEN x ELSE treeNode[m]
    BY <2>2, <2>3, Zenon
  <2>6. \A m \in Nodes : treeNode[m] \in NodeStates
    BY TypesAre DEF Records
  <2>7. \A m \in Nodes : nd2[m] \in NodeStates
    BY <2>4, <2>5, <2>6, Zenon
  <2>8. nd2 \in Records
    BY <1>4, <2>7, Zenon DEF Records
  <2>9. \A q \in Added(p, g) : Unshared(nd2[FreshOf(p, q)])
    BY <2>1, <2>4, <2>5, Zenon
  <2>10. \A n \in Nodes : (\A q \in Added(p, g) : n # FreshOf(p, q)) => nd2[n] = treeNode[n]
    BY <2>5, Zenon
  <2>. QED BY <1>3, <2>8, <2>9, <2>10, Zenon DEF Walked
<1>9. PICK at3, nd3 : at3 = treeAt' /\ nd3 = treeNode'
  OBVIOUS
<1>10. Pruned(mid, nd2, c, at3, nd3)
  BY <1>7, <1>9, Zenon
<1>11. at3 \in Trees /\ nd3 \in Records /\ TreeParts(at3, nd3, hold, disk, treePc, treeNew)
  BY <1>2, <1>5, <1>8, <1>10, FailKeeps, Zenon
<1>. QED BY <1>6, <1>9, <1>11, TreeInvSame, Zenon

LEMMA PathOfIs ==
  ASSUME TreeInv, NEW t \in Users, hold[t] # NONE
  PROVE  PathOf(hold[t]) \in Path /\ treeAt[PathOf(hold[t])] = hold[t] /\ hold[t] \in Nodes
<1>1. hold[t] \in Nodes /\ \E p \in Path : treeAt[p] = hold[t]
  BY TypesAre, HeldIs, Zenon
<1>. QED BY <1>1, Zenon DEF PathOf

\* What n_release of vfs.c does with the tree, once the node is found in it.
Released(at, nd, p, mid, n, at2, nd2) ==
  IF nd[n].mount_state = 1 THEN at2 = at /\ nd2 = mid ELSE Pruned(at, mid, p, at2, nd2)
PcStates == [Users -> Types \cup {"idle", "truncate", "stat_only", "mount"}]
LEMMA ReleaseParts ==
  ASSUME NEW at \in Trees, NEW nd \in Records, NEW hd \in Holder, NEW new \in Holder, NEW dk,
         NEW pc \in PcStates, TreeParts(at, nd, hd, dk, pc, new), NEW t \in Users, hd[t] # NONE,
         NEW hd2, NEW mid, Dropped(nd, hd, t, mid, hd2),
         NEW p \in Path, at[p] = hd[t], NEW at2, NEW nd2, Released(at, nd, p, mid, hd[t], at2, nd2)
  PROVE  /\ at2 \in Trees /\ nd2 \in Records /\ hd2 \in Holder
         /\ TreeParts(at2, nd2, hd2, dk, [pc EXCEPT ![t] = "idle"], new)
<1>1. IF nd[hd[t]].mount_state = 1 THEN at2 = at /\ nd2 = mid ELSE Pruned(at, mid, p, at2, nd2)
  BY Zenon DEF Released
<1>2. pc \in [Users -> Types \cup {"idle", "truncate", "stat_only", "mount"}]
  BY DEF PcStates
<1>. QED BY <1>1, <1>2, ReleaseKeeps

\* A task is done with what it has.
LEMMA IdleStep ==
  ASSUME TreeInv, NEW t \in Users, NEW at \in Trees, NEW nd \in Records, NEW hd \in Holder, NEW new \in Holder,
         treeAt' = at, treeNode' = nd, hold' = hd, treeNew' = new, disk' = disk,
         treePc' = [treePc EXCEPT ![t] = "idle"],
         \A u \in Users : u # t => hd[u] = hold[u] /\ new[u] = treeNew[u],
         TreeParts(at, nd, hd, disk, [treePc EXCEPT ![t] = "idle"], new)
  PROVE  TreeInv'
<1>1. /\ treePc \in [Users -> Types \cup {"idle", "truncate", "stat_only", "mount"}]
      /\ disk \in [Path -> {"dir", "file", "none"}] /\ Places(hold, treeNew, treePc)
  BY TypesAre, Zenon
<1>2. PICK pc, dk : pc = [treePc EXCEPT ![t] = "idle"] /\ dk = disk
  OBVIOUS
<1>3. /\ pc \in [Users -> Types \cup {"idle", "truncate", "stat_only", "mount"}]
      /\ pc[t] = "idle" /\ \A u \in Users : u # t => pc[u] = treePc[u]
  BY <1>1, <1>2
<1>4. Places(hd, new, pc)
  <2>. SUFFICES ASSUME NEW u \in Users PROVE (pc[u] # "idle" => hd[u] # NONE) /\ (pc[u] = "mount" => new[u] # NONE)
    BY Zenon DEF Places
  <2>1. CASE u = t
    BY <1>3, <2>1
  <2>2. CASE u # t
    BY <1>1, <1>3, <2>2, Zenon DEF Places
  <2>. QED BY <2>1, <2>2
<1>5. TreeParts(at, nd, hd, dk, pc, new) /\ dk \in [Path -> {"dir", "file", "none"}]
  BY <1>1, <1>2, Zenon
<1>6. treePc' = pc /\ disk' = dk
  BY <1>2, Zenon
<1>. QED BY <1>3, <1>4, <1>5, <1>6, TreeInvNext, Zenon

LEMMA ReleaseStep ==
  ASSUME TreeInv, NEW t \in Users, hold[t] # NONE, ReleaseNode(hold[t]),
         hold' = [hold EXCEPT ![t] = NONE], treePc' = [treePc EXCEPT ![t] = "idle"],
         disk' = disk, treeNew' = treeNew
  PROVE  TreeInv'
<1>1. /\ treeAt \in Trees /\ treeNode \in Records /\ hold \in Holder /\ treeNew \in Holder /\ treePc \in PcStates
      /\ TreeParts(treeAt, treeNode, hold, disk, treePc, treeNew)
  BY TypesAre, Zenon DEF PcStates
<1>2. PICK p \in Path : p = PathOf(hold[t]) /\ treeAt[p] = hold[t]
  BY PathOfIs, Zenon
<1>3. PICK mid : mid = [treeNode EXCEPT ![hold[t]] = Decrement(@)]
  OBVIOUS
<1>4. PICK hd2, at2, nd2 : hd2 = hold' /\ at2 = treeAt' /\ nd2 = treeNode'
  OBVIOUS
<1>5. Dropped(treeNode, hold, t, mid, hd2)
  BY <1>3, <1>4, Zenon DEF Dropped
<1>6. Released(treeAt, treeNode, p, mid, hold[t], at2, nd2)
  <2>1. CASE treeNode[hold[t]].mount_state = 1
    <3>1. treeNode' = mid /\ treeAt' = treeAt
      BY <1>3, <2>1, Zenon DEF ReleaseNode
    <3>. QED BY <1>4, <2>1, <3>1, Zenon DEF Released
  <2>2. CASE treeNode[hold[t]].mount_state # 1
    <3>1. Prune(treeAt, mid, p)
      BY <1>2, <1>3, <2>2, Zenon DEF ReleaseNode
    <3>2. Pruned(treeAt, mid, p, treeAt', treeNode')
      BY <3>1, Zenon DEF Prune, Pruned
    <3>. QED BY <1>4, <2>2, <3>2, Zenon DEF Released
  <2>. QED BY <2>1, <2>2
<1>7. /\ at2 \in Trees /\ nd2 \in Records /\ hd2 \in Holder
      /\ TreeParts(at2, nd2, hd2, disk, [treePc EXCEPT ![t] = "idle"], treeNew)
  BY <1>1, <1>2, <1>5, <1>6, ReleaseParts, Zenon
<1>8. \A u \in Users : u # t => hd2[u] = hold[u]
  BY <1>1, <1>4 DEF Holder
<1>9. PICK new \in Holder : new = treeNew
  BY <1>1
<1>. QED BY <1>4, <1>7, <1>8, <1>9, IdleStep, Zenon

LEMMA OpenUndoneStep ==
  ASSUME TreeInv, NEW t \in Users, OpenUndone(t)
  PROVE  TreeInv'
<1>1. treePc[t] # "idle"
  BY DEF OpenUndone
<1>2. hold[t] # NONE
  BY <1>1, TypesAre, Zenon DEF Places
<1>. QED BY <1>2, ReleaseStep, Zenon DEF OpenUndone

LEMMA VfsReleaseStep ==
  ASSUME TreeInv, NEW t \in Users, VfsRelease(t)
  PROVE  TreeInv'
BY ReleaseStep, Zenon DEF VfsRelease

LEMMA OpenDoneStep ==
  ASSUME TreeInv, NEW t \in Users, OpenDone(t)
  PROVE  TreeInv'
<1>1. /\ treeAt \in Trees /\ treeNode \in Records /\ hold \in Holder /\ treeNew \in Holder /\ treePc \in PcStates
      /\ TreeParts(treeAt, treeNode, hold, disk, treePc, treeNew)
  BY TypesAre, Zenon DEF PcStates
<1>2. /\ treePc[t] # "stat_only" /\ treePc' = [treePc EXCEPT ![t] = "idle"]
      /\ treeAt' = treeAt /\ treeNode' = treeNode /\ hold' = hold /\ disk' = disk /\ treeNew' = treeNew
  BY DEF OpenDone, Types
<1>3. PICK pc : pc = [treePc EXCEPT ![t] = "idle"]
  OBVIOUS
<1>4. \A u \in Users : pc[u] # "stat_only" => treePc[u] # "stat_only"
  BY <1>1, <1>2, <1>3 DEF PcStates
<1>5. OneUser(treeNode, hold, pc)
  BY <1>1, <1>4, Zenon DEF TreeParts, OneUser
<1>6. TreeParts(treeAt, treeNode, hold, disk, pc, treeNew)
  BY <1>1, <1>5, Zenon DEF TreeParts
<1>7. PICK at \in Trees, nd \in Records, hd \in Holder, new \in Holder :
        at = treeAt /\ nd = treeNode /\ hd = hold /\ new = treeNew
  BY <1>1, Zenon
<1>8. TreeParts(at, nd, hd, disk, [treePc EXCEPT ![t] = "idle"], new)
  BY <1>3, <1>6, <1>7, Zenon
<1>. QED BY <1>2, <1>7, <1>8, IdleStep, Zenon

LEMMA RemoveStep ==
  ASSUME TreeInv, NEW t \in Users, NEW p \in Path, Remove(t, p)
  PROVE  TreeInv'
<1>1. /\ treeAt \in Trees /\ treeNode \in Records /\ hold \in Holder /\ treeNew \in Holder
      /\ treePc \in [Users -> Types \cup {"idle", "truncate", "stat_only", "mount"}]
      /\ disk \in [Path -> {"dir", "file", "none"}]
      /\ TreeParts(treeAt, treeNode, hold, disk, treePc, treeNew) /\ Places(hold, treeNew, treePc)
  BY TypesAre, Zenon
<1>2. /\ treeAt[p] = NONE /\ disk' = [disk EXCEPT ![p] = "none"]
      /\ treeAt' = treeAt /\ treeNode' = treeNode /\ hold' = hold /\ treeNew' = treeNew /\ treePc' = treePc
  BY Zenon DEF Remove, Removable
<1>3. PICK dk : dk = disk'
  OBVIOUS
<1>4. dk \in [Path -> {"dir", "file", "none"}] /\ \A q \in Path : q # p => dk[q] = disk[q]
  BY <1>1, <1>2, <1>3
<1>5. OnDisk(treeAt, treeNode, dk)
  BY <1>1, <1>2, <1>4, Zenon DEF TreeParts, OnDisk
<1>6. TreeParts(treeAt, treeNode, hold, dk, treePc, treeNew)
  BY <1>1, <1>5, Zenon DEF TreeParts
<1>7. PICK at \in Trees, nd \in Records, hd \in Holder, new \in Holder :
        at = treeAt /\ nd = treeNode /\ hd = hold /\ new = treeNew
  BY <1>1, Zenon
<1>8. PICK pc : pc = treePc
  OBVIOUS
<1>9. /\ TreeParts(at, nd, hd, dk, pc, new) /\ Places(hd, new, pc)
      /\ pc \in [Users -> Types \cup {"idle", "truncate", "stat_only", "mount"}]
      /\ treeAt' = at /\ treeNode' = nd /\ hold' = hd /\ treeNew' = new /\ treePc' = pc
  BY <1>1, <1>2, <1>6, <1>7, <1>8, Zenon
<1>. QED BY <1>3, <1>4, <1>9, TreeInvNext, Zenon

LEMMA CloneStep ==
  ASSUME TreeInv, NEW t \in Users, NEW u \in Users, Clone(t, u)
  PROVE  TreeInv'
<1>1. /\ treeAt \in Trees /\ treeNode \in Records /\ hold \in Holder /\ treeNew \in Holder
      /\ treePc \in [Users -> Types \cup {"idle", "truncate", "stat_only", "mount"}]
      /\ disk \in [Path -> {"dir", "file", "none"}]
      /\ TreeParts(treeAt, treeNode, hold, disk, treePc, treeNew) /\ Places(hold, treeNew, treePc)
      /\ Sound(treeAt, treeNode, hold) /\ Tidy(treeAt, treeNode, hold)
  BY TypesAre, Zenon
<1>2. /\ hold[t] # NONE /\ treeNode[hold[t]].type = "dir" /\ hold[u] = NONE
      /\ treeNode' = [treeNode EXCEPT ![hold[t]] = Increment(@)] /\ hold' = [hold EXCEPT ![u] = hold[t]]
      /\ treeAt' = treeAt /\ disk' = disk /\ treeNew' = treeNew /\ treePc' = treePc
  BY Zenon DEF Clone
<1>3. PICK n \in Nodes : n = hold[t]
  BY <1>2, PathOfIs, Zenon
<1>4. PICK p \in Path : treeAt[p] = n
  BY <1>2, <1>3, PathOfIs, Zenon
<1>5. n # NONE
  BY <1>2, <1>3, Zenon
<1>6. PICK nd2, hd2 : nd2 = treeNode' /\ hd2 = hold'
  OBVIOUS
<1>7. nd2 = [treeNode EXCEPT ![n] = Increment(treeNode[n])] /\ hd2 = [hold EXCEPT ![u] = n]
  BY <1>2, <1>3, <1>6, Zenon
<1>8. Taken(treeNode, hold, u, n, nd2, hd2)
  <2>1. treeNode[n] \in NodeStates /\ NodeCounted(treeNode, hold, n)
    BY <1>1, <1>4, <1>5, TreeNodeIs, Zenon
  <2>2. Cardinality(UsersOf(hold, n)) > 0
    <3>1. t \in UsersOf(hold, n)
      BY <1>3 DEF UsersOf
    <3>. QED BY <3>1, UsersFinite
  <2>3. treeNode[n].tree_state > 0 \/ treeNode[n].mount_state = 1
    BY <2>1, <2>2 DEF NodeStates, NodeCounted
  <2>4. Grown(treeNode[n], Increment(treeNode[n]))
    BY <2>1, <2>3, GrownIs, Zenon
  <2>5. PICK x : x = Increment(treeNode[n])
    OBVIOUS
  <2>6. nd2 = [treeNode EXCEPT ![n] = x]
    BY <1>7, <2>5, Zenon
  <2>7. nd2[n] = x
    BY <1>1, <2>6 DEF Records
  <2>. QED BY <1>7, <2>4, <2>5, <2>6, <2>7, Zenon DEF Taken
<1>9. \A q \in Path \ {Root} : treeAt[q] # NONE /\ q # p => Needed(treeAt, treeNode, hold, q)
  BY <1>1, Zenon DEF Tidy
<1>10. /\ hd2 \in Holder /\ nd2 \in Records /\ Like(treeNode, nd2) /\ hd2[u] = n
       /\ Sound(treeAt, nd2, hd2) /\ Tidy(treeAt, nd2, hd2)
       /\ \A m \in Nodes : m # n => nd2[m] = treeNode[m]
       /\ \A v \in Users : v # u => hd2[v] = hold[v]
  BY <1>1, <1>2, <1>4, <1>8, <1>9, TakeKeeps
<1>11. OnDisk(treeAt, nd2, disk) /\ MountShared(treeAt, nd2)
  BY <1>1, <1>10, LikeKeeps, Zenon DEF TreeParts
<1>12. Waits(treeAt, nd2, treeNew)
  <2>1. Waits(treeAt, treeNode, treeNew)
    BY <1>1, Zenon DEF TreeParts
  <2>2. \A v \in Users : treeNew[v] # NONE => nd2[treeNew[v]] = treeNode[treeNew[v]]
    <3>. SUFFICES ASSUME NEW v \in Users, treeNew[v] # NONE PROVE nd2[treeNew[v]] = treeNode[treeNew[v]]
      OBVIOUS
    <3>1. treeNew[v] \in Nodes
      BY <1>1 DEF Holder
    <3>2. treeNew[v] # n
      BY <1>4, <2>1, Zenon DEF Waits
    <3>. QED BY <1>10, <3>1, <3>2, Zenon
  <2>. QED BY <2>1, <2>2, Zenon DEF Waits
<1>13. OneUser(nd2, hd2, treePc)
  <2>. SUFFICES ASSUME NEW m \in Nodes, nd2[m].exclusive, nd2[m].type = "file", NEW v \in Users, NEW w \in Users,
                       hd2[v] = m, hd2[w] = m, treePc[v] # "stat_only", treePc[w] # "stat_only"
                PROVE  v = w
    BY Zenon DEF OneUser
  <2>1. treeNode[m].exclusive /\ treeNode[m].type = "file"
    BY <1>10, Zenon DEF Like
  <2>2. m # n
    <3>1. treeNode[n].type = "dir"
      BY <1>2, <1>3, Zenon
    <3>. QED BY <2>1, <3>1
  <2>3. hold[v] = m /\ hold[w] = m
    BY <1>10, <2>2, Zenon
  <2>. QED BY <1>1, <2>1, <2>3, Zenon DEF TreeParts, OneUser
<1>14. Places(hd2, treeNew, treePc)
  BY <1>1, <1>5, <1>10, Zenon DEF Places
<1>15. TreeParts(treeAt, nd2, hd2, disk, treePc, treeNew)
  BY <1>10, <1>11, <1>12, <1>13, Zenon DEF TreeParts
<1>16. PICK at \in Trees, new \in Holder : at = treeAt /\ new = treeNew
  BY <1>1, Zenon
<1>17. PICK pc, dk : pc = treePc /\ dk = disk
  OBVIOUS
<1>18. /\ TreeParts(at, nd2, hd2, dk, pc, new) /\ Places(hd2, new, pc)
       /\ pc \in [Users -> Types \cup {"idle", "truncate", "stat_only", "mount"}]
       /\ dk \in [Path -> {"dir", "file", "none"}]
       /\ treeAt' = at /\ disk' = dk /\ treeNew' = new /\ treePc' = pc
  BY <1>1, <1>2, <1>14, <1>15, <1>16, <1>17, Zenon
<1>. QED BY <1>6, <1>10, <1>16, <1>18, TreeInvNext, Zenon

LEMMA NewNodeStep ==
  ASSUME TreeInv, NEW t \in Users, NewNode(t)
  PROVE  TreeInv'
<1>1. /\ treeAt \in Trees /\ treeNode \in Records /\ hold \in Holder /\ treeNew \in Holder
      /\ treePc \in [Users -> Types \cup {"idle", "truncate", "stat_only", "mount"}]
      /\ disk \in [Path -> {"dir", "file", "none"}]
      /\ TreeParts(treeAt, treeNode, hold, disk, treePc, treeNew) /\ Places(hold, treeNew, treePc)
      /\ Sound(treeAt, treeNode, hold) /\ Tidy(treeAt, treeNode, hold)
  BY TypesAre, Zenon
<1>2. /\ treePc[t] = "idle" /\ Free # {} /\ treeNew' = [treeNew EXCEPT ![t] = Unused(1)]
      /\ treeAt' = treeAt /\ disk' = disk /\ hold' = hold /\ treePc' = treePc
  BY Zenon DEF NewNode
<1>3. PICK type \in {"dir", "file"} : treeNode' = [treeNode EXCEPT ![Unused(1)] = Fresh(type, FALSE)]
  BY Zenon DEF NewNode
<1>4. PICK n \in Free : n = Unused(1)
  <2>1. Cardinality(Free) # 0 /\ Cardinality(Free) \in Nat
    BY <1>2, FreeFinite, FS_EmptySet
  <2>2. 1 \in 1 .. Cardinality(Free)
    BY <2>1
  <2>. QED BY <2>2, UnusedIs, Zenon
<1>5. /\ n \in Nodes /\ \A q \in Path : treeAt[q] # n
      /\ \A u \in Users : hold[u] # n /\ treeNew[u] # n
  BY FreeIs, Zenon
<1>6. PICK x : x = Fresh(type, FALSE)
  OBVIOUS
<1>7. x \in NodeStates /\ x.count = 1 /\ x.mount_state = 0 /\ ~x.exclusive
  BY <1>3, <1>6 DEF Fresh, NodeStates
<1>8. PICK nd2, new : nd2 = treeNode' /\ new = treeNew'
  OBVIOUS
<1>9. nd2 = [treeNode EXCEPT ![n] = x] /\ new = [treeNew EXCEPT ![t] = n]
  BY <1>2, <1>3, <1>4, <1>6, <1>8, Zenon
<1>10. /\ nd2 \in Records /\ nd2[n] = x /\ \A m \in Nodes : m # n => nd2[m] = treeNode[m]
       /\ new \in Holder /\ new[t] = n /\ \A u \in Users : u # t => new[u] = treeNew[u]
  <2>1. nd2 \in Records /\ nd2[n] = x /\ \A m \in Nodes : m # n => nd2[m] = treeNode[m]
    BY <1>1, <1>5, <1>7, <1>9 DEF Records
  <2>2. new \in Holder /\ new[t] = n /\ \A u \in Users : u # t => new[u] = treeNew[u]
    BY <1>1, <1>5, <1>9 DEF Holder
  <2>. QED BY <2>1, <2>2
<1>11. \A q \in Path : treeAt[q] # NONE => nd2[treeAt[q]] = treeNode[treeAt[q]]
  <2>. SUFFICES ASSUME NEW q \in Path, treeAt[q] # NONE PROVE nd2[treeAt[q]] = treeNode[treeAt[q]]
    OBVIOUS
  <2>1. treeAt[q] \in Nodes
    BY <1>1 DEF Trees
  <2>. QED BY <1>5, <1>10, <2>1, Zenon
<1>12. Sound(treeAt, nd2, hold) /\ Tidy(treeAt, nd2, hold) /\ OnDisk(treeAt, nd2, disk) /\ MountShared(treeAt, nd2)
  BY <1>1, <1>11, OutsideKeeps, Zenon DEF TreeParts
<1>13. OneUser(nd2, hold, treePc)
  <2>. SUFFICES ASSUME NEW m \in Nodes, nd2[m].exclusive, nd2[m].type = "file", NEW v \in Users, NEW w \in Users,
                       hold[v] = m, hold[w] = m, treePc[v] # "stat_only", treePc[w] # "stat_only"
                PROVE  v = w
    BY Zenon DEF OneUser
  <2>1. m # n
    BY <1>5, Zenon
  <2>2. treeNode[m].exclusive /\ treeNode[m].type = "file"
    BY <1>10, <2>1, Zenon
  <2>. QED BY <1>1, <2>2, Zenon DEF TreeParts, OneUser
<1>14. Waits(treeAt, nd2, new)
  <2>0. Waits(treeAt, treeNode, treeNew)
    BY <1>1, Zenon DEF TreeParts
  <2>1. ASSUME NEW u \in Users, new[u] # NONE, u # t
        PROVE  new[u] = treeNew[u] /\ new[u] # n /\ nd2[new[u]] = treeNode[treeNew[u]]
    <3>1. new[u] = treeNew[u] /\ treeNew[u] # n
      BY <1>5, <1>10, <2>1, Zenon
    <3>2. treeNew[u] \in Nodes
      BY <1>1, <2>1, <3>1 DEF Holder
    <3>. QED BY <1>10, <3>1, <3>2, Zenon
  <2>2. \A u \in Users, q \in Path : new[u] # NONE => treeAt[q] # new[u]
    <3>. SUFFICES ASSUME NEW u \in Users, NEW q \in Path, new[u] # NONE PROVE treeAt[q] # new[u]
      OBVIOUS
    <3>1. CASE u = t
      BY <1>5, <1>10, <3>1, Zenon
    <3>2. CASE u # t
      <4>1. new[u] = treeNew[u] /\ treeNew[u] # NONE
        BY <2>1, <3>2, Zenon
      <4>. QED BY <2>0, <4>1, Zenon DEF Waits
    <3>. QED BY <3>1, <3>2
  <2>3. \A u, v \in Users : new[u] # NONE /\ new[u] = new[v] => u = v
    <3>. SUFFICES ASSUME NEW u \in Users, NEW v \in Users, new[u] # NONE, new[u] = new[v] PROVE u = v
      OBVIOUS
    <3>1. CASE u = t \/ v = t
      BY <1>10, <2>1, <3>1, Zenon
    <3>2. CASE u # t /\ v # t
      <4>1. new[u] = treeNew[u] /\ new[v] = treeNew[v]
        BY <2>1, <3>2, Zenon
      <4>2. treeNew[u] # NONE /\ treeNew[u] = treeNew[v]
        BY <4>1, Zenon
      <4>. QED BY <2>0, <4>2, Zenon DEF Waits
    <3>. QED BY <3>1, <3>2
  <2>4. \A u \in Users : new[u] # NONE => nd2[new[u]].count = 1 /\ nd2[new[u]].mount_state = 0 /\ ~nd2[new[u]].exclusive
    <3>. SUFFICES ASSUME NEW u \in Users, new[u] # NONE
                  PROVE  nd2[new[u]].count = 1 /\ nd2[new[u]].mount_state = 0 /\ ~nd2[new[u]].exclusive
      OBVIOUS
    <3>1. CASE u = t
      BY <1>7, <1>10, <3>1, Zenon
    <3>2. CASE u # t
      BY <2>0, <2>1, <3>2, Zenon DEF Waits
    <3>. QED BY <3>1, <3>2
  <2>. QED BY <2>2, <2>3, <2>4, Zenon DEF Waits
<1>15. Places(hold, new, treePc)
  <2>1. treePc[t] # "mount"
    BY <1>2
  <2>. QED BY <1>1, <1>10, <2>1, Zenon DEF Places
<1>16. TreeParts(treeAt, nd2, hold, disk, treePc, new)
  BY <1>12, <1>13, <1>14, Zenon DEF TreeParts
<1>17. PICK at \in Trees, hd \in Holder : at = treeAt /\ hd = hold
  BY <1>1, Zenon
<1>18. PICK pc, dk : pc = treePc /\ dk = disk
  OBVIOUS
<1>19. /\ TreeParts(at, nd2, hd, dk, pc, new) /\ Places(hd, new, pc)
       /\ pc \in [Users -> Types \cup {"idle", "truncate", "stat_only", "mount"}]
       /\ dk \in [Path -> {"dir", "file", "none"}]
       /\ treeAt' = at /\ disk' = dk /\ hold' = hd /\ treePc' = pc
  BY <1>1, <1>2, <1>15, <1>16, <1>17, <1>18, Zenon
<1>. QED BY <1>8, <1>10, <1>17, <1>19, TreeInvNext, Zenon

LEMMA MountFailsStep ==
  ASSUME TreeInv, NEW t \in Users, MountFails(t)
  PROVE  TreeInv'
<1>1. /\ treeAt \in Trees /\ treeNode \in Records /\ hold \in Holder /\ treeNew \in Holder /\ treePc \in PcStates
      /\ TreeParts(treeAt, treeNode, hold, disk, treePc, treeNew)
  BY TypesAre, Zenon DEF PcStates
<1>2. /\ treePc[t] = "mount" /\ hold' = [hold EXCEPT ![t] = NONE] /\ treeNew' = [treeNew EXCEPT ![t] = NONE]
      /\ treePc' = [treePc EXCEPT ![t] = "idle"] /\ disk' = disk
  BY Zenon DEF MountFails
<1>3. hold[t] # NONE /\ treeNew[t] # NONE
  <2>1. treePc[t] # "idle"
    BY <1>2
  <2>. QED BY <1>2, <2>1, TypesAre, Zenon DEF Places
<1>4. PICK p \in Path : p = PathOf(hold[t]) /\ treeAt[p] = hold[t]
  BY <1>3, PathOfIs, Zenon
<1>5. PICK h \in Nodes, n \in Nodes : h = hold[t] /\ n = treeNew[t]
  BY <1>1, <1>3 DEF Holder
<1>6. h # n
  BY <1>1, <1>3, <1>4, <1>5, Zenon DEF TreeParts, Waits
<1>7. PICK nd1, new2 : nd1 = [treeNode EXCEPT ![treeNew[t]].count = 0] /\ new2 = [treeNew EXCEPT ![t] = NONE]
  OBVIOUS
<1>8. nd1 \in Records /\ new2 \in Holder /\ TreeParts(treeAt, nd1, hold, disk, treePc, new2)
  <2>1. Discarded(treeNode, treeNew, t, nd1, new2)
    BY <1>7, Zenon DEF Discarded
  <2>. QED BY <1>1, <1>3, <2>1, DiscardKeeps, Zenon
<1>9. PICK mid : mid = [treeNode EXCEPT ![hold[t]] = Decrement(@), ![treeNew[t]].count = 0]
  OBVIOUS
<1>10. nd1[h] = treeNode[h] /\ mid = [nd1 EXCEPT ![hold[t]] = Decrement(@)]
  <2>1. PICK y : y = [treeNode[n] EXCEPT !.count = 0]
    OBVIOUS
  <2>2. nd1 = [treeNode EXCEPT ![n] = y]
    BY <1>5, <1>7, <2>1, Zenon
  <2>3. PICK z : z = Decrement(treeNode[h])
    OBVIOUS
  <2>4. mid = [[treeNode EXCEPT ![h] = z] EXCEPT ![n] = y]
    <3>1. [treeNode EXCEPT ![h] = z][n] = treeNode[n]
      BY <1>1, <1>5, <1>6 DEF Records
    <3>2. mid = [[treeNode EXCEPT ![h] = Decrement(treeNode[h])] EXCEPT ![n] =
                  [[treeNode EXCEPT ![h] = Decrement(treeNode[h])][n] EXCEPT !.count = 0]]
      BY <1>5, <1>9, Zenon
    <3>. QED BY <2>1, <2>3, <3>1, <3>2, Zenon
  <2>5. nd1[h] = treeNode[h]
    BY <1>1, <1>5, <1>6, <2>2 DEF Records
  <2>6. [[treeNode EXCEPT ![h] = z] EXCEPT ![n] = y] = [[treeNode EXCEPT ![n] = y] EXCEPT ![h] = z]
    BY <1>1, <1>5, <1>6 DEF Records
  <2>7. mid = [nd1 EXCEPT ![h] = Decrement(nd1[h])]
    BY <2>2, <2>3, <2>4, <2>5, <2>6, Zenon
  <2>. QED BY <1>5, <2>5, <2>7, Zenon
<1>11. PICK hd2, at2, nd2 : hd2 = hold' /\ at2 = treeAt' /\ nd2 = treeNode'
  OBVIOUS
<1>12. Dropped(nd1, hold, t, mid, hd2)
  BY <1>2, <1>10, <1>11, Zenon DEF Dropped
<1>13. Released(treeAt, nd1, p, mid, hold[t], at2, nd2)
  <2>1. nd1[hold[t]] = treeNode[hold[t]]
    BY <1>5, <1>10, Zenon
  <2>2. CASE treeNode[hold[t]].mount_state = 1
    <3>1. treeNode' = mid /\ treeAt' = treeAt
      BY <1>9, <2>2, Zenon DEF MountFails
    <3>. QED BY <1>11, <2>1, <2>2, <3>1, Zenon DEF Released
  <2>3. CASE treeNode[hold[t]].mount_state # 1
    <3>1. Prune(treeAt, mid, p)
      BY <1>4, <1>9, <2>3, Zenon DEF MountFails
    <3>2. Pruned(treeAt, mid, p, treeAt', treeNode')
      BY <3>1, Zenon DEF Prune, Pruned
    <3>. QED BY <1>11, <2>1, <2>3, <3>2, Zenon DEF Released
  <2>. QED BY <2>2, <2>3
<1>14. /\ at2 \in Trees /\ nd2 \in Records /\ hd2 \in Holder
       /\ TreeParts(at2, nd2, hd2, disk, [treePc EXCEPT ![t] = "idle"], new2)
  BY <1>1, <1>3, <1>4, <1>8, <1>12, <1>13, ReleaseParts, Zenon
<1>15. \A u \in Users : u # t => hd2[u] = hold[u] /\ new2[u] = treeNew[u]
  BY <1>1, <1>2, <1>7, <1>11 DEF Holder
<1>. QED BY <1>2, <1>7, <1>8, <1>11, <1>14, <1>15, IdleStep, Zenon

LEMMA MountStep ==
  ASSUME TreeInv, NEW t \in Users, Mount(t)
  PROVE  TreeInv'
<1>1. /\ treeAt \in Trees /\ treeNode \in Records /\ hold \in Holder /\ treeNew \in Holder /\ treePc \in PcStates
      /\ Sound(treeAt, treeNode, hold) /\ Tidy(treeAt, treeNode, hold) /\ OnDisk(treeAt, treeNode, disk)
      /\ OneUser(treeNode, hold, treePc) /\ MountShared(treeAt, treeNode) /\ Waits(treeAt, treeNode, treeNew)
  BY TypesAre, Zenon DEF PcStates, TreeParts
<1>2. /\ treePc[t] = "mount" /\ Mountable(t)
      /\ treeAt' = [treeAt EXCEPT ![PathOf(hold[t])] = treeNew[t]]
      /\ treeNode' = [treeNode EXCEPT ![treeNew[t]] = [Increment(@) EXCEPT
                !.tree_state = 0, !.mount_state = 1, !.n_release = TRUE]]
      /\ hold' = [hold EXCEPT ![t] = treeNew[t]] /\ treeNew' = [treeNew EXCEPT ![t] = NONE]
      /\ treePc' = [treePc EXCEPT ![t] = "idle"] /\ disk' = disk
  BY Zenon DEF Mount
<1>3. hold[t] # NONE /\ treeNew[t] # NONE
  <2>1. treePc[t] # "idle"
    BY <1>2
  <2>. QED BY <1>2, <2>1, TypesAre, Zenon DEF Places
<1>4. PICK p \in Path : p = PathOf(hold[t]) /\ treeAt[p] = hold[t]
  BY <1>3, PathOfIs, Zenon
<1>5. PICK h \in Nodes, n \in Nodes : h = hold[t] /\ n = treeNew[t]
  BY <1>1, <1>3 DEF Holder
<1>6. /\ h # NONE /\ n # NONE /\ treeAt[p] = h /\ p # Root
      /\ \A q \in Path : treeAt[q] # n
      /\ \A q \in Path : treeAt[q] = h => q = p
  <2>1. p # Root
    BY <1>2, <1>4, Zenon DEF Mountable
  <2>. QED BY <1>1, <1>3, <1>4, <1>5, <2>1, Zenon DEF Waits, Sound, AtOnce
<1>7. h # n
  BY <1>6, Zenon
<1>8. /\ treeNode[h].count <= 2 /\ treeNode[h].mount_state = 0
      /\ treeNode[n].count = 1 /\ treeNode[n].mount_state = 0 /\ ~treeNode[n].exclusive
  BY <1>1, <1>2, <1>3, <1>5, Zenon DEF Mountable, Waits
\* The driver is the only one who has the target.
<1>9. UsersOf(hold, h) = {t}
  <2>1. NodeCounted(treeNode, hold, h)
    BY <1>1, <1>6, Zenon DEF Sound
  <2>2. Cardinality(UsersOf(hold, h)) <= 1 /\ IsFiniteSet(UsersOf(hold, h))
    <3>1. Cardinality(UsersOf(hold, h)) \in Nat /\ treeNode[h].count = Cardinality(UsersOf(hold, h)) + 1
      BY <2>1, UsersFinite DEF NodeCounted
    <3>. QED BY <1>8, <3>1, UsersFinite
  <2>3. t \in UsersOf(hold, h)
    BY <1>5 DEF UsersOf
  <2>4. Cardinality(UsersOf(hold, h) \ {t}) = Cardinality(UsersOf(hold, h)) - 1
    BY <2>2, <2>3, FS_RemoveElement
  <2>5. IsFiniteSet(UsersOf(hold, h) \ {t}) /\ Cardinality(UsersOf(hold, h) \ {t}) \in Nat
    BY <2>2, FS_Subset, FS_CardinalityType
  <2>6. Cardinality(UsersOf(hold, h) \ {t}) = 0
    <3>1. Cardinality(UsersOf(hold, h)) \in Nat
      BY UsersFinite
    <3>. QED BY <2>2, <2>4, <2>5, <3>1
  <2>7. UsersOf(hold, h) \ {t} = {}
    BY <2>5, <2>6, FS_EmptySet
  <2>. QED BY <2>3, <2>7
<1>10. \A u \in Users : hold[u] # n
  BY <1>1, <1>6, Zenon DEF Sound, HeldInTree
<1>11. PICK x : x = [Increment(treeNode[n]) EXCEPT !.tree_state = 0, !.mount_state = 1, !.n_release = TRUE]
  OBVIOUS
<1>12. /\ x \in NodeStates /\ x.count = 2 /\ x.tree_state = 0 /\ x.mount_state = 1 /\ x.n_release
       /\ x.exclusive = treeNode[n].exclusive
  <2>1. treeNode[n] \in NodeStates
    BY <1>1 DEF Records
  <2>2. PICK s : s = IF treeNode[n].tree_state > 0 THEN treeNode[n].tree_state + 1 ELSE treeNode[n].tree_state
    OBVIOUS
  <2>3. Increment(treeNode[n]) = [treeNode[n] EXCEPT !.count = 2, !.tree_state = s]
    BY <1>8, <2>1, <2>2 DEF Increment, NodeStates
  <2>4. x = [[treeNode[n] EXCEPT !.count = 2, !.tree_state = s] EXCEPT !.tree_state = 0, !.mount_state = 1, !.n_release = TRUE]
    BY <1>11, <2>3, Zenon
  <2>. QED BY <2>1, <2>4 DEF NodeStates
<1>13. PICK at2, nd2, hd2, new2, pc :
         at2 = treeAt' /\ nd2 = treeNode' /\ hd2 = hold' /\ new2 = treeNew' /\ pc = [treePc EXCEPT ![t] = "idle"]
  OBVIOUS
<1>14. /\ at2 = [treeAt EXCEPT ![p] = n] /\ nd2 = [treeNode EXCEPT ![n] = x]
       /\ hd2 = [hold EXCEPT ![t] = n] /\ new2 = [treeNew EXCEPT ![t] = NONE]
  BY <1>2, <1>4, <1>5, <1>11, <1>13, Zenon
<1>15. /\ at2 \in Trees /\ at2[p] = n /\ \A q \in Path : q # p => at2[q] = treeAt[q]
       /\ nd2 \in Records /\ nd2[n] = x /\ \A m \in Nodes : m # n => nd2[m] = treeNode[m]
       /\ hd2 \in Holder /\ hd2[t] = n /\ \A u \in Users : u # t => hd2[u] = hold[u]
       /\ new2 \in Holder /\ new2[t] = NONE /\ \A u \in Users : u # t => new2[u] = treeNew[u]
       /\ pc[t] = "idle" /\ \A u \in Users : u # t => pc[u] = treePc[u]
  <2>1. at2 \in Trees /\ at2[p] = n /\ \A q \in Path : q # p => at2[q] = treeAt[q]
    BY <1>1, <1>14 DEF Trees
  <2>2. nd2 \in Records /\ nd2[n] = x /\ \A m \in Nodes : m # n => nd2[m] = treeNode[m]
    BY <1>1, <1>12, <1>14 DEF Records
  <2>3. hd2 \in Holder /\ hd2[t] = n /\ \A u \in Users : u # t => hd2[u] = hold[u]
    BY <1>1, <1>14 DEF Holder
  <2>4. new2 \in Holder /\ new2[t] = NONE /\ \A u \in Users : u # t => new2[u] = treeNew[u]
    BY <1>1, <1>14 DEF Holder
  <2>5. pc[t] = "idle" /\ \A u \in Users : u # t => pc[u] = treePc[u]
    BY <1>1, <1>13 DEF PcStates
  <2>. QED BY <2>1, <2>2, <2>3, <2>4, <2>5
<1>16. \A q \in Path : at2[q] # NONE <=> treeAt[q] # NONE
  BY <1>6, <1>15, Zenon
<1>17. ASSUME NEW q \in Path, q # p, treeAt[q] # NONE
       PROVE  /\ at2[q] = treeAt[q] /\ nd2[at2[q]] = treeNode[treeAt[q]] /\ at2[q] # n /\ at2[q] # h
              /\ UsersOf(hd2, at2[q]) = UsersOf(hold, treeAt[q])
  <2>1. treeAt[q] \in Nodes
    BY <1>1, <1>17 DEF Trees
  <2>2. treeAt[q] # n /\ treeAt[q] # h
    BY <1>6, <1>17, Zenon
  <2>3. at2[q] = treeAt[q] /\ nd2[treeAt[q]] = treeNode[treeAt[q]]
    BY <1>15, <1>17, <2>1, <2>2, Zenon
  <2>4. \A u \in Users : hd2[u] = treeAt[q] <=> hold[u] = treeAt[q]
    <3>. SUFFICES ASSUME NEW u \in Users PROVE hd2[u] = treeAt[q] <=> hold[u] = treeAt[q]
      OBVIOUS
    <3>1. CASE u = t
      BY <1>5, <1>15, <2>2, <3>1, Zenon
    <3>2. CASE u # t
      BY <1>15, <3>2, Zenon
    <3>. QED BY <3>1, <3>2
  <2>5. UsersOf(hd2, treeAt[q]) = UsersOf(hold, treeAt[q])
    BY <2>4 DEF UsersOf
  <2>. QED BY <2>2, <2>3, <2>5, Zenon
<1>18. RootStays(at2, nd2)
  <2>1. Root \in Path /\ Root # p /\ treeAt[Root] # NONE /\ treeNode[treeAt[Root]].mount_state = 1
    BY <1>1, <1>6, VfsAssumption, Zenon DEF Sound, RootStays
  <2>. QED BY <1>17, <2>1, Zenon DEF RootStays
<1>19. AtOnce(at2)
  <2>. SUFFICES ASSUME NEW q \in Path, NEW r \in Path, at2[q] # NONE, at2[q] = at2[r] PROVE q = r
    BY Zenon DEF AtOnce
  <2>1. treeAt[q] # NONE /\ treeAt[r] # NONE
    BY <1>16, Zenon
  <2>2. CASE q = p \/ r = p
    BY <1>15, <1>17, <2>1, <2>2, Zenon
  <2>3. CASE q # p /\ r # p
    <3>1. treeAt[q] = treeAt[r]
      BY <1>15, <2>3, Zenon
    <3>. QED BY <1>1, <2>1, <3>1, Zenon DEF Sound, AtOnce
  <2>. QED BY <2>2, <2>3
<1>20. NoGap(at2)
  <2>. SUFFICES ASSUME NEW q \in Path, q # Root, at2[q] # NONE PROVE at2[Parent(q)] # NONE
    BY Zenon DEF NoGap, Parent
  <2>1. treeAt[Parent(q)] # NONE
    BY <1>1, <1>16, Zenon DEF Sound, NoGap, Parent
  <2>2. Parent(q) \in Path
    BY ParentIs, Zenon
  <2>. QED BY <1>16, <2>1, <2>2, Zenon
<1>21. HeldInTree(at2, hd2)
  <2>. SUFFICES ASSUME NEW u \in Users, hd2[u] # NONE PROVE \E q \in Path : at2[q] = hd2[u]
    BY Zenon DEF HeldInTree
  <2>1. CASE u = t
    BY <1>15, <2>1, Zenon
  <2>2. CASE u # t
    <3>1. hd2[u] = hold[u]
      BY <1>15, <2>2, Zenon
    <3>2. PICK q \in Path : treeAt[q] = hold[u]
      BY <1>1, <3>1, Zenon DEF Sound, HeldInTree
    <3>3. u \notin UsersOf(hold, h)
      BY <1>9, <2>2
    <3>4. hold[u] # h
      BY <3>3 DEF UsersOf
    <3>5. q # p
      BY <1>6, <3>2, <3>4, Zenon
    <3>. QED BY <1>15, <3>1, <3>2, <3>5, Zenon
  <2>. QED BY <2>1, <2>2
<1>22. NodeCounted(nd2, hd2, n)
  <2>1. UsersOf(hd2, n) = {t}
    <3>1. \A u \in Users : hd2[u] = n <=> u = t
      BY <1>10, <1>15, Zenon
    <3>. QED BY <3>1 DEF UsersOf
  <2>2. Cardinality(UsersOf(hd2, n)) = 1
    BY <2>1, FS_Singleton
  <2>3. nd2[n].count = Cardinality(UsersOf(hd2, n)) + 1
    BY <1>12, <1>15, <2>2
  <2>. QED BY <1>12, <1>15, <2>3 DEF NodeCounted
<1>23. \A q \in Path : at2[q] # NONE => NodeCounted(nd2, hd2, at2[q])
  <2>. SUFFICES ASSUME NEW q \in Path, at2[q] # NONE PROVE NodeCounted(nd2, hd2, at2[q])
    OBVIOUS
  <2>1. CASE q = p
    BY <1>15, <1>22, <2>1, Zenon
  <2>2. CASE q # p
    <3>1. treeAt[q] # NONE
      BY <1>16, Zenon
    <3>2. NodeCounted(treeNode, hold, treeAt[q])
      BY <1>1, <3>1, Zenon DEF Sound
    <3>. QED BY <1>17, <2>2, <3>1, <3>2, Zenon DEF NodeCounted
  <2>. QED BY <2>1, <2>2
<1>24. Sound(at2, nd2, hd2)
  BY <1>18, <1>19, <1>20, <1>21, <1>23, Zenon DEF Sound
<1>25. Tidy(at2, nd2, hd2)
  <2>. SUFFICES ASSUME NEW q \in Path, q # Root, at2[q] # NONE PROVE Needed(at2, nd2, hd2, q)
    BY Zenon DEF Tidy
  <2>1. CASE q = p
    BY <1>12, <1>15, <2>1, Zenon DEF Needed
  <2>2. CASE q # p
    <3>1. treeAt[q] # NONE
      BY <1>16, Zenon
    <3>2. Needed(treeAt, treeNode, hold, q)
      BY <1>1, <3>1, Zenon DEF Tidy
    <3>3. ASSUME Children(treeAt, q) # {} PROVE Children(at2, q) # {}
      <4>1. PICK c \in Path : c \in Children(treeAt, q)
        BY <3>3 DEF Children
      <4>2. c # Root /\ Parent(c) = q /\ treeAt[c] # NONE
        BY <4>1, ChildIs, Zenon
      <4>3. c \in Children(at2, q)
        BY <1>16, <4>2, ChildIs, Zenon
      <4>. QED BY <4>3
    <3>4. nd2[at2[q]] = treeNode[treeAt[q]] /\ UsersOf(hd2, at2[q]) = UsersOf(hold, treeAt[q])
      BY <1>17, <2>2, <3>1, Zenon
    <3>. QED BY <3>2, <3>3, <3>4, Zenon DEF Needed
  <2>. QED BY <2>1, <2>2
<1>26. OnDisk(at2, nd2, disk)
  <2>. SUFFICES ASSUME NEW q \in Path, at2[q] # NONE, nd2[at2[q]].mount_state = 0, ~ForeignIn(at2, nd2, q)
                PROVE  disk[q] = nd2[at2[q]].type
    BY Zenon DEF OnDisk
  <2>1. q # p
    <3>1. 1 # 0
      OBVIOUS
    <3>. QED BY <1>12, <1>15, <3>1, Zenon
  <2>2. treeAt[q] # NONE
    BY <1>16, Zenon
  <2>3. nd2[at2[q]] = treeNode[treeAt[q]]
    BY <1>17, <2>1, <2>2, Zenon
  <2>4. ASSUME ForeignIn(treeAt, treeNode, q) PROVE FALSE
    <3>1. PICK r \in Prefixes(q) \ {Root, q} : treeAt[r] # NONE /\ treeNode[treeAt[r]].mount_state = 1
      BY <2>4, Zenon DEF ForeignIn
    <3>2. r \in Path
      BY <3>1, PrefixIs, Zenon
    <3>3. r # p
      <4>1. 1 # 0
        OBVIOUS
      <4>. QED BY <1>6, <1>8, <3>1, <4>1, Zenon
    <3>4. at2[r] # NONE /\ nd2[at2[r]].mount_state = 1
      BY <1>16, <1>17, <3>1, <3>2, <3>3, Zenon
    <3>. QED BY <3>1, <3>4, Zenon DEF ForeignIn
  <2>. QED BY <1>1, <2>2, <2>3, <2>4, Zenon DEF OnDisk
<1>27. OneUser(nd2, hd2, pc)
  <2>. SUFFICES ASSUME NEW m \in Nodes, nd2[m].exclusive, nd2[m].type = "file", NEW v \in Users, NEW w \in Users,
                       hd2[v] = m, hd2[w] = m, pc[v] # "stat_only", pc[w] # "stat_only"
                PROVE  v = w
    BY Zenon DEF OneUser
  <2>1. m # n
    BY <1>8, <1>12, <1>15, Zenon
  <2>2. treeNode[m].exclusive /\ treeNode[m].type = "file"
    BY <1>15, <2>1, Zenon
  <2>3. v # t /\ w # t
    BY <1>15, <2>1, Zenon
  <2>4. hold[v] = m /\ hold[w] = m /\ treePc[v] # "stat_only" /\ treePc[w] # "stat_only"
    BY <1>15, <2>3, Zenon
  <2>. QED BY <1>1, <2>2, <2>4, Zenon DEF OneUser
<1>28. MountShared(at2, nd2)
  <2>. SUFFICES ASSUME NEW q \in Path, at2[q] # NONE, nd2[at2[q]].mount_state = 1 PROVE ~nd2[at2[q]].exclusive
    BY Zenon DEF MountShared
  <2>1. CASE q = p
    BY <1>8, <1>12, <1>15, <2>1, Zenon
  <2>2. CASE q # p
    BY <1>1, <1>16, <1>17, <2>2, Zenon DEF MountShared
  <2>. QED BY <2>1, <2>2
<1>29. Waits(at2, nd2, new2)
  <2>1. ASSUME NEW u \in Users, new2[u] # NONE
        PROVE  u # t /\ new2[u] = treeNew[u] /\ treeNew[u] # NONE /\ new2[u] # n /\ nd2[new2[u]] = treeNode[treeNew[u]]
    <3>1. u # t
      BY <1>15, <2>1, Zenon
    <3>2. new2[u] = treeNew[u] /\ treeNew[u] # NONE
      BY <1>15, <2>1, <3>1, Zenon
    <3>3. treeNew[u] # n
      BY <1>1, <1>5, <3>1, <3>2, Zenon DEF Waits
    <3>4. treeNew[u] \in Nodes
      BY <1>1, <3>2 DEF Holder
    <3>5. nd2[treeNew[u]] = treeNode[treeNew[u]]
      BY <1>15, <3>3, <3>4, Zenon
    <3>. QED BY <3>1, <3>2, <3>3, <3>5, Zenon
  <2>2. \A u \in Users, q \in Path : new2[u] # NONE => at2[q] # new2[u]
    <3>. SUFFICES ASSUME NEW u \in Users, NEW q \in Path, new2[u] # NONE PROVE at2[q] # new2[u]
      OBVIOUS
    <3>1. new2[u] = treeNew[u] /\ treeNew[u] # NONE /\ new2[u] # n
      BY <2>1, Zenon
    <3>2. treeAt[q] # treeNew[u]
      BY <1>1, <3>1, Zenon DEF Waits
    <3>. QED BY <1>15, <3>1, <3>2, Zenon
  <2>3. \A u, v \in Users : new2[u] # NONE /\ new2[u] = new2[v] => u = v
    <3>. SUFFICES ASSUME NEW u \in Users, NEW v \in Users, new2[u] # NONE, new2[u] = new2[v] PROVE u = v
      OBVIOUS
    <3>1. new2[v] # NONE
      BY Zenon
    <3>2. treeNew[u] # NONE /\ treeNew[u] = treeNew[v]
      <4>1. new2[u] = treeNew[u] /\ treeNew[u] # NONE /\ new2[v] = treeNew[v]
        BY <2>1, <3>1, Zenon
      <4>. QED BY <4>1, Zenon
    <3>. QED BY <1>1, <3>2, Zenon DEF Waits
  <2>4. \A u \in Users : new2[u] # NONE => nd2[new2[u]].count = 1 /\ nd2[new2[u]].mount_state = 0 /\ ~nd2[new2[u]].exclusive
    BY <1>1, <2>1, Zenon DEF Waits
  <2>. QED BY <2>2, <2>3, <2>4, Zenon DEF Waits
<1>30. TreeParts(at2, nd2, hd2, disk, pc, new2)
  BY <1>24, <1>25, <1>26, <1>27, <1>28, <1>29, Zenon DEF TreeParts
<1>31. \A u \in Users : u # t => hd2[u] = hold[u] /\ new2[u] = treeNew[u]
  BY <1>15, Zenon
<1>32. TreeParts(at2, nd2, hd2, disk, [treePc EXCEPT ![t] = "idle"], new2)
  BY <1>13, <1>30, Zenon
<1>33. treeAt' = at2 /\ treeNode' = nd2 /\ hold' = hd2 /\ treeNew' = new2
  BY <1>13, Zenon
<1>. QED BY <1>2, <1>15, <1>31, <1>32, <1>33, IdleStep, Zenon

-----------------------------------------------------------------------------
LEMMA TreeStarts == VfsInit => TreeInv
<1>. SUFFICES ASSUME VfsInit PROVE TreeInv
  OBVIOUS
<1>0. /\ IsFiniteSet(Users) /\ NodeCount \in Nat \ {0} /\ NONE \notin Nodes
      /\ Root \in Path /\ Disk \in [Path -> {"dir", "file", "none"}]
  BY VfsAssumption
<1>1. PICK at, nd, hd, new, dk, pc :
        /\ at = treeAt /\ nd = treeNode /\ hd = hold /\ new = treeNew /\ dk = disk /\ pc = treePc
  OBVIOUS
<1>2. /\ at = [p \in Path |-> IF p = Root THEN 1 ELSE NONE]
      /\ nd = [n \in Nodes |->
               IF n = 1 THEN [Fresh("dir", FALSE) EXCEPT !.mount_state = 1, !.n_release = TRUE]
                        ELSE [Fresh("dir", FALSE) EXCEPT !.count = 0]]
      /\ dk = Disk /\ hd = [t \in Users |-> NONE] /\ new = [t \in Users |-> NONE] /\ pc = [t \in Users |-> "idle"]
  BY <1>1, Zenon DEF VfsInit
<1>3. 1 \in Nodes /\ 1 # NONE
  BY <1>0 DEF Nodes
<1>4. at \in Trees /\ hd \in Holder /\ new \in Holder /\ dk \in [Path -> {"dir", "file", "none"}]
      /\ pc \in [Users -> Types \cup {"idle", "truncate", "stat_only", "mount"}]
  BY <1>0, <1>2, <1>3 DEF Trees, Holder
<1>5. /\ nd \in Records
      /\ nd[1].count = 1 /\ nd[1].mount_state = 1 /\ nd[1].n_release
      /\ \A n \in Nodes : ~nd[n].exclusive /\ nd[n].type = "dir"
  <2>1. PICK x : x = [Fresh("dir", FALSE) EXCEPT !.mount_state = 1, !.n_release = TRUE]
    OBVIOUS
  <2>2. PICK y : y = [Fresh("dir", FALSE) EXCEPT !.count = 0]
    OBVIOUS
  <2>3. /\ x \in NodeStates /\ x.count = 1 /\ x.mount_state = 1 /\ x.n_release /\ ~x.exclusive /\ x.type = "dir"
    BY <2>1 DEF Fresh, NodeStates
  <2>4. y \in NodeStates /\ ~y.exclusive /\ y.type = "dir"
    BY <2>2 DEF Fresh, NodeStates
  <2>5. nd = [n \in Nodes |-> IF n = 1 THEN x ELSE y]
    BY <1>2, <2>1, <2>2
  <2>. QED BY <1>3, <2>3, <2>4, <2>5 DEF Records
<1>6. /\ at[Root] = 1 /\ \A p \in Path : at[p] # NONE => p = Root
      /\ \A t \in Users : hd[t] = NONE /\ new[t] = NONE /\ pc[t] = "idle"
  BY <1>0, <1>2
<1>7. Sound(at, nd, hd)
  <2>1. RootStays(at, nd)
    BY <1>3, <1>5, <1>6, Zenon DEF RootStays
  <2>2. AtOnce(at) /\ NoGap(at) /\ HeldInTree(at, hd)
    BY <1>6, Zenon DEF AtOnce, NoGap, HeldInTree
  <2>3. UsersOf(hd, 1) = {}
    BY <1>3, <1>6 DEF UsersOf
  <2>4. Cardinality(UsersOf(hd, 1)) = 0
    BY <2>3, UsersFinite
  <2>5. NodeCounted(nd, hd, 1)
    BY <1>5, <2>4 DEF NodeCounted
  <2>6. \A p \in Path : at[p] # NONE => NodeCounted(nd, hd, at[p])
    BY <1>6, <2>5, Zenon
  <2>. QED BY <2>1, <2>2, <2>6, Zenon DEF Sound
<1>8. Tidy(at, nd, hd)
  BY <1>6, Zenon DEF Tidy
<1>9. OnDisk(at, nd, dk)
  <2>1. \A p \in Path : at[p] # NONE => nd[at[p]].mount_state # 0
    <3>1. nd[1].mount_state # 0
      BY <1>5
    <3>. QED BY <1>6, <3>1, Zenon
  <2>. QED BY <2>1, Zenon DEF OnDisk
<1>10. OneUser(nd, hd, pc)
  BY <1>5, Zenon DEF OneUser
<1>11. MountShared(at, nd)
  <2>1. \A p \in Path : at[p] # NONE => at[p] \in Nodes
    BY <1>4 DEF Trees
  <2>. QED BY <1>5, <2>1, Zenon DEF MountShared
<1>12. Waits(at, nd, new)
  BY <1>6, Zenon DEF Waits
<1>13. Places(hd, new, pc)
  <2>1. "idle" # "mount"
    OBVIOUS
  <2>. QED BY <1>6, <2>1, Zenon DEF Places
<1>14. TreeParts(at, nd, hd, dk, pc, new)
  BY <1>7, <1>8, <1>9, <1>10, <1>11, <1>12, Zenon DEF TreeParts
<1>15. VfsTypeOK
  <2>1. treeAt \in Trees /\ treeNode \in Records /\ hold \in Holder /\ treeNew \in Holder
        /\ disk \in [Path -> {"dir", "file", "none"}]
        /\ treePc \in [Users -> Types \cup {"idle", "truncate", "stat_only", "mount"}]
    BY <1>1, <1>4, <1>5, Zenon
  <2>. QED BY <2>1, Zenon DEF VfsTypeOK, Trees, Records, NodeStates, Holder
<1>16. TreeParts(treeAt, treeNode, hold, disk, treePc, treeNew) /\ Places(hold, treeNew, treePc)
  BY <1>1, <1>13, <1>14, Zenon
<1>. QED BY <1>15, <1>16, Zenon DEF TreeInv

LEMMA TreeSteps == TreeInv /\ VfsNext => TreeInv'
<1>. SUFFICES ASSUME TreeInv, VfsNext PROVE TreeInv'
  OBVIOUS
<1>1. PICK t \in Users :
        \/ OpenDone(t) \/ OpenUndone(t) \/ VfsRelease(t) \/ NewNode(t) \/ Mount(t) \/ MountFails(t)
        \/ \E u \in Users : Clone(t, u)
        \/ \E p \in Path :
             \/ Remove(t, p) \/ MountOpen(t, p)
             \/ \E f \in 1 .. Len(p) : OpenFails(t, p, f)
             \/ \E type \in Types, mode \in Modes : VfsOpen(t, p, type, mode)
  BY Zenon DEF VfsNext
<1>2. CASE OpenDone(t)
  BY <1>2, OpenDoneStep, Zenon
<1>3. CASE OpenUndone(t)
  BY <1>3, OpenUndoneStep, Zenon
<1>4. CASE VfsRelease(t)
  BY <1>4, VfsReleaseStep, Zenon
<1>5. CASE NewNode(t)
  BY <1>5, NewNodeStep, Zenon
<1>6. CASE Mount(t)
  BY <1>6, MountStep, Zenon
<1>7. CASE MountFails(t)
  BY <1>7, MountFailsStep, Zenon
<1>8. ASSUME NEW u \in Users, Clone(t, u) PROVE TreeInv'
  BY <1>8, CloneStep, Zenon
<1>9. ASSUME NEW p \in Path, Remove(t, p) PROVE TreeInv'
  BY <1>9, RemoveStep, Zenon
<1>10. ASSUME NEW p \in Path, MountOpen(t, p) PROVE TreeInv'
  BY <1>10, MountOpenStep, Zenon
<1>11. ASSUME NEW p \in Path, NEW f \in 1 .. Len(p), OpenFails(t, p, f) PROVE TreeInv'
  BY <1>11, OpenFailsStep, Zenon
<1>12. ASSUME NEW p \in Path, NEW type \in Types, NEW mode \in Modes, VfsOpen(t, p, type, mode) PROVE TreeInv'
  BY <1>12, VfsOpenStep, Zenon
<1>. QED BY <1>1, <1>2, <1>3, <1>4, <1>5, <1>6, <1>7, <1>8, <1>9, <1>10, <1>11, <1>12, Zenon

LEMMA TreeStays == TreeInv /\ UNCHANGED vfsVars => TreeInv'
<1>. SUFFICES ASSUME TreeInv, UNCHANGED vfsVars PROVE TreeInv'
  OBVIOUS
<1>1. /\ treeAt' = treeAt /\ treeNode' = treeNode /\ disk' = disk
      /\ hold' = hold /\ treeNew' = treeNew /\ treePc' = treePc
  BY DEF vfsVars
<1>2. PICK at \in Trees, nd \in Records : at = treeAt /\ nd = treeNode
  BY TypesAre, Zenon
<1>3. TreeParts(at, nd, hold, disk, treePc, treeNew)
  BY <1>2, TypesAre, Zenon
<1>. QED BY <1>1, <1>2, <1>3, TreeInvSame, Zenon

LEMMA TreeRight ==
  TreeInv => CountsExact /\ HeldIsLive /\ TreeTidy /\ OpenIsOnDisk /\ ExclusiveAlone
<1>. SUFFICES ASSUME TreeInv PROVE CountsExact /\ HeldIsLive /\ TreeTidy /\ OpenIsOnDisk /\ ExclusiveAlone
  OBVIOUS
<1>1. /\ treeAt \in Trees /\ treeNode \in Records /\ hold \in Holder
      /\ Sound(treeAt, treeNode, hold) /\ Tidy(treeAt, treeNode, hold) /\ OnDisk(treeAt, treeNode, disk)
      /\ OneUser(treeNode, hold, treePc)
  BY TypesAre, Zenon DEF TreeParts
<1>2. \A n : UserCount(n) = Cardinality(UsersOf(hold, n))
  BY Zenon DEF UserCount, UsersOf
<1>3. CountsExact
  <2>. SUFFICES ASSUME NEW n \in Nodes, InTree(n), treeNode[n].mount_state = 0
                PROVE  treeNode[n].count = UserCount(n) + 1 /\ treeNode[n].tree_state = UserCount(n)
    BY Zenon DEF CountsExact
  <2>1. PICK p \in Path : treeAt[p] = n
    BY Zenon DEF InTree
  <2>2. n # NONE
    BY VfsAssumption
  <2>3. NodeCounted(treeNode, hold, n)
    BY <1>1, <2>1, <2>2, Zenon DEF Sound
  <2>. QED BY <1>2, <2>3, Zenon DEF NodeCounted
<1>4. HeldIsLive
  <2>. SUFFICES ASSUME NEW t \in Users, hold[t] # NONE PROVE treeNode[hold[t]].count > 0 /\ treeNode[hold[t]].n_release
    BY Zenon DEF HeldIsLive
  <2>1. PICK p \in Path : treeAt[p] = hold[t]
    BY PathOfIs, Zenon
  <2>2. treeAt[p] # NONE
    BY <2>1, Zenon
  <2>3. treeNode[treeAt[p]].count > 0 /\ NodeCounted(treeNode, hold, treeAt[p])
    BY <1>1, <2>2, TreeNodeIs, Zenon
  <2>. QED BY <2>1, <2>3, Zenon DEF NodeCounted
<1>5. TreeTidy
  <2>. SUFFICES ASSUME NEW p \in Path \ {Root}, treeAt[p] # NONE
                PROVE  /\ treeAt[SubSeq(p, 1, Len(p) - 1)] # NONE
                       /\ Children(treeAt, p) # {} \/ treeNode[treeAt[p]].mount_state = 1 \/ UserCount(treeAt[p]) > 0
    BY Zenon DEF TreeTidy
  <2>1. treeAt[SubSeq(p, 1, Len(p) - 1)] # NONE
    BY <1>1, Zenon DEF Sound, NoGap
  <2>2. Needed(treeAt, treeNode, hold, p)
    BY <1>1, Zenon DEF Tidy
  <2>. QED BY <1>2, <2>1, <2>2, Zenon DEF Needed
<1>6. OpenIsOnDisk
  BY <1>1, Zenon DEF OpenIsOnDisk, OnDisk, Foreign, ForeignIn
<1>7. ExclusiveAlone
  <2>. SUFFICES ASSUME NEW n \in Nodes, treeNode[n].exclusive, treeNode[n].type = "file"
                PROVE  Cardinality({t \in Users : hold[t] = n /\ treePc[t] # "stat_only"}) <= 1
    BY Zenon DEF ExclusiveAlone
  <2>. DEFINE S == {t \in Users : hold[t] = n /\ treePc[t] # "stat_only"}
  <2>1. \A t, u \in S : t = u
    BY <1>1 DEF OneUser
  <2>. HIDE DEF S
  <2>2. CASE S = {}
    <3>1. Cardinality(S) = 0
      BY <2>2, FS_EmptySet
    <3>. QED BY <3>1 DEF S
  <2>3. CASE S # {}
    <3>1. PICK t \in S : TRUE
      BY <2>3
    <3>2. S = {t}
      BY <2>1, <3>1
    <3>3. Cardinality(S) = 1
      BY <3>2, FS_Singleton
    <3>. QED BY <3>3 DEF S
  <2>. QED BY <2>2, <2>3
<1>. QED BY <1>3, <1>4, <1>5, <1>6, <1>7

=============================================================================
