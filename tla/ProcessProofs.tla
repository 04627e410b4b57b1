--------------------------- MODULE ProcessProofs ----------------------------
(***************************************************************************)
(* Proofs about module Process, for any tasks, structures, signals, events *)
(* and processors: an inductive invariant of each part, and that the parts *)
(* together keep all of them.                                              *)
(***************************************************************************)
EXTENDS Process, FiniteSetTheorems, WellFoundedInduction, TLAPS

\* Every set of natural numbers that is not empty has a least element.
LEMMA LeastNat ==
  ASSUME NEW S, S \subseteq Nat, S # {}
  PROVE  \E n \in S : \A m \in S : n <= m
<1>. DEFINE R == OpToRel(<, Nat)
<1>1. IsWellFoundedOn(R, Nat)
  BY NatLessThanWellFounded
<1>. HIDE DEF R
<1>2. PICK n \in S : \A m \in S : <<m, n>> \notin R
  BY <1>1, WFMin
<1>3. \A m \in S : m < n => <<m, n>> \in R
  BY DEF R, OpToRel
<1>4. \A m \in S : ~(m < n)
  BY <1>2, <1>3
<1>5. \A m \in S : n <= m
  BY <1>4
<1>. QED BY <1>5

-----------------------------------------------------------------------------
(***************************************************************************)
(* The list of tasks.  Ring(L, n, tl): the structures of L are a ring with *)
(* the first task and the tail tl under the pointers n.  Chain(P, n, p):   *)
(* the structures of P are a chain from p to NULL.  That nothing else is   *)
(* reached is what following the pointers cannot leave, and that all is    *)
(* reached what no smaller closed set has.                                 *)
(***************************************************************************)
Leads(n, S) == \A x \in S : n[x] \in S \cup {NONE}
Pointers == [Structures -> Structures \cup {NONE}]

Ring(L, n, tl) ==
  /\ FirstTask \in L /\ tl \in L /\ n[tl] = FirstTask
  /\ \A x \in L : n[x] \in L
  /\ \A x, y \in L : n[x] = n[y] => x = y
  /\ \A S \in SUBSET Structures : FirstTask \in S /\ Leads(n, S) => L \subseteq S

Chain(P, n, p) ==
  /\ p = NONE => P = {}
  /\ p # NONE => p \in P
  /\ \A x \in P : n[x] \in P \cup {NONE} /\ n[x] # p
  /\ \A x, y \in P : n[x] = n[y] /\ n[x] # NONE => x = y
  /\ \A S \in SUBSET Structures : p # NONE /\ p \in S /\ Leads(n, S) => P \subseteq S

\* A ring stays one when pointers outside it change.
LEMMA RingKept ==
  ASSUME NEW L \in SUBSET Structures, NEW n \in Pointers, NEW m \in Pointers, NEW tl,
         Ring(L, n, tl), \A x \in L : m[x] = n[x]
  PROVE  Ring(L, m, tl)
<1>1. ASSUME NEW S \in SUBSET Structures, FirstTask \in S, Leads(m, S)
      PROVE  L \subseteq S
  <2>1. Leads(n, S \cap L)
    BY <1>1, WaitAssumption DEF Leads, Ring
  <2>2. FirstTask \in S \cap L /\ S \cap L \in SUBSET Structures
    BY <1>1 DEF Ring
  <2>. QED BY <2>1, <2>2 DEF Ring
<1>. QED BY <1>1 DEF Ring

\* So does a chain.
LEMMA ChainKept ==
  ASSUME NEW P \in SUBSET Structures, NEW n \in Pointers, NEW m \in Pointers, NEW p,
         Chain(P, n, p), \A x \in P : m[x] = n[x]
  PROVE  Chain(P, m, p)
<1>1. ASSUME NEW S \in SUBSET Structures, p # NONE, p \in S, Leads(m, S)
      PROVE  P \subseteq S
  <2>1. Leads(n, S \cap P)
    BY <1>1 DEF Leads, Chain
  <2>2. p \in S \cap P /\ S \cap P \in SUBSET Structures
    BY <1>1 DEF Chain
  <2>. QED BY <1>1, <2>1, <2>2 DEF Chain
<1>. QED BY <1>1 DEF Chain

\* task_create: a structure that is not in the ring becomes its tail.
LEMMA RingGrows ==
  ASSUME NEW L \in SUBSET Structures, NEW n \in Pointers, NEW m \in Pointers, NEW tl,
         NEW y \in Structures \ L, Ring(L, n, tl),
         m = [n EXCEPT ![y] = FirstTask, ![tl] = y]
  PROVE  Ring(L \cup {y}, m, y)
<1>1. m[y] = FirstTask /\ m[tl] = y /\ \A x \in L : x # tl => m[x] = n[x]
  BY DEF Ring, Pointers
<1>2. ASSUME NEW S \in SUBSET Structures, FirstTask \in S, Leads(m, S)
      PROVE  L \cup {y} \subseteq S
  <2>1. Leads(n, S \cap L)
    <3>1. ASSUME NEW x \in S \cap L PROVE n[x] \in (S \cap L) \cup {NONE}
      <4>1. CASE x = tl
        BY <4>1, <1>2 DEF Ring
      <4>2. CASE x # tl
        <5>1. n[x] \in L /\ m[x] = n[x]
          BY <4>2, <1>1 DEF Ring
        <5>. QED BY <5>1, <1>2 DEF Leads
      <4>. QED BY <4>1, <4>2
    <3>. QED BY <3>1 DEF Leads
  <2>2. L \subseteq S
    <3>1. FirstTask \in S \cap L /\ S \cap L \in SUBSET Structures
      BY <1>2 DEF Ring
    <3>. QED BY <2>1, <3>1 DEF Ring
  <2>3. tl \in S
    BY <2>2 DEF Ring
  <2>4. y \in S
    BY <2>3, <1>1, <1>2, WaitAssumption DEF Leads
  <2>. QED BY <2>2, <2>4
<1>3. \A x \in L \cup {y} : m[x] \in L \cup {y}
  BY <1>1 DEF Ring
<1>4. \A x, z \in L \cup {y} : m[x] = m[z] => x = z
  <2>1. \A x \in L : m[x] = FirstTask => x = y
    BY <1>1 DEF Ring
  <2>. QED BY <1>1, <2>1 DEF Ring
<1>. QED BY <1>1, <1>2, <1>3, <1>4 DEF Ring

\* task_caretaker: t1 is taken out between t0 and t2.
LEMMA RingShrinks ==
  ASSUME NEW L \in SUBSET Structures, NEW n \in Pointers, NEW m \in Pointers, NEW tl,
         NEW t0 \in L, NEW t1 \in L, NEW t2 \in L, Ring(L, n, tl),
         n[t0] = t1, n[t1] = t2, t0 # t1, t0 # t2, t1 # t2, t1 # FirstTask,
         m = [n EXCEPT ![t0] = t2]
  PROVE  Ring(L \ {t1}, m, IF t1 = tl THEN t0 ELSE tl)
<1>1. m[t0] = t2 /\ \A x \in L : x # t0 => m[x] = n[x]
  BY DEF Pointers
<1>2. \A x \in L : x # t0 => n[x] # t1
  BY DEF Ring
<1>3. ASSUME NEW S \in SUBSET Structures, FirstTask \in S, Leads(m, S)
      PROVE  L \ {t1} \subseteq S
  <2>1. CASE t0 \in S
    <3>. DEFINE T == (S \cap L) \cup {t1}
    <3>1. t2 \in S
      BY <2>1, <1>1, <1>3, WaitAssumption DEF Leads
    <3>2. ASSUME NEW x \in T PROVE n[x] \in T \cup {NONE}
      <4>1. CASE x = t1
        BY <4>1, <3>1
      <4>2. CASE x = t0
        BY <4>2
      <4>3. CASE x # t0 /\ x # t1
        <5>1. x \in S /\ x \in L /\ m[x] = n[x] /\ n[x] \in L
          BY <4>3, <1>1 DEF Ring
        <5>. QED BY <5>1, <1>3 DEF Leads
      <4>. QED BY <4>1, <4>2, <4>3
    <3>3. FirstTask \in T /\ T \in SUBSET Structures /\ Leads(n, T)
      BY <3>2, <1>3 DEF Ring, Leads
    <3>. HIDE DEF T
    <3>4. L \subseteq T
      BY <3>3 DEF Ring
    <3>. QED BY <3>4 DEF T
  <2>2. CASE t0 \notin S
    <3>. DEFINE T == (S \cap L) \ {t1}
    <3>1. ASSUME NEW x \in T PROVE n[x] \in T \cup {NONE}
      <4>1. x \in S /\ x \in L /\ x # t0
        BY <2>2
      <4>2. m[x] = n[x] /\ n[x] \in L /\ n[x] # t1
        BY <4>1, <1>1, <1>2 DEF Ring
      <4>. QED BY <4>1, <4>2, <1>3 DEF Leads
    <3>2. FirstTask \in T /\ T \in SUBSET Structures /\ Leads(n, T)
      BY <3>1, <1>3 DEF Ring, Leads
    <3>. HIDE DEF T
    <3>3. L \subseteq T
      BY <3>2 DEF Ring
    <3>. QED BY <3>3, <2>2 DEF T
  <2>. QED BY <2>1, <2>2
<1>4. \A x \in L \ {t1} : m[x] \in L \ {t1}
  BY <1>1, <1>2 DEF Ring
<1>5. \A x, z \in L \ {t1} : m[x] = m[z] => x = z
  <2>1. \A x \in L : x # t1 => n[x] # t2
    BY DEF Ring
  <2>. QED BY <1>1, <2>1 DEF Ring
<1>6. ASSUME t1 = tl PROVE m[t0] = FirstTask
  BY <1>6, <1>1 DEF Ring
<1>7. ASSUME t1 # tl PROVE tl # t0 /\ m[tl] = FirstTask
  BY <1>7, <1>1 DEF Ring
<1>. QED
  <2>. DEFINE e == IF t1 = tl THEN t0 ELSE tl
  <2>1. e \in L \ {t1} /\ m[e] = FirstTask
    BY <1>6, <1>7 DEF Ring
  <2>2. FirstTask \in L \ {t1}
    BY DEF Ring
  <2>. HIDE DEF e
  <2>3. Ring(L \ {t1}, m, e)
    BY <2>1, <2>2, <1>3, <1>4, <1>5 DEF Ring
  <2>. QED BY <2>3 DEF e

\* task_create: the first structure leaves the chain.
LEMMA ChainShrinks ==
  ASSUME NEW P \in SUBSET Structures, NEW n \in Pointers, NEW m \in Pointers,
         NEW p \in Structures, Chain(P, n, p), \A x \in P \ {p} : m[x] = n[x]
  PROVE  Chain(P \ {p}, m, n[p])
<1>1. p \in P
  BY WaitAssumption DEF Chain
<1>2. CASE n[p] = NONE
  <2>1. Leads(n, {p})
    BY <1>2 DEF Leads
  <2>2. P \subseteq {p}
    BY <2>1, <1>1, WaitAssumption DEF Chain
  <2>. QED BY <2>2, <1>2 DEF Chain
<1>3. CASE n[p] # NONE
  <2>1. n[p] \in P \ {p}
    BY <1>1, <1>3 DEF Chain
  <2>2. \A x \in P \ {p} : m[x] \in (P \ {p}) \cup {NONE} /\ m[x] # n[p]
    BY <1>1, <1>3 DEF Chain
  <2>3. ASSUME NEW S \in SUBSET Structures, n[p] \in S, Leads(m, S)
        PROVE  P \ {p} \subseteq S
    <3>. DEFINE T == (S \cap (P \ {p})) \cup {p}
    <3>1. ASSUME NEW x \in T PROVE n[x] \in T \cup {NONE}
      <4>1. CASE x = p
        BY <4>1, <2>1, <2>3
      <4>2. CASE x # p
        <5>1. x \in S /\ x \in P \ {p} /\ m[x] = n[x]
          BY <4>2
        <5>. QED BY <5>1, <2>2, <2>3 DEF Leads
      <4>. QED BY <4>1, <4>2
    <3>2. p \in T /\ T \in SUBSET Structures /\ Leads(n, T)
      BY <3>1 DEF Leads
    <3>. HIDE DEF T
    <3>3. P \subseteq T
      BY <3>2, WaitAssumption DEF Chain
    <3>. QED BY <3>3 DEF T
  <2>4. \A x, y \in P \ {p} : m[x] = m[y] /\ m[x] # NONE => x = y
    BY DEF Chain
  <2>. QED BY <2>1, <2>2, <2>3, <2>4, <1>3 DEF Chain
<1>. QED BY <1>2, <1>3

\* task_caretaker: a structure becomes the first of the chain.
LEMMA ChainGrows ==
  ASSUME NEW P \in SUBSET Structures, NEW n \in Pointers, NEW m \in Pointers,
         NEW p \in Structures \cup {NONE}, NEW t \in Structures \ P, Chain(P, n, p),
         m = [n EXCEPT ![t] = p]
  PROVE  Chain(P \cup {t}, m, t)
<1>1. m[t] = p /\ \A x \in P : m[x] = n[x]
  BY DEF Pointers
<1>2. t # NONE /\ p # t
  BY WaitAssumption DEF Chain
<1>3. \A x \in P \cup {t} : m[x] \in (P \cup {t}) \cup {NONE} /\ m[x] # t
  BY <1>1, <1>2 DEF Chain
<1>4. \A x, y \in P \cup {t} : m[x] = m[y] /\ m[x] # NONE => x = y
  BY <1>1, <1>2 DEF Chain
<1>5. ASSUME NEW S \in SUBSET Structures, t \in S, Leads(m, S)
      PROVE  P \cup {t} \subseteq S
  <2>1. Leads(n, S \cap P)
    BY <1>1, <1>5 DEF Leads, Chain
  <2>2. CASE p = NONE
    BY <2>2, <1>5 DEF Chain
  <2>3. CASE p # NONE
    <3>1. p \in S \cap P /\ S \cap P \in SUBSET Structures
      BY <2>3, <1>1, <1>5 DEF Leads, Chain
    <3>. QED BY <3>1, <2>1, <2>3, <1>5 DEF Chain
  <2>. QED BY <2>2, <2>3
<1>. QED BY <1>2, <1>3, <1>4, <1>5 DEF Chain

Listed == Waiting!InList
Pooled == Waiting!InPool

(***************************************************************************)
(* What every step of task.c keeps: the ring of the list and the chain of  *)
(* the pool; the pointers of the caretaker lead into the list, except t1   *)
(* between the list and the pool; an ID is given once, and a claimed one   *)
(* is that of a detached task.                                             *)
(***************************************************************************)
CareRight ==
  /\ care.pc = "visit" => care.t \in Listed
  /\ care.pc \in {"test", "unlink"} => care.t0 \in Listed /\ care.t1 \in Listed
  /\ care.pc = "unlink" => care.t \in Listed \cup {NONE} /\ care.t2 \in Listed /\ detached[care.t1] = 1
  /\ care.pc = "pool" => care.t1 \in Structures /\ place[care.t1] = "out" /\ care.t2 \in Listed

IdsRight ==
  /\ \A x \in Structures : waitId[x] <= lastId
  /\ \A x, y \in Structures : waitId[x] = waitId[y] /\ waitId[x] # 0 => x = y
  /\ claimed \subseteq 1 .. lastId
  /\ \A x \in Structures : waitId[x] \in claimed => detached[x] = 1

WaitInv ==
  /\ Waiting!TypeOK
  /\ \A x \in Structures : waitPc[x] \in {"look", "step"} => walk[x] \in Structures
  /\ Ring(Listed, waitNext, tail) /\ Chain(Pooled, waitNext, pool)
  /\ CareRight /\ IdsRight

\* The ring and the chain are the list and the pool that are valid.
LEMMA ListIsValid == WaitInv => Waiting!ListValid
<1>. SUFFICES ASSUME WaitInv PROVE Waiting!ListValid
  OBVIOUS
<1>1. \A S : Waiting!Closed(S) <=> Leads(waitNext, S)
  BY DEF Waiting!Closed, Leads
<1>2. Listed \in SUBSET Structures /\ Pooled \in SUBSET Structures
  BY DEF Listed, Pooled, Waiting!InList, Waiting!InPool
<1>3. Waiting!Reached(FirstTask) = Listed
  <2>1. FirstTask \in Listed /\ Leads(waitNext, Listed)
    BY DEF WaitInv, Ring, Leads
  <2>2. \A S \in SUBSET Structures : FirstTask \in S /\ Leads(waitNext, S) => Listed \subseteq S
    BY DEF WaitInv, Ring
  <2>. QED BY <1>1, <1>2, <2>1, <2>2 DEF Waiting!Reached
<1>4. ASSUME pool # NONE PROVE Waiting!Reached(pool) = Pooled
  <2>1. pool \in Pooled /\ Leads(waitNext, Pooled)
    BY <1>4 DEF WaitInv, Chain, Leads
  <2>2. \A S \in SUBSET Structures : pool \in S /\ Leads(waitNext, S) => Pooled \subseteq S
    BY <1>4 DEF WaitInv, Chain
  <2>. QED BY <1>1, <1>2, <2>1, <2>2 DEF Waiting!Reached
<1>5. waitNext[tail] = FirstTask /\ \A x, y \in Listed : waitNext[x] = waitNext[y] => x = y
  BY DEF WaitInv, Ring
<1>6. pool = NONE => Pooled = {}
  BY DEF WaitInv, Chain
<1>. QED BY <1>3, <1>4, <1>5, <1>6 DEF Waiting!ListValid, Listed, Pooled

\* The invariant holds when task_init has run.
LEMMA WaitStart == Waiting!Init => WaitInv
<1>. SUFFICES ASSUME Waiting!Init PROVE WaitInv
  OBVIOUS
<1>1. Listed = {FirstTask} /\ Pooled = {}
  BY WaitAssumption DEF Waiting!Init, Listed, Pooled, Waiting!InList, Waiting!InPool
<1>2. Waiting!TypeOK
  BY WaitAssumption DEF Waiting!Init, Waiting!TypeOK, Waiting!Pointer, Waiting!Asleep
<1>3. waitNext[FirstTask] = FirstTask
  BY WaitAssumption DEF Waiting!Init
<1>4. Ring(Listed, waitNext, tail)
  BY <1>1, <1>3 DEF Ring, Waiting!Init
<1>5. Chain(Pooled, waitNext, pool)
  BY <1>1 DEF Chain, Waiting!Init
<1>6. CareRight
  BY DEF CareRight, Waiting!Init, Waiting!Asleep
<1>7. IdsRight
  BY WaitAssumption DEF IdsRight, Waiting!Init
<1>. QED BY <1>2, <1>4, <1>5, <1>6, <1>7 DEF WaitInv, Waiting!Init

\* A step that leaves the list, the IDs and the caretaker alone.
LEMMA WaitKept ==
  ASSUME WaitInv, Waiting!TypeOK',
         \A x \in Structures : waitPc'[x] \in {"look", "step"} => walk'[x] \in Structures,
         UNCHANGED <<place, waitNext, tail, pool, lastId, waitId, detached, care, claimed>>
  PROVE  WaitInv'
<1>1. Listed' = Listed /\ Pooled' = Pooled
  BY DEF Listed, Pooled, Waiting!InList, Waiting!InPool
<1>2. Ring(Listed, waitNext, tail)' /\ Chain(Pooled, waitNext, pool)'
  <2>1. Ring(Listed, waitNext, tail) /\ Chain(Pooled, waitNext, pool)
    BY DEF WaitInv
  <2>. QED BY <1>1, <2>1 DEF Ring, Chain, Leads
<1>3. CareRight'
  BY <1>1 DEF WaitInv, CareRight
<1>4. IdsRight'
  BY DEF WaitInv, IdsRight
<1>. QED BY <1>2, <1>3, <1>4 DEF WaitInv

\* The list and the pool where the pointers stay.
LEMMA PlacesKept ==
  ASSUME WaitInv, UNCHANGED <<place, waitNext, tail, pool>>
  PROVE  Listed' = Listed /\ Pooled' = Pooled /\ Ring(Listed, waitNext, tail)' /\ Chain(Pooled, waitNext, pool)'
<1>1. Listed' = Listed /\ Pooled' = Pooled
  BY DEF Listed, Pooled, Waiting!InList, Waiting!InPool
<1>2. Ring(Listed, waitNext, tail) /\ Chain(Pooled, waitNext, pool)
  BY DEF WaitInv
<1>. QED BY <1>1, <1>2 DEF Ring, Chain, Leads

\* The structures outside the list.
LEMMA Apart ==
  ASSUME WaitInv
  PROVE  /\ Listed \in SUBSET Structures /\ Pooled \in SUBSET Structures
         /\ waitNext \in Pointers
         /\ \A x \in Structures : (x \in Listed <=> place[x] = "list") /\ (x \in Pooled <=> place[x] = "pool")
BY DEF WaitInv, Waiting!TypeOK, Listed, Pooled, Waiting!InList, Waiting!InPool, Pointers, Waiting!Pointer

\* task_create keeps the invariant.
LEMMA CreateKeeps ==
  ASSUME WaitInv, NEW x \in Structures, NEW y \in Structures, NEW d \in {0, 1},
         Waiting!Create(x, y, d)
  PROVE  WaitInv'
<1>. USE DEF Waiting!Create, Waiting!Append, Waiting!waiting
<1>1. place[y] \in {"none", "pool"} /\ y \notin Listed
  <2>1. CASE y = pool
    <3>1. pool \in Pooled
      BY <2>1, WaitAssumption DEF WaitInv, Chain
    <3>. QED BY <2>1, <3>1 DEF Listed, Pooled, Waiting!InList, Waiting!InPool
  <2>2. CASE place[y] = "none"
    BY <2>2 DEF Listed, Waiting!InList
  <2>. QED BY <2>1, <2>2
<1>2. Listed' = Listed \cup {y} /\ Pooled' = Pooled \ {y}
  BY <1>1 DEF Listed, Pooled, Waiting!InList, Waiting!InPool, WaitInv, Waiting!TypeOK
<1>3. tail \in Listed /\ tail # y /\ tail \in Structures
  BY <1>1 DEF WaitInv, Ring, Waiting!TypeOK
<1>4. waitNext' \in Pointers
  BY <1>3, Apart, WaitAssumption DEF Pointers
<1>5. Ring(Listed, waitNext, tail)'
  <2>1. Ring(Listed \cup {y}, waitNext', y)
    BY <1>1, <1>4, Apart, RingGrows DEF WaitInv
  <2>. QED BY <2>1, <1>2
<1>6. \A z \in Pooled \ {y} : waitNext'[z] = waitNext[z]
  <2>1. tail \notin Pooled
    BY <1>3, Apart
  <2>. QED BY <2>1, Apart DEF Pointers
<1>7. Chain(Pooled, waitNext, pool)'
  <2>1. CASE y = pool /\ pool' = waitNext[y]
    <3>1. Chain(Pooled, waitNext, y)
      BY <2>1 DEF WaitInv
    <3>2. Chain(Pooled \ {y}, waitNext', waitNext[y])
      BY <3>1, <1>4, <1>6, Apart, ChainShrinks
    <3>. QED BY <3>2, <2>1, <1>2
  <2>2. CASE place[y] = "none" /\ UNCHANGED pool
    <3>1. Pooled \ {y} = Pooled
      BY <2>2, Apart
    <3>2. Chain(Pooled, waitNext', pool)
      BY <3>1, <1>4, <1>6, Apart, ChainKept DEF WaitInv
    <3>. QED BY <3>1, <3>2, <2>2, <1>2
  <2>. QED BY <2>1, <2>2
<1>8. Waiting!TypeOK'
  <2>1. pool' \in Structures \cup {NONE}
    BY Apart DEF WaitInv, Waiting!TypeOK, Pointers, Waiting!Pointer
  <2>2. lastId + 1 \in 1 .. LastId
    BY WaitAssumption DEF WaitInv, Waiting!TypeOK
  <2>. QED BY <2>1, <2>2, <1>4, WaitAssumption DEF WaitInv, Waiting!TypeOK, Pointers, Waiting!Pointer
<1>9. CareRight'
  <2>1. care' = care /\ \A z \in Listed : z \in Listed' /\ detached'[z] = detached[z]
    BY <1>1, <1>2, Apart DEF WaitInv, Waiting!TypeOK
  <2>2. \A z \in Structures : place[z] = "out" => place'[z] = "out"
    BY <1>1 DEF WaitInv, Waiting!TypeOK
  <2>. QED BY <2>1, <2>2 DEF WaitInv, CareRight
<1>10. IdsRight'
  <2>1. lastId \in Nat /\ \A z \in Structures : waitId[z] \in Nat /\ waitId[z] <= lastId
    BY WaitAssumption DEF WaitInv, Waiting!TypeOK, IdsRight
  <2>2. lastId + 1 \notin claimed
    BY <2>1 DEF WaitInv, IdsRight
  <2>3. /\ waitId'[y] = lastId + 1
        /\ \A z \in Structures \ {y} : waitId'[z] = waitId[z] /\ detached'[z] = detached[z]
    BY DEF WaitInv, Waiting!TypeOK
  <2>4. claimed \subseteq 1 .. lastId + 1
    BY <2>1 DEF WaitInv, IdsRight
  <2>5. \A a, b \in Structures : waitId'[a] = waitId'[b] /\ waitId'[a] # 0 => a = b
    BY <2>1, <2>3 DEF WaitInv, IdsRight
  <2>6. \A a \in Structures : waitId'[a] <= lastId + 1
    BY <2>1, <2>3
  <2>. QED BY <2>2, <2>3, <2>4, <2>5, <2>6 DEF WaitInv, IdsRight
<1>11. \A z \in Structures : waitPc'[z] \in {"look", "step"} => walk'[z] \in Structures
  BY DEF WaitInv, Waiting!TypeOK
<1>. QED BY <1>5, <1>7, <1>8, <1>9, <1>10, <1>11 DEF WaitInv

\* A task that looks at a structure claims it once.
LEMMA LookKeeps ==
  ASSUME WaitInv, NEW x \in Structures, Waiting!Look(x)
  PROVE  WaitInv' /\ Waiting!ClaimedOnce
<1>. USE DEF Waiting!Look, Waiting!waiting, Waiting!list, Waiting!ids
<1>. DEFINE t == walk[x]
<1>1. t \in Structures
  BY DEF WaitInv
<1>2. Listed' = Listed /\ Pooled' = Pooled /\ Ring(Listed, waitNext, tail)' /\ Chain(Pooled, waitNext, pool)'
  BY PlacesKept
<1>3. waitPc'[x] = "step" /\ \A z \in Structures \ {x} : waitPc'[z] = waitPc[z]
  BY DEF WaitInv, Waiting!TypeOK
<1>4. CASE Waiting!Claimable(x, t)
  <2>1. waitId[t] # 0 /\ waitId[t] \in 1 .. LastId /\ detached[t] = 0
    BY <1>1, <1>4 DEF Waiting!Claimable, Waiting!Candidate, WaitInv, Waiting!TypeOK
  <2>2. /\ detached' = [detached EXCEPT ![t] = 1] /\ found' = [found EXCEPT ![x] = waitId[t]]
        /\ claimed' = claimed \cup {waitId[t]} /\ waitState' = [waitState EXCEPT ![x] = 1]
    BY <1>4
  <2>3. Waiting!TypeOK'
    BY <2>1, <2>2 DEF WaitInv, Waiting!TypeOK
  <2>4. detached'[t] = 1 /\ \A z \in Structures : detached[z] = 1 => detached'[z] = 1
    BY <1>1, <2>2 DEF WaitInv, Waiting!TypeOK
  <2>5. CareRight'
    BY <1>2, <2>4, Apart DEF WaitInv, CareRight
  <2>6. IdsRight'
    <3>1. waitId[t] \in 1 .. lastId
      BY <2>1, <1>1, WaitAssumption DEF WaitInv, IdsRight, Waiting!TypeOK
    <3>2. claimed' \subseteq 1 .. lastId
      BY <2>2, <3>1 DEF WaitInv, IdsRight
    <3>3. \A z \in Structures : waitId[z] \in claimed' => detached'[z] = 1
      BY <2>1, <2>2, <2>4, <1>1 DEF WaitInv, IdsRight
    <3>. QED BY <3>2, <3>3 DEF WaitInv, IdsRight
  <2>7. Waiting!ClaimedOnce
    <3>1. waitId[t] \notin claimed
      BY <2>1, <1>1 DEF WaitInv, IdsRight
    <3>. QED BY <3>1, <2>2 DEF Waiting!ClaimedOnce, WaitInv, Waiting!TypeOK
  <2>. QED BY <1>1, <1>2, <1>3, <2>3, <2>5, <2>6, <2>7 DEF WaitInv
<1>5. CASE ~Waiting!Claimable(x, t)
  <2>1. UNCHANGED <<detached, found, claimed>>
    BY <1>5
  <2>2. Waiting!TypeOK'
    BY <1>5 DEF WaitInv, Waiting!TypeOK
  <2>3. WaitInv'
    BY <2>1, <2>2, <1>1, <1>3, WaitKept DEF WaitInv
  <2>. QED BY <2>1, <2>3 DEF Waiting!ClaimedOnce
<1>. QED BY <1>4, <1>5

\* The variables of the tasks that wait or exit, and where their walks are.
WaitsTyped ==
  /\ waitStopped \in [Structures -> {0, 1}] /\ news \in [Structures -> BOOLEAN]
  /\ waitPc \in [Structures -> {"run", "exit", "gone", "look", "step", "wait"}]
  /\ walk \in [Structures -> Structures \cup {NONE}] /\ want \in [Structures -> SUBSET (1 .. LastId)]
  /\ try \in [Structures -> BOOLEAN]
  /\ found \in [Structures -> 0 .. LastId] /\ waitState \in [Structures -> {0, 1}]

WalksFrom == \A z \in Structures : waitPc[z] \in {"look", "step"} => walk[z] \in Structures

\* A step of a wait or an exit that leaves them right keeps the invariant.
LEMMA StepKeeps ==
  ASSUME WaitInv, WaitsTyped', WalksFrom',
         UNCHANGED <<place, waitNext, tail, pool, lastId, waitId, idOwner, owner, detached, care, claimed>>
  PROVE  WaitInv'
<1>1. Waiting!TypeOK'
  BY DEF WaitInv, Waiting!TypeOK, WaitsTyped, Waiting!Pointer
<1>. QED BY <1>1, WaitKept DEF WalksFrom

\* The other steps of a wait and of an exit.
LEMMA OthersKeep ==
  ASSUME WaitInv, NEW x \in Structures,
         \/ Waiting!WaitStep(x) \/ Waiting!Exit(x) \/ Waiting!ExitStep(x)
         \/ \E set \in {1 .. LastId}, mode \in BOOLEAN : Waiting!Wait(x, set, mode),
         ~Waiting!Look(x)
  PROVE  WaitInv' /\ Waiting!ClaimedOnce /\ waitId' = waitId
<1>. USE DEF Waiting!list, Waiting!ids, Waiting!waiting
<1>a. FirstTask \in Structures
  BY WaitAssumption
<1>1. CASE Waiting!Step(x)
  <2>. USE <1>1 DEF Waiting!Step
  <2>1. waitNext[walk[x]] \in Structures
    BY DEF WaitInv, Waiting!TypeOK, Waiting!Pointer
  <2>2. UNCHANGED <<place, waitNext, tail, pool, lastId, waitId, idOwner, owner, detached, care, claimed>>
    OBVIOUS
  <2>3. /\ UNCHANGED <<waitStopped, news, want, try, found, waitState>>
        /\ walk' = [walk EXCEPT ![x] = waitNext[walk[x]]] /\ waitPc' = [waitPc EXCEPT ![x] = "look"]
    OBVIOUS
  <2>4. WaitsTyped' /\ WalksFrom'
    <3>1. WaitsTyped'
      BY <2>1, <2>3 DEF WaitInv, Waiting!TypeOK, Waiting!Pointer, WaitsTyped
    <3>2. WalksFrom'
      BY <2>1, <2>3 DEF WaitInv, Waiting!TypeOK, Waiting!Pointer, WalksFrom
    <3>. QED BY <3>1, <3>2
  <2>5. Waiting!ClaimedOnce
    BY <2>3 DEF Waiting!ClaimedOnce
  <2>. QED BY <2>2, <2>3, <2>4, <2>5, StepKeeps
<1>2. CASE Waiting!Restart(x) \/ Waiting!WakeNews(x) \/ Waiting!WakeTimeout(x)
  <2>. USE <1>2 DEF Waiting!Restart, Waiting!WakeNews, Waiting!WakeTimeout, Waiting!Wake, Waiting!Begin
  <2>2. UNCHANGED <<place, waitNext, tail, pool, lastId, waitId, idOwner, owner, detached, care, claimed>>
    OBVIOUS
  <2>3. /\ UNCHANGED <<waitStopped, found>>
        /\ walk' = [walk EXCEPT ![x] = FirstTask] /\ waitState' = [waitState EXCEPT ![x] = 0]
        /\ news' = [news EXCEPT ![x] = FALSE] /\ waitPc' = [waitPc EXCEPT ![x] = "look"]
    OBVIOUS
  <2>6. UNCHANGED <<want, try>>
    OBVIOUS
  <2>4. WaitsTyped' /\ WalksFrom'
    <3>1. WaitsTyped'
      BY <1>a, <2>3, <2>6 DEF WaitInv, Waiting!TypeOK, Waiting!Pointer, WaitsTyped
    <3>2. WalksFrom'
      BY <1>a, <2>3, <2>6 DEF WaitInv, Waiting!TypeOK, Waiting!Pointer, WalksFrom
    <3>. QED BY <3>1, <3>2
  <2>5. Waiting!ClaimedOnce
    BY <2>3 DEF Waiting!ClaimedOnce
  <2>. QED BY <2>2, <2>3, <2>4, <2>5, StepKeeps
<1>3. CASE Waiting!Sleep(x) \/ Waiting!Exit(x) \/ Waiting!ExitStep(x)
  <2>. USE <1>3 DEF Waiting!Sleep, Waiting!Exit, Waiting!ExitStep, Waiting!ExitPreempted, Waiting!ExitNotify
  <2>2. UNCHANGED <<place, waitNext, tail, pool, lastId, waitId, idOwner, owner, detached, care, claimed>>
    OBVIOUS
  <2>3. /\ UNCHANGED <<walk, want, try, found, waitState>>
        /\ waitStopped' \in {waitStopped, [waitStopped EXCEPT ![x] = 1]}
        /\ news' \in {news, [news EXCEPT ![owner[x]] = TRUE]}
        /\ \E p \in {"wait", "exit", "gone"} : waitPc' = [waitPc EXCEPT ![x] = p]
    OBVIOUS
  <2>6. PICK p \in {"wait", "exit", "gone"} : waitPc' = [waitPc EXCEPT ![x] = p]
    BY <2>3
  <2>7. waitStopped' \in [Structures -> {0, 1}] /\ news' \in [Structures -> BOOLEAN]
    BY <2>3 DEF WaitInv, Waiting!TypeOK
  <2>8. waitPc' \in [Structures -> {"run", "exit", "gone", "look", "step", "wait"}]
    BY <2>6 DEF WaitInv, Waiting!TypeOK
  <2>9. WalksFrom'
    BY <2>3, <2>6 DEF WaitInv, Waiting!TypeOK, WalksFrom
  <2>4. WaitsTyped' /\ WalksFrom'
    BY <2>3, <2>7, <2>8, <2>9 DEF WaitInv, Waiting!TypeOK, WaitsTyped, Waiting!Pointer
  <2>5. Waiting!ClaimedOnce
    BY <2>3 DEF Waiting!ClaimedOnce
  <2>. QED BY <2>2, <2>3, <2>4, <2>5, StepKeeps
<1>4. CASE Waiting!ReturnFound(x) \/ Waiting!ReturnEmpty(x) \/ Waiting!ReturnRetry(x) \/ Waiting!ReturnInterrupt(x)
  <2>. USE <1>4 DEF Waiting!ReturnFound, Waiting!ReturnEmpty, Waiting!ReturnRetry, Waiting!ReturnInterrupt, Waiting!Return
  <2>1. 0 \in 0 .. LastId
    BY WaitAssumption
  <2>2. UNCHANGED <<place, waitNext, tail, pool, lastId, waitId, idOwner, owner, detached, care, claimed>>
    OBVIOUS
  <2>3. /\ UNCHANGED <<waitStopped, news>>
        /\ waitPc' = [waitPc EXCEPT ![x] = "run"] /\ walk' = [walk EXCEPT ![x] = NONE]
        /\ want' = [want EXCEPT ![x] = {}] /\ try' = [try EXCEPT ![x] = FALSE]
        /\ found' = [found EXCEPT ![x] = 0] /\ waitState' = [waitState EXCEPT ![x] = 0]
    OBVIOUS
  <2>4. WaitsTyped' /\ WalksFrom'
    <3>1. WaitsTyped'
      BY <2>1, <2>3 DEF WaitInv, Waiting!TypeOK, Waiting!Pointer, WaitsTyped
    <3>2. WalksFrom'
      BY <2>1, <2>3 DEF WaitInv, Waiting!TypeOK, Waiting!Pointer, WalksFrom
    <3>. QED BY <3>1, <3>2
  <2>5. Waiting!ClaimedOnce
    BY <2>3 DEF Waiting!ClaimedOnce, WaitInv, Waiting!TypeOK
  <2>. QED BY <2>2, <2>3, <2>4, <2>5, StepKeeps
<1>5. CASE \E set \in {1 .. LastId}, mode \in BOOLEAN : Waiting!Wait(x, set, mode)
  <2>. USE <1>5 DEF Waiting!Wait, Waiting!Begin
  <2>2. UNCHANGED <<place, waitNext, tail, pool, lastId, waitId, idOwner, owner, detached, care, claimed>>
    OBVIOUS
  <2>3. /\ UNCHANGED <<waitStopped, found>>
        /\ walk' = [walk EXCEPT ![x] = FirstTask] /\ waitState' = [waitState EXCEPT ![x] = 0]
        /\ news' = [news EXCEPT ![x] = FALSE] /\ waitPc' = [waitPc EXCEPT ![x] = "look"]
    OBVIOUS
  <2>6. PICK set \in {1 .. LastId}, mode \in BOOLEAN :
          want' = [want EXCEPT ![x] = set] /\ try' = [try EXCEPT ![x] = mode]
    OBVIOUS
  <2>4. WaitsTyped' /\ WalksFrom'
    <3>1. WaitsTyped'
      BY <1>a, <2>3, <2>6 DEF WaitInv, Waiting!TypeOK, Waiting!Pointer, WaitsTyped
    <3>2. WalksFrom'
      BY <1>a, <2>3, <2>6 DEF WaitInv, Waiting!TypeOK, Waiting!Pointer, WalksFrom
    <3>. QED BY <3>1, <3>2
  <2>5. Waiting!ClaimedOnce
    BY <2>3 DEF Waiting!ClaimedOnce
  <2>. QED BY <2>2, <2>3, <2>4, <2>5, StepKeeps
<1>. QED BY <1>1, <1>2, <1>3, <1>4, <1>5 DEF Waiting!WaitStep

\* The steps of the caretaker that only read the list.
LEMMA CareReads ==
  ASSUME WaitInv, Waiting!CarePass \/ Waiting!CareVisit \/ Waiting!CareTest \/ Waiting!CareError
  PROVE  WaitInv' /\ found' = found /\ waitId' = waitId
<1>. USE DEF Waiting!list, Waiting!ids, Waiting!waiting
<1>0. UNCHANGED <<place, waitNext, tail, pool, lastId, waitId, waitStopped, detached, news,
                  waitPc, walk, want, try, found, waitState, claimed>>
  BY DEF Waiting!CarePass, Waiting!CareVisit, Waiting!CareTest, Waiting!CareError
<1>1. Listed' = Listed /\ Pooled' = Pooled /\ Ring(Listed, waitNext, tail)' /\ Chain(Pooled, waitNext, pool)'
  BY <1>0, PlacesKept
<1>2. IdsRight'
  BY <1>0 DEF WaitInv, IdsRight
<1>3. FirstTask \in Listed /\ \A z \in Listed : waitNext[z] \in Listed
  BY DEF WaitInv, Ring
<1>4. Listed \subseteq Structures
  BY Apart
<1>5. CareRight' /\ Waiting!TypeOK'
  <2>1. CASE Waiting!CarePass
    BY <2>1, <1>0, <1>1, <1>3, <1>4, WaitAssumption
    DEF Waiting!CarePass, WaitInv, Waiting!TypeOK, CareRight, Waiting!Pointer
  <2>2. CASE Waiting!CareVisit
    <3>1. care.t \in Listed /\ waitNext[care.t] \in Listed
      BY <2>2, <1>3 DEF Waiting!CareVisit, WaitInv, CareRight
    <3>2. care' = [care EXCEPT !.pc = "test", !.t0 = care.t, !.t1 = waitNext[care.t]]
      BY <2>2 DEF Waiting!CareVisit
    <3>3. CareRight'
      BY <3>1, <3>2, <1>1 DEF WaitInv, Waiting!TypeOK, CareRight
    <3>4. idOwner' \in [Structures -> 0 .. LastId] /\ owner' \in [Structures -> Structures \cup {NONE}]
      <4>1. \/ UNCHANGED <<idOwner, owner>>
            \/ /\ idOwner' = [idOwner EXCEPT ![care.t] = 1]
               /\ owner' = [owner EXCEPT ![care.t] = FirstTask]
        BY <2>2 DEF Waiting!CareVisit
      <4>2. 1 \in 0 .. LastId
        BY WaitAssumption
      <4>3. idOwner \in [Structures -> 0 .. LastId] /\ owner \in [Structures -> Structures \cup {NONE}]
        BY DEF WaitInv, Waiting!TypeOK, Waiting!Pointer
      <4>4. FirstTask \in Structures \cup {NONE}
        BY WaitAssumption
      <4>5. idOwner' \in [Structures -> 0 .. LastId]
        BY ONLY <4>1, <4>2, <4>3
      <4>6. owner' \in [Structures -> Structures \cup {NONE}]
        BY ONLY <4>1, <4>4, <4>3
      <4>. QED BY <4>5, <4>6
    <3>. QED BY <3>1, <3>2, <3>3, <3>4, <1>0, <1>4
         DEF WaitInv, Waiting!TypeOK, Waiting!Pointer
  <2>3. CASE Waiting!CareTest
    <3>. DEFINE t == IF waitNext[care.t0] = FirstTask THEN NONE ELSE waitNext[care.t0]
    <3>1. care.t0 \in Listed /\ care.t1 \in Listed /\ waitNext[care.t1] \in Listed /\ t \in Listed \cup {NONE}
      BY <2>3, <1>3 DEF Waiting!CareTest, WaitInv, CareRight
    <3>2. care' = IF Waiting!Disposable(care.t1)
                  THEN [care EXCEPT !.pc = "unlink", !.t = t, !.t2 = waitNext[care.t1]]
                  ELSE Waiting!CareGo(t)
      BY <2>3 DEF Waiting!CareTest
    <3>5. UNCHANGED <<idOwner, owner>>
      BY <2>3 DEF Waiting!CareTest
    <3>. HIDE DEF t
    <3>3. CASE Waiting!Disposable(care.t1)
      <4>1. detached[care.t1] = 1
        BY <3>3 DEF Waiting!Disposable
      <4>2. care' = [care EXCEPT !.pc = "unlink", !.t = t, !.t2 = waitNext[care.t1]]
        BY <3>2, <3>3
      <4>3. CareRight'
        BY <3>1, <4>1, <4>2, <1>0, <1>1 DEF WaitInv, Waiting!TypeOK, CareRight
      <4>. QED BY <3>1, <3>5, <4>2, <4>3, <1>0, <1>4 DEF WaitInv, Waiting!TypeOK, Waiting!Pointer
    <3>4. CASE ~Waiting!Disposable(care.t1)
      <4>1. care' = Waiting!CareGo(t)
        BY <3>2, <3>4
      <4>2. CareRight'
        BY <3>1, <4>1, <1>1 DEF CareRight, Waiting!CareGo, Waiting!Asleep
      <4>. QED BY <3>1, <3>5, <4>1, <4>2, <1>0, <1>4
           DEF Waiting!CareGo, Waiting!Asleep, WaitInv, Waiting!TypeOK, Waiting!Pointer
    <3>. QED BY <3>3, <3>4
  <2>4. CASE Waiting!CareError
    BY <2>4, <1>0, <1>1, <1>4
    DEF Waiting!CareError, Waiting!CareGo, Waiting!Asleep, WaitInv, Waiting!TypeOK, CareRight, Waiting!Pointer
  <2>. QED BY <2>1, <2>2, <2>3, <2>4
<1>. QED BY <1>0, <1>1, <1>2, <1>5 DEF WaitInv

\* A structure is taken out of the list; its task was detached.
LEMMA UnlinkKeeps ==
  ASSUME WaitInv, Waiting!CareUnlink
  PROVE  WaitInv' /\ found' = found /\ Waiting!RecycledWhenClaimed
<1>. USE DEF Waiting!CareUnlink, Waiting!Assumption, Waiting!waiting
<1>. DEFINE t0 == care.t0
            t1 == care.t1
            t2 == care.t2
<1>1. t0 \in Listed /\ t1 \in Listed /\ t2 \in Listed /\ detached[t1] = 1
  BY DEF WaitInv, CareRight
<1>2. t0 \in Structures /\ t1 \in Structures /\ t2 \in Structures
  BY <1>1, Apart
<1>3. Listed' = Listed \ {t1} /\ Pooled' = Pooled
  BY <1>1, <1>2 DEF Listed, Pooled, Waiting!InList, Waiting!InPool, WaitInv, Waiting!TypeOK
<1>4. waitNext' \in Pointers
  BY <1>2, Apart DEF Pointers
<1>5. Ring(Listed, waitNext, tail)'
  <2>1. Ring(Listed \ {t1}, waitNext', IF t1 = tail THEN t0 ELSE tail)
    BY <1>1, <1>4, Apart, RingShrinks DEF WaitInv
  <2>. QED BY <2>1, <1>3
<1>6. Chain(Pooled, waitNext, pool)'
  <2>1. t0 \notin Pooled
    BY <1>1, <1>2, Apart
  <2>2. \A z \in Pooled : waitNext'[z] = waitNext[z]
    BY <2>1, Apart DEF Pointers
  <2>3. Chain(Pooled, waitNext', pool)
    BY <2>2, <1>4, Apart, ChainKept DEF WaitInv
  <2>. QED BY <2>3, <1>3
<1>7. Waiting!TypeOK'
  <2>1. 0 \in 0 .. LastId
    BY WaitAssumption
  <2>. QED BY <2>1, <1>2, <1>4 DEF WaitInv, Waiting!TypeOK, Pointers, Waiting!Pointer
<1>8. CareRight'
  <2>1. care' = [care EXCEPT !.pc = "pool"] /\ care'.pc = "pool" /\ care'.t1 = t1 /\ care'.t2 = t2
    BY DEF WaitInv, Waiting!TypeOK
  <2>2. place'[t1] = "out" /\ t2 \in Listed'
    BY <1>1, <1>2, <1>3 DEF WaitInv, Waiting!TypeOK
  <2>. QED BY <2>1, <2>2, <1>2 DEF CareRight
<1>9. /\ waitId'[t1] = 0 /\ lastId \in Nat
      /\ \A z \in Structures \ {t1} : waitId'[z] = waitId[z] /\ detached'[z] = detached[z]
  BY <1>2 DEF WaitInv, Waiting!TypeOK
<1>10. IdsRight'
  <2>1. 0 \notin claimed
    BY <1>9 DEF WaitInv, IdsRight
  <2>. QED BY <2>1, <1>2, <1>9 DEF WaitInv, IdsRight
<1>11. Waiting!RecycledWhenClaimed
  BY <1>1, <1>2, <1>9 DEF Waiting!RecycledWhenClaimed
<1>. QED BY <1>5, <1>6, <1>7, <1>8, <1>10, <1>11 DEF WaitInv

\* A structure becomes the first of the pool.
LEMMA PoolKeeps ==
  ASSUME WaitInv, Waiting!CarePool
  PROVE  WaitInv' /\ found' = found /\ waitId' = waitId
<1>. USE DEF Waiting!CarePool, Waiting!waiting, Waiting!ids
<1>. DEFINE t1 == care.t1
<1>1. t1 \in Structures /\ place[t1] = "out" /\ care.t2 \in Listed
  BY DEF WaitInv, CareRight
<1>2. Listed' = Listed /\ Pooled' = Pooled \cup {t1}
  BY <1>1 DEF Listed, Pooled, Waiting!InList, Waiting!InPool, WaitInv, Waiting!TypeOK
<1>3. t1 \notin Listed /\ t1 \notin Pooled
  BY <1>1, Apart
<1>4. pool \in Structures \cup {NONE}
  BY DEF WaitInv, Waiting!TypeOK, Waiting!Pointer
<1>5. waitNext' \in Pointers
  BY <1>1, <1>4, Apart DEF Pointers
<1>6. Ring(Listed, waitNext, tail)'
  <2>1. \A z \in Listed : waitNext'[z] = waitNext[z]
    BY <1>3, Apart DEF Pointers
  <2>2. Ring(Listed, waitNext', tail)
    BY <2>1, <1>5, Apart, RingKept DEF WaitInv
  <2>. QED BY <2>2, <1>2
<1>7. Chain(Pooled, waitNext, pool)'
  <2>1. Chain(Pooled \cup {t1}, waitNext', t1)
    BY <1>1, <1>3, <1>4, <1>5, Apart, ChainGrows DEF WaitInv
  <2>. QED BY <2>1, <1>2
<1>8. care.t2 \in Structures /\ care.t2 # NONE
  BY <1>1, Apart, WaitAssumption
<1>9. care' = [Waiting!Asleep EXCEPT !.pc = "visit", !.t = care.t2]
  BY <1>8 DEF Waiting!CareGo
<1>10. Waiting!TypeOK'
  BY <1>1, <1>4, <1>5, <1>8, <1>9
  DEF WaitInv, Waiting!TypeOK, Pointers, Waiting!Pointer, Waiting!Asleep
<1>11. CareRight'
  BY <1>1, <1>2, <1>9 DEF CareRight, Waiting!Asleep
<1>12. IdsRight'
  BY DEF WaitInv, IdsRight
<1>. QED BY <1>6, <1>7, <1>10, <1>11, <1>12 DEF WaitInv

\* Every step of task.c keeps the invariant, claims a return value once, and
\* recycles only what is claimed.
LEMMA WaitNextStep ==
  WaitInv /\ Waiting!Next => WaitInv' /\ Waiting!ClaimedOnce /\ Waiting!RecycledWhenClaimed
<1>. SUFFICES ASSUME WaitInv, Waiting!Next
     PROVE  WaitInv' /\ Waiting!ClaimedOnce /\ Waiting!RecycledWhenClaimed
  OBVIOUS
<1>1. ASSUME waitId' = waitId PROVE Waiting!RecycledWhenClaimed
  BY <1>1 DEF Waiting!RecycledWhenClaimed
<1>2. ASSUME found' = found PROVE Waiting!ClaimedOnce
  BY <1>2 DEF Waiting!ClaimedOnce
<1>3. CASE Waiting!CareStep
  <2>1. CASE Waiting!CareUnlink
    BY <2>1, <1>2, UnlinkKeeps
  <2>2. CASE Waiting!CarePool
    BY <2>2, <1>1, <1>2, PoolKeeps
  <2>3. CASE Waiting!CarePass \/ Waiting!CareVisit \/ Waiting!CareTest \/ Waiting!CareError
    BY <2>3, <1>1, <1>2, CareReads
  <2>. QED BY <1>3, <2>1, <2>2, <2>3 DEF Waiting!CareStep
<1>4. CASE \E x \in Structures : Waiting!Look(x)
  <2>1. PICK x \in Structures : Waiting!Look(x)
    BY <1>4
  <2>2. waitId' = waitId
    BY <2>1 DEF Waiting!Look, Waiting!ids
  <2>. QED BY <2>1, <2>2, <1>1, LookKeeps
<1>5. CASE \E x, y \in Structures, d \in {0, 1} : Waiting!Create(x, y, d)
  <2>1. PICK x \in Structures, y \in Structures, d \in {0, 1} : Waiting!Create(x, y, d)
    BY <1>5
  <2>2. found' = found
    BY <2>1 DEF Waiting!Create, Waiting!waiting
  <2>3. WaitInv'
    BY <2>1, CreateKeeps
  <2>4. Waiting!RecycledWhenClaimed
    <3>1. waitId' = [waitId EXCEPT ![y] = lastId + 1] /\ lastId \in Nat /\ lastId + 1 # 0
      BY <2>1 DEF Waiting!Create, WaitInv, Waiting!TypeOK
    <3>. QED BY <3>1 DEF Waiting!RecycledWhenClaimed, WaitInv, Waiting!TypeOK
  <2>. QED BY <2>2, <2>3, <2>4, <1>2
<1>6. CASE \E x \in Structures :
             /\ \/ Waiting!WaitStep(x) \/ Waiting!Exit(x) \/ Waiting!ExitStep(x)
                \/ \E set \in {1 .. LastId}, mode \in BOOLEAN : Waiting!Wait(x, set, mode)
             /\ ~Waiting!Look(x)
  BY <1>6, <1>1, OthersKeep
<1>. QED BY <1>3, <1>4, <1>5, <1>6 DEF Waiting!Next

-----------------------------------------------------------------------------
(* Starting programs. *)

\* What the parent has and how far the new task is, for each place the parent
\* can be at: it holds the lock for as long as the new task works.
SpawnInv ==
  /\ Program!TypeOK
  /\ stray # missed => spawnSignaled
  /\ child \in Program!Working => spawnPc = "spin"
  /\ spawnPc \in {"user", "dead"} => arg = 0 /\ actions = 0 /\ node = 0
  /\ spawnPc = "args" => child = "none" /\ arg = 0 /\ actions = 0 /\ node = 1
  /\ spawnPc \in {"options", "create"} =>
       child = "none" /\ arg = 1 /\ node = 1 /\ spawnLock /\ frame
  /\ spawnPc = "options" => actions = 0
  /\ spawnPc = "spin" =>
       /\ frame /\ node = 1
       /\ \/ child \in Program!Working /\ spawnLock
             /\ arg = IF child = "close" THEN 0 ELSE 1
          \/ child = "program" /\ retval = "ok" /\ arg = 0
          \/ child \in {"exiting", "exited"} /\ retval # "ok" /\ arg = 1
  /\ spawnPc = "reap" => child \in {"exiting", "exited"}
  /\ spawnPc \in {"reap", "fail"} => arg = 1 /\ actions = 0 /\ node = 1

\* The steps of the new task by name.
LEMMA WorkNames ==
  /\ DOMAIN Program!Work = 1 .. 7 /\ Len(Program!Work) = 7
  /\ Program!Working =
       {"attributes", "actions", "pg_create", "load", "arg_copy", "cmdline", "close"}
  /\ \A i \in 1 .. 7 : Program!Work[i] \in Program!Working
  /\ \A i \in 1 .. 7 : Program!Work[i] = "cmdline" <=> i = 6
  /\ \A i \in 1 .. 7 : Program!Work[i] = "close" <=> i = 7
<1>1. DOMAIN Program!Work = 1 .. 7 /\ Len(Program!Work) = 7
  BY DEF Program!Work
<1>2. \A i \in 1 .. 7 : i = 1 \/ i = 2 \/ i = 3 \/ i = 4 \/ i = 5 \/ i = 6 \/ i = 7
  OBVIOUS
<1>3. /\ Program!Work[1] = "attributes" /\ Program!Work[2] = "actions"
      /\ Program!Work[3] = "pg_create" /\ Program!Work[4] = "load"
      /\ Program!Work[5] = "arg_copy" /\ Program!Work[6] = "cmdline"
      /\ Program!Work[7] = "close"
  BY DEF Program!Work
<1>4. Program!Working =
       {"attributes", "actions", "pg_create", "load", "arg_copy", "cmdline", "close"}
  BY <1>1, <1>2, <1>3 DEF Program!Working
<1>. QED BY <1>1, <1>2, <1>3, <1>4

\* The invariant holds at the start.
LEMMA SpawnStart == Program!Init => SpawnInv
<1>. SUFFICES ASSUME Program!Init PROVE SpawnInv
  OBVIOUS
<1>1. 0 \in 0 .. Spawns /\ 0 \in 0 .. 1 /\ 0 \in Nat
  BY SpawnAssumption
<1>2. Program!TypeOK
  BY <1>1, Zenon DEF Program!Init, Program!TypeOK
<1>3. child \notin Program!Working
  BY WorkNames DEF Program!Init
<1>. QED BY <1>2, <1>3 DEF Program!Init, SpawnInv

\* Every step of Spawn keeps it.
LEMMA SpawnStep == SpawnInv /\ Program!Next => SpawnInv'
<1>. SUFFICES ASSUME SpawnInv, Program!Next PROVE SpawnInv'
  OBVIOUS
<1>. USE SpawnAssumption, WorkNames
    DEF SpawnInv, Program!TypeOK, Program!Goes, Program!owned, Program!Released,
        Program!MayReturn, Program!Interrupted, Program!ArgAfter, Program!Unlocked, Program!Errors
<1>1. CASE Program!Call
  BY <1>1 DEF Program!Call
<1>2. CASE Program!ArgCreate
  BY <1>2 DEF Program!ArgCreate
<1>3. CASE Program!ArgFails
  BY <1>3 DEF Program!ArgFails
<1>4. CASE Program!Options
  BY <1>4 DEF Program!Options
<1>5. CASE Program!OptionsFail
  <2>. USE <1>5 DEF Program!OptionsFail
  <2>1. /\ spawnPc' = "fail" /\ actions' = 0 /\ ~frame' /\ frame' \in BOOLEAN
        /\ arg = 1 /\ node = 1 /\ child = "none"
    OBVIOUS
  <2>2. UNCHANGED <<spawnLock, retval, arg, node, child, stray, missed, spawnSignaled, spawnId, spawnCount>>
    OBVIOUS
  <2>3. Program!TypeOK'
    BY <2>1, <2>2
  <2>4. child \notin Program!Working
    BY <2>1
  <2>. HIDE <1>5 DEF Program!OptionsFail
  <2>. QED BY <2>1, <2>2, <2>3, <2>4
<1>6. CASE Program!Create
  BY <1>6 DEF Program!Create
<1>7. CASE Program!Spun
  BY <1>7 DEF Program!Spun
<1>8. CASE Program!Reap
  <2>. USE <1>8 DEF Program!Reap
  <2>1. /\ spawnPc' = "fail" /\ ~frame' /\ frame' \in BOOLEAN /\ spawnPc = "reap"
        /\ arg = 1 /\ node = 1 /\ actions = 0
    OBVIOUS
  <2>2. UNCHANGED <<spawnLock, retval, arg, actions, node, spawnSignaled, spawnId, spawnCount>>
    OBVIOUS
  <2>3. /\ stray' \in Nat /\ missed' \in Nat /\ stray' # missed' => spawnSignaled'
        /\ child' \in {"none", "exiting", "exited"}
    OBVIOUS
  <2>4. child' \notin Program!Working
    BY <2>3
  <2>5. Program!TypeOK'
    BY <2>1, <2>2, <2>3
  <2>. HIDE <1>8 DEF Program!Reap
  <2>. QED BY <2>1, <2>2, <2>3, <2>4, <2>5
<1>9. CASE Program!Fail
  BY <1>9 DEF Program!Fail
<1>10. CASE Program!Signal
  BY <1>10 DEF Program!Signal
<1>11. CASE Program!Dies
  BY <1>11 DEF Program!Dies
<1>12. ASSUME NEW i \in DOMAIN Program!Work, Program!Step(i) PROVE SpawnInv'
  BY <1>12 DEF Program!Step
<1>13. ASSUME NEW i \in DOMAIN Program!Work, Program!StepFails(i) PROVE SpawnInv'
  BY <1>13 DEF Program!StepFails
<1>14. CASE Program!Exit
  BY <1>14 DEF Program!Exit
<1>15. CASE Program!Start
  BY <1>15 DEF Program!Start
<1>16. CASE UNCHANGED Program!vars
  BY <1>16 DEF Program!vars
<1>. QED BY <1>1, <1>2, <1>3, <1>4, <1>5, <1>6, <1>7, <1>8,
       <1>9, <1>10, <1>11, <1>12, <1>13, <1>14, <1>15, <1>16 DEF Program!Next

\* What is promised of Spawn is part of it.
LEMMA SpawnRight ==
  SpawnInv => Program!ChildHasArguments /\ Program!NothingLeaks /\ Program!NoStrayChild
BY WorkNames DEF SpawnInv, Program!ChildHasArguments, Program!NothingLeaks, Program!NoStrayChild

-----------------------------------------------------------------------------
(* Signals, groups and sessions. *)

\* Tasks of one group are of one session, but for the groups that were there
\* before the session with their number; a signal that ends a task was not
\* blocked when the task came to the handler.
SignalInv ==
  /\ Signal!TypeOK
  /\ Signal!GroupInSession
  /\ Signal!EndedByUnblocked
  /\ \A i \in Signal!Ids : signalsState[i] = "ret" => fatal[i]
  /\ \A i \in Signal!Ids : status[i] # 0 => signalsState[i] = "exited"

\* The invariant holds at the start.
LEMMA SignalStart == Signal!Init => SignalInv
<1>. SUFFICES ASSUME Signal!Init PROVE SignalInv
  OBVIOUS
<1>. USE DEF Signal!Init
<1>1. 1 \in Signal!Ids /\ 1 \in Nat /\ 0 \in 0 .. Kills
  BY SignalAssumption DEF Signal!Ids
<1>2. Signal!TypeOK
  BY <1>1, Zenon DEF Signal!TypeOK
<1>. QED BY <1>1, <1>2 DEF SignalInv, Signal!GroupInSession, Signal!EndedByUnblocked, Signal!Live

\* The lowest bit is one of the bits.
LEMMA LowestIsPending ==
  ASSUME Signal!TypeOK, NEW i \in Signal!Ids, pending[i] # {}
  PROVE  Signal!Lowest(i) \in pending[i]
<1>0. pending[i] \subseteq SignalNumbers
  BY DEF Signal!TypeOK
<1>1. pending[i] \subseteq Nat
  BY <1>0, SignalAssumption
<1>2. \E n \in pending[i] : \A m \in pending[i] : n <= m
  BY <1>1, LeastNat
<1>. QED BY <1>2 DEF Signal!Lowest, Signal!Min

\* Every step of Signals keeps it.
LEMMA SignalStep == SignalInv /\ Signal!Next => SignalInv'
<1>. SUFFICES ASSUME SignalInv, Signal!Next PROVE SignalInv'
  OBVIOUS
<1>. USE SignalAssumption
    DEF SignalInv, Signal!TypeOK, Signal!GroupInSession, Signal!EndedByUnblocked, Signal!Live,
        Signal!ids
<1> PICK i \in Signal!Ids :
      \/ \E pid \in Signal!Pids, sig \in SignalNumbers : Signal!Kill(i, pid, sig)
      \/ \E how \in {"block", "unblock", "set"}, set \in MaskSets : Signal!SigProcMask(i, how, set)
      \/ \E set \in MaskSets : Signal!PPoll(i, set)
      \/ Signal!PPollReady(i) \/ Signal!PPollInterrupted(i)
      \/ Signal!RetUser(i) \/ Signal!Interrupt(i) \/ Signal!Take(i)
      \/ Signal!Create(i) \/ Signal!SetSid(i) \/ Signal!SetPgroup(i) \/ Signal!Start(i)
  BY Zenon DEF Signal!Next
<1>1. ASSUME NEW pid \in Signal!Pids, NEW sig \in SignalNumbers, Signal!Kill(i, pid, sig)
      PROVE  SignalInv'
  <2>. USE <1>1 DEF Signal!Kill
  <2>1. kills' \in 0 .. Kills
    OBVIOUS
  <2>2. Signal!TypeOK'
    BY <2>1
  <2>. QED BY <2>2
<1>2. ASSUME NEW how \in {"block", "unblock", "set"}, NEW set \in MaskSets,
             Signal!SigProcMask(i, how, set)
      PROVE  SignalInv'
  BY <1>2 DEF Signal!SigProcMask
<1>3. ASSUME NEW set \in MaskSets, Signal!PPoll(i, set)
      PROVE  SignalInv'
  BY <1>3 DEF Signal!PPoll
<1>4. CASE Signal!PPollReady(i) \/ Signal!PPollInterrupted(i)
  BY <1>4 DEF Signal!PPollReady, Signal!PPollInterrupted, Signal!PPollEnds
<1>5. CASE Signal!RetUser(i)
  <2>1. Signal!Signaled(i) \in BOOLEAN /\ (Signal!Signaled(i) => pending[i] # {})
    BY DEF Signal!Signaled
  <2>. QED BY <1>5, <2>1 DEF Signal!RetUser, Signal!Dies
<1>6. CASE Signal!Interrupt(i)
  BY <1>6 DEF Signal!Interrupt
<1>7. CASE Signal!Take(i)
  <2>1. Signal!Lowest(i) \in SignalNumbers
    BY <1>7, LowestIsPending DEF Signal!Take
  <2>. QED BY <1>7, <2>1 DEF Signal!Take
<1>8. CASE Signal!Create(i)
  BY <1>8 DEF Signal!Create
<1>9. CASE Signal!SetSid(i)
  <2>. USE <1>9 DEF Signal!SetSid
  <2>0. i \in Nat
    BY DEF Signal!Ids
  <2>1. CASE UNCHANGED <<group, session, early>>
    BY <2>1
  <2>2. CASE /\ group' = [group EXCEPT ![i] = i] /\ session' = [session EXCEPT ![i] = i]
             /\ early' = IF \E k \in Signal!Live \ {i} : group[k] = i THEN early \cup {i} ELSE early
    <3>1. Signal!TypeOK'
      BY <2>0, <2>2
    <3>3. early \subseteq early' /\ \A k \in Signal!Live \ {i} : group[k] = i => i \in early'
      BY <2>2
    <3>4. \A k \in Signal!Ids : signalsState'[k] \notin {"none", "exited"} <=> k \in Signal!Live
      OBVIOUS
    <3>2. Signal!GroupInSession'
      BY <2>2, <3>3, <3>4
    <3>. QED BY <2>2, <3>1, <3>2
  <2>. QED BY <2>1, <2>2
<1>10. CASE Signal!SetPgroup(i)
  <2>. USE <1>10 DEF Signal!SetPgroup
  <2>0. i \in Nat
    BY DEF Signal!Ids
  <2>1. ASSUME NEW g \in Signal!Numbers, Signal!MayJoin(i, g),
               group' = [group EXCEPT ![i] = g],
               signalsState' = [signalsState EXCEPT ![i] = "group"]
        PROVE  SignalInv'
    <3>1. g \in Nat
      BY DEF Signal!Numbers
    <3>2. Signal!TypeOK'
      BY <2>1, <3>1
    <3>3. Signal!GroupInSession'
      BY <2>1, <3>1 DEF Signal!MayJoin
    <3>. QED BY <2>1, <3>1, <3>2, <3>3
  <2>2. ASSUME NEW g \in Signal!Numbers, signalsState' = [signalsState EXCEPT ![i] = "exited"],
               UNCHANGED group \/ group' = [group EXCEPT ![i] = g]
        PROVE  SignalInv'
    <3>1. g \in Nat
      BY DEF Signal!Numbers
    <3>2. Signal!TypeOK'
      BY <2>2, <3>1
    <3>3. Signal!GroupInSession'
      BY <2>2, <3>1
    <3>. QED BY <2>2, <3>2, <3>3
  <2>3. ASSUME signalsState' = [signalsState EXCEPT ![i] = "group"], UNCHANGED group
        PROVE  SignalInv'
    BY <2>3
  <2>. QED BY <2>1, <2>2, <2>3
<1>11. CASE Signal!Start(i)
  <2>. USE <1>11 DEF Signal!Start
  <2>1. mask' \in [Signal!Ids -> SUBSET SignalNumbers]
    <3>1. ASSUME NEW set \in MaskSets, mask' = [mask EXCEPT ![i] = set \ Signal!Unblockable]
          PROVE  mask' \in [Signal!Ids -> SUBSET SignalNumbers]
      <4>1. set \ Signal!Unblockable \in SUBSET SignalNumbers
        OBVIOUS
      <4>. QED BY ONLY <3>1, <4>1, mask \in [Signal!Ids -> SUBSET SignalNumbers]
    <3>. QED BY <3>1
  <2>2. Signal!TypeOK'
    BY <2>1
  <2>. QED BY <2>2
<1>. QED BY <1>1, <1>2, <1>3, <1>4, <1>5, <1>6, <1>7, <1>8, <1>9, <1>10, <1>11

\* Only kill_internal makes a signal pending, and it looks at the session.
LEMMA SignalRight == SignalInv /\ Signal!Next => Signal!FirstSessionSafe
<1>. SUFFICES ASSUME SignalInv, Signal!Next PROVE Signal!FirstSessionSafe
  OBVIOUS
<1>. USE DEF SignalInv, Signal!TypeOK, Signal!FirstSessionSafe
<1>1. ASSUME NEW i \in Signal!Ids, NEW pid \in Signal!Pids, NEW sig \in SignalNumbers,
             Signal!Kill(i, pid, sig)
      PROVE  Signal!FirstSessionSafe
  BY <1>1 DEF Signal!Kill, Signal!Targets, Signal!Allowed
<1>2. ASSUME NEW i \in Signal!Ids, Signal!Take(i)
      PROVE  Signal!FirstSessionSafe
  BY <1>2 DEF Signal!Take
<1>3. ASSUME pending' = pending
      PROVE  Signal!FirstSessionSafe
  BY <1>3
<1>. QED BY <1>1, <1>2, <1>3
        DEF Signal!Next, Signal!SigProcMask, Signal!PPoll, Signal!PPollReady,
            Signal!PPollInterrupted, Signal!PPollEnds, Signal!RetUser, Signal!Interrupt,
            Signal!Create, Signal!SetSid, Signal!SetPgroup, Signal!Start

-----------------------------------------------------------------------------
(* The scheduler. *)

\* A processor that is about to switch has a task to switch to, and the counter
\* of attempts is within the loop's bound.
SchedInv ==
  /\ Scheduler!TypeOK
  /\ Scheduler!OneProcessor
  /\ \A c \in Scheduler!Cpu :
       /\ schedPc[c] \in {"starved", "switch"} => schedNext[c] \in Scheduler!Task
       /\ schedPc[c] \in {"starved", "search"} => search[c] <= 7
       /\ schedPc[c] = "switch" => search[c] <= 8

\* Among some tasks there is a first one with the largest state word.
LEMMA StarvingExists ==
  ASSUME Scheduler!TypeOK, NEW c \in Scheduler!Cpu, NEW S \in SUBSET Scheduler!Task, S # {},
         NEW words \in [Scheduler!Task -> 0 .. StateLimit]
  PROVE  Scheduler!Starving(c, S, words) \in S
<1>. DEFINE late(t) == StateLimit - words[t]
           L == {late(t) : t \in S}
<1>1. \A t \in S : late(t) \in Nat /\ words[t] \in 0 .. StateLimit
  BY SchedAssumption
<1>2. L \subseteq Nat /\ L # {}
  BY <1>1
<1>3. PICK l \in L : \A m \in L : l <= m
  BY <1>2, LeastNat
<1>4. PICK s \in S : l = late(s)
  OBVIOUS
<1>5. \A u \in S : words[u] <= words[s]
  <2> TAKE u \in S
  <2>1. late(s) <= late(u)
    BY <1>3, <1>4
  <2>. QED BY <1>1, <2>1, SchedAssumption
<1>. DEFINE T == {t \in S : words[t] = words[s]}
           D == {Scheduler!Distance(c, t) : t \in T}
<1>6. \A t \in Scheduler!Task : Scheduler!Distance(c, t) \in Nat
  <2> TAKE t \in Scheduler!Task
  <2>1. t \in Nat /\ cur[c] \in 1 .. TaskCount /\ TaskCount \in Nat /\ TaskCount > 0
    BY SchedAssumption DEF Scheduler!Task, Scheduler!TypeOK
  <2>. HIDE DEF L, T, D, late
  <2>2. \A i, n \in Nat : n > 0 => i % n \in Nat
    OBVIOUS
  <2>3. t + TaskCount - cur[c] \in Nat
    BY <2>1
  <2>. QED BY <2>1, <2>2, <2>3 DEF Scheduler!Distance
<1>7. D \subseteq Nat /\ D # {}
  BY <1>6
<1>8. PICK d \in D : \A e \in D : d <= e
  BY <1>7, LeastNat
<1>9. PICK t \in T : d = Scheduler!Distance(c, t)
  OBVIOUS
<1>10. \A u \in S : \/ words[t] > words[u]
                    \/ words[t] = words[u] /\ Scheduler!Distance(c, t) <= Scheduler!Distance(c, u)
  <2> TAKE u \in S
  <2>1. CASE words[u] = words[s]
    BY <1>8, <1>9, <2>1
  <2>2. CASE words[u] # words[s]
    <3>1. words[u] <= words[s] /\ words[u] \in Nat /\ words[s] \in Nat /\ words[t] = words[s]
      BY <1>1, <1>5, <1>9
    <3>. QED BY <2>2, <3>1
  <2>. QED BY <2>1, <2>2
<1>. HIDE DEF T, D, L, late
<1>11. t \in S
  BY <1>9 DEF T
<1>. QED BY <1>10, <1>11 DEF Scheduler!Starving

\* A walk leaves state words that are state words.
LEMMA PassedType ==
  ASSUME Scheduler!TypeOK, NEW S
  PROVE  Scheduler!Passed(S) \in [Scheduler!Task -> 0 .. StateLimit]
<1>1. \A n \in 0 .. StateLimit : Scheduler!Bump(n) \in 0 .. StateLimit
  BY SchedAssumption DEF Scheduler!Bump
<1>2. 0 \in 0 .. StateLimit
  BY SchedAssumption
<1>. QED BY <1>1, <1>2 DEF Scheduler!Passed, Scheduler!TypeOK

\* The invariant holds at the start.
LEMMA SchedStart == Scheduler!Init => SchedInv
<1>. SUFFICES ASSUME Scheduler!Init PROVE SchedInv
  OBVIOUS
<1>1. 0 \in 0 .. StarvedEvery - 1 /\ 0 \in 0 .. StateLimit /\ 1 \in 1 .. 9
  BY SchedAssumption
<1>2. \A c \in Scheduler!Cpu : c \in Scheduler!Task
  BY SchedAssumption DEF Scheduler!Cpu, Scheduler!Task
<1>3. Scheduler!TypeOK
  BY <1>1, <1>2, Zenon DEF Scheduler!Init, Scheduler!TypeOK
<1>. QED BY <1>3 DEF Scheduler!Init, SchedInv, Scheduler!OneProcessor

\* Leaving yield on a task that no other processor runs keeps it.
LEMMA LeaveKeeps ==
  ASSUME SchedInv, NEW c \in Scheduler!Cpu, NEW t \in Scheduler!Task, Scheduler!Leave(c, t),
         t = cur[c] \/ ~Scheduler!Active(t),
         schedCount' \in 0 .. StarvedEvery - 1, schedState' \in [Scheduler!Task -> 0 .. StateLimit],
         UNCHANGED <<blocked, schedStopped>>
  PROVE  SchedInv'
<1>. USE DEF SchedInv, Scheduler!Leave, Scheduler!Goto
<1>1. search' \in [Scheduler!Cpu -> 1 .. 9]
  BY DEF Scheduler!TypeOK
<1>2. runnable' \in [Scheduler!Cpu -> BOOLEAN]
  BY Zenon DEF Scheduler!TypeOK
<1>3. Scheduler!TypeOK'
  BY <1>1, <1>2 DEF Scheduler!TypeOK
<1>4. Scheduler!OneProcessor'
  BY DEF Scheduler!OneProcessor, Scheduler!Active, Scheduler!TypeOK
<1>5. \A d \in Scheduler!Cpu \ {c} : /\ schedPc'[d] = schedPc[d] /\ search'[d] = search[d]
                                     /\ schedNext'[d] = schedNext[d]
  BY DEF Scheduler!TypeOK
<1>6. schedPc'[c] = "task"
  BY DEF Scheduler!TypeOK
<1>. QED BY <1>3, <1>4, <1>5, <1>6

\* A processor that goes on in yield keeps it.
LEMMA GoesOn ==
  ASSUME SchedInv, NEW c \in Scheduler!Cpu, UNCHANGED <<cur, blocked, schedStopped>>,
         NEW p \in {"starved", "search", "switch"}, Scheduler!Goto(c, p),
         NEW n \in Scheduler!Task \cup {NONE}, schedNext' = [schedNext EXCEPT ![c] = n],
         p # "search" => n \in Scheduler!Task,
         NEW s \in 1 .. 8, search' = [search EXCEPT ![c] = s], p # "switch" => s <= 7,
         runnable' \in [Scheduler!Cpu -> BOOLEAN],
         schedCount' \in 0 .. StarvedEvery - 1, schedState' \in [Scheduler!Task -> 0 .. StateLimit]
  PROVE  SchedInv'
<1>. USE DEF SchedInv, Scheduler!Goto
<1>1. search' \in [Scheduler!Cpu -> 1 .. 9]
  BY DEF Scheduler!TypeOK
<1>3. Scheduler!TypeOK'
  BY <1>1 DEF Scheduler!TypeOK
<1>4. Scheduler!OneProcessor'
  BY DEF Scheduler!OneProcessor
<1>5. \A d \in Scheduler!Cpu \ {c} : /\ schedPc'[d] = schedPc[d] /\ search'[d] = search[d]
                                     /\ schedNext'[d] = schedNext[d]
  BY DEF Scheduler!TypeOK
<1>6. schedPc'[c] = p /\ search'[c] = s /\ schedNext'[c] = n
  BY DEF Scheduler!TypeOK
<1>. QED BY <1>3, <1>4, <1>5, <1>6

\* Every step of the scheduler keeps it.
LEMMA SchedStep == SchedInv /\ Scheduler!Next => SchedInv'
<1>. SUFFICES ASSUME SchedInv, Scheduler!Next PROVE SchedInv'
  OBVIOUS
<1>0. /\ schedState \in [Scheduler!Task -> 0 .. StateLimit] /\ 0 \in 0 .. StateLimit
      /\ schedCount \in 0 .. StarvedEvery - 1 /\ runnable \in [Scheduler!Cpu -> BOOLEAN]
  BY SchedAssumption DEF SchedInv, Scheduler!TypeOK
<1>1. ASSUME NEW c \in Scheduler!Cpu, Scheduler!Yield(c) PROVE SchedInv'
  <2>. USE <1>1 DEF Scheduler!Yield
  <2>1. schedCount' \in 0 .. StarvedEvery - 1
    BY <1>0, SchedAssumption
  <2>2. runnable' \in [Scheduler!Cpu -> BOOLEAN]
    BY <1>0, Zenon DEF Scheduler!Runnable
  <2>3. CASE schedCount' = 0 /\ Scheduler!Starved(c) # {}
    <3>. DEFINE t == Scheduler!Starving(c, Scheduler!Starved(c), schedState)
    <3>1. t \in Scheduler!Task
      <4>1. Scheduler!Starved(c) \in SUBSET Scheduler!Task
        BY DEF Scheduler!Starved, Scheduler!Others
      <4>. QED BY ONLY SchedInv, c \in Scheduler!Cpu, <1>0, <2>3, <4>1, StarvingExists DEF SchedInv
    <3>2. schedNext' = [schedNext EXCEPT ![c] = t] /\ schedState' = [schedState EXCEPT ![t] = 0]
          /\ Scheduler!Goto(c, "starved")
      BY <2>3
    <3>. HIDE DEF t
    <3>3. schedState' \in [Scheduler!Task -> 0 .. StateLimit]
      BY ONLY <1>0, <3>2
    <3>4. /\ search' = [search EXCEPT ![c] = 1] /\ 1 \in 1 .. 8 /\ 1 <= 7
          /\ UNCHANGED <<cur, blocked, schedStopped>>
      OBVIOUS
    <3>. QED BY ONLY SchedInv, c \in Scheduler!Cpu, <2>1, <2>2, <3>1, <3>2, <3>3, <3>4, GoesOn
  <2>4. CASE ~(schedCount' = 0 /\ Scheduler!Starved(c) # {})
    <3>1. schedNext' = [schedNext EXCEPT ![c] = schedNext[c]] /\ schedNext[c] \in Scheduler!Task \cup {NONE}
      BY <2>4 DEF SchedInv, Scheduler!TypeOK
    <3>2. /\ Scheduler!Goto(c, "search") /\ search' = [search EXCEPT ![c] = 1]
          /\ UNCHANGED <<cur, schedState, blocked, schedStopped>> /\ 1 \in 1 .. 8 /\ 1 <= 7
      BY <2>4
    <3>. QED BY ONLY SchedInv, c \in Scheduler!Cpu, <1>0, <2>1, <2>2, <3>1, <3>2, GoesOn
  <2>. QED BY <2>3, <2>4
<1>2. ASSUME NEW c \in Scheduler!Cpu, Scheduler!StarvedSwitch(c) PROVE SchedInv'
  <2>. USE <1>2 DEF Scheduler!StarvedSwitch
  <2>1. CASE Scheduler!Enterable(c, schedNext[c])
    BY <1>0, <2>1, LeaveKeeps DEF SchedInv, Scheduler!Enterable, Scheduler!Ready
  <2>2. CASE ~Scheduler!Enterable(c, schedNext[c])
    <3>1. search' = [search EXCEPT ![c] = search[c]] /\ search[c] \in 1 .. 7
      BY <2>2 DEF SchedInv, Scheduler!TypeOK
    <3>2. /\ Scheduler!Goto(c, "search") /\ schedNext' = [schedNext EXCEPT ![c] = NONE]
          /\ UNCHANGED <<cur, runnable, schedCount, schedState, blocked, schedStopped>>
      BY <2>2
    <3>3. PICK s \in 1 .. 7 : search' = [search EXCEPT ![c] = s]
      BY ONLY <3>1
    <3>4. s \in 1 .. 8 /\ s <= 7
      OBVIOUS
    <3>. QED BY ONLY SchedInv, c \in Scheduler!Cpu, <1>0, <3>2, <3>3, <3>4, GoesOn
  <2>. QED BY <2>1, <2>2
<1>3. ASSUME NEW c \in Scheduler!Cpu, Scheduler!SearchPinned(c) PROVE SchedInv'
  <2>1. PICK u \in Scheduler!Pinned(c) :
          /\ schedState' = [Scheduler!Passed({t \in Scheduler!Others(c) :
                               Scheduler!Distance(c, t) < Scheduler!Distance(c, u)}) EXCEPT ![u] = 0]
          /\ Scheduler!Leave(c, u)
    BY <1>3 DEF Scheduler!SearchPinned
  <2>2. u \in Scheduler!Task /\ ~Scheduler!Active(u)
    BY DEF Scheduler!Pinned, Scheduler!Others, Scheduler!Enterable, Scheduler!Ready
  <2>3. schedState' \in [Scheduler!Task -> 0 .. StateLimit]
    BY <1>0, <2>1, PassedType DEF SchedInv
  <2>. QED BY <1>0, <1>3, <2>1, <2>2, <2>3, LeaveKeeps DEF Scheduler!SearchPinned
<1>4. ASSUME NEW c \in Scheduler!Cpu, Scheduler!Search(c) PROVE SchedInv'
  <2>. USE <1>4 DEF Scheduler!Search
  <2>. DEFINE words == Scheduler!Passed(Scheduler!Others(c))
  <2>1. words \in [Scheduler!Task -> 0 .. StateLimit]
    BY PassedType DEF SchedInv
  <2>2. CASE Scheduler!Best(c) = {} \/ Scheduler!KeepsCurrent(c)
    <3>1. schedState' = words /\ Scheduler!Leave(c, cur[c]) /\ cur[c] \in Scheduler!Task
      BY <2>2 DEF SchedInv, Scheduler!TypeOK
    <3>. QED BY <1>0, <2>1, <3>1, LeaveKeeps
  <2>3. CASE ~(Scheduler!Best(c) = {} \/ Scheduler!KeepsCurrent(c))
    <3>. DEFINE t == Scheduler!Starving(c, Scheduler!Best(c), words)
    <3>1. /\ schedState' = [words EXCEPT ![t] = 0] /\ schedNext' = [schedNext EXCEPT ![c] = t]
          /\ search' = [search EXCEPT ![c] = search[c] + 1]
          /\ Scheduler!Goto(c, "switch") /\ UNCHANGED <<cur, runnable>>
      BY <2>3
    <3>. HIDE DEF words
    <3>2. t \in Scheduler!Task
      BY <2>1, <2>3, StarvingExists
         DEF Scheduler!Best, Scheduler!Candidates, Scheduler!Others, SchedInv
    <3>. HIDE DEF t
    <3>3. schedState' \in [Scheduler!Task -> 0 .. StateLimit]
      BY ONLY <1>0, <2>1, <3>1
    <3>4. search[c] + 1 \in 1 .. 8
      BY DEF SchedInv, Scheduler!TypeOK
    <3>. QED BY <1>0, <3>1, <3>2, <3>3, <3>4, GoesOn
  <2>. QED BY <2>2, <2>3
<1>5. ASSUME NEW c \in Scheduler!Cpu, Scheduler!Switch(c) PROVE SchedInv'
  <2>. USE <1>5 DEF Scheduler!Switch
  <2>1. CASE Scheduler!Enterable(c, schedNext[c])
    BY <1>0, <2>1, LeaveKeeps DEF SchedInv, Scheduler!Enterable, Scheduler!Ready
  <2>2. CASE ~Scheduler!Enterable(c, schedNext[c]) /\ search[c] + 1 < 8
    <3>1. search' = [search EXCEPT ![c] = search[c] + 1] /\ search[c] + 1 \in 1 .. 7
      BY <2>2 DEF SchedInv, Scheduler!TypeOK
    <3>2. /\ Scheduler!Goto(c, "search") /\ schedNext' = [schedNext EXCEPT ![c] = NONE]
          /\ UNCHANGED <<cur, runnable, schedCount, schedState, blocked, schedStopped>>
      BY <2>2
    <3>3. PICK s \in 1 .. 7 : search' = [search EXCEPT ![c] = s]
      BY ONLY <3>1
    <3>4. s \in 1 .. 8 /\ s <= 7
      OBVIOUS
    <3>. QED BY ONLY SchedInv, c \in Scheduler!Cpu, <1>0, <3>2, <3>3, <3>4, GoesOn
  <2>3. CASE ~Scheduler!Enterable(c, schedNext[c]) /\ ~(search[c] + 1 < 8)
    <3>1. Scheduler!Leave(c, cur[c]) /\ cur[c] \in Scheduler!Task
      BY <2>3 DEF SchedInv, Scheduler!TypeOK
    <3>. QED BY <1>0, <3>1, LeaveKeeps
  <2>. QED BY <2>1, <2>2, <2>3
<1>6. ASSUME NEW c \in Scheduler!Cpu, Scheduler!Block(c) \/ Scheduler!Exit(c) PROVE SchedInv'
  BY <1>6 DEF Scheduler!Block, Scheduler!Exit, SchedInv, Scheduler!TypeOK, Scheduler!OneProcessor
<1>7. ASSUME NEW t \in Scheduler!Task, Scheduler!Occur(t) PROVE SchedInv'
  BY <1>7 DEF Scheduler!Occur, SchedInv, Scheduler!TypeOK, Scheduler!OneProcessor
<1>. QED BY <1>1, <1>2, <1>3, <1>4, <1>5, <1>6, <1>7 DEF Scheduler!Next, Scheduler!InYield

-----------------------------------------------------------------------------
(* Run levels and the way down. *)

\* The processors that have answered are halted for good, and the run level
\* task has come to its end only when all have.
AnsweredHalted ==
  /\ \A a \in RunLevel!Ap : apState[a] = 1 => rt \in {"ack", "panic", "stopped"}
  /\ \A a \in RunLevel!Ap : apState[a] = 2 => a \in halted /\ a \notin printing
  /\ rt = "last" => \A a \in RunLevel!Ap : apState[a] = 2

\* Whoever has the panic lock has panicked or is the run level task, and only the first to panic prints.
PanicOwned ==
  /\ panicLock => panicked # RunLevel!None \/ rt \in {"send", "ack"}
  /\ printing \subseteq {panicked}

\* A request to go down comes when no program is left, or after the last try,
\* and no program is created any more.
ProgramsGone ==
  /\ \A c \in Rebooters :
       /\ levelPc[c] \in {"term", "kill", "check", "request", "forever"} => rebooting
       /\ levelPc[c] \in {"request", "forever"} => alive = {} \/ gaveUp
  /\ \A i \in 0 .. 1 : levelId[i] \in {0, 6} => rebooting /\ (alive = {} \/ gaveUp)
  /\ rt \in {"prepare", "send", "ack", "last"} => levelId[0] \in {0, 6}

LevelInv ==
  /\ RunLevel!TypeOK
  /\ RunLevel!CountIsHalted
  /\ AnsweredHalted
  /\ PanicOwned
  /\ ProgramsGone
  /\ RunLevel!DownAlone
  /\ down # 1 => printing = {}

\* Shutdown has the operator from a module of its own.
LEMMA LevelCardinality == \A S : RunLevel!Cardinality(S) = Cardinality(S)
BY DEF Cardinality, RunLevel!Cardinality

\* The invariant holds at the start.
LEMMA LevelInit == RunLevel!Init => LevelInv
<1>. SUFFICES ASSUME RunLevel!Init PROVE LevelInv
  OBVIOUS
<1>. USE LevelAssumption
    DEF RunLevel!Init, RunLevel!Cpus, RunLevel!Ap, RunLevel!HaltTasks, RunLevel!None,
        RunLevel!Nobody
<1>1. RunLevel!TypeOK
  <2>1. halters \in [RunLevel!HaltTasks -> {"none", "read", "act", "halted", "gone"}]
    OBVIOUS
  <2>2. /\ levelId \in [0 .. 1 -> 0 .. 6] /\ apState \in [RunLevel!Cpus -> 0 .. 2]
        /\ tries \in [Rebooters -> 0 .. LastTry]
    OBVIOUS
  <2>3. /\ halted \subseteq RunLevel!Cpus /\ printing \subseteq RunLevel!Cpus
        /\ nmi \subseteq RunLevel!Cpus
        /\ down \in {0, 1, 6} /\ haltCount \in 0 .. ApCount
        /\ panicked \in RunLevel!Cpus \cup {RunLevel!None, RunLevel!Nobody}
    OBVIOUS
  <2>. QED BY <2>1, <2>2, <2>3, Zenon DEF RunLevel!TypeOK
<1>2. RunLevel!CountIsHalted
  <2>1. {t \in RunLevel!HaltTasks : halters[t] = "halted"} = {}
    OBVIOUS
  <2>2. RunLevel!Cardinality({}) = 0
    BY FS_EmptySet, LevelCardinality
  <2>3. halted \cap RunLevel!Ap = {} /\ 0 \notin halted /\ haltCount = 0 /\ 0 <= 0
    OBVIOUS
  <2>. QED BY ONLY <2>1, <2>2, <2>3 DEF RunLevel!CountIsHalted
<1>3. AnsweredHalted /\ PanicOwned /\ ProgramsGone /\ RunLevel!DownAlone
  BY DEF AnsweredHalted, PanicOwned, ProgramsGone, RunLevel!DownAlone
<1>. QED BY <1>1, <1>2, <1>3 DEF LevelInv

\* The application processors and the tasks that halt them are finitely many.
LEMMA ApFinite ==
  /\ IsFiniteSet(RunLevel!Ap) /\ Cardinality(RunLevel!Ap) = ApCount
  /\ IsFiniteSet(RunLevel!HaltTasks)
<1>1. HaltTasksPerAp * ApCount \in Int
  BY LevelAssumption
<1>2. IsFiniteSet(1 .. ApCount) /\ Cardinality(1 .. ApCount) = ApCount
  BY LevelAssumption, FS_Interval
<1>3. IsFiniteSet(1 .. HaltTasksPerAp * ApCount)
  BY <1>1, FS_Interval
<1>. QED BY <1>2, <1>3 DEF RunLevel!Ap, RunLevel!HaltTasks

\* While halting tasks stand still, more processors may halt.
LEMMA CountKept ==
  ASSUME RunLevel!TypeOK, RunLevel!CountIsHalted, halted' \subseteq RunLevel!Cpus,
         UNCHANGED <<haltCount, halters>>, halted \subseteq halted',
         0 \in halted' => panicked' # RunLevel!None
  PROVE  RunLevel!CountIsHalted'
<1>. DEFINE A == halted \cap RunLevel!Ap
           B == halted' \cap RunLevel!Ap
<1>1. A \subseteq B /\ B \subseteq RunLevel!Ap
  OBVIOUS
<1>0. IsFiniteSet(B)
  BY <1>1, ApFinite, FS_Subset
<1>2. Cardinality(A) \in Nat /\ Cardinality(B) \in Nat /\ Cardinality(A) <= Cardinality(B)
  BY <1>0, <1>1, FS_Subset, FS_CardinalityType
<1>3. haltCount' \in Nat /\ haltCount' <= Cardinality(B)
  BY <1>2, LevelCardinality DEF RunLevel!CountIsHalted, RunLevel!TypeOK
<1>. QED BY <1>3, LevelCardinality DEF RunLevel!CountIsHalted

\* f_check counts nothing only when no program is left.
LEMMA LeftNone ==
  ASSUME RunLevel!TypeOK, NEW c \in Rebooters, RunLevel!Left(c) = 0
  PROVE  alive = {}
<1>. DEFINE D == {d \in Rebooters \ {c} : levelPc[d] # "user"}
<1>1. IsFiniteSet(alive) /\ IsFiniteSet(D)
  BY LevelAssumption, FS_Subset DEF RunLevel!TypeOK
<1>2. Cardinality(alive) \in Nat /\ Cardinality(D) \in Nat
  BY <1>1, FS_CardinalityType
<1>3. Cardinality(alive) + Cardinality(D) = 0
  BY LevelCardinality DEF RunLevel!Left
<1>. QED BY <1>1, <1>2, <1>3, FS_EmptySet

\* Every step of Shutdown keeps the invariant.
LEMMA LevelStep == LevelInv /\ RunLevel!Next => LevelInv'
<1>. SUFFICES ASSUME LevelInv, RunLevel!Next PROVE LevelInv'
  OBVIOUS
<1>. USE LevelAssumption
   DEF LevelInv, RunLevel!Cpus, RunLevel!Ap, RunLevel!HaltTasks, RunLevel!Requests, RunLevel!Runs,
       RunLevel!BspRuns, RunLevel!Goes, RunLevel!tasks, RunLevel!levels, RunLevel!nmis,
       RunLevel!None, RunLevel!Nobody
<1>1. ASSUME NEW p \in OtherPrograms, RunLevel!Fork(p) PROVE LevelInv'
  <2>. USE <1>1 DEF RunLevel!Fork, RunLevel!CanCreate
  <2>1. RunLevel!TypeOK'
    BY DEF RunLevel!TypeOK
  <2>2. AnsweredHalted'
    BY DEF AnsweredHalted, RunLevel!TypeOK
  <2>3. PanicOwned'
    BY DEF PanicOwned, RunLevel!TypeOK
  <2>4. ProgramsGone'
    BY DEF ProgramsGone, RunLevel!TypeOK
  <2>5. RunLevel!DownAlone'
    BY DEF RunLevel!DownAlone, AnsweredHalted, ProgramsGone
  <2>6. RunLevel!CountIsHalted'
    BY DEF RunLevel!CountIsHalted, PanicOwned
  <2>7. (down # 1 => printing = {})'
    BY DEF PanicOwned, AnsweredHalted, RunLevel!TypeOK
  <2>. QED BY <2>1, <2>2, <2>3, <2>4, <2>5, <2>6, <2>7
<1>2. ASSUME NEW p \in OtherPrograms, RunLevel!Dies(p) PROVE LevelInv'
  <2>. USE <1>2 DEF RunLevel!Dies
  <2>1. RunLevel!TypeOK'
    BY DEF RunLevel!TypeOK
  <2>2. AnsweredHalted'
    BY DEF AnsweredHalted, RunLevel!TypeOK
  <2>3. PanicOwned'
    BY DEF PanicOwned, RunLevel!TypeOK
  <2>4. ProgramsGone'
    BY DEF ProgramsGone, RunLevel!TypeOK
  <2>5. RunLevel!DownAlone'
    BY DEF RunLevel!DownAlone, AnsweredHalted, ProgramsGone
  <2>6. RunLevel!CountIsHalted'
    BY DEF RunLevel!CountIsHalted, PanicOwned
  <2>7. (down # 1 => printing = {})'
    BY DEF PanicOwned, AnsweredHalted, RunLevel!TypeOK
  <2>. QED BY <2>1, <2>2, <2>3, <2>4, <2>5, <2>6, <2>7
<1>3. ASSUME NEW c \in Rebooters, RunLevel!CreateHalters(c) PROVE LevelInv'
  <2>. USE <1>3 DEF RunLevel!CreateHalters
  <2>1. RunLevel!TypeOK'
    BY DEF RunLevel!TypeOK
  <2>2. AnsweredHalted'
    BY DEF AnsweredHalted, RunLevel!TypeOK
  <2>3. PanicOwned'
    BY DEF PanicOwned, RunLevel!TypeOK
  <2>4. ProgramsGone'
    BY DEF ProgramsGone, RunLevel!TypeOK
  <2>5. RunLevel!DownAlone'
    BY DEF RunLevel!DownAlone, AnsweredHalted, ProgramsGone
  <2>6. RunLevel!CountIsHalted'
    BY DEF RunLevel!CountIsHalted, PanicOwned
  <2>7. (down # 1 => printing = {})'
    BY DEF PanicOwned, AnsweredHalted, RunLevel!TypeOK
  <2>. QED BY <2>1, <2>2, <2>3, <2>4, <2>5, <2>6, <2>7
<1>4. ASSUME NEW c \in Rebooters, RunLevel!Prepare(c) PROVE LevelInv'
  <2>. USE <1>4 DEF RunLevel!Prepare
  <2>1. RunLevel!TypeOK'
    BY DEF RunLevel!TypeOK
  <2>2. AnsweredHalted'
    BY DEF AnsweredHalted, RunLevel!TypeOK
  <2>3. PanicOwned'
    BY DEF PanicOwned, RunLevel!TypeOK
  <2>4. ProgramsGone'
    BY DEF ProgramsGone, RunLevel!TypeOK
  <2>5. RunLevel!DownAlone'
    BY DEF RunLevel!DownAlone, AnsweredHalted, ProgramsGone
  <2>6. RunLevel!CountIsHalted'
    BY DEF RunLevel!CountIsHalted, PanicOwned
  <2>7. (down # 1 => printing = {})'
    BY DEF PanicOwned, AnsweredHalted, RunLevel!TypeOK
  <2>. QED BY <2>1, <2>2, <2>3, <2>4, <2>5, <2>6, <2>7
<1>5. ASSUME NEW c \in Rebooters, RunLevel!Send(c) PROVE LevelInv'
  <2>. USE <1>5 DEF RunLevel!Send
  <2>1. RunLevel!TypeOK'
    <3>1. signals' \in {"none", "term", "kill"}
      BY DEF RunLevel!TypeOK
    <3>2. tries' \in [Rebooters -> 0 .. LastTry]
      BY DEF RunLevel!TypeOK
    <3>3. levelPc' \in [Rebooters \cup LevelCallers -> {"user", "create", "term", "kill",
                         "check", "request", "locked", "forever"}]
      BY DEF RunLevel!TypeOK
    <3>. QED BY <3>1, <3>2, <3>3 DEF RunLevel!TypeOK
  <2>2. AnsweredHalted'
    BY DEF AnsweredHalted, RunLevel!TypeOK
  <2>3. PanicOwned'
    BY DEF PanicOwned, RunLevel!TypeOK
  <2>4. ProgramsGone'
    BY DEF ProgramsGone, RunLevel!TypeOK
  <2>5. RunLevel!DownAlone'
    BY DEF RunLevel!DownAlone, AnsweredHalted, ProgramsGone
  <2>6. RunLevel!CountIsHalted'
    BY DEF RunLevel!CountIsHalted, PanicOwned
  <2>7. (down # 1 => printing = {})'
    BY DEF PanicOwned, AnsweredHalted, RunLevel!TypeOK
  <2>. QED BY <2>1, <2>2, <2>3, <2>4, <2>5, <2>6, <2>7
<1>6. ASSUME NEW c \in Rebooters, RunLevel!Check(c) PROVE LevelInv'
  <2>. USE <1>6 DEF RunLevel!Check
  <2>1. RunLevel!TypeOK'
    BY DEF RunLevel!TypeOK
  <2>2. AnsweredHalted'
    BY DEF AnsweredHalted, RunLevel!TypeOK
  <2>3. PanicOwned'
    BY DEF PanicOwned, RunLevel!TypeOK
  <2>4. ProgramsGone'
    <3>1. levelPc'[c] = "request" => alive' = {} \/ gaveUp'
      BY LeftNone DEF RunLevel!TypeOK
    <3>. QED BY <3>1 DEF ProgramsGone, RunLevel!TypeOK
  <2>5. RunLevel!DownAlone'
    BY DEF RunLevel!DownAlone, AnsweredHalted, ProgramsGone
  <2>6. RunLevel!CountIsHalted'
    BY DEF RunLevel!CountIsHalted, PanicOwned
  <2>7. (down # 1 => printing = {})'
    BY DEF PanicOwned, AnsweredHalted, RunLevel!TypeOK
  <2>. QED BY <2>1, <2>2, <2>3, <2>4, <2>5, <2>6, <2>7
<1>7. ASSUME NEW c \in Rebooters, NEW r \in RunLevel!Requests, RunLevel!Request(c, r) PROVE LevelInv'
  <2>. USE <1>7 DEF RunLevel!Request
  <2>1. RunLevel!TypeOK'
    <3>1. levelId' \in [0 .. 1 -> 0 .. 6]
      BY DEF RunLevel!TypeOK
    <3>2. levelPc' \in [Rebooters \cup LevelCallers -> {"user", "create", "term", "kill",
                         "check", "request", "locked", "forever"}]
      BY DEF RunLevel!TypeOK
    <3>3. levelLock' \in {"free"} \cup Rebooters \cup LevelCallers
      OBVIOUS
    <3>. QED BY <3>1, <3>2, <3>3, Zenon DEF RunLevel!TypeOK
  <2>2. AnsweredHalted'
    BY DEF AnsweredHalted, RunLevel!TypeOK
  <2>3. PanicOwned'
    BY DEF PanicOwned, RunLevel!TypeOK
  <2>4. ProgramsGone'
    BY DEF ProgramsGone, RunLevel!TypeOK
  <2>5. RunLevel!DownAlone'
    BY DEF RunLevel!DownAlone, AnsweredHalted, ProgramsGone
  <2>6. RunLevel!CountIsHalted'
    BY DEF RunLevel!CountIsHalted, PanicOwned
  <2>7. (down # 1 => printing = {})'
    BY DEF PanicOwned, AnsweredHalted, RunLevel!TypeOK
  <2>. QED BY <2>1, <2>2, <2>3, <2>4, <2>5, <2>6, <2>7
<1>8. ASSUME NEW c \in LevelCallers, NEW l \in 2 .. 3, RunLevel!Request(c, l) PROVE LevelInv'
  <2>. USE <1>8 DEF RunLevel!Request
  <2>1. RunLevel!TypeOK'
    BY DEF RunLevel!TypeOK
  <2>2. AnsweredHalted'
    BY DEF AnsweredHalted, RunLevel!TypeOK
  <2>3. PanicOwned'
    BY DEF PanicOwned, RunLevel!TypeOK
  <2>4. ProgramsGone'
    BY DEF ProgramsGone, RunLevel!TypeOK
  <2>5. RunLevel!DownAlone'
    BY DEF RunLevel!DownAlone, AnsweredHalted, ProgramsGone
  <2>6. RunLevel!CountIsHalted'
    BY DEF RunLevel!CountIsHalted, PanicOwned
  <2>7. (down # 1 => printing = {})'
    BY DEF PanicOwned, AnsweredHalted, RunLevel!TypeOK
  <2>. QED BY <2>1, <2>2, <2>3, <2>4, <2>5, <2>6, <2>7
<1>9. ASSUME NEW c \in LevelCallers, RunLevel!Reached(c) PROVE LevelInv'
  <2>. USE <1>9 DEF RunLevel!Reached
  <2>1. RunLevel!TypeOK'
    BY DEF RunLevel!TypeOK
  <2>2. AnsweredHalted'
    BY DEF AnsweredHalted, RunLevel!TypeOK
  <2>3. PanicOwned'
    BY DEF PanicOwned, RunLevel!TypeOK
  <2>4. ProgramsGone'
    BY DEF ProgramsGone, RunLevel!TypeOK
  <2>5. RunLevel!DownAlone'
    BY DEF RunLevel!DownAlone, AnsweredHalted, ProgramsGone
  <2>6. RunLevel!CountIsHalted'
    BY DEF RunLevel!CountIsHalted, PanicOwned
  <2>7. (down # 1 => printing = {})'
    BY DEF PanicOwned, AnsweredHalted, RunLevel!TypeOK
  <2>. QED BY <2>1, <2>2, <2>3, <2>4, <2>5, <2>6, <2>7
<1>10. ASSUME NEW t \in RunLevel!HaltTasks, RunLevel!HaltRead(t) PROVE LevelInv'
  <2>. USE <1>10 DEF RunLevel!HaltRead
  <2>1. RunLevel!TypeOK'
    BY DEF RunLevel!TypeOK
  <2>2. AnsweredHalted'
    BY DEF AnsweredHalted, RunLevel!TypeOK
  <2>3. PanicOwned'
    BY DEF PanicOwned, RunLevel!TypeOK
  <2>4. ProgramsGone'
    BY DEF ProgramsGone, RunLevel!TypeOK
  <2>5. RunLevel!DownAlone'
    BY DEF RunLevel!DownAlone, AnsweredHalted, ProgramsGone
  <2>6. RunLevel!CountIsHalted'
    <3>1. {u \in RunLevel!HaltTasks : halters'[u] = "halted"}
            = {u \in RunLevel!HaltTasks : halters[u] = "halted"}
      BY DEF RunLevel!TypeOK
    <3>. QED BY <3>1 DEF RunLevel!CountIsHalted
  <2>7. (down # 1 => printing = {})'
    BY DEF PanicOwned, AnsweredHalted, RunLevel!TypeOK
  <2>. QED BY <2>1, <2>2, <2>3, <2>4, <2>5, <2>6, <2>7
<1>11. ASSUME NEW t \in RunLevel!HaltTasks, NEW c \in RunLevel!Cpus, RunLevel!HaltAct(t, c) PROVE LevelInv'
  <2>. USE <1>11 DEF RunLevel!HaltAct, RunLevel!MayHalt
  <2>0. ASSUME c # 0 PROVE RunLevel!TypeOK' /\ RunLevel!CountIsHalted'
    <3>. DEFINE A == halted \cap RunLevel!Ap
               T == {u \in RunLevel!HaltTasks : halters[u] = "halted"}
    <3>0. A \subseteq RunLevel!Ap /\ T \subseteq RunLevel!HaltTasks
      OBVIOUS
    <3>1. IsFiniteSet(A) /\ IsFiniteSet(T)
      BY ONLY <3>0, ApFinite, FS_Subset
    <3>2. halted' \cap RunLevel!Ap = A \cup {c} /\ c \notin A
      BY <2>0 DEF RunLevel!TypeOK
    <3>3. {u \in RunLevel!HaltTasks : halters'[u] = "halted"} = T \cup {t} /\ t \notin T
      BY <2>0 DEF RunLevel!TypeOK
    <3>4. /\ Cardinality(A \cup {c}) = Cardinality(A) + 1
          /\ Cardinality(T \cup {t}) = Cardinality(T) + 1
      BY ONLY <3>1, <3>2, <3>3, FS_AddElement
    <3>5. A \cup {c} \subseteq RunLevel!Ap
      BY <2>0
    <3>6. Cardinality(A) \in Nat /\ Cardinality(A) + 1 <= ApCount
      BY ONLY <3>1, <3>4, <3>5, ApFinite, FS_Subset, FS_CardinalityType
    <3>7. haltCount' = Cardinality(T \cup {t}) /\ haltCount' <= Cardinality(A \cup {c})
      BY <2>0, <3>4, <3>6, LevelCardinality DEF RunLevel!CountIsHalted, RunLevel!TypeOK
    <3>8. RunLevel!CountIsHalted'
      BY <2>0, <3>2, <3>3, <3>7, LevelCardinality DEF RunLevel!CountIsHalted, RunLevel!TypeOK
    <3>9. haltCount' \in 0 .. ApCount
      BY <3>4, <3>6, <3>7 DEF RunLevel!TypeOK
    <3>10. RunLevel!TypeOK'
      <4>1. halters' \in [RunLevel!HaltTasks -> {"none", "read", "act", "halted", "gone"}]
        BY <2>0 DEF RunLevel!TypeOK
      <4>2. halted' = halted \cup {c} /\ halted \subseteq RunLevel!Cpus
        BY <2>0, Zenon DEF RunLevel!TypeOK
      <4>3. halted' \subseteq RunLevel!Cpus
        BY ONLY <4>2, c \in RunLevel!Cpus
      <4>4. UNCHANGED <<printing, down, rebooting, alive, signals, ignores, gaveUp, levelPc,
                        tries, levelLock, levelId, event, rt, apState, nmi, panicLock, panicked>>
        OBVIOUS
      <4>. QED BY ONLY RunLevel!TypeOK, <3>9, <4>1, <4>3, <4>4 DEF RunLevel!TypeOK
    <3>. QED BY <3>8, <3>10
  <2>1. ASSUME c = 0 PROVE RunLevel!TypeOK' /\ RunLevel!CountIsHalted'
    <3>1. halters' = [halters EXCEPT ![t] = "read"] /\ UNCHANGED <<halted, haltCount>>
      BY <2>1
    <3>2. {u \in RunLevel!HaltTasks : halters'[u] = "halted"}
            = {u \in RunLevel!HaltTasks : halters[u] = "halted"}
      BY <3>1 DEF RunLevel!TypeOK
    <3>3. halters' \in [RunLevel!HaltTasks -> {"none", "read", "act", "halted", "gone"}]
      BY <3>1 DEF RunLevel!TypeOK
    <3>4. RunLevel!TypeOK'
      <4>1. UNCHANGED <<printing, down, rebooting, alive, signals, ignores, gaveUp, levelPc,
                        tries, levelLock, levelId, event, rt, apState, nmi, panicLock, panicked>>
        OBVIOUS
      <4>. QED BY ONLY RunLevel!TypeOK, <3>1, <3>3, <4>1 DEF RunLevel!TypeOK
    <3>5. RunLevel!CountIsHalted'
      BY <3>1, <3>2 DEF RunLevel!CountIsHalted
    <3>. QED BY <3>4, <3>5
  <2>2. RunLevel!TypeOK' /\ RunLevel!CountIsHalted'
    BY <2>0, <2>1
  <2>3. AnsweredHalted'
    BY DEF AnsweredHalted, RunLevel!TypeOK
  <2>4. PanicOwned'
    BY DEF PanicOwned, RunLevel!TypeOK
  <2>5. ProgramsGone'
    BY DEF ProgramsGone, RunLevel!TypeOK
  <2>6. RunLevel!DownAlone'
    BY DEF RunLevel!DownAlone, AnsweredHalted, ProgramsGone
  <2>7. (down # 1 => printing = {})'
    BY DEF PanicOwned, AnsweredHalted, RunLevel!TypeOK
  <2>. QED BY <2>2, <2>3, <2>4, <2>5, <2>6, <2>7
<1>12. CASE RunLevel!LevelLoop
  <2>. USE <1>12 DEF RunLevel!LevelLoop
  <2>1. RunLevel!TypeOK'
    BY DEF RunLevel!TypeOK
  <2>2. AnsweredHalted'
    BY DEF AnsweredHalted, RunLevel!TypeOK
  <2>3. PanicOwned'
    BY DEF PanicOwned, RunLevel!TypeOK
  <2>4. ProgramsGone'
    BY DEF ProgramsGone, RunLevel!TypeOK
  <2>5. RunLevel!DownAlone'
    BY DEF RunLevel!DownAlone, AnsweredHalted, ProgramsGone
  <2>6. RunLevel!CountIsHalted'
    BY DEF RunLevel!CountIsHalted, PanicOwned
  <2>7. (down # 1 => printing = {})'
    BY DEF PanicOwned, AnsweredHalted, RunLevel!TypeOK
  <2>. QED BY <2>1, <2>2, <2>3, <2>4, <2>5, <2>6, <2>7
<1>13. CASE RunLevel!LevelWait
  <2>. USE <1>13 DEF RunLevel!LevelWait
  <2>1. RunLevel!TypeOK'
    BY DEF RunLevel!TypeOK
  <2>2. AnsweredHalted'
    BY DEF AnsweredHalted, RunLevel!TypeOK
  <2>3. PanicOwned'
    BY DEF PanicOwned, RunLevel!TypeOK
  <2>4. ProgramsGone'
    BY DEF ProgramsGone, RunLevel!TypeOK
  <2>5. RunLevel!DownAlone'
    BY DEF RunLevel!DownAlone, AnsweredHalted, ProgramsGone
  <2>6. RunLevel!CountIsHalted'
    BY DEF RunLevel!CountIsHalted, PanicOwned
  <2>7. (down # 1 => printing = {})'
    BY DEF PanicOwned, AnsweredHalted, RunLevel!TypeOK
  <2>. QED BY <2>1, <2>2, <2>3, <2>4, <2>5, <2>6, <2>7
<1>14. CASE RunLevel!ShutdownLock
  <2>. USE <1>14 DEF RunLevel!ShutdownLock
  <2>1. RunLevel!TypeOK'
    <3>0. halted' \subseteq halted \cup {0} /\ 0 \in RunLevel!Cpus
      OBVIOUS
    <3>1. halted' \subseteq RunLevel!Cpus
      BY ONLY <3>0, RunLevel!TypeOK DEF RunLevel!TypeOK
    <3>2. rt' \in {"send", "stopped"} /\ panicLock' \in BOOLEAN
      BY DEF RunLevel!TypeOK
    <3>. QED BY <3>1, <3>2, Zenon DEF RunLevel!TypeOK
  <2>2. AnsweredHalted'
    BY DEF AnsweredHalted, RunLevel!TypeOK
  <2>3. PanicOwned'
    BY DEF PanicOwned, RunLevel!TypeOK
  <2>4. ProgramsGone'
    BY DEF ProgramsGone, RunLevel!TypeOK
  <2>5. RunLevel!DownAlone'
    BY DEF RunLevel!DownAlone, AnsweredHalted, ProgramsGone
  <2>6. RunLevel!CountIsHalted'
    <3>1. 0 \in halted' => panicked' # RunLevel!None
      BY DEF RunLevel!CountIsHalted, PanicOwned
    <3>. QED BY <2>1, <3>1, CountKept DEF RunLevel!TypeOK
  <2>7. (down # 1 => printing = {})'
    BY DEF PanicOwned, AnsweredHalted, RunLevel!TypeOK
  <2>. QED BY <2>1, <2>2, <2>3, <2>4, <2>5, <2>6, <2>7
<1>15. CASE RunLevel!ShutdownSend
  <2>. USE <1>15 DEF RunLevel!ShutdownSend
  <2>. DEFINE rest == {a \in RunLevel!Ap : apState[a] = 0}
             next == CHOOSE a \in rest : \A b \in rest : a <= b
  <2>0. rest # {} => next \in rest
    <3>1. rest \subseteq Nat
      OBVIOUS
    <3>. QED BY <3>1, LeastNat
  <2>1. RunLevel!TypeOK'
    <3>1. CASE rest = {}
      BY <3>1 DEF RunLevel!TypeOK
    <3>2. CASE rest # {}
      <4>1. next \in RunLevel!Cpus /\ apState' = [apState EXCEPT ![next] = 1]
              /\ nmi' = nmi \cup {next}
        BY <2>0, <3>2
      <4>. HIDE DEF next
      <4>2. apState' \in [RunLevel!Cpus -> 0 .. 2] /\ nmi' \subseteq RunLevel!Cpus
        BY <4>1 DEF RunLevel!TypeOK
      <4>. QED BY <3>2, <4>2, Zenon DEF RunLevel!TypeOK
    <3>. QED BY <3>1, <3>2
  <2>2. AnsweredHalted'
    <3>1. CASE rest = {}
      BY <3>1 DEF AnsweredHalted, RunLevel!TypeOK
    <3>2. CASE rest # {}
      <4>1. apState' = [apState EXCEPT ![next] = 1] /\ rt' = "ack"
        BY <3>2
      <4>. HIDE DEF next
      <4>. QED BY <4>1 DEF AnsweredHalted, RunLevel!TypeOK
    <3>. QED BY <3>1, <3>2
  <2>3. PanicOwned'
    BY DEF PanicOwned, RunLevel!TypeOK
  <2>4. ProgramsGone'
    BY DEF ProgramsGone, RunLevel!TypeOK
  <2>5. RunLevel!DownAlone'
    BY DEF RunLevel!DownAlone, AnsweredHalted, ProgramsGone
  <2>6. RunLevel!CountIsHalted'
    BY DEF RunLevel!CountIsHalted, PanicOwned
  <2>7. (down # 1 => printing = {})'
    BY DEF PanicOwned, AnsweredHalted, RunLevel!TypeOK
  <2>. QED BY <2>1, <2>2, <2>3, <2>4, <2>5, <2>6, <2>7
<1>16. CASE RunLevel!ShutdownAck
  <2>. USE <1>16 DEF RunLevel!ShutdownAck, RunLevel!Acked
  <2>1. RunLevel!TypeOK'
    BY DEF RunLevel!TypeOK
  <2>2. AnsweredHalted'
    BY DEF AnsweredHalted, RunLevel!TypeOK
  <2>3. PanicOwned'
    BY DEF PanicOwned, RunLevel!TypeOK
  <2>4. ProgramsGone'
    BY DEF ProgramsGone, RunLevel!TypeOK
  <2>5. RunLevel!DownAlone'
    BY DEF RunLevel!DownAlone, AnsweredHalted, ProgramsGone
  <2>6. RunLevel!CountIsHalted'
    BY DEF RunLevel!CountIsHalted, PanicOwned
  <2>7. (down # 1 => printing = {})'
    BY DEF PanicOwned, AnsweredHalted, RunLevel!TypeOK
  <2>. QED BY <2>1, <2>2, <2>3, <2>4, <2>5, <2>6, <2>7
<1>17. CASE RunLevel!ShutdownResend
  <2>. USE <1>17 DEF RunLevel!ShutdownResend
  <2>1. RunLevel!TypeOK'
    <3>0. nmi' \subseteq nmi \cup RunLevel!Ap /\ RunLevel!Ap \subseteq RunLevel!Cpus
      OBVIOUS
    <3>1. nmi' \subseteq RunLevel!Cpus
      BY ONLY <3>0, RunLevel!TypeOK DEF RunLevel!TypeOK
    <3>. QED BY <3>1, Zenon DEF RunLevel!TypeOK
  <2>2. AnsweredHalted'
    BY DEF AnsweredHalted, RunLevel!TypeOK
  <2>3. PanicOwned'
    BY DEF PanicOwned, RunLevel!TypeOK
  <2>4. ProgramsGone'
    BY DEF ProgramsGone, RunLevel!TypeOK
  <2>5. RunLevel!DownAlone'
    BY DEF RunLevel!DownAlone, AnsweredHalted, ProgramsGone
  <2>6. RunLevel!CountIsHalted'
    BY DEF RunLevel!CountIsHalted, PanicOwned
  <2>7. (down # 1 => printing = {})'
    BY DEF PanicOwned, AnsweredHalted, RunLevel!TypeOK
  <2>. QED BY <2>1, <2>2, <2>3, <2>4, <2>5, <2>6, <2>7
<1>18. CASE RunLevel!ShutdownWatchdog
  <2>. USE <1>18 DEF RunLevel!ShutdownWatchdog
  <2>1. RunLevel!TypeOK'
    BY DEF RunLevel!TypeOK
  <2>2. AnsweredHalted'
    BY DEF AnsweredHalted, RunLevel!TypeOK
  <2>3. PanicOwned'
    BY DEF PanicOwned, RunLevel!TypeOK
  <2>4. ProgramsGone'
    BY DEF ProgramsGone, RunLevel!TypeOK
  <2>5. RunLevel!DownAlone'
    BY DEF RunLevel!DownAlone, AnsweredHalted, ProgramsGone
  <2>6. RunLevel!CountIsHalted'
    BY DEF RunLevel!CountIsHalted, PanicOwned
  <2>7. (down # 1 => printing = {})'
    BY DEF PanicOwned, AnsweredHalted, RunLevel!TypeOK
  <2>. QED BY <2>1, <2>2, <2>3, <2>4, <2>5, <2>6, <2>7
<1>19. CASE RunLevel!Down
  <2>. USE <1>19 DEF RunLevel!Down
  <2>1. RunLevel!TypeOK'
    <3>1. down' \in {0, 1, 6}
      BY DEF ProgramsGone
    <3>. QED BY <3>1, Zenon DEF RunLevel!TypeOK
  <2>2. AnsweredHalted'
    BY DEF AnsweredHalted, RunLevel!TypeOK
  <2>3. PanicOwned'
    BY DEF PanicOwned, RunLevel!TypeOK
  <2>4. ProgramsGone'
    BY DEF ProgramsGone, RunLevel!TypeOK
  <2>5. RunLevel!DownAlone'
    BY DEF RunLevel!DownAlone, AnsweredHalted, ProgramsGone
  <2>6. RunLevel!CountIsHalted'
    BY DEF RunLevel!CountIsHalted, PanicOwned
  <2>7. (down # 1 => printing = {})'
    BY DEF PanicOwned, AnsweredHalted, RunLevel!TypeOK
  <2>. QED BY <2>1, <2>2, <2>3, <2>4, <2>5, <2>6, <2>7
<1>20. ASSUME NEW c \in RunLevel!Cpus, RunLevel!Panic(c) PROVE LevelInv'
  <2>. USE <1>20 DEF RunLevel!Panic, RunLevel!MayPanic
  <2>1. RunLevel!TypeOK'
    BY DEF RunLevel!TypeOK
  <2>2. AnsweredHalted'
    BY DEF AnsweredHalted, RunLevel!TypeOK
  <2>3. PanicOwned'
    <3>1. panicked = RunLevel!None => printing = {}
      BY DEF PanicOwned, RunLevel!TypeOK
    <3>2. CASE RunLevel!MayPanic
      <4>1. printing' = {c} /\ panicked' = c
        BY <3>1, <3>2
      <4>. QED BY <4>1 DEF PanicOwned
    <3>3. CASE ~RunLevel!MayPanic
      <4>1. printing' = printing /\ panicLock' = panicLock
            /\ panicked' = (IF panicked = RunLevel!None THEN RunLevel!Nobody ELSE panicked)
        BY <3>3
      <4>2. rt' = rt \/ c = 0
        OBVIOUS
      <4>. QED BY <3>1, <3>3, <4>1, <4>2 DEF PanicOwned, RunLevel!TypeOK
    <3>. QED BY <3>2, <3>3
  <2>4. ProgramsGone'
    BY DEF ProgramsGone, RunLevel!TypeOK
  <2>5. RunLevel!DownAlone'
    BY DEF RunLevel!DownAlone, AnsweredHalted, ProgramsGone
  <2>6. RunLevel!CountIsHalted'
    <3>1. 0 \in halted' => panicked' # RunLevel!None
      BY DEF RunLevel!CountIsHalted, RunLevel!TypeOK
    <3>. QED BY <2>1, <3>1, CountKept DEF RunLevel!TypeOK
  <2>7. (down # 1 => printing = {})'
    BY DEF PanicOwned, AnsweredHalted, RunLevel!TypeOK
  <2>. QED BY <2>1, <2>2, <2>3, <2>4, <2>5, <2>6, <2>7
<1>21. ASSUME NEW c \in RunLevel!Cpus, RunLevel!Nmi(c) PROVE LevelInv'
  <2>. USE <1>21 DEF RunLevel!Nmi
  <2>1. RunLevel!TypeOK'
    BY DEF RunLevel!TypeOK
  <2>2. AnsweredHalted'
    BY DEF AnsweredHalted, RunLevel!TypeOK
  <2>3. PanicOwned'
    BY DEF PanicOwned, RunLevel!TypeOK
  <2>4. ProgramsGone'
    BY DEF ProgramsGone, RunLevel!TypeOK
  <2>5. RunLevel!DownAlone'
    BY DEF RunLevel!DownAlone, AnsweredHalted, ProgramsGone
  <2>6. RunLevel!CountIsHalted'
    <3>1. 0 \in halted' => panicked' # RunLevel!None
      BY DEF RunLevel!CountIsHalted
    <3>. QED BY <2>1, <3>1, CountKept DEF RunLevel!TypeOK
  <2>7. (down # 1 => printing = {})'
    BY DEF PanicOwned, AnsweredHalted, RunLevel!TypeOK
  <2>. QED BY <2>1, <2>2, <2>3, <2>4, <2>5, <2>6, <2>7
<1>. QED BY <1>1, <1>2, <1>3, <1>4, <1>5, <1>6, <1>7, <1>8, <1>9, <1>10, <1>11,
     <1>12, <1>13, <1>14, <1>15, <1>16, <1>17, <1>18, <1>19, <1>20, <1>21 DEF RunLevel!Next

-----------------------------------------------------------------------------
(* Events. *)

\* The ticks since a wait began.
Since(t) == (ticks + TickWrap - start[t]) % TickWrap

\* The signal of an auto-reset event has not been taken; a task looks at the
\* events of its call; the difference of 32 bits is the time of its wait.
EventInv ==
  /\ EventTypeOK
  /\ \A e \in Events \ ManualReset : eventSignaled[e] = 1 => e \in fresh
  /\ \A t \in Tasks : eventPc[t] # "idle" => call[t] \in Waits
  /\ \A t \in Tasks : eventPc[t] = "scan" => index[t] \in 1 .. Len(call[t].events)
  /\ \A t \in Tasks : eventPc[t] # "idle" /\ call[t].ms # Forever => Since(t) = waited[t]

\* Another tick is one more since any start, also where the counter wraps.
LEMMA TickSince ==
  ASSUME NEW w \in Nat \ {0}, NEW a \in 0 .. w - 1, NEW b \in 0 .. w - 1,
         (a + w - b) % w < w - 1
  PROVE  (((a + 1) % w) + w - b) % w = ((a + w - b) % w) + 1
<1>1. (a + 1) % w = IF a = w - 1 THEN 0 ELSE a + 1
  OBVIOUS
<1>2. (a + w - b) % w = IF a >= b THEN a - b ELSE a + w - b
  OBVIOUS
<1>3. CASE a = w - 1
  <2>1. (0 + w - b) % w = IF b = 0 THEN 0 ELSE w - b
    OBVIOUS
  <2>. QED BY <1>1, <1>2, <1>3, <2>1
<1>4. CASE a # w - 1
  <2>1. ((a + 1) + w - b) % w = IF a + 1 >= b THEN a + 1 - b ELSE a + 1 + w - b
    OBVIOUS
  <2>. QED BY <1>1, <1>2, <1>4, <2>1
<1>. QED BY <1>3, <1>4

\* A wait that begins has taken no time.
LEMMA StartSince ==
  ASSUME NEW w \in Nat \ {0}, NEW a \in 0 .. w - 1
  PROVE  (a + w - a) % w = 0
<1>1. a + w - a = w
  OBVIOUS
<1>2. w % w = 0
  OBVIOUS
<1>. QED BY <1>1, <1>2

\* The index of a loop over at most 256 events.
LEMMA InBounds ==
  \A n \in 1 .. 256 : 1 \in 1 .. n /\ \A i \in 1 .. n : i < n => i + 1 \in Index
BY DEF Index

\* The invariant holds at the start.
LEMMA EventStart == EventInit => EventInv
<1>. SUFFICES ASSUME EventInit PROVE EventInv
  OBVIOUS
<1>1. NoCall \in Waits \cup {NoCall} /\ 0 \in Index /\ 0 \in 0 .. TickWrap - 1
  BY EventAssumption DEF Index
<1>. QED BY <1>1 DEF EventInit, EventInv, EventTypeOK

\* Every step of event.c keeps it.
LEMMA EventNextStep == EventInv /\ EventNext => EventInv'
<1>. SUFFICES ASSUME EventInv, EventNext PROVE EventInv'
  OBVIOUS
<1>. USE DEF waiter
<1>0. 0 \in Index /\ 1 \in Index /\ 0 \in 0 .. TickWrap - 1
  BY EventAssumption DEF Index
<1>1. CASE EventTick
  <2>. USE <1>1 DEF EventTick, EventInv, EventTypeOK, Since
  <2>1. ticks' \in 0 .. TickWrap - 1
    BY EventAssumption DEF TicksAfter
  <2>2. waited' \in [Tasks -> 0 .. TickWrap - 1]
    BY EventAssumption
  <2>3. ASSUME NEW t \in Tasks, eventPc[t] # "idle", call[t].ms # Forever
        PROVE  Since(t)' = waited'[t]
    <3>1. waited'[t] = Since(t) + 1 /\ Since(t) < TickWrap - 1
      BY <2>3
    <3>2. ticks \in 0 .. TickWrap - 1 /\ start[t] \in 0 .. TickWrap - 1
      OBVIOUS
    <3>. QED BY <3>1, <3>2, TickSince, EventAssumption DEF TicksAfter
  <2>. QED BY <2>1, <2>2, <2>3
<1>2. ASSUME NEW e \in Events, EventSignal(e)
      PROVE  EventInv'
  BY <1>2 DEF EventSignal, EventInv, EventTypeOK, Since
<1>3. ASSUME NEW e \in Events, Reset(e)
      PROVE  EventInv'
  BY <1>3 DEF Reset, EventInv, EventTypeOK, Since
<1>4. ASSUME NEW t \in Tasks, ScanTake(t)
      PROVE  EventInv'
  <2>. DEFINE e == call[t].events[index[t]]
  <2>1. /\ eventSignaled' = [eventSignaled EXCEPT ![e] = AfterTake(e)]
        /\ hint' = [hint EXCEPT ![e] = t] /\ fresh' = fresh \ {e}
        /\ Return(t) /\ UNCHANGED <<yieldTask, ticks>>
    BY <1>4 DEF ScanTake
  <2>. HIDE DEF e
  <2>. USE DEF Return, EventInv, EventTypeOK
  <2>2. EventTypeOK'
    BY <1>0, <2>1 DEF AfterTake
  <2>3. \A f \in Events \ ManualReset : eventSignaled'[f] = 1 => f \in fresh'
    BY <2>1 DEF AfterTake
  <2>4. \A u \in Tasks : eventPc'[u] # "idle" =>
          /\ u # t /\ eventPc'[u] = eventPc[u] /\ call'[u] = call[u]
          /\ index'[u] = index[u] /\ start'[u] = start[u] /\ waited'[u] = waited[u]
    BY <2>1
  <2>. QED BY <2>1, <2>2, <2>3, <2>4 DEF Since
<1>5. ASSUME NEW t \in Tasks, ScanNext(t)
      PROVE  EventInv'
  <2>. USE <1>5 DEF ScanNext, EventInv, EventTypeOK, Since
  <2>1. index' \in [Tasks -> Index]
    <3>1. Len(call[t].events) \in 1 .. 256 /\ index[t] \in 1 .. Len(call[t].events)
      BY EventAssumption
    <3>2. \/ index' = [index EXCEPT ![t] = index[t] + 1] /\ index[t] < Len(call[t].events)
          \/ index' = index
      OBVIOUS
    <3>3. index[t] < Len(call[t].events) => index[t] + 1 \in Index
      BY ONLY <3>1, InBounds
    <3>. QED BY ONLY <3>2, <3>3, index \in [Tasks -> Index]
  <2>2. \A u \in Tasks : eventPc'[u] = "scan" => index'[u] \in 1 .. Len(call'[u].events)
    <3>1. Len(call[t].events) \in Nat /\ index[t] \in 1 .. Len(call[t].events)
      BY EventAssumption
    <3>2. eventPc'[t] = "scan" => index'[t] = index[t] + 1 /\ index[t] < Len(call[t].events)
      OBVIOUS
    <3>3. eventPc'[t] = "scan" => index'[t] \in 1 .. Len(call[t].events)
      BY ONLY <3>1, <3>2
    <3>4. \A u \in Tasks \ {t} : eventPc'[u] = eventPc[u] /\ index'[u] = index[u]
      OBVIOUS
    <3>. QED BY <3>3, <3>4
  <2>. QED BY <2>1, <2>2
<1>6. ASSUME NEW t \in Tasks, TestTime(t)
      PROVE  EventInv'
  <2>. USE DEF Return, EventInv, EventTypeOK
  <2>1. EventTypeOK' /\ UNCHANGED <<eventSignaled, ticks, fresh>>
    <3>1. CASE Return(t)
      BY <1>0, <1>6, <3>1 DEF TestTime
    <3>2. CASE eventPc' = [eventPc EXCEPT ![t] = "block"] /\ UNCHANGED <<call, index, start, waited>>
      BY <1>6, <3>2 DEF TestTime
    <3>. QED BY <1>6, <3>1, <3>2 DEF TestTime
  <2>2. \A u \in Tasks : eventPc'[u] # "idle" =>
          /\ u = t \/ eventPc'[u] = eventPc[u]
          /\ eventPc[u] # "idle" /\ eventPc'[t] # "scan" /\ call'[u] = call[u]
          /\ index'[u] = index[u] /\ start'[u] = start[u] /\ waited'[u] = waited[u]
    <3>1. CASE Return(t)
      BY <1>0, <1>6, <3>1 DEF TestTime
    <3>2. CASE eventPc' = [eventPc EXCEPT ![t] = "block"] /\ UNCHANGED <<call, index, start, waited>>
      BY <1>6, <3>2 DEF TestTime
    <3>. QED BY <1>6, <3>1, <3>2 DEF TestTime
  <2>. QED BY <2>1, <2>2 DEF Since
<1>7. ASSUME NEW t \in Tasks, Unblock(t), UNCHANGED <<eventSignaled, hint, ticks, fresh>>,
             yieldTask' \in Tasks \cup {NONE}
      PROVE  EventInv'
  <2>. USE <1>7 DEF Unblock, EventInv, EventTypeOK, Since
  <2>0. Len(call[t].events) \in 1 .. 256
    BY EventAssumption
  <2>1. 1 \in 1 .. Len(call[t].events)
    BY ONLY <2>0, InBounds
  <2>. QED BY <1>0, <2>1
<1>8. ASSUME NEW t \in Tasks, EventWake(t)
      PROVE  EventInv'
  BY <1>7, <1>8 DEF EventWake, EventInv, EventTypeOK
<1>9. ASSUME NEW t \in Tasks, NEW w \in Waits, EventWait(t, w)
      PROVE  EventInv'
  <2>. USE <1>9 DEF EventWait, EventInv, EventTypeOK, Since
  <2>1. Len(w.events) \in 1 .. 256
    BY EventAssumption
  <2>2. (ticks + TickWrap - ticks) % TickWrap = 0
    BY StartSince, EventAssumption
  <2>3. EventTypeOK'
    BY <1>0
  <2>4. \A u \in Tasks \ {t} : eventPc'[u] = eventPc[u] /\ call'[u] = call[u]
          /\ index'[u] = index[u] /\ start'[u] = start[u] /\ waited'[u] = waited[u]
    OBVIOUS
  <2>5. /\ call'[t] = w /\ index'[t] = 1 /\ waited'[t] = 0
        /\ w.ms # Forever => start'[t] = ticks
    OBVIOUS
  <2>6. 1 \in 1 .. Len(w.events)
    BY ONLY <2>1, InBounds
  <2>. QED BY <2>2, <2>3, <2>4, <2>5, <2>6
<1>10. CASE Yield
  <2>1. CASE Unblock(yieldTask)
    BY <1>7, <1>10, <2>1 DEF Yield, EventInv, EventTypeOK
  <2>2. CASE UNCHANGED waiter
    BY <1>10, <2>2 DEF Yield, EventInv, EventTypeOK, Since
  <2>. QED BY <1>10, <2>1, <2>2 DEF Yield
<1>. QED BY <1>1, <1>2, <1>3, <1>4, <1>5, <1>6, <1>8, <1>9, <1>10 DEF EventNext, EventStep

\* A step of event.c takes a signal at most once and gives up no wait early.
LEMMA EventRight == EventInv /\ EventNext => TakenOnce /\ NoEarlyTimeout
<1>. SUFFICES ASSUME EventInv, EventNext PROVE TakenOnce /\ NoEarlyTimeout
  OBVIOUS
<1>. USE DEF waiter, EventInv, EventTypeOK, TakenOnce, NoEarlyTimeout, Takes
<1>1. CASE EventTick
  BY <1>1 DEF EventTick
<1>2. ASSUME NEW e \in Events, EventSignal(e) \/ Reset(e)
      PROVE  TakenOnce /\ NoEarlyTimeout
  BY <1>2 DEF EventSignal, Reset
<1>3. ASSUME NEW t \in Tasks, ScanTake(t)
      PROVE  TakenOnce /\ NoEarlyTimeout
  BY <1>3 DEF ScanTake, Return
<1>4. ASSUME NEW t \in Tasks, ScanNext(t)
      PROVE  TakenOnce /\ NoEarlyTimeout
  BY <1>4 DEF ScanNext
<1>5. ASSUME NEW t \in Tasks, TestTime(t)
      PROVE  TakenOnce /\ NoEarlyTimeout
  <2>1. \A u \in Tasks \ {t} : eventPc'[u] = eventPc[u]
    BY <1>5 DEF TestTime, Return
  <2>2. eventPc'[t] = "idle" => waited[t] >= call[t].ms
    <3>1. CASE TimedOut(t)
      BY <1>5, <3>1 DEF TestTime, TimedOut, Since
    <3>2. CASE call[t].ms = 0
      BY <3>2, EventAssumption
    <3>. QED BY <1>5, <3>1, <3>2 DEF TestTime
  <2>. QED BY <1>5, <2>1, <2>2 DEF TestTime
<1>6. ASSUME NEW t \in Tasks, EventWake(t)
      PROVE  TakenOnce /\ NoEarlyTimeout
  BY <1>6 DEF EventWake, Unblock
<1>7. ASSUME NEW t \in Tasks, NEW w \in Waits, EventWait(t, w)
      PROVE  TakenOnce /\ NoEarlyTimeout
  BY <1>7 DEF EventWait
<1>8. CASE Yield
  BY <1>8 DEF Yield, Unblock
<1>. QED BY <1>1, <1>2, <1>3, <1>4, <1>5, <1>6, <1>7, <1>8 DEF EventNext, EventStep

-----------------------------------------------------------------------------
(* Sleeping. *)

\* A sleep has no result before it is over; one for a time ends where
\* sleep_internal has computed when it was called.
SleepInv ==
  /\ SleepTypeOK
  /\ started <= now
  /\ sleepPc # "user" => result = "none"
  /\ kind = "relative" /\ sleepPc # "user" =>
       sleepPc \in {"loop", "asleep"} /\ until = Until(started, request)
  /\ LongEnough
  /\ RemainIsRest

\* A number that is not after another in seconds, nor within the second, is
\* not after it.
LEMMA NotAfter ==
  ASSUME NEW a \in Nat, NEW b \in Nat, NEW s \in Nat \ {0},
         \/ a \div s < b \div s
         \/ a \div s = b \div s /\ a % s <= b % s
  PROVE  a <= b
<1>. DEFINE p == a \div s
           q == b \div s
<1>1. /\ p \in Nat /\ q \in Nat /\ a % s \in 0 .. s - 1 /\ b % s \in 0 .. s - 1
      /\ a = s * p + (a % s) /\ b = s * q + (b % s)
  OBVIOUS
<1>2. p < q => s * p + s <= s * q
  <2>. SUFFICES ASSUME p < q PROVE s * (p + 1) <= s * q
    BY <1>1
  <2>. QED BY <1>1
<1>3. p = q => s * p = s * q
  OBVIOUS
<1>4. p < q \/ (p = q /\ a % s <= b % s)
  OBVIOUS
<1>. HIDE DEF p, q
<1>. QED BY <1>1, <1>2, <1>3, <1>4

\* The invariant holds at the start.
LEMMA SleepStart == SleepInit => SleepInv
<1>. SUFFICES ASSUME SleepInit PROVE SleepInv
  OBVIOUS
<1>0. 0 \in 0 .. MaxTime /\ 0 \in 0 .. Width - 1 /\ 0 <= 0
  BY SleepAssumption
<1>1. SleepTypeOK /\ started <= now
  BY <1>0, Zenon DEF SleepInit, SleepTypeOK
<1>. QED BY <1>1 DEF SleepInit, SleepInv, LongEnough, RemainIsRest

\* Every step of sleep_internal keeps it.
LEMMA SleepStep == SleepInv /\ SleepNext => SleepInv'
<1>. SUFFICES ASSUME SleepInv, SleepNext PROVE SleepInv'
  OBVIOUS
<1>. USE SleepAssumption DEF SleepInv, SleepTypeOK, LongEnough, RemainIsRest, Clock, Until
<1>1. ASSUME NEW k \in {"relative", "realtime", "monotonic"}, NEW r \in Times, Call(k, r)
      PROVE  SleepInv'
  <2>1. Least(r) \in 0 .. Width - 1
    BY DEF Least
  <2>2. CASE k = "relative"
    BY <1>1, <2>1, <2>2 DEF Call
  <2>3. CASE k # "relative"
    BY <1>1, <2>3 DEF Call
  <2>. QED BY <2>2, <2>3
<1>2. CASE Loop
  <2>1. looked' = now /\ UNCHANGED <<now, kind, request, until, sleepSignaled, started>>
    BY <1>2 DEF Loop
  <2>2. CASE until <= now
    <3>1. Ends("ok", 0)
      BY <1>2, <2>2 DEF Loop
    <3>. QED BY <1>2, <2>1, <2>2, <3>1 DEF Ends, Loop
  <2>3. CASE until > now /\ sleepSignaled
    <3>1. Ends("DE_INTERRUPT", until - now)
      BY <1>2, <2>3 DEF Loop
    <3>. QED BY <1>2, <2>1, <2>3, <3>1 DEF Ends, Loop
  <2>4. CASE until > now /\ ~sleepSignaled
    <3>1. sleepPc' = "asleep" /\ UNCHANGED <<result, remain>>
      BY <1>2, <2>4 DEF Loop
    <3>. QED BY <1>2, <2>1, <2>4, <3>1 DEF Loop
  <2>. QED BY <2>2, <2>3, <2>4
<1>3. CASE SleepWake
  BY <1>3 DEF SleepWake
<1>4. CASE Absolute
  <2>1. sleepPc = "absolute" /\ UNCHANGED <<now, kind, request, sleepSignaled, remain, started>>
    BY <1>4 DEF Absolute
  <2>2. kind # "relative" /\ result = "none"
    BY <2>1
  <2>3. CASE Distance < 0 \/ (Distance = 0 /\ FractionCome)
    <3>1. sleepPc' = "user" /\ result' = "ok" /\ UNCHANGED <<until, looked>>
      BY <1>4, <2>3 DEF Absolute
    <3>2. request \in Nat /\ Clock \in Nat /\ Second \in Nat \ {0}
      OBVIOUS
    <3>3. /\ request \div Second \in Int /\ Clock \div Second \in Int
          /\ \/ request \div Second < Clock \div Second
             \/ request \div Second = Clock \div Second /\ request % Second <= Clock % Second
      <4>1. request \div Second \in Int /\ Clock \div Second \in Int
        BY ONLY <3>2
      <4>. QED BY ONLY <2>3, <4>1 DEF Distance, FractionCome
    <3>4. request <= Clock
      BY ONLY <3>2, <3>3, NotAfter
    <3>. QED BY <2>1, <2>2, <3>1, <3>4
  <2>4. CASE ~(Distance < 0 \/ (Distance = 0 /\ FractionCome)) /\ Distance = 0
    <3>1. UNCHANGED <<sleepPc, result, until, looked>>
      BY <1>4, <2>4 DEF Absolute
    <3>. QED BY <2>1, <2>2, <3>1
  <2>5. CASE ~(Distance < 0 \/ (Distance = 0 /\ FractionCome)) /\ Distance # 0 /\ sleepSignaled
    <3>1. sleepPc' = "user" /\ result' = "DE_INTERRUPT" /\ UNCHANGED <<until, looked>>
      BY <1>4, <2>5 DEF Absolute
    <3>. QED BY <2>1, <2>2, <3>1
  <2>6. CASE ~(Distance < 0 \/ (Distance = 0 /\ FractionCome)) /\ Distance # 0 /\ ~sleepSignaled
    <3>. DEFINE r == IF Distance > 1 THEN Second ELSE 1
    <3>1. until' = Until(now, r) /\ looked' = now /\ sleepPc' = "loop" /\ UNCHANGED result
      BY <1>4, <2>6 DEF Absolute
    <3>2. r \in Nat
      OBVIOUS
    <3>. HIDE DEF r
    <3>3. until' \in 0 .. Width - 1
      BY <3>1, <3>2
    <3>. QED BY <2>1, <2>2, <3>1, <3>3
  <2>. QED BY <2>3, <2>4, <2>5, <2>6
<1>5. CASE SleepTick
  BY <1>5 DEF SleepTick
<1>6. CASE SleepSignal
  BY <1>6 DEF SleepSignal
<1>. QED BY <1>1, <1>2, <1>3, <1>4, <1>5, <1>6 DEF SleepNext

-----------------------------------------------------------------------------
(***************************************************************************)
(* The parts together.  A step moves one part; the invariants of the       *)
(* others are about variables that stay as they are.                       *)
(***************************************************************************)
ProcessInv ==
  WaitInv /\ SpawnInv /\ SignalInv /\ SchedInv /\ LevelInv /\ EventInv /\ SleepInv

\* A part that does not move keeps its invariant.
LEMMA WaitStays == WaitInv /\ UNCHANGED waitVars => WaitInv'
<1>. SUFFICES ASSUME WaitInv, UNCHANGED waitVars PROVE WaitInv'
  OBVIOUS
<1>1. UNCHANGED <<place, waitNext, tail, pool, lastId, waitId, idOwner, owner, detached, care, claimed>>
  BY DEF waitVars
<1>2. WaitsTyped' /\ WalksFrom'
  BY DEF waitVars, WaitInv, Waiting!TypeOK, Waiting!Pointer, WaitsTyped, WalksFrom
<1>. QED BY <1>1, <1>2, StepKeeps

\* The parent and the child of a spawn that stands still.
LEMMA SpawnStays == SpawnInv /\ UNCHANGED spawnVars => SpawnInv'
BY DEF spawnVars, SpawnInv, Program!TypeOK

\* Tasks that are not signalled.
LEMMA SignalStays == SignalInv /\ UNCHANGED signalsVars => SignalInv'
BY DEF signalsVars, SignalInv, Signal!TypeOK, Signal!GroupInSession, Signal!Live,
       Signal!EndedByUnblocked

\* Processors that do not choose a task.
LEMMA SchedStays == SchedInv /\ UNCHANGED schedVars => SchedInv'
BY DEF schedVars, SchedInv, Scheduler!TypeOK, Scheduler!OneProcessor

\* A run level that is not left.
LEMMA LevelStays == LevelInv /\ UNCHANGED levelVars => LevelInv'
BY DEF levelVars, LevelInv, RunLevel!TypeOK, RunLevel!CountIsHalted, AnsweredHalted, PanicOwned,
       ProgramsGone, RunLevel!DownAlone

\* Events nobody signals or waits for.
LEMMA EventStays == EventInv /\ UNCHANGED eventVars => EventInv'
BY DEF eventVars, waiter, EventInv, EventTypeOK, Since

\* A sleep while the clock stands.
LEMMA SleepStays == SleepInv /\ UNCHANGED sleepVars => SleepInv'
BY DEF sleepVars, SleepInv, SleepTypeOK, LongEnough, RemainIsRest, Clock

\* The invariant holds at the start.
LEMMA ProcessStart == Init => ProcessInv
BY WaitStart, SpawnStart, SignalStart, SchedStart, LevelInit, EventStart, SleepStart
DEF Init, ProcessInv

\* The processor that prints is the one that panicked first.
LEMMA PrintsAlone == LevelInv => RunLevel!OnePrints
<1>. SUFFICES ASSUME LevelInv PROVE RunLevel!OnePrints
  OBVIOUS
<1>1. printing \ halted \subseteq {panicked}
  BY DEF LevelInv, PanicOwned
<1>2. IsFiniteSet({panicked}) /\ Cardinality({panicked}) = 1
  BY FS_Singleton
<1>3. Cardinality(printing \ halted) <= 1
  BY <1>1, <1>2, FS_Subset
<1>. QED BY <1>3, LevelCardinality DEF LevelInv, RunLevel!OnePrints

\* Every step keeps the invariant and does what the step of its part may.
LEMMA ProcessStep ==
  ProcessInv /\ [Next]_vars =>
    /\ ProcessInv'
    /\ [Waiting!ClaimedOnce /\ Waiting!RecycledWhenClaimed /\ Signal!FirstSessionSafe
        /\ TakenOnce /\ NoEarlyTimeout]_vars
<1>. SUFFICES ASSUME ProcessInv, [Next]_vars
     PROVE  /\ ProcessInv'
            /\ [Waiting!ClaimedOnce /\ Waiting!RecycledWhenClaimed /\ Signal!FirstSessionSafe
                /\ TakenOnce /\ NoEarlyTimeout]_vars
  OBVIOUS
<1>. USE DEF ProcessInv
<1>1. ASSUME UNCHANGED waitVars PROVE Waiting!ClaimedOnce /\ Waiting!RecycledWhenClaimed
  BY <1>1 DEF waitVars, Waiting!ClaimedOnce, Waiting!RecycledWhenClaimed
<1>2. ASSUME UNCHANGED signalsVars PROVE Signal!FirstSessionSafe
  BY <1>2 DEF signalsVars, Signal!FirstSessionSafe
<1>3. ASSUME UNCHANGED eventVars PROVE TakenOnce /\ NoEarlyTimeout
  BY <1>3 DEF eventVars, waiter, TakenOnce, Takes, NoEarlyTimeout
<1>4. CASE WaitMoves /\ Waiting!Next
  BY <1>4, <1>2, <1>3, WaitNextStep, SpawnStays, SignalStays, SchedStays, LevelStays, EventStays,
     SleepStays DEF WaitMoves
<1>5. CASE SpawnMoves /\ Program!Next
  BY <1>5, <1>1, <1>2, <1>3, SpawnStep, WaitStays, SignalStays, SchedStays, LevelStays, EventStays,
     SleepStays DEF SpawnMoves
<1>6. CASE SignalsMoves /\ Signal!Next
  BY <1>6, <1>1, <1>3, SignalStep, SignalRight, WaitStays, SpawnStays, SchedStays, LevelStays,
     EventStays, SleepStays DEF SignalsMoves
<1>7. CASE SchedMoves /\ Scheduler!Next
  BY <1>7, <1>1, <1>2, <1>3, SchedStep, WaitStays, SpawnStays, SignalStays, LevelStays, EventStays,
     SleepStays DEF SchedMoves
<1>8. CASE LevelMoves /\ RunLevel!Next
  BY <1>8, <1>1, <1>2, <1>3, LevelStep, WaitStays, SpawnStays, SignalStays, SchedStays, EventStays,
     SleepStays DEF LevelMoves
<1>9. CASE EventMoves /\ EventNext
  BY <1>9, <1>1, <1>2, EventNextStep, EventRight, WaitStays, SpawnStays, SignalStays, SchedStays,
     LevelStays, SleepStays DEF EventMoves
<1>10. CASE SleepMoves /\ SleepNext
  BY <1>10, <1>1, <1>2, <1>3, SleepStep, WaitStays, SpawnStays, SignalStays, SchedStays, LevelStays,
     EventStays DEF SleepMoves
<1>11. CASE UNCHANGED vars
  <2>1. /\ UNCHANGED waitVars /\ UNCHANGED spawnVars /\ UNCHANGED signalsVars /\ UNCHANGED schedVars
        /\ UNCHANGED levelVars /\ UNCHANGED eventVars /\ UNCHANGED sleepVars
    BY <1>11 DEF vars
  <2>. QED BY <1>11, <2>1, WaitStays, SpawnStays, SignalStays, SchedStays, LevelStays, EventStays, SleepStays
<1>. QED BY <1>4, <1>5, <1>6, <1>7, <1>8, <1>9, <1>10, <1>11 DEF Next

\* The invariant holds in every behaviour of the parts: func_setpgroup may be
\* asked for any number (spawn.c 55-81), and the wait for a failed child may not
\* find it (task.c 1021-1063).
THEOREM ProcessInvariant == Spec => []ProcessInv
<1>1. Init => ProcessInv
  BY ProcessStart
<1>2. ProcessInv /\ [Next]_vars => ProcessInv'
  BY ProcessStep
<1>. QED BY <1>1, <1>2, PTL DEF Spec

\* task_create, task_wait_descendant and task_caretaker keep the list and the
\* pool whole, whatever tasks and structures there are; spawn leaves nothing
\* behind but the children its wait did not find (missed, task.c:1021); groups
\* stay within sessions, but for those whose number was taken before its task
\* began a session (early, spawn.c:38), and blocked signals end nobody; no task
\* runs on two processors.
THEOREM TasksAreRight == Spec => []TasksRight
<1>1. ProcessInv => TasksRight
  <2>. SUFFICES ASSUME ProcessInv PROVE TasksRight
    OBVIOUS
  <2>1. TypeOK
    BY DEF ProcessInv, TypeOK, WaitInv, SpawnInv, SignalInv, SchedInv, LevelInv, EventInv, SleepInv
  <2>. QED BY <2>1, ListIsValid, SpawnRight DEF ProcessInv, TasksRight, SignalInv, SchedInv
<1>. QED BY <1>1, ProcessInvariant, PTL

\* The power goes when every other processor is halted, one processor prints a
\* panic message, and a sleep is as long as asked for, for any number of
\* processors and any clock.
THEOREM StopsAreRight == Spec => []StopsRight
<1>1. ProcessInv => StopsRight
  BY PrintsAlone DEF ProcessInv, StopsRight, LevelInv, SleepInv
<1>. QED BY <1>1, ProcessInvariant, PTL

\* No step of a wait claims a return value twice, none of the caretaker
\* recycles one that is not claimed, none of kill reaches the first session
\* from outside, none of an event wait takes a signal twice or gives up early.
THEOREM StepsAreRight == Spec => StepsRight
<1>1. ProcessInv /\ [Next]_vars =>
        [Waiting!ClaimedOnce /\ Waiting!RecycledWhenClaimed /\ Signal!FirstSessionSafe
         /\ TakenOnce /\ NoEarlyTimeout]_vars
  BY ProcessStep
<1>. QED BY <1>1, ProcessInvariant, PTL DEF Spec, StepsRight
=============================================================================
