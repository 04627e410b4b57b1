---------------------------- MODULE KernelProofs ----------------------------
(***************************************************************************)
(* Proofs about module Kernel: the physical pages, the queues of ACPICA    *)
(* and the receive ring of the network card, of any size.                  *)
(***************************************************************************)
EXTENDS Kernel, FiniteSetTheorems, WellFoundedInduction, TLAPS

(***************************************************************************)
(* Numbers.                                                                *)
(***************************************************************************)
\* Every set of natural numbers that is not empty has a least element.
LEMMA LeastNat ==
  ASSUME NEW S, S \subseteq Nat, S # {}
  PROVE  \E n \in S : \A m \in S : n <= m
<1>. DEFINE R == OpToRel(<, Nat)
<1>1. IsWellFoundedOn(R, Nat)
  BY NatLessThanWellFounded
<1>. HIDE DEF R
<1>2. PICK n \in S : \A m \in S : <<m, n>> \notin R
  BY <1>1, WFMin
<1>3. \A m \in S : m < n => <<m, n>> \in R
  BY DEF R, OpToRel
<1>4. \A m \in S : ~(m < n)
  BY <1>2, <1>3
<1>5. \A m \in S : n <= m
  BY <1>4
<1>. QED BY <1>5

\* Min of a set of natural numbers is its least element.
LEMMA MinIs ==
  ASSUME NEW S, S \subseteq Nat, S # {}
  PROVE  Min(S) \in S /\ \A x \in S : Min(S) <= x
BY LeastNat DEF Min

\* Max of a set of natural numbers below a bound is its greatest element.
LEMMA MaxIs ==
  ASSUME NEW S, S \subseteq Nat, S # {}, NEW n \in Nat, \A x \in S : x <= n
  PROVE  Max(S) \in S /\ \A x \in S : Max(S) >= x
<1>. DEFINE T == {n - x : x \in S}
<1>1. T \subseteq Nat /\ T # {}
  OBVIOUS
<1>2. PICK t \in T : \A u \in T : t <= u
  BY <1>1, LeastNat
<1>3. PICK m \in S : t = n - m
  OBVIOUS
<1>4. \A x \in S : m >= x
  <2>. SUFFICES ASSUME NEW x \in S PROVE m >= x
    OBVIOUS
  <2>1. n - m <= n - x
    BY <1>2, <1>3
  <2>. QED BY <2>1
<1>5. \E k \in S : \A x \in S : k >= x
  BY <1>4
<1>. QED BY <1>5 DEF Max

\* What a sequence holds.
LEMMA InSeq ==
  ASSUME NEW S, NEW s \in Seq(S), NEW i \in 1 .. Len(s)
  PROVE  s[i] \in S
OBVIOUS

\* A multiple below another one is below it by the factor.
LEMMA MultiplesApart ==
  ASSUME NEW f \in Nat, NEW l \in Nat, NEW n \in Nat \ {0}, f % n = 0, l % n = 0, f < l
  PROVE  f + n <= l
<1>. DEFINE q == f \div n  r == l \div n
<1>1. q \in Nat /\ r \in Nat
  OBVIOUS
<1>2. f = n * q /\ l = n * r
  OBVIOUS
<1>. HIDE DEF q, r
<1>3. q < r
  <2>. SUFFICES ASSUME r <= q PROVE FALSE
    BY <1>1
  <2>1. n * r <= n * q
    BY <1>1
  <2>. QED BY <2>1, <1>2
<1>4. n * (q + 1) <= n * r
  BY <1>1, <1>3
<1>5. n * (q + 1) = n * q + n
  BY <1>1
<1>. QED BY <1>2, <1>4, <1>5, <1>1

\* A number lies in the part of n that its quotient names.
LEMMA Quotient ==
  ASSUME NEW f \in Nat, NEW n \in Nat \ {0}
  PROVE  /\ f \div n \in Nat
         /\ (f \div n) * n <= f /\ f < ((f \div n) + 1) * n
<1>1. f = n * (f \div n) + (f % n) /\ f % n \in 0 .. n - 1 /\ f \div n \in Nat
  OBVIOUS
<1>. QED BY <1>1

\* Products keep the order.
LEMMA ProductsOrdered ==
  ASSUME NEW a \in Nat, NEW b \in Nat, NEW n \in Nat \ {0}
  PROVE  /\ a <= b => a * n <= b * n
         /\ a * n < b * n => a < b
         /\ a * n \in Nat
OBVIOUS
-----------------------------------------------------------------------------
(***************************************************************************)
(* Physical pages.  A frame is free, in one block that somebody owns, or   *)
(* kept for the bitmap and the heap; what is free lies below the bytes     *)
(* that are known to be full.                                              *)
(***************************************************************************)
BlockOf(b) == Block(b[1], Count(b[2]))
Kept == bitmap \cup HeapChunks[Len(HeapChunks)]
\* A frame the kernel may use.
Fit(f) == f \in FromHeap \/ (Given(f) /\ f * PageSize >= MinBase)

FramesTyped ==
  /\ framesFree \subseteq Frame /\ framesUsed \in 0 .. Bytes /\ framesMap \in MemoryMaps
  /\ bitmap \subseteq Frame
  /\ owned \subseteq (Frame \ {0}) \X Orders /\ IsFiniteSet(owned)
  /\ failed \in ((DOMAIN Limit \cup {"page"}) \X Orders) \cup {<<>>}

FreeBelow == \A f \in framesFree : f < (Bytes - framesUsed) * BitsPerByte
BlocksApart ==
  /\ \A b \in owned : /\ BlockOf(b) \subseteq Frame
                      /\ BlockOf(b) \cap framesFree = {} /\ BlockOf(b) \cap Kept = {}
                      /\ \A f \in BlockOf(b) : Fit(f)
  /\ \A b, c \in owned : b # c => BlockOf(b) \cap BlockOf(c) = {}
  /\ framesFree \cap Kept = {}
  /\ \A f \in framesFree : Fit(f)

FramesInv == FramesTyped /\ FreeBelow /\ BlocksApart /\ FailsWhenFull

LEMMA FramesStays == FramesInv /\ UNCHANGED mmVars => FramesInv'
BY DEF mmVars, FramesInv, FramesTyped, FreeBelow, BlocksApart, FailsWhenFull, Kept, Fit, Given

\* Areas of a memory map are whole frames of it.
LEMMA AreasFit ==
  ASSUME NEW m \in MemoryMaps, NEW f \in UNION Areas(m)
  PROVE  /\ f \in Frame
         /\ \E i \in 1 .. (Len(m) - 1) :
              /\ m[i].type = "reserved"
              /\ m[i].base <= f * PageSize /\ (f + 1) * PageSize <= m[i + 1].base
         /\ f * PageSize >= MinBase
<1>. DEFINE area(i) == FirstFrame(m[i].base) .. ((m[i + 1].base \div PageSize) - 1)
<1>1. PICK i \in 1 .. (Len(m) - 1) : m[i].type = "reserved" /\ f \in area(i)
  BY DEF Areas
<1>2. f \in Frame
  BY AreaAssumption
<1>3. m[i].base \in Nat /\ m[i + 1].base \in Nat
  <2>1. m \in Seq([base : Nat, type : STRING]) /\ i \in 1 .. Len(m) /\ i + 1 \in 1 .. Len(m)
    BY AreaAssumption, <1>1
  <2>2. m[i] \in [base : Nat, type : STRING] /\ m[i + 1] \in [base : Nat, type : STRING]
    BY <2>1, InSeq
  <2>. QED BY <2>2
<1>. DEFINE b == m[i].base  e == m[i + 1].base
<1>4. Max({b, MinBase}) \in Nat /\ Max({b, MinBase}) >= b /\ Max({b, MinBase}) >= MinBase
  <2>1. {b, MinBase} \subseteq Nat
    BY <1>3, AreaAssumption
  <2>2. b + MinBase \in Nat /\ \A x \in {b, MinBase} : x <= b + MinBase
    BY <1>3, AreaAssumption
  <2>. HIDE DEF b
  <2>. QED BY <2>1, <2>2, MaxIs
<1>5. FirstFrame(b) = (Max({b, MinBase}) + PageSize - 1) \div PageSize
  BY DEF FirstFrame
<1>. DEFINE x == Max({b, MinBase})
<1>6. f \in Nat /\ FirstFrame(b) <= f /\ f <= (e \div PageSize) - 1
  <2>1. f \in Int /\ FirstFrame(b) <= f /\ f <= (e \div PageSize) - 1
    BY <1>1
  <2>. QED BY <2>1, <1>2, LimitAssumption DEF Frame
<1>. HIDE DEF x, b, e
<1>7. x <= f * PageSize
  <2>1. x + PageSize - 1 \in Nat
    BY <1>4, AreaAssumption DEF x
  <2>2. x + PageSize - 1 < (((x + PageSize - 1) \div PageSize) + 1) * PageSize
    BY <2>1, Quotient, AreaAssumption
  <2>3. FirstFrame(b) = (x + PageSize - 1) \div PageSize /\ FirstFrame(b) \in Nat
    BY <1>5, <2>1, Quotient, AreaAssumption DEF x
  <2>4. FirstFrame(b) * PageSize <= f * PageSize
    BY <1>6, <2>3, AreaAssumption, ProductsOrdered
  <2>5. (FirstFrame(b) + 1) * PageSize = FirstFrame(b) * PageSize + PageSize
    BY <2>3, AreaAssumption
  <2>6. x \in Nat /\ FirstFrame(b) * PageSize \in Nat /\ f * PageSize \in Nat
    BY <1>4, <1>6, <2>3, AreaAssumption, ProductsOrdered DEF x
  <2>7. x + PageSize - 1 < FirstFrame(b) * PageSize + PageSize
    BY <2>2, <2>3, <2>5
  <2>. QED BY <2>4, <2>6, <2>7, AreaAssumption
<1>8. (f + 1) * PageSize <= e
  <2>1. e \in Nat
    BY <1>3 DEF e
  <2>2. (e \div PageSize) \in Nat /\ (e \div PageSize) * PageSize <= e
    BY <2>1, Quotient, AreaAssumption
  <2>3. f + 1 \in Nat /\ f + 1 <= e \div PageSize
    BY <1>6, <2>2
  <2>4. (f + 1) * PageSize <= (e \div PageSize) * PageSize
    BY <2>2, <2>3, ProductsOrdered, AreaAssumption
  <2>5. (f + 1) * PageSize \in Nat /\ (e \div PageSize) * PageSize \in Nat
    BY <2>2, <2>3, ProductsOrdered, AreaAssumption
  <2>. QED BY <2>1, <2>2, <2>4, <2>5
<1>9. b <= f * PageSize /\ MinBase <= f * PageSize
  <2>1. f * PageSize \in Nat
    BY <1>6, ProductsOrdered, AreaAssumption
  <2>. QED BY <2>1, <1>7, <1>4, <1>3, AreaAssumption DEF x, b
<1>10. f * PageSize >= MinBase
  <2>1. f * PageSize \in Nat
    BY <1>6, ProductsOrdered, AreaAssumption
  <2>. QED BY <2>1, <1>9, AreaAssumption
<1>. QED BY <1>1, <1>2, <1>8, <1>9, <1>10 DEF b, e

\* What mm_init makes of the memory map and the heap.
LEMMA FramesStart == MmInit => FramesInv
<1>. SUFFICES ASSUME MmInit PROVE FramesInv
  OBVIOUS
<1>. DEFINE large == {a \in Areas(framesMap) : Cardinality(a) > BitmapPages}
<1>1. framesMap \in MemoryMaps /\ bitmap = BitmapOf(framesMap) /\ framesUsed = 0 /\ owned = {}
      /\ failed = <<>> /\ framesFree = ((UNION Areas(framesMap)) \ bitmap) \cup FromHeap
  BY DEF MmInit
<1>2. FromHeap \subseteq Frame /\ FromHeap \cap HeapChunks[Len(HeapChunks)] = {}
      /\ FromHeap \cap UNION Areas(framesMap) = {}
      /\ HeapChunks[Len(HeapChunks)] \cap UNION Areas(framesMap) = {}
  <2>1. \A i \in 1 .. Len(HeapChunks) : HeapChunks[i] \subseteq Frame
    BY AreaAssumption
  <2>2. DOMAIN HeapChunks = 1 .. Len(HeapChunks) /\ Len(HeapChunks) \in DOMAIN HeapChunks
    BY AreaAssumption
  <2>3. UNION Areas(framesMap) \subseteq Frame \ UNION {HeapChunks[i] : i \in DOMAIN HeapChunks}
    BY AreaAssumption, <1>1
  <2>4. Len(HeapChunks) \in Nat
    BY AreaAssumption
  <2>. QED BY <2>1, <2>2, <2>3, <2>4, AreaAssumption DEF FromHeap
<1>3. \A a \in Areas(framesMap) : \E lo, hi \in Nat : a = lo .. hi /\ lo <= hi
  <2>. SUFFICES ASSUME NEW a \in Areas(framesMap) PROVE \E lo, hi \in Nat : a = lo .. hi /\ lo <= hi
    OBVIOUS
  <2>1. PICK i \in 1 .. (Len(framesMap) - 1) :
          a = FirstFrame(framesMap[i].base) .. ((framesMap[i + 1].base \div PageSize) - 1) /\ Cardinality(a) >= 2
    BY DEF Areas
  <2>. DEFINE lo == FirstFrame(framesMap[i].base)  hi == (framesMap[i + 1].base \div PageSize) - 1
  <2>2. framesMap \in Seq([base : Nat, type : STRING]) /\ i \in 1 .. Len(framesMap) /\ i + 1 \in 1 .. Len(framesMap)
    BY AreaAssumption, <1>1, <2>1
  <2>3. framesMap[i].base \in Nat /\ framesMap[i + 1].base \in Nat
    <3>1. framesMap[i] \in [base : Nat, type : STRING] /\ framesMap[i + 1] \in [base : Nat, type : STRING]
      BY <2>2, InSeq
    <3>. QED BY <3>1
  <2>4. Max({framesMap[i].base, MinBase}) \in Nat
    <3>1. {framesMap[i].base, MinBase} \subseteq Nat
      BY <2>3, AreaAssumption
    <3>2. framesMap[i].base + MinBase \in Nat
          /\ \A x \in {framesMap[i].base, MinBase} : x <= framesMap[i].base + MinBase
      BY <2>3, AreaAssumption
    <3>. QED BY <3>1, <3>2, MaxIs
  <2>5. lo \in Nat /\ hi \in Int
    <3>1. Max({framesMap[i].base, MinBase}) + PageSize - 1 \in Nat
      BY <2>4, AreaAssumption
    <3>. QED BY <3>1, <2>3, Quotient, AreaAssumption DEF FirstFrame
  <2>6. lo <= hi
    <3>. SUFFICES ASSUME hi < lo PROVE FALSE
      BY <2>5
    <3>1. a = {}
      BY <2>1, <2>5
    <3>. QED BY <3>1, <2>1, FS_EmptySet
  <2>. QED BY <2>1, <2>5, <2>6
<1>4. large # {}
  BY DEF MmInit
<1>5. \A a \in large : Min(a) \in a /\ a \subseteq Nat /\ Block(Min(a), BitmapPages) \subseteq a
  <2>. SUFFICES ASSUME NEW a \in large
                PROVE  Min(a) \in a /\ a \subseteq Nat /\ Block(Min(a), BitmapPages) \subseteq a
    OBVIOUS
  <2>1. PICK lo \in Nat, hi \in Nat : a = lo .. hi /\ lo <= hi
    BY <1>3
  <2>2. a \subseteq Nat /\ a # {} /\ lo \in a
    BY <2>1
  <2>3. Min(a) \in a /\ \A x \in a : Min(a) <= x
    BY <2>2, MinIs
  <2>4. Min(a) = lo
    BY <2>1, <2>2, <2>3
  <2>5. Cardinality(a) = hi - lo + 1
    BY <2>1, FS_Interval
  <2>6. BitmapPages < hi - lo + 1 /\ BitmapPages \in Nat
    BY <2>5, AreaAssumption
  <2>. QED BY <2>1, <2>2, <2>3, <2>4, <2>6 DEF Block
<1>6. \E x \in large : \A y \in large : Min(x) >= Min(y)
  <2>. DEFINE mins == {Min(x) : x \in large}
  <2>1. mins \subseteq Nat /\ mins # {}
    BY <1>4, <1>5
  <2>2. BitsPerByte * Bytes \in Nat
    BY LimitAssumption
  <2>3. \A n \in mins : n <= BitsPerByte * Bytes
    <3>. SUFFICES ASSUME NEW x \in large PROVE Min(x) <= BitsPerByte * Bytes
      OBVIOUS
    <3>1. Min(x) \in Frame
      BY <1>1, <1>5, AreaAssumption
    <3>. QED BY <3>1, <2>2 DEF Frame
  <2>4. Max(mins) \in mins /\ \A n \in mins : Max(mins) >= n
    <3>. HIDE DEF mins
    <3>. QED BY <2>1, <2>2, <2>3, MaxIs
  <2>5. PICK x \in large : Max(mins) = Min(x)
    BY <2>4
  <2>. QED BY <2>4, <2>5
<1>7. bitmap \subseteq UNION Areas(framesMap)
  <2>. DEFINE a == CHOOSE x \in large : \A y \in large : Min(x) >= Min(y)
  <2>1. a \in large
    BY <1>6
  <2>2. bitmap = Block(Min(a), BitmapPages)
    BY <1>1 DEF BitmapOf
  <2>. HIDE DEF a
  <2>. QED BY <2>1, <2>2, <1>5
<1>8. UNION Areas(framesMap) \subseteq Frame
  BY AreaAssumption, <1>1
<1>9. \A f \in UNION Areas(framesMap) : Fit(f)
  BY <1>1, AreasFit DEF Fit, Given
<1>10. framesFree \subseteq Frame /\ bitmap \subseteq Frame /\ framesFree \cap Kept = {}
  <2>. DEFINE A == UNION Areas(framesMap)  last == HeapChunks[Len(HeapChunks)]
  <2>. HIDE DEF A, last
  <2>1. framesFree = (A \ bitmap) \cup FromHeap
    BY DEF MmInit, A
  <2>3. bitmap \subseteq A /\ A \subseteq Frame
    BY <1>7, <1>8 DEF A
  <2>4. FromHeap \subseteq Frame /\ FromHeap \cap last = {}
    BY <1>2 DEF last
  <2>5. FromHeap \cap A = {} /\ last \cap A = {}
    BY <1>2 DEF last, A
  <2>2. Kept = bitmap \cup last
    BY DEF Kept, last
  <2>. QED BY <2>1, <2>2, <2>3, <2>4, <2>5
<1>11. \A f \in framesFree : Fit(f)
  BY <1>1, <1>9 DEF Fit
<1>12. \A f \in framesFree : f < (Bytes - framesUsed) * BitsPerByte
  <2>1. (Bytes - framesUsed) * BitsPerByte = BitsPerByte * Bytes /\ BitsPerByte * Bytes \in Nat
    BY <1>1, LimitAssumption
  <2>. QED BY <1>10, <2>1 DEF Frame
<1>13. FramesTyped
  <2>1. framesUsed \in 0 .. Bytes
    BY <1>1, LimitAssumption
  <2>. QED BY <1>1, <1>10, <2>1, FS_EmptySet DEF FramesTyped
<1>14. BlocksApart
  BY <1>1, <1>10, <1>11 DEF BlocksApart
<1>15. FailsWhenFull
  BY <1>1 DEF FailsWhenFull
<1>. QED BY <1>12, <1>13, <1>14, <1>15 DEF FramesInv, FreeBelow

\* No free frame lies above the bytes that are skipped.
LEMMA SkippedIsFull ==
  ASSUME FramesInv
  PROVE  /\ Skipped \in framesUsed .. Bytes
         /\ \A f \in framesFree : f < (Bytes - Skipped) * BitsPerByte
<1>. DEFINE U == {Bytes} \cup {u \in framesUsed .. (Bytes - 1) : ~FullByte(Bytes - 1 - u)}
<1>1. framesUsed \in 0 .. Bytes /\ Bytes \in Nat /\ BitsPerByte \in Nat \ {0}
  BY LimitAssumption DEF FramesInv, FramesTyped
<1>2. U \subseteq framesUsed .. Bytes /\ U \subseteq Nat /\ U # {}
  BY <1>1
<1>3. Skipped \in U /\ \A u \in U : Skipped <= u
  <2>. HIDE DEF U
  <2>1. Min(U) \in U /\ \A u \in U : Min(U) <= u
    BY <1>2, MinIs
  <2>. QED BY <2>1 DEF Skipped, U
<1>4. Skipped \in framesUsed .. Bytes
  BY <1>2, <1>3
<1>5. ASSUME NEW f \in framesFree
      PROVE  f < (Bytes - Skipped) * BitsPerByte
  <2>1. f \in Nat /\ f < (Bytes - framesUsed) * BitsPerByte
    BY LimitAssumption DEF FramesInv, FramesTyped, FreeBelow, Frame
  <2>. DEFINE i == f \div BitsPerByte
  <2>2. i \in Nat /\ i * BitsPerByte <= f /\ f < (i + 1) * BitsPerByte
    BY <2>1, <1>1, Quotient
  <2>. HIDE DEF i
  <2>3. i < Bytes - framesUsed
    <3>1. Bytes - framesUsed \in Nat
      BY <1>1
    <3>2. i * BitsPerByte < (Bytes - framesUsed) * BitsPerByte
      <4>1. i * BitsPerByte \in Nat /\ (Bytes - framesUsed) * BitsPerByte \in Nat
        BY <2>2, <3>1, <1>1, ProductsOrdered
      <4>. QED BY <4>1, <2>1, <2>2
    <3>. QED BY <3>1, <3>2, <2>2, <1>1, ProductsOrdered
  <2>4. f \in Block(i * BitsPerByte, BitsPerByte)
    <3>1. (i + 1) * BitsPerByte = i * BitsPerByte + BitsPerByte /\ i * BitsPerByte \in Nat
      BY <2>2, <1>1, ProductsOrdered
    <3>. QED BY <3>1, <2>1, <2>2, <1>1 DEF Block
  <2>5. ~FullByte(i)
    BY <2>4 DEF FullByte
  <2>. DEFINE u == Bytes - 1 - i
  <2>6. u \in framesUsed .. (Bytes - 1) /\ Bytes - 1 - u = i
    BY <2>2, <2>3, <1>1
  <2>7. Skipped <= u
    BY <2>5, <2>6, <1>3
  <2>8. i + 1 <= Bytes - Skipped /\ Bytes - Skipped \in Nat
    BY <2>7, <2>2, <1>1, <1>4
  <2>9. (i + 1) * BitsPerByte <= (Bytes - Skipped) * BitsPerByte
    BY <2>8, <2>2, <1>1, ProductsOrdered
  <2>10. (i + 1) * BitsPerByte \in Nat /\ (Bytes - Skipped) * BitsPerByte \in Nat
    BY <2>8, <2>2, <1>1, ProductsOrdered
  <2>. QED BY <2>1, <2>2, <2>9, <2>10
<1>. QED BY <1>4, <1>5

\* The block that a search takes.
LEMMA TakenBlock ==
  ASSUME NEW n \in Nat \ {0}, NEW end \in Int, framesFree \subseteq Frame, Candidates(end, n) # {}
  PROVE  /\ Max(Candidates(end, n)) \in Nat \ {0} /\ Max(Candidates(end, n)) < end
         /\ Max(Candidates(end, n)) % n = 0
         /\ Block(Max(Candidates(end, n)), n) \subseteq framesFree
<1>. DEFINE C == Candidates(end, n)
<1>1. C \subseteq Nat \ {0} /\ \A f \in C : f <= end - 1 /\ f % n = 0 /\ Block(f, n) \subseteq framesFree
  BY DEF Candidates
<1>2. end - 1 \in Nat
  BY <1>1
<1>. HIDE DEF C
<1>3. Max(C) \in C
  BY <1>1, <1>2, MaxIs DEF C
<1>. QED BY <1>1, <1>3, <1>2 DEF C

\* Where a search with a limit of memory ends.
LEMMA SearchEndIs ==
  ASSUME FramesInv, NEW type \in DOMAIN Limit
  PROVE  /\ SearchEnd(type) \in Nat
         /\ SearchEnd(type) <= Limit[type] /\ SearchEnd(type) <= (Bytes - Skipped) * BitsPerByte
         /\ SearchEnd(type) = Limit[type] \/ SearchEnd(type) = (Bytes - Skipped) * BitsPerByte
<1>. DEFINE a == (Bytes - Skipped) * BitsPerByte
<1>1. a \in Nat
  <2>1. Bytes - Skipped \in Nat
    BY SkippedIsFull, LimitAssumption DEF FramesInv, FramesTyped
  <2>. QED BY <2>1, ProductsOrdered, LimitAssumption
<1>2. Limit[type] \in Nat
  BY LimitAssumption
<1>. HIDE DEF a
<1>3. Min({a, Limit[type]}) \in {a, Limit[type]} /\ \A x \in {a, Limit[type]} : Min({a, Limit[type]}) <= x
  <2>1. {a, Limit[type]} \subseteq Nat /\ {a, Limit[type]} # {}
    BY <1>1, <1>2
  <2>. QED BY <2>1, MinIs
<1>4. SearchEnd(type) = Min({a, Limit[type]})
  BY DEF SearchEnd, a
<1>. QED BY <1>1, <1>2, <1>3, <1>4 DEF a

\* A search keeps the invariant, whether it finds a block or not: no candidate
\* means no block below the limit, since nothing is free above the search.
LEMMA TakeKeeps ==
  ASSUME FramesInv, NEW end \in Nat, NEW order \in Orders,
         NEW type \in DOMAIN Limit \cup {"page"}, TakeBlock(end, order, <<type, order>>),
         \/ end = (Bytes - Skipped) * BitsPerByte
         \/ type # "page" /\ end = Limit[type]
  PROVE  FramesInv'
<1>. DEFINE n == Count(order)  C == Candidates(end, n)  f == Max(C)
<1>1. n \in Nat \ {0}
  BY LimitAssumption
<1>2. Skipped \in framesUsed .. Bytes /\ (\A g \in framesFree : g < (Bytes - Skipped) * BitsPerByte)
      /\ framesUsed \in 0 .. Bytes /\ framesFree \subseteq Frame
  BY SkippedIsFull DEF FramesInv, FramesTyped
<1>3. framesUsed' = Skipped /\ framesUsed' \in 0 .. Bytes /\ UNCHANGED <<bitmap, framesMap>>
  BY <1>2, LimitAssumption DEF TakeBlock
<1>4. CASE C = {}
  <2>1. failed' = <<type, order>> /\ UNCHANGED <<framesFree, owned>>
    BY <1>4 DEF TakeBlock
  <2>2. FramesTyped'
    BY <2>1, <1>3 DEF FramesInv, FramesTyped
  <2>3. FreeBelow'
    BY <2>1, <1>2, <1>3 DEF FreeBelow
  <2>4. BlocksApart'
    BY <2>1, <1>3 DEF FramesInv, BlocksApart, Kept, Fit, Given
  <2>5. FailsWhenFull'
    <3>1. SUFFICES ASSUME NEW g \in Frame \ {0}, g % n = 0, Block(g, n) \subseteq framesFree,
                          type # "page" => g + n <= Limit[type]
                   PROVE  FALSE
      BY <2>1 DEF FailsWhenFull
    <3>2. g \in Nat \ {0}
      BY LimitAssumption DEF Frame
    <3>3. g \in framesFree
      BY <1>1, <3>1, <3>2 DEF Block
    <3>4. g < end
      <4>1. CASE end = (Bytes - Skipped) * BitsPerByte
        BY <4>1, <3>3, <1>2
      <4>2. CASE type # "page" /\ end = Limit[type]
        BY <4>2, <3>1, <3>2, <1>1
      <4>. QED BY <4>1, <4>2
    <3>5. g \in 1 .. end - 1
      BY <3>2, <3>4
    <3>. QED BY <3>1, <3>5, <1>4 DEF Candidates
  <2>. QED BY <2>2, <2>3, <2>4, <2>5 DEF FramesInv
<1>5. CASE C # {}
  <2>1. framesFree' = framesFree \ Block(f, n) /\ owned' = owned \cup {<<f, order>>} /\ failed' = <<>>
    BY <1>5 DEF TakeBlock
  <2>2. f \in Nat \ {0} /\ f < end /\ f % n = 0 /\ Block(f, n) \subseteq framesFree
    BY <1>1, <1>2, <1>5, TakenBlock
  <2>. HIDE DEF f, C, n
  <2>3. f \in Block(f, n)
    BY <1>1, <2>2 DEF Block
  <2>4. <<f, order>> \in (Frame \ {0}) \X Orders
    BY <2>2, <2>3, <1>2
  <2>5. IsFiniteSet(owned')
    BY <2>1, FS_AddElement DEF FramesInv, FramesTyped
  <2>6. FramesTyped'
    BY <2>1, <2>4, <2>5, <1>2, <1>3 DEF FramesInv, FramesTyped
  <2>7. FreeBelow'
    BY <2>1, <1>2, <1>3 DEF FreeBelow
  <2>8. BlocksApart'
    <3>1. BlockOf(<<f, order>>) = Block(f, n)
      BY DEF BlockOf, n
    <3>2. Block(f, n) \subseteq Frame /\ Block(f, n) \cap Kept = {} /\ \A g \in Block(f, n) : Fit(g)
      BY <2>2, <1>2 DEF FramesInv, BlocksApart
    <3>3. \A b \in owned : BlockOf(b) \cap Block(f, n) = {}
      BY <2>2 DEF FramesInv, BlocksApart
    <3>4. Kept' = Kept /\ \A g : Fit(g)' <=> Fit(g)
      BY <1>3 DEF Kept, Fit, Given
    <3>5. \A b \in owned' : /\ BlockOf(b) \subseteq Frame
                            /\ BlockOf(b) \cap framesFree' = {} /\ BlockOf(b) \cap Kept = {}
                            /\ \A g \in BlockOf(b) : Fit(g)
      BY <2>1, <3>1, <3>2 DEF FramesInv, BlocksApart
    <3>6. \A b, c \in owned' : b # c => BlockOf(b) \cap BlockOf(c) = {}
      BY <2>1, <3>1, <3>3 DEF FramesInv, BlocksApart
    <3>7. framesFree' \cap Kept = {} /\ \A g \in framesFree' : Fit(g)
      BY <2>1 DEF FramesInv, BlocksApart
    <3>. QED BY <3>4, <3>5, <3>6, <3>7 DEF BlocksApart
  <2>9. FailsWhenFull'
    BY <2>1 DEF FailsWhenFull
  <2>. QED BY <2>6, <2>7, <2>8, <2>9 DEF FramesInv
<1>. QED BY <1>4, <1>5

\* The frames of a block that is freed lie below the count that is left.
LEMMA FreeKeeps ==
  ASSUME FramesInv, NEW b \in owned, FreePages(b[1], b[2])
  PROVE  FramesInv'
<1>. DEFINE f == b[1]  n == Count(b[2])
<1>1. b = <<f, b[2]>> /\ f \in Frame \ {0} /\ b[2] \in Orders
  BY DEF FramesInv, FramesTyped
<1>2. n \in Nat \ {0} /\ f \in Nat
  BY <1>1, LimitAssumption DEF Frame
<1>3. /\ framesFree' = framesFree \cup BlockOf(b) /\ framesUsed' = UsedAfter(f, n)
      /\ owned' = owned \ {b} /\ failed' = <<>> /\ UNCHANGED <<bitmap, framesMap>>
  BY <1>1 DEF FreePages, BlockOf
<1>4. BlockOf(b) \subseteq Frame /\ BlockOf(b) \cap Kept = {} /\ \A g \in BlockOf(b) : Fit(g)
  BY DEF FramesInv, BlocksApart
<1>. DEFINE last == f + n - 1  i == last \div BitsPerByte  k == Bytes - i - 1
<1>5. BlockOf(b) = f .. last
  BY DEF BlockOf, Block
<1>. HIDE DEF f, n
<1>6. last \in Nat /\ last \in Frame /\ last \in BlockOf(b)
  BY <1>2, <1>4, <1>5
<1>. HIDE DEF last
<1>7. i \in Nat /\ i * BitsPerByte <= last /\ last < (i + 1) * BitsPerByte
  BY <1>6, Quotient, LimitAssumption
<1>. HIDE DEF i
<1>8. i < Bytes
  <2>1. last < Bytes * BitsPerByte
    <3>1. BitsPerByte * Bytes = Bytes * BitsPerByte /\ BitsPerByte * Bytes \in Nat
      BY LimitAssumption
    <3>. QED BY <1>6, <3>1 DEF Frame
  <2>2. i * BitsPerByte \in Nat /\ Bytes * BitsPerByte \in Nat
    BY <1>7, ProductsOrdered, LimitAssumption
  <2>3. i * BitsPerByte < Bytes * BitsPerByte
    BY <2>1, <2>2, <1>6, <1>7
  <2>. QED BY <2>3, <1>7, ProductsOrdered, LimitAssumption
<1>9. k \in Nat /\ k <= Bytes /\ i + 1 = Bytes - k
  BY <1>7, <1>8, LimitAssumption
<1>. HIDE DEF k
<1>10. framesUsed \in 0 .. Bytes
  BY DEF FramesInv, FramesTyped
<1>11. framesUsed' = Min({framesUsed, k})
  BY <1>3 DEF UsedAfter, k, i, last
<1>12. framesUsed' \in 0 .. Bytes /\ framesUsed' <= framesUsed /\ framesUsed' <= k
  <2>1. {framesUsed, k} \subseteq Nat /\ {framesUsed, k} # {}
    BY <1>9, <1>10
  <2>2. Min({framesUsed, k}) \in {framesUsed, k} /\ \A x \in {framesUsed, k} : Min({framesUsed, k}) <= x
    BY <2>1, MinIs
  <2>. QED BY <2>2, <1>9, <1>10, <1>11
<1>13. FreeBelow'
  <2>. SUFFICES ASSUME NEW g \in framesFree' PROVE g < (Bytes - framesUsed') * BitsPerByte
    BY DEF FreeBelow
  <2>1. Bytes - framesUsed' \in Nat /\ Bytes - framesUsed \in Nat /\ Bytes - k \in Nat
        /\ Bytes - framesUsed <= Bytes - framesUsed' /\ Bytes - k <= Bytes - framesUsed'
    <3>1. Bytes \in Nat /\ framesUsed' \in Nat /\ framesUsed \in Nat /\ framesUsed <= Bytes /\ framesUsed' <= Bytes
      BY <1>10, <1>12, LimitAssumption
    <3>2. k \in Nat /\ k <= Bytes /\ framesUsed' <= framesUsed /\ framesUsed' <= k
      BY <1>9, <1>12
    <3>. DEFINE u == framesUsed  v == framesUsed'
    <3>3. u \in Nat /\ v \in Nat /\ u <= Bytes /\ v <= Bytes /\ v <= u /\ v <= k
      BY <3>1, <3>2
    <3>. HIDE DEF u, v
    <3>4. Bytes - v \in Nat /\ Bytes - u \in Nat /\ Bytes - k \in Nat
      BY <3>1, <3>2, <3>3
    <3>5. Bytes - u <= Bytes - v /\ Bytes - k <= Bytes - v
      BY <3>1, <3>2, <3>3
    <3>. QED BY <3>4, <3>5 DEF u, v
  <2>2. /\ (Bytes - framesUsed) * BitsPerByte <= (Bytes - framesUsed') * BitsPerByte
        /\ (Bytes - k) * BitsPerByte <= (Bytes - framesUsed') * BitsPerByte
    BY <2>1, ProductsOrdered, LimitAssumption
  <2>3. /\ (Bytes - framesUsed) * BitsPerByte \in Nat /\ (Bytes - framesUsed') * BitsPerByte \in Nat
        /\ (Bytes - k) * BitsPerByte \in Nat
    BY <2>1, ProductsOrdered, LimitAssumption
  <2>4. CASE g \in framesFree
    <3>1. g < (Bytes - framesUsed) * BitsPerByte /\ g \in Nat
      BY <2>4, LimitAssumption DEF FramesInv, FreeBelow, FramesTyped, Frame
    <3>. QED BY <3>1, <2>2, <2>3
  <2>5. CASE g \in BlockOf(b)
    <3>1. g \in Nat /\ g <= last
      BY <2>5, <1>5, <1>2, <1>6
    <3>2. last < (Bytes - k) * BitsPerByte
      BY <1>7, <1>9
    <3>. QED BY <3>1, <3>2, <2>2, <2>3, <1>6
  <2>. QED BY <2>4, <2>5, <1>3
<1>14. FramesTyped'
  <2>1. IsFiniteSet(owned')
    BY <1>3, FS_RemoveElement DEF FramesInv, FramesTyped
  <2>. QED BY <2>1, <1>3, <1>4, <1>12 DEF FramesInv, FramesTyped
<1>15. BlocksApart'
  <2>1. Kept' = Kept /\ \A g : Fit(g)' <=> Fit(g)
    BY <1>3 DEF Kept, Fit, Given
  <2>2. \A c \in owned' : /\ BlockOf(c) \subseteq Frame
                          /\ BlockOf(c) \cap framesFree' = {} /\ BlockOf(c) \cap Kept = {}
                          /\ \A g \in BlockOf(c) : Fit(g)
    BY <1>3 DEF FramesInv, BlocksApart
  <2>3. \A c, d \in owned' : c # d => BlockOf(c) \cap BlockOf(d) = {}
    BY <1>3 DEF FramesInv, BlocksApart
  <2>4. framesFree' \cap Kept = {} /\ \A g \in framesFree' : Fit(g)
    BY <1>3, <1>4 DEF FramesInv, BlocksApart
  <2>. QED BY <2>1, <2>2, <2>3, <2>4 DEF BlocksApart
<1>16. FailsWhenFull'
  BY <1>3 DEF FailsWhenFull
<1>. QED BY <1>13, <1>14, <1>15, <1>16 DEF FramesInv

\* Every function of mm.c keeps the invariant.
LEMMA FramesNext == FramesInv /\ MmNext => FramesInv'
<1>. SUFFICES ASSUME FramesInv, MmNext PROVE FramesInv'
  OBVIOUS
<1>1. Bytes - Skipped \in Nat
  BY SkippedIsFull, LimitAssumption DEF FramesInv, FramesTyped
<1>2. (Bytes - Skipped) * BitsPerByte \in Nat
  BY <1>1, ProductsOrdered, LimitAssumption
<1>3. CASE AllocPage
  BY <1>2, <1>3, TakeKeeps DEF AllocPage
<1>4. CASE \E type \in DOMAIN Limit, order \in Orders : AllocPages(type, order)
  <2>1. PICK type \in DOMAIN Limit, order \in Orders : AllocPages(type, order)
    BY <1>4
  <2>2. SearchEnd(type) \in Nat
        /\ (SearchEnd(type) = Limit[type] \/ SearchEnd(type) = (Bytes - Skipped) * BitsPerByte)
    BY SearchEndIs
  <2>3. type # "page"
    BY LimitAssumption
  <2>. QED BY <2>1, <2>2, <2>3, TakeKeeps DEF AllocPages
<1>5. CASE \E b \in owned : FreePages(b[1], b[2])
  BY <1>5, FreeKeeps
<1>. QED BY <1>3, <1>4, <1>5 DEF MmNext

\* The last frame of a block is below the limit, since both are aligned.
LEMMA FramesBelowLimit == FramesInv => BelowLimit
<1>. SUFFICES ASSUME FramesInv, NEW type \in DOMAIN Limit, NEW order \in Orders,
                     AllocPages(type, order), NEW b \in owned' \ owned
              PROVE  b[1] + Count(b[2]) <= Limit[type]
  BY DEF BelowLimit
<1>. DEFINE n == Count(order)  C == Candidates(SearchEnd(type), n)  f == Max(C)
<1>1. n \in Nat \ {0} /\ Limit[type] \in Nat
  BY LimitAssumption
<1>2. SearchEnd(type) \in Nat /\ SearchEnd(type) <= Limit[type]
  BY SearchEndIs
<1>3. C # {} /\ b = <<f, order>>
  BY DEF AllocPages, TakeBlock
<1>4. framesFree \subseteq Frame
  BY DEF FramesInv, FramesTyped
<1>5. f \in Nat \ {0} /\ f < SearchEnd(type) /\ f % n = 0 /\ Block(f, n) \subseteq framesFree
  BY <1>1, <1>2, <1>3, <1>4, TakenBlock
<1>. HIDE DEF f, C, n
<1>6. f < Limit[type]
  BY <1>1, <1>2, <1>5
<1>7. CASE Limit[type] % n = 0
  BY <1>1, <1>5, <1>6, <1>7, <1>3, MultiplesApart DEF n
<1>8. CASE Limit[type] <= n
  <2>1. f \in 1 .. n - 1
    BY <1>1, <1>5, <1>6, <1>8
  <2>2. f % n = f
    BY <2>1, <1>1
  <2>. QED BY <2>1, <2>2, <1>5
<1>9. CASE Limit[type] >= BitsPerByte * Bytes
  <2>1. f + n - 1 \in Block(f, n)
    BY <1>1, <1>5 DEF Block
  <2>2. f + n - 1 \in Frame
    BY <2>1, <1>4, <1>5
  <2>3. BitsPerByte * Bytes \in Nat
    BY LimitAssumption
  <2>4. f + n <= Limit[type]
    BY <2>2, <2>3, <1>1, <1>5, <1>9 DEF Frame
  <2>. QED BY <2>4, <1>3 DEF n
<1>. QED BY <1>7, <1>8, <1>9, LimitAssumption DEF n
-----------------------------------------------------------------------------
(***************************************************************************)
(* The queues of ACPICA.  acpios_events counts what is queued and what     *)
(* runs; a queue holds functions of its type in the order of their calls,  *)
(* all of them later than what has run or runs of that type.               *)
(***************************************************************************)
QueueTypes == {0, 1}
Ran == IF acpiRunning = 0 THEN 0 ELSE 1

\* Nothing of the type of n that is still queued was queued before it.
Earlier(n, q, ty) == \A i \in DOMAIN q[ty[n]] : n < q[ty[n]][i]

QueuesTyped ==
  /\ queue \in [QueueTypes -> Seq(Nat)]
  /\ acpiRunning \in Nat /\ acpiCalls \in Nat
  /\ types \in Seq(QueueTypes) /\ Len(types) = acpiCalls
  /\ done \in Seq(Nat)

QueuesOrdered ==
  /\ \A t \in QueueTypes : \A i \in DOMAIN queue[t] :
       /\ queue[t][i] \in 1 .. acpiCalls /\ types[queue[t][i]] = t
       /\ \A j \in DOMAIN queue[t] : i < j => queue[t][i] < queue[t][j]
  /\ acpiRunning # 0 => acpiRunning \in 1 .. acpiCalls /\ Earlier(acpiRunning, queue, types)
  /\ \A i \in DOMAIN done :
       /\ done[i] \in 1 .. acpiCalls /\ Earlier(done[i], queue, types)
       /\ acpiRunning # 0 /\ types[done[i]] = types[acpiRunning] => done[i] < acpiRunning

AcpiInv ==
  /\ QueuesTyped /\ QueuesOrdered /\ Services!InOrder
  /\ events = Len(queue[0]) + Len(queue[1]) + Ran
  /\ place = "run" <=> acpiRunning # 0

AcpiState == <<queue, events, acpiRunning, acpiCalls, done, types>>

LEMMA AcpiStays == AcpiInv /\ UNCHANGED AcpiState /\ (place' = "run" <=> place = "run") => AcpiInv'
BY DEF AcpiState, AcpiInv, QueuesTyped, QueuesOrdered, Services!InOrder, Ran, Earlier

LEMMA AcpiStart == Services!Init => AcpiInv
<1>. SUFFICES ASSUME Services!Init PROVE AcpiInv
  OBVIOUS
<1>1. queue = [t \in 0 .. 1 |-> <<>>] /\ events = 0 /\ acpiRunning = 0 /\ place = "notify"
      /\ acpiCalls = 0 /\ done = <<>> /\ types = <<>>
  BY DEF Services!Init, Services!Types
<1>2. 0 .. 1 = QueueTypes
  BY DEF QueueTypes
<1>3. QueuesTyped
  BY <1>1, <1>2 DEF QueuesTyped, QueueTypes
<1>4. \A t \in QueueTypes : queue[t] = <<>>
  BY <1>1, <1>2
<1>5. QueuesOrdered
  BY <1>1, <1>4 DEF QueuesOrdered
<1>6. Services!InOrder
  BY <1>1 DEF Services!InOrder
<1>7. events = Len(queue[0]) + Len(queue[1]) + Ran
  BY <1>1, <1>4 DEF Ran, QueueTypes
<1>. QED BY <1>1, <1>3, <1>5, <1>6, <1>7 DEF AcpiInv

\* Numbers whose sum is zero are.
LEMMA NothingCounted ==
  ASSUME NEW a \in Nat, NEW b \in Nat, NEW c \in Nat, a + b + c = 0
  PROVE  a = 0 /\ b = 0 /\ c = 0
OBVIOUS

\* The queue without its first function.
LEMMA HeadRemoved ==
  ASSUME NEW s \in Seq(Nat), s # <<>>
  PROVE  /\ Services!RemoveAt(s, 1) \in Seq(Nat)
         /\ Len(Services!RemoveAt(s, 1)) = Len(s) - 1
         /\ \A i \in DOMAIN Services!RemoveAt(s, 1) :
              /\ i \in Nat \ {0} /\ i + 1 \in DOMAIN s /\ Services!RemoveAt(s, 1)[i] = s[i + 1]
         /\ 1 \in DOMAIN s
<1>. DEFINE r == SubSeq(s, 2, Len(s))
<1>1. Len(s) \in Nat \ {0} /\ DOMAIN s = 1 .. Len(s) /\ 1 \in DOMAIN s
  OBVIOUS
<1>2. SubSeq(s, 1, 1 - 1) = <<>>
  OBVIOUS
<1>3. r \in Seq(Nat) /\ Len(r) = Len(s) - 1 /\ \A i \in 1 .. Len(r) : r[i] = s[i + 1]
  BY <1>1
<1>4. Services!RemoveAt(s, 1) = <<>> \o r
  BY <1>2 DEF Services!RemoveAt
<1>5. <<>> \o r = r
  BY <1>3
<1>6. DOMAIN r = 1 .. Len(r)
  BY <1>3
<1>7. \A i \in DOMAIN r : i \in Nat \ {0} /\ i + 1 \in DOMAIN s /\ r[i] = s[i + 1]
  BY <1>1, <1>3, <1>6
<1>. HIDE DEF r
<1>8. Services!RemoveAt(s, 1) = r
  BY <1>4, <1>5
<1>. QED BY <1>1, <1>3, <1>7, <1>8

\* A function is queued.
LEMMA ExecuteKeeps ==
  ASSUME AcpiInv, NEW u, NEW t \in QueueTypes, Services!Execute(u, t)
  PROVE  AcpiInv'
<1>1. CASE ~Services!Room(queue[t])
  BY <1>1, AcpiStays DEF Services!Execute, AcpiState
<1>2. CASE Services!Room(queue[t])
  <2>. DEFINE n == acpiCalls + 1
  <2>1. /\ queue' = [queue EXCEPT ![t] = Append(queue[t], n)] /\ events' = events + 1
        /\ acpiCalls' = n /\ types' = Append(types, t)
        /\ UNCHANGED <<acpiRunning, place, done>>
    BY <1>2 DEF Services!Execute, Services!Counted
  <2>2. QueuesTyped /\ acpiCalls \in Nat /\ n \in Nat /\ queue[t] \in Seq(Nat) /\ Len(types) = acpiCalls
        /\ types \in Seq(QueueTypes)
    BY DEF AcpiInv, QueuesTyped
  <2>3. QueuesTyped'
    <3>1. queue' \in [QueueTypes -> Seq(Nat)]
      BY <2>1, <2>2 DEF QueuesTyped
    <3>2. types' \in Seq(QueueTypes) /\ Len(types') = acpiCalls'
      BY <2>1, <2>2
    <3>. QED BY <3>1, <3>2, <2>1, <2>2 DEF QueuesTyped
  <2>4. types'[n] = t /\ \A k \in 1 .. acpiCalls : types'[k] = types[k]
    BY <2>1, <2>2
  <2>5. queue'[t] = Append(queue[t], n) /\ \A v \in QueueTypes : v # t => queue'[v] = queue[v]
    BY <2>1, <2>2 DEF QueuesTyped
  <2>6. DOMAIN queue'[t] = DOMAIN queue[t] \cup {Len(queue[t]) + 1} /\ DOMAIN queue[t] = 1 .. Len(queue[t])
        /\ queue'[t][Len(queue[t]) + 1] = n /\ \A i \in DOMAIN queue[t] : queue'[t][i] = queue[t][i]
    <3>. DEFINE q == queue[t]
    <3>. HIDE DEF q, n
    <3>1. q \in Seq(Nat) /\ n \in Nat
      BY <2>2 DEF q
    <3>2. /\ DOMAIN Append(q, n) = DOMAIN q \cup {Len(q) + 1} /\ DOMAIN q = 1 .. Len(q)
          /\ Append(q, n)[Len(q) + 1] = n /\ \A i \in DOMAIN q : Append(q, n)[i] = q[i]
      BY <3>1
    <3>3. queue'[t] = Append(q, n)
      BY <2>5 DEF q
    <3>. QED BY <3>2, <3>3 DEF q
  <2>7. ASSUME NEW v \in QueueTypes, NEW i \in DOMAIN queue'[v]
        PROVE  /\ queue'[v][i] \in 1 .. acpiCalls' /\ types'[queue'[v][i]] = v
               /\ \A j \in DOMAIN queue'[v] : i < j => queue'[v][i] < queue'[v][j]
    <3>1. CASE v # t
      <4>1. queue'[v] = queue[v]
        BY <3>1, <2>5
      <4>2. /\ queue[v][i] \in 1 .. acpiCalls /\ types[queue[v][i]] = v
            /\ \A j \in DOMAIN queue[v] : i < j => queue[v][i] < queue[v][j]
        BY <4>1, <2>7 DEF AcpiInv, QueuesOrdered
      <4>3. queue[v][i] \in 1 .. n
        BY <4>2, <2>2
      <4>. QED BY <4>1, <4>2, <4>3, <2>1, <2>4
    <3>2. CASE v = t
      <4>1. \A j \in DOMAIN queue[t] : queue[t][j] \in 1 .. acpiCalls /\ types[queue[t][j]] = t
            /\ \A k \in DOMAIN queue[t] : j < k => queue[t][j] < queue[t][k]
        BY DEF AcpiInv, QueuesOrdered
      <4>2. \A j \in DOMAIN queue[t] : queue[t][j] < n
        BY <4>1, <2>2
      <4>3. CASE i = Len(queue[t]) + 1
        <5>1. \A j \in DOMAIN queue'[t] : ~(i < j)
          BY <4>3, <2>6, <2>2
        <5>. QED BY <4>3, <5>1, <3>2, <2>1, <2>2, <2>4, <2>6
      <4>4. CASE i \in DOMAIN queue[t]
        <5>1. queue'[t][i] = queue[t][i] /\ queue[t][i] \in 1 .. n
          BY <4>4, <4>1, <2>6, <2>2
        <5>2. types'[queue[t][i]] = t
          BY <4>4, <4>1, <2>4
        <5>3. \A j \in DOMAIN queue'[t] : i < j => queue[t][i] < queue'[t][j]
          BY <4>4, <4>1, <4>2, <2>6
        <5>. QED BY <5>1, <5>2, <5>3, <3>2, <2>1
      <4>. QED BY <4>3, <4>4, <3>2, <2>6, <2>7
    <3>. QED BY <3>1, <3>2
  <2>8. \A k \in 1 .. acpiCalls : Earlier(k, queue, types) => Earlier(k, queue', types')
    <3>. SUFFICES ASSUME NEW k \in 1 .. acpiCalls, Earlier(k, queue, types),
                         NEW i \in DOMAIN queue'[types'[k]]
                  PROVE  k < queue'[types'[k]][i]
      BY DEF Earlier
    <3>1. types'[k] = types[k] /\ types[k] \in QueueTypes
      BY <2>2, <2>4
    <3>2. CASE types[k] # t
      BY <3>1, <3>2, <2>5 DEF Earlier
    <3>3. CASE types[k] = t
      <4>1. CASE i = Len(queue[t]) + 1
        BY <4>1, <3>1, <3>3, <2>6, <2>2
      <4>2. CASE i \in DOMAIN queue[t]
        BY <4>2, <3>1, <3>3, <2>6 DEF Earlier
      <4>. QED BY <4>1, <4>2, <3>1, <3>3, <2>6
    <3>. QED BY <3>2, <3>3
  <2>9. QueuesOrdered'
    <3>1. \A k \in 1 .. acpiCalls : k \in 1 .. acpiCalls'
      BY <2>1, <2>2
    <3>2. acpiRunning' # 0 => acpiRunning' \in 1 .. acpiCalls' /\ Earlier(acpiRunning', queue', types')
      BY <2>1, <2>8, <3>1 DEF AcpiInv, QueuesOrdered, Earlier
    <3>3. ASSUME NEW i \in DOMAIN done'
          PROVE  /\ done'[i] \in 1 .. acpiCalls' /\ Earlier(done'[i], queue', types')
                 /\ acpiRunning' # 0 /\ types'[done'[i]] = types'[acpiRunning'] => done'[i] < acpiRunning'
      <4>1. /\ done[i] \in 1 .. acpiCalls /\ Earlier(done[i], queue, types)
            /\ acpiRunning # 0 /\ types[done[i]] = types[acpiRunning] => done[i] < acpiRunning
            /\ acpiRunning # 0 => acpiRunning \in 1 .. acpiCalls
        BY <3>3, <2>1 DEF AcpiInv, QueuesOrdered
      <4>2. done' = done /\ acpiRunning' = acpiRunning
        BY <2>1
      <4>3. Earlier(done[i], queue', types')
        <5>. DEFINE d == done[i]
        <5>1. d \in 1 .. acpiCalls /\ Earlier(d, queue, types)
          BY <4>1
        <5>2. \A j \in DOMAIN queue'[types'[d]] : d < queue'[types'[d]][j]
          BY <5>1, <2>8 DEF Earlier
        <5>. QED BY <5>2, <4>2 DEF Earlier
      <4>. QED BY <4>1, <4>2, <4>3, <3>1, <2>4 DEF Earlier
    <3>. QED BY <2>7, <3>2, <3>3 DEF QueuesOrdered
  <2>10. Services!InOrder'
    <3>1. \A i \in DOMAIN done : done[i] \in 1 .. acpiCalls
      BY DEF AcpiInv, QueuesOrdered
    <3>2. \A i, j \in DOMAIN done : i < j /\ types[done[i]] = types[done[j]] => done[i] < done[j]
      BY DEF AcpiInv, Services!InOrder
    <3>3. \A i, j \in DOMAIN done : i < j /\ types'[done[i]] = types'[done[j]] => done[i] < done[j]
      BY <3>1, <3>2, <2>4
    <3>. QED BY <3>3, <2>1 DEF Services!InOrder
  <2>11. events' = Len(queue'[0]) + Len(queue'[1]) + Ran'
    <3>1. Len(queue'[t]) = Len(queue[t]) + 1
      BY <2>2, <2>5
    <3>2. Len(queue[0]) \in Nat /\ Len(queue[1]) \in Nat /\ Ran \in Nat /\ Ran' = Ran
      BY <2>1, <2>2 DEF QueuesTyped, QueueTypes, Ran
    <3>3. events = Len(queue[0]) + Len(queue[1]) + Ran
      BY DEF AcpiInv
    <3>4. \/ Len(queue'[0]) = Len(queue[0]) + 1 /\ Len(queue'[1]) = Len(queue[1])
          \/ Len(queue'[1]) = Len(queue[1]) + 1 /\ Len(queue'[0]) = Len(queue[0])
      BY <3>1, <2>5 DEF QueueTypes
    <3>. DEFINE a == Len(queue[0])  b == Len(queue[1])  c == Ran
    <3>7. Ran' = c /\ c \in Nat
      BY <3>2
    <3>5. a \in Nat /\ b \in Nat /\ events = a + b + c
      BY <3>2, <3>3
    <3>. HIDE DEF a, b, c
    <3>6. \/ Len(queue'[0]) = a + 1 /\ Len(queue'[1]) = b
          \/ Len(queue'[1]) = b + 1 /\ Len(queue'[0]) = a
      BY <3>4 DEF a, b
    <3>8. events' = a + b + c + 1
      BY <3>5, <3>7, <2>1
    <3>. DEFINE x == Len(queue'[0])  y == Len(queue'[1])  e == events'
    <3>10. (x = a + 1 /\ y = b) \/ (y = b + 1 /\ x = a)
      BY <3>6
    <3>11. e = a + b + c + 1
      BY <3>8
    <3>. HIDE DEF x, y, e
    <3>12. e = x + y + c
      BY <3>5, <3>7, <3>10, <3>11
    <3>9. events' = Len(queue'[0]) + Len(queue'[1]) + c
      BY <3>12 DEF x, y, e
    <3>. QED BY <3>7, <3>9
  <2>. QED BY <2>1, <2>3, <2>9, <2>10, <2>11 DEF AcpiInv
<1>. QED BY <1>1, <1>2

\* The task takes the first function of a queue.
LEMMA TakeFunctionKeeps ==
  ASSUME AcpiInv, Services!Take, queue[Services!Scan] # <<>>
  PROVE  AcpiInv'
<1>1. PICK t \in QueueTypes : /\ queue[t] # <<>> /\ acpiRunning' = queue[t][1]
                              /\ queue' = [queue EXCEPT ![t] = Services!RemoveAt(queue[t], 1)]
  <2>. DEFINE t == Services!Scan
  <2>1. /\ acpiRunning' = queue[t][Services!NextOf(queue[t])]
        /\ queue' = [queue EXCEPT ![t] = Services!RemoveAt(queue[t], Services!NextOf(queue[t]))]
    BY DEF Services!Take
  <2>2. t \in QueueTypes
    BY DEF Services!Scan, QueueTypes
  <2>3. Services!NextOf(queue[t]) = 1
    BY DEF Services!NextOf
  <2>. QED BY <2>1, <2>2, <2>3
<1>. DEFINE n == queue[t][1]  r == Services!RemoveAt(queue[t], 1)
<1>2. place # "run" /\ place' = "run" /\ UNCHANGED <<events, acpiCalls, done, types>>
  BY DEF Services!Take
<1>3. acpiRunning = 0 /\ QueuesTyped /\ queue[t] \in Seq(Nat)
  BY <1>2 DEF AcpiInv, QueuesTyped
<1>4. r \in Seq(Nat) /\ Len(r) = Len(queue[t]) - 1 /\ 1 \in DOMAIN queue[t]
      /\ \A i \in DOMAIN r : i \in Nat \ {0} /\ i + 1 \in DOMAIN queue[t] /\ r[i] = queue[t][i + 1]
  BY <1>1, <1>3, HeadRemoved
<1>. HIDE DEF r
<1>5. queue'[t] = r /\ \A v \in QueueTypes : v # t => queue'[v] = queue[v]
  BY <1>1, <1>3 DEF QueuesTyped, r
<1>6. DOMAIN queue[t] = 1 .. Len(queue[t]) /\ Len(queue[t]) \in Nat
  BY <1>3
<1>7. n \in 1 .. acpiCalls /\ types[n] = t /\ \A j \in DOMAIN queue[t] : 1 < j => n < queue[t][j]
  BY <1>4 DEF AcpiInv, QueuesOrdered
<1>8. acpiCalls \in Nat /\ n \in Nat \ {0} /\ acpiRunning' = n
  BY <1>1, <1>3, <1>7 DEF QueuesTyped
<1>. HIDE DEF n
<1>9. QueuesTyped'
  BY <1>1, <1>2, <1>3, <1>4, <1>8 DEF QueuesTyped, r
<1>10. ASSUME NEW v \in QueueTypes, NEW i \in DOMAIN queue'[v]
       PROVE  /\ queue'[v][i] \in 1 .. acpiCalls /\ types[queue'[v][i]] = v
              /\ \A j \in DOMAIN queue'[v] : i < j => queue'[v][i] < queue'[v][j]
              /\ v = t => n < queue'[v][i]
              /\ \E k \in DOMAIN queue[v] : queue'[v][i] = queue[v][k]
  <2>0. \A k \in DOMAIN queue[v] :
          /\ queue[v][k] \in 1 .. acpiCalls /\ types[queue[v][k]] = v
          /\ \A j \in DOMAIN queue[v] : k < j => queue[v][k] < queue[v][j]
    BY DEF AcpiInv, QueuesOrdered
  <2>1. CASE v # t
    BY <2>0, <2>1, <1>5, <1>10
  <2>2. CASE v = t
    <3>1. i \in Nat \ {0} /\ i + 1 \in DOMAIN queue[t] /\ queue'[v][i] = queue[t][i + 1]
      BY <2>2, <1>4, <1>5, <1>10
    <3>2. 1 < i + 1
      BY <3>1, <1>6
    <3>3. \A j \in DOMAIN queue'[v] : i < j => queue'[v][i] < queue'[v][j]
      <4>. SUFFICES ASSUME NEW j \in DOMAIN queue'[v], i < j PROVE queue'[v][i] < queue'[v][j]
        OBVIOUS
      <4>1. j \in Nat /\ j + 1 \in DOMAIN queue[t] /\ queue'[v][j] = queue[t][j + 1]
        BY <2>2, <1>4, <1>5
      <4>2. i + 1 < j + 1
        BY <3>1, <4>1
      <4>. QED BY <4>1, <4>2, <3>1, <2>0, <2>2
    <3>. QED BY <3>1, <3>2, <3>3, <2>0, <2>2, <1>7
  <2>. QED BY <2>1, <2>2
<1>11. Earlier(n, queue', types')
  BY <1>2, <1>7, <1>10 DEF Earlier
<1>12. ASSUME NEW i \in DOMAIN done
       PROVE  /\ done[i] \in 1 .. acpiCalls /\ Earlier(done[i], queue', types')
              /\ types[done[i]] = types[n] => done[i] < n
  <2>1. done[i] \in 1 .. acpiCalls /\ Earlier(done[i], queue, types)
    BY DEF AcpiInv, QueuesOrdered
  <2>2. types[done[i]] \in QueueTypes
    BY <2>1, <1>3 DEF QueuesTyped
  <2>3. \A j \in DOMAIN queue'[types[done[i]]] : done[i] < queue'[types[done[i]]][j]
    BY <2>1, <2>2, <1>10 DEF Earlier
  <2>4. types[done[i]] = types[n] => done[i] < n
    BY <2>1, <1>4, <1>7 DEF Earlier, n
  <2>. QED BY <2>1, <2>3, <2>4, <1>2 DEF Earlier
<1>13. QueuesOrdered'
  <2>1. acpiRunning' # 0 => acpiRunning' \in 1 .. acpiCalls' /\ Earlier(acpiRunning', queue', types')
    BY <1>2, <1>7, <1>8, <1>11 DEF Earlier
  <2>2. \A i \in DOMAIN done' :
          /\ done'[i] \in 1 .. acpiCalls' /\ Earlier(done'[i], queue', types')
          /\ acpiRunning' # 0 /\ types'[done'[i]] = types'[acpiRunning'] => done'[i] < acpiRunning'
    BY <1>2, <1>8, <1>12 DEF Earlier
  <2>3. \A v \in QueueTypes : \A i \in DOMAIN queue'[v] :
          /\ queue'[v][i] \in 1 .. acpiCalls' /\ types'[queue'[v][i]] = v
          /\ \A j \in DOMAIN queue'[v] : i < j => queue'[v][i] < queue'[v][j]
    BY <1>2, <1>10
  <2>. QED BY <2>1, <2>2, <2>3 DEF QueuesOrdered
<1>14. Services!InOrder'
  BY <1>2 DEF AcpiInv, Services!InOrder
<1>15. events' = Len(queue'[0]) + Len(queue'[1]) + Ran'
  <2>1. Len(queue[0]) \in Nat /\ Len(queue[1]) \in Nat /\ Ran = 0 /\ Ran' = 1
    BY <1>3, <1>8 DEF QueuesTyped, QueueTypes, Ran
  <2>2. events = Len(queue[0]) + Len(queue[1]) + Ran
    BY DEF AcpiInv
  <2>3. \/ Len(queue'[0]) = Len(queue[0]) - 1 /\ Len(queue'[1]) = Len(queue[1])
        \/ Len(queue'[1]) = Len(queue[1]) - 1 /\ Len(queue'[0]) = Len(queue[0])
    BY <1>4, <1>5 DEF QueueTypes
  <2>. DEFINE a == Len(queue[0])  b == Len(queue[1])
  <2>. HIDE DEF a, b
  <2>4. a \in Nat /\ b \in Nat /\ events = a + b
    BY <2>1, <2>2 DEF a, b
  <2>5. \/ Len(queue'[0]) = a - 1 /\ Len(queue'[1]) = b
        \/ Len(queue'[1]) = b - 1 /\ Len(queue'[0]) = a
    BY <2>3 DEF a, b
  <2>6. events' = a + b
    BY <2>4, <1>2
  <2>. DEFINE x == Len(queue'[0])  y == Len(queue'[1])
  <2>8. (x = a - 1 /\ y = b) \/ (y = b - 1 /\ x = a)
    BY <2>5
  <2>. HIDE DEF x, y
  <2>9. a + b = x + y + 1
    BY <2>4, <2>8
  <2>7. a + b = Len(queue'[0]) + Len(queue'[1]) + 1
    BY <2>9 DEF x, y
  <2>. QED BY <2>1, <2>6, <2>7
<1>16. place' = "run" <=> acpiRunning' # 0
  BY <1>2, <1>8
<1>. QED BY <1>9, <1>13, <1>14, <1>15, <1>16 DEF AcpiInv

\* A function has run.
LEMMA ReturnKeeps ==
  ASSUME AcpiInv, Services!Return
  PROVE  AcpiInv'
<1>1. /\ place = "run" /\ place' = "notify" /\ acpiRunning' = 0 /\ events' = events - 1
      /\ done' = Append(done, acpiRunning) /\ UNCHANGED <<queue, acpiCalls, types>>
  BY DEF Services!Return, Services!NewRound
<1>. DEFINE n == acpiRunning  k == Len(done) + 1
<1>2. n # 0 /\ n \in 1 .. acpiCalls /\ Earlier(n, queue, types) /\ QueuesTyped /\ done \in Seq(Nat) /\ n \in Nat
  BY <1>1 DEF AcpiInv, QueuesOrdered, QueuesTyped
<1>3. QueuesTyped'
  BY <1>1, <1>2 DEF QueuesTyped
<1>4. DOMAIN done' = DOMAIN done \cup {k} /\ DOMAIN done = 1 .. Len(done) /\ done'[k] = n
      /\ (\A i \in DOMAIN done : done'[i] = done[i]) /\ Len(done) \in Nat
  BY <1>1, <1>2
<1>5. \A i \in DOMAIN done : /\ done[i] \in 1 .. acpiCalls /\ Earlier(done[i], queue, types)
                             /\ types[done[i]] = types[n] => done[i] < n
  BY <1>2 DEF AcpiInv, QueuesOrdered
<1>6. \A m : Earlier(m, queue', types') <=> Earlier(m, queue, types)
  BY <1>1 DEF Earlier
<1>7. QueuesOrdered'
  <2>1. \A t \in QueueTypes : \A i \in DOMAIN queue'[t] :
          /\ queue'[t][i] \in 1 .. acpiCalls' /\ types'[queue'[t][i]] = t
          /\ \A j \in DOMAIN queue'[t] : i < j => queue'[t][i] < queue'[t][j]
    BY <1>1 DEF AcpiInv, QueuesOrdered
  <2>2. \A i \in DOMAIN done' : done'[i] \in 1 .. acpiCalls' /\ Earlier(done'[i], queue', types')
    <3>. SUFFICES ASSUME NEW i \in DOMAIN done' PROVE done'[i] \in 1 .. acpiCalls' /\ Earlier(done'[i], queue', types')
      OBVIOUS
    <3>1. done'[i] \in 1 .. acpiCalls /\ Earlier(done'[i], queue, types)
      BY <1>2, <1>4, <1>5
    <3>. QED BY <3>1, <1>1 DEF Earlier
  <2>. QED BY <1>1, <2>1, <2>2 DEF QueuesOrdered
<1>8. Services!InOrder'
  <2>1. \A i, j \in DOMAIN done : i < j /\ types[done[i]] = types[done[j]] => done[i] < done[j]
    BY DEF AcpiInv, Services!InOrder
  <2>2. \A i \in DOMAIN done : i < k
    BY <1>4
  <2>3. \A i, j \in DOMAIN done' : i < j /\ types[done'[i]] = types[done'[j]] => done'[i] < done'[j]
    <3>. SUFFICES ASSUME NEW i \in DOMAIN done', NEW j \in DOMAIN done', i < j,
                         types[done'[i]] = types[done'[j]]
                  PROVE  done'[i] < done'[j]
      OBVIOUS
    <3>1. i \in DOMAIN done
      BY <1>4, <2>2
    <3>2. CASE j = k
      BY <3>1, <3>2, <1>4, <1>5
    <3>3. CASE j \in DOMAIN done
      BY <3>1, <3>3, <1>4, <2>1
    <3>. QED BY <3>2, <3>3, <1>4
  <2>. QED BY <2>3, <1>1 DEF Services!InOrder
<1>9. events' = Len(queue'[0]) + Len(queue'[1]) + Ran'
  <2>1. Len(queue[0]) \in Nat /\ Len(queue[1]) \in Nat /\ Ran = 1 /\ Ran' = 0
    BY <1>1, <1>2 DEF QueuesTyped, QueueTypes, Ran
  <2>. QED BY <2>1, <1>1 DEF AcpiInv
<1>. QED BY <1>1, <1>3, <1>7, <1>8, <1>9 DEF AcpiInv

\* Every step of ACPICA and of the task of the queues keeps the invariant.
LEMMA AcpiNext == AcpiInv /\ Services!Next => AcpiInv'
<1>. SUFFICES ASSUME AcpiInv, Services!Next PROVE AcpiInv'
  OBVIOUS
<1>1. CASE \E u \in AcpiTasks : \E t \in Services!Types : Services!Execute(u, t)
  BY <1>1, ExecuteKeeps DEF Services!Types, QueueTypes
<1>2. CASE Services!Take
  <2>1. CASE queue[Services!Scan] # <<>>
    BY <1>2, <2>1, TakeFunctionKeeps
  <2>2. CASE queue[Services!Scan] = <<>>
    <3>1. UNCHANGED AcpiState /\ place # "run" /\ place' # "run"
      BY <1>2, <2>2 DEF Services!Take, AcpiState
    <3>. QED BY <3>1, AcpiStays
  <2>. QED BY <2>1, <2>2
<1>3. CASE Services!Return
  BY <1>3, ReturnKeeps
<1>4. CASE Services!FunctionWait \/ Services!ReadStatus \/ Services!Off
  <2>1. UNCHANGED AcpiState /\ (place' = "run" <=> place = "run")
    BY <1>4 DEF Services!FunctionWait, Services!ReadStatus, Services!Off, Services!NewRound, AcpiState
  <2>. QED BY <2>1, AcpiStays
<1>5. CASE \E u \in AcpiTasks :
             \/ Services!WaitEvents(u) \/ Services!EventsComplete(u)
             \/ Services!WaitSemaphore(u) \/ Services!TimeOut(u) \/ Services!Signal(u)
             \/ \E n \in 1 .. SemaphoreUnits : Services!GetUnits(u, n)
             \/ \E s \in {1, 3} : Services!Shutdown(u, s)
  <2>1. UNCHANGED <<AcpiState, place>>
    BY <1>5 DEF Services!WaitEvents, Services!EventsComplete, Services!WaitSemaphore,
                Services!TimeOut, Services!Signal, Services!GetUnits, Services!Shutdown, AcpiState
  <2>. QED BY <2>1, AcpiStays
<1>. QED BY <1>1, <1>2, <1>3, <1>4, <1>5 DEF Services!Next

\* Nothing is counted when AcpiOsWaitEventsComplete returns.
LEMMA AcpiComplete == AcpiInv => Services!CompleteIsComplete
<1>. SUFFICES ASSUME AcpiInv, NEW u \in AcpiTasks, Services!EventsComplete(u)
              PROVE  acpiRunning = 0 /\ \A t \in Services!Types : queue[t] = <<>>
  BY DEF Services!CompleteIsComplete
<1>1. events = 0
  BY DEF Services!EventsComplete
<1>2. queue[0] \in Seq(Nat) /\ queue[1] \in Seq(Nat) /\ acpiRunning \in Nat
  BY DEF AcpiInv, QueuesTyped, QueueTypes
<1>3. Len(queue[0]) \in Nat /\ Len(queue[1]) \in Nat /\ Ran \in Nat
  BY <1>2 DEF Ran
<1>4. Len(queue[0]) = 0 /\ Len(queue[1]) = 0 /\ Ran = 0
  <2>1. Len(queue[0]) + Len(queue[1]) + Ran = 0
    BY <1>1 DEF AcpiInv
  <2>. DEFINE a == Len(queue[0])  b == Len(queue[1])  c == Ran
  <2>2. a + b + c = 0 /\ a \in Nat /\ b \in Nat /\ c \in Nat
    BY <2>1, <1>3
  <2>. HIDE DEF a, b, c
  <2>3. a = 0 /\ b = 0 /\ c = 0
    BY <2>2
  <2>. QED BY <2>3 DEF a, b, c
<1>5. queue[0] = <<>> /\ queue[1] = <<>>
  BY <1>2, <1>4
<1>6. acpiRunning = 0
  BY <1>4, <1>2 DEF Ran
<1>7. Services!Types = {0, 1}
  BY DEF Services!Types
<1>. QED BY <1>5, <1>6, <1>7

\* Every function of the queue came after the round had begun.
Newer(q) == \A i \in DOMAIN q : q[i] > begun

\* What a round has found out: the queue it has passed holds only newer functions.
RoundInv ==
  /\ begun \in Nat /\ begun <= acpiCalls
  /\ place = "other" => Newer(queue[0])
  /\ place \in {"status", "prepare", "finish", "reset"} => Newer(queue[0]) /\ Newer(queue[1])

LEMMA RoundStart == Services!Init => RoundInv
BY DEF Services!Init, RoundInv

\* A function that is queued is newer than the round.
LEMMA ExecuteKeepsRound ==
  ASSUME AcpiInv, RoundInv, NEW u, NEW t \in QueueTypes, Services!Execute(u, t)
  PROVE  RoundInv'
<1>1. CASE ~Services!Room(queue[t])
  BY <1>1 DEF Services!Execute, RoundInv, Newer
<1>2. CASE Services!Room(queue[t])
  <2>. DEFINE n == acpiCalls + 1
  <2>1. /\ queue' = [queue EXCEPT ![t] = Append(queue[t], n)] /\ acpiCalls' = n
        /\ UNCHANGED <<place, begun>>
    BY <1>2 DEF Services!Execute
  <2>2. queue \in [QueueTypes -> Seq(Nat)] /\ acpiCalls \in Nat /\ begun \in Nat /\ begun <= acpiCalls
    BY DEF AcpiInv, QueuesTyped, RoundInv
  <2>3. n > begun /\ n \in Nat
    BY <2>2
  <2>4. ASSUME NEW v \in QueueTypes, Newer(queue[v])
        PROVE  Newer(queue[v])'
    <3>1. CASE v # t
      BY <3>1, <2>1, <2>2, <2>4 DEF Newer
    <3>2. CASE v = t
      <4>1. queue'[v] = Append(queue[v], n) /\ queue[v] \in Seq(Nat)
        BY <3>2, <2>1, <2>2
      <4>. HIDE DEF n
      <4>2. \A i \in DOMAIN Append(queue[v], n) : Append(queue[v], n)[i] = n \/ (i \in DOMAIN queue[v] /\ Append(queue[v], n)[i] = queue[v][i])
        BY <4>1, <2>3
      <4>. QED BY <4>1, <4>2, <2>1, <2>3, <2>4 DEF Newer
    <3>. QED BY <3>1, <3>2
  <2>5. 0 \in QueueTypes /\ 1 \in QueueTypes
    BY DEF QueueTypes
  <2>6. begun' \in Nat /\ begun' <= acpiCalls'
    BY <2>1, <2>2
  <2>. QED BY <2>1, <2>4, <2>5, <2>6 DEF RoundInv
<1>. QED BY <1>1, <1>2

\* Every step keeps what the round has found out.
LEMMA RoundNext == AcpiInv /\ RoundInv /\ Services!Next => RoundInv'
<1>. SUFFICES ASSUME AcpiInv, RoundInv, Services!Next PROVE RoundInv'
  OBVIOUS
<1>0. acpiCalls \in Nat
  BY DEF AcpiInv, QueuesTyped
<1>1. CASE \E u \in AcpiTasks : \E t \in Services!Types : Services!Execute(u, t)
  BY <1>1, ExecuteKeepsRound DEF Services!Types, QueueTypes
<1>2. CASE Services!Take
  <2>1. CASE queue[Services!Scan] # <<>>
    BY <1>2, <2>1 DEF Services!Take, RoundInv
  <2>2. CASE queue[Services!Scan] = <<>>
    <3>1. /\ UNCHANGED <<queue, begun, acpiCalls>>
          /\ \/ place = "notify" /\ place' = "other" /\ queue[0] = <<>>
             \/ place = "other" /\ place' = "status" /\ queue[1] = <<>>
      BY <1>2, <2>2 DEF Services!Take, Services!Scan
    <3>2. Newer(<<>>)'
      BY DEF Newer
    <3>3. Newer(queue[0]) => Newer(queue[0])'
      BY <3>1 DEF Newer
    <3>. QED BY <3>1, <3>2, <3>3 DEF RoundInv
  <2>. QED BY <2>1, <2>2
<1>3. CASE Services!Return
  BY <1>0, <1>3 DEF Services!Return, Services!NewRound, RoundInv
<1>4. CASE Services!FunctionWait
  BY <1>4 DEF Services!FunctionWait, RoundInv, Newer
<1>5. CASE Services!ReadStatus
  <2>1. UNCHANGED <<queue, acpiCalls>> /\ place = "status"
    BY <1>5 DEF Services!ReadStatus
  <2>2. \/ place' = "notify" /\ begun' = acpiCalls
        \/ begun' = begun /\ place' # "other"
    BY <1>5 DEF Services!ReadStatus, Services!NewRound
  <2>. QED BY <1>0, <2>1, <2>2 DEF RoundInv, Newer
<1>6. CASE Services!Off
  BY <1>0, <1>6 DEF Services!Off, Services!NewRound, RoundInv, Newer
<1>7. CASE \E u \in AcpiTasks :
             \/ Services!WaitEvents(u) \/ Services!EventsComplete(u)
             \/ Services!WaitSemaphore(u) \/ Services!TimeOut(u) \/ Services!Signal(u)
             \/ \E n \in 1 .. SemaphoreUnits : Services!GetUnits(u, n)
             \/ \E s \in {1, 3} : Services!Shutdown(u, s)
  <2>1. UNCHANGED <<queue, acpiCalls, place, begun>>
    BY <1>7 DEF Services!WaitEvents, Services!EventsComplete, Services!WaitSemaphore,
                Services!TimeOut, Services!Signal, Services!GetUnits, Services!Shutdown
  <2>. QED BY <2>1 DEF RoundInv, Newer
<1>. QED BY <1>1, <1>2, <1>3, <1>4, <1>5, <1>6, <1>7 DEF Services!Next

\* The second queue is looked at after the first one was empty.
LEMMA AcpiNotify == AcpiInv /\ RoundInv /\ [Services!Next]_acpiVars => Services!NotifyFirst
<1>. SUFFICES ASSUME AcpiInv, RoundInv, [Services!Next]_acpiVars, acpiRunning = 0, acpiRunning' # 0,
                     types[acpiRunning'] = 1
              PROVE  \A i \in DOMAIN queue[0] : queue[0][i] > begun
  BY DEF Services!NotifyFirst
<1>1. Services!Take
  BY DEF Services!Next, acpiVars, Services!Execute, Services!WaitEvents, Services!EventsComplete,
         Services!WaitSemaphore, Services!TimeOut, Services!Signal, Services!GetUnits, Services!ReadStatus,
         Services!Shutdown, Services!FunctionWait, Services!Off, Services!Return
<1>. DEFINE t == Services!Scan
<1>2. queue[t] # <<>> /\ acpiRunning' = queue[t][1]
  BY <1>1 DEF Services!Take, Services!NextOf
<1>3. t \in QueueTypes
  BY DEF QueueTypes, Services!Scan
<1>4. queue[t] \in Seq(Nat) /\ 1 \in DOMAIN queue[t]
  <2>1. queue[t] \in Seq(Nat)
    BY <1>3 DEF AcpiInv, QueuesTyped
  <2>. QED BY <2>1, <1>2
<1>5. types[acpiRunning'] = t
  BY <1>2, <1>3, <1>4 DEF AcpiInv, QueuesOrdered
<1>6. place = "other"
  BY <1>1, <1>5 DEF Services!Take, Services!Scan
<1>. QED BY <1>6 DEF RoundInv, Newer

\* The power goes after a round that found both queues empty.
LEMMA AcpiGoesLast == RoundInv /\ [Services!Next]_acpiVars => Services!GoesLast
<1>. SUFFICES ASSUME RoundInv, [Services!Next]_acpiVars, power' # power, power' \in {"off", "reset"},
                     NEW t \in Services!Types
              PROVE  \A i \in DOMAIN queue[t] : queue[t][i] > begun
  BY DEF Services!GoesLast
<1>1. Services!Off
  BY DEF Services!Next, acpiVars, Services!Execute, Services!WaitEvents, Services!EventsComplete,
         Services!WaitSemaphore, Services!TimeOut, Services!Signal, Services!GetUnits, Services!ReadStatus,
         Services!Shutdown, Services!FunctionWait, Services!Take, Services!Return
<1>2. place \in {"finish", "reset"}
  BY <1>1 DEF Services!Off
<1>3. t \in {0, 1}
  BY DEF Services!Types
<1>. QED BY <1>2, <1>3 DEF RoundInv, Newer
-----------------------------------------------------------------------------
(***************************************************************************)
(* The receive ring.  At(k, j): the j-th descriptor from k.  From the      *)
(* driver's head the controller has filled h of them with the frames after *)
(* c, the last one that was taken; those up to the tail are clear; w is 1  *)
(* when the driver works on the one before its head.                       *)
(***************************************************************************)
At(k, j) == IF k + j < RingSize THEN k + j ELSE k + j - RingSize

RingAt(h, w, head, rh, rt, d) ==
  /\ h \in 0 .. (RingSize - 1 - w)
  /\ rh = At(head, h) /\ rt = At(head, RingSize - 1 - w)
  /\ \A j \in h .. (RingSize - 1 - w) : d[At(head, j)] = 0

\* The h descriptors from the head hold the frames after c; u are the good ones.
Holds(h, c, head, d, g, u) ==
  \A j \in 0 .. (h - 1) :
    /\ d[At(head, j)] = c + 1 + j
    /\ g[At(head, j)] <=> \E i \in DOMAIN u : u[i] = c + 1 + j

LEMMA AtIn ==
  ASSUME NEW k \in Descs, NEW j \in 0 .. (RingSize - 1)
  PROVE  At(k, j) \in Descs
BY RingAssumption DEF At, Descs

LEMMA AtOne ==
  ASSUME NEW k \in Descs, NEW i \in 0 .. (RingSize - 1), NEW j \in 0 .. (RingSize - 1), At(k, i) = At(k, j)
  PROVE  i = j
BY RingAssumption DEF At, Descs

LEMMA AtAll ==
  ASSUME NEW k \in Descs, NEW d \in Descs
  PROVE  \E j \in 0 .. (RingSize - 1) : At(k, j) = d
<1>1. CASE k <= d
  <2>1. d - k \in 0 .. (RingSize - 1) /\ At(k, d - k) = d
    BY <1>1, RingAssumption DEF At, Descs
  <2>. QED BY <2>1
<1>2. CASE d < k
  <2>1. d - k + RingSize \in 0 .. (RingSize - 1) /\ At(k, d - k + RingSize) = d
    BY <1>2, RingAssumption DEF At, Descs
  <2>. QED BY <2>1
<1>. QED BY <1>1, <1>2, RingAssumption DEF Descs

\* The head of the controller wraps at the end of the ring.
LEMMA AtNext ==
  ASSUME NEW k \in Descs, NEW j \in Nat, j + 1 <= RingSize - 1
  PROVE  (At(k, j) + 1) % RingSize = At(k, j + 1)
<1>. DEFINE x == At(k, j)
<1>1. x \in 0 .. (RingSize - 1) /\ RingSize \in Nat \ {0}
  BY RingAssumption DEF At, Descs
<1>2. x + 1 < RingSize => (x + 1) % RingSize = x + 1
  BY <1>1
<1>3. x + 1 = RingSize => (x + 1) % RingSize = 0
  BY <1>1
<1>4. (x + 1 < RingSize /\ At(k, j + 1) = x + 1) \/ (x + 1 = RingSize /\ At(k, j + 1) = 0)
  BY RingAssumption DEF At, Descs
<1>. HIDE DEF x
<1>5. (x + 1) % RingSize = At(k, j + 1)
  BY <1>2, <1>3, <1>4
<1>. QED BY <1>5 DEF x

\* The head of the driver moves by one.
LEMMA AtAdvance ==
  ASSUME NEW k \in Descs, RingSize >= 2
  PROVE  /\ Advance(k) = At(k, 1) /\ Advance(k) \in Descs
         /\ At(Advance(k), RingSize - 1) = k
         /\ \A j \in Nat : j + 1 <= RingSize - 1 => At(Advance(k), j) = At(k, j + 1)
BY RingAssumption DEF At, Descs, Advance

\* What holds when a frame comes into the ring, good when ok.
Coming(w, head, rh, rt, h, c, d, g, u, v, ok) ==
  /\ w \in {0, 1} /\ head \in Descs /\ rh \in Descs /\ rt \in Descs /\ h \in Nat /\ c \in Nat
  /\ d \in [Descs -> Int] /\ g \in [Descs -> BOOLEAN] /\ u \in Seq(Nat) /\ v \in Seq(Nat) /\ ok \in BOOLEAN
  /\ RingAt(h, w, head, rh, rt, d) /\ Holds(h, c, head, d, g, u) /\ rt # rh
  /\ \A i \in DOMAIN u : u[i] <= c + h
  /\ v = IF ok THEN Append(u, c + h + 1) ELSE u

LEMMA RingComes ==
  ASSUME NEW w, NEW head, NEW rh, NEW rt, NEW h, NEW c, NEW d, NEW g, NEW u, NEW v, NEW ok,
         Coming(w, head, rh, rt, h, c, d, g, u, v, ok)
  PROVE  /\ RingAt(h + 1, w, head, (rh + 1) % RingSize, rt, [d EXCEPT ![rh] = c + h + 1])
         /\ Holds(h + 1, c, head, [d EXCEPT ![rh] = c + h + 1], [g EXCEPT ![rh] = ok], v)
         /\ d[rh] = 0
<1>0. /\ w \in {0, 1} /\ head \in Descs /\ rh \in Descs /\ rt \in Descs /\ h \in Nat /\ c \in Nat
      /\ d \in [Descs -> Int] /\ g \in [Descs -> BOOLEAN] /\ u \in Seq(Nat) /\ v \in Seq(Nat) /\ ok \in BOOLEAN
      /\ RingAt(h, w, head, rh, rt, d) /\ Holds(h, c, head, d, g, u) /\ rt # rh
      /\ (\A i \in DOMAIN u : u[i] <= c + h)
      /\ v = IF ok THEN Append(u, c + h + 1) ELSE u
  BY DEF Coming
<1>. USE <1>0
<1>. DEFINE m == RingSize - 1 - w
<1>1. RingSize \in Nat \ {0} /\ h \in 0 .. m /\ m \in Int /\ m <= RingSize - 1 /\ rh = At(head, h)
      /\ rt = At(head, m) /\ \A j \in h .. m : d[At(head, j)] = 0
  BY RingAssumption DEF RingAt
<1>. HIDE DEF m
<1>2. h # m /\ h + 1 \in 0 .. m /\ h \in Nat
  BY <1>1
<1>3. (rh + 1) % RingSize = At(head, h + 1)
  BY <1>1, <1>2, AtNext
<1>4. \A j \in 0 .. (RingSize - 1) : j # h => At(head, j) # rh
  BY <1>1, <1>2, AtOne
<1>5. \A j \in (h + 1) .. m : j \in 0 .. (RingSize - 1) /\ j # h /\ j \in h .. m
  BY <1>1, <1>2
<1>6. \A j \in 0 .. (RingSize - 1) : At(head, j) \in Descs
  BY AtIn
<1>7. RingAt(h + 1, w, head, (rh + 1) % RingSize, rt, [d EXCEPT ![rh] = c + h + 1])
  <2>1. \A j \in (h + 1) .. m : [d EXCEPT ![rh] = c + h + 1][At(head, j)] = 0
    BY <1>1, <1>4, <1>5, <1>6
  <2>. QED BY <2>1, <1>1, <1>2, <1>3 DEF RingAt, m
<1>8. d[rh] = 0
  BY <1>1, <1>2
<1>9. ASSUME NEW x \in Nat, x <= c + h
      PROVE  (\E i \in DOMAIN u : u[i] = x) <=> (\E i \in DOMAIN v : v[i] = x)
  <2>1. CASE ~ok
    BY <2>1
  <2>2. CASE ok
    <3>1. v = Append(u, c + h + 1) /\ DOMAIN u = 1 .. Len(u) /\ DOMAIN v = 1 .. (Len(u) + 1) /\ Len(u) \in Nat
          /\ v[Len(u) + 1] = c + h + 1 /\ \A i \in DOMAIN u : v[i] = u[i]
      <4>. HIDE <1>0
      <4>1. v = Append(u, c + h + 1) /\ u \in Seq(Nat)
        BY <1>0, <2>2
      <4>2. DOMAIN u = 1 .. Len(u) /\ Len(u) \in Nat
        BY <4>1
      <4>3. DOMAIN v = 1 .. (Len(u) + 1) /\ v[Len(u) + 1] = c + h + 1 /\ \A i \in 1 .. Len(u) : v[i] = u[i]
        BY <4>1
      <4>. QED BY <4>1, <4>2, <4>3
    <3>2. x # c + h + 1
      BY <1>9, <1>2
    <3>. QED BY <3>1, <3>2
  <2>. QED BY <2>1, <2>2
<1>10. ok <=> \E i \in DOMAIN v : v[i] = c + h + 1
  <2>1. CASE ~ok
    BY <2>1, <1>2
  <2>2. CASE ok
    <3>1. Len(u) + 1 \in DOMAIN v /\ v[Len(u) + 1] = c + h + 1
      BY <2>2, <1>2
    <3>. QED BY <3>1, <2>2
  <2>. QED BY <2>1, <2>2
<1>11. ASSUME NEW j \in 0 .. ((h + 1) - 1)
       PROVE  /\ [d EXCEPT ![rh] = c + h + 1][At(head, j)] = c + 1 + j
              /\ [g EXCEPT ![rh] = ok][At(head, j)] <=> \E i \in DOMAIN v : v[i] = c + 1 + j
  <2>0. j \in 0 .. h /\ j \in 0 .. (RingSize - 1) /\ At(head, j) \in Descs
    BY <1>1, <1>2, <1>6
  <2>1. CASE j = h
    <3>1. At(head, j) = rh /\ c + 1 + j = c + h + 1
      BY <2>1, <1>1, <1>2
    <3>2. [d EXCEPT ![rh] = c + h + 1][rh] = c + h + 1 /\ ([g EXCEPT ![rh] = ok][rh] <=> ok)
      OBVIOUS
    <3>. QED BY <3>1, <3>2, <1>10
  <2>2. CASE j # h
    <3>1. j \in 0 .. (h - 1) /\ At(head, j) # rh
      BY <2>0, <2>2, <1>2, <1>4
    <3>2. [d EXCEPT ![rh] = c + h + 1][At(head, j)] = d[At(head, j)]
      BY <2>0, <3>1
    <3>3. [g EXCEPT ![rh] = ok][At(head, j)] = g[At(head, j)]
      BY <2>0, <3>1
    <3>4. d[At(head, j)] = c + 1 + j /\ (g[At(head, j)] <=> \E i \in DOMAIN u : u[i] = c + 1 + j)
      BY <3>1 DEF Holds
    <3>5. c + 1 + j \in Nat /\ c + 1 + j <= c + h
      BY <3>1, <1>2
    <3>6. (\E i \in DOMAIN u : u[i] = c + 1 + j) <=> (\E i \in DOMAIN v : v[i] = c + 1 + j)
      BY <3>5, <1>9
    <3>. QED BY <3>2, <3>3, <3>4, <3>6
  <2>. QED BY <2>1, <2>2
<1>. QED BY <1>7, <1>8, <1>11 DEF Holds

\* The driver takes the descriptor at its head.
LEMMA RingTakes ==
  ASSUME NEW head \in Descs, NEW rh \in Descs, NEW rt \in Descs, NEW h \in Nat, NEW c \in Nat, NEW d, NEW g, NEW u,
         RingAt(h, 0, head, rh, rt, d), Holds(h, c, head, d, g, u), rh # head
  PROVE  /\ RingAt(h - 1, 1, Advance(head), rh, rt, d) /\ Holds(h - 1, c + 1, Advance(head), d, g, u)
         /\ Advance(head) \in Descs /\ h \in Nat \ {0}
         /\ head = At(Advance(head), RingSize - 1)
         /\ d[head] = c + 1 /\ (g[head] <=> \E i \in DOMAIN u : u[i] = c + 1)
<1>. DEFINE n == Advance(head)
<1>1. RingSize \in Nat \ {0} /\ h \in 0 .. (RingSize - 1) /\ rh = At(head, h) /\ rt = At(head, RingSize - 1)
      /\ \A j \in h .. (RingSize - 1) : d[At(head, j)] = 0
  BY RingAssumption DEF RingAt
<1>2. At(head, 0) = head
  BY RingAssumption DEF At, Descs
<1>3. h \in Nat \ {0} /\ RingSize >= 2
  BY <1>1, <1>2
<1>4. n = At(head, 1) /\ n \in Descs /\ At(n, RingSize - 1) = head
      /\ \A j \in Nat : j + 1 <= RingSize - 1 => At(n, j) = At(head, j + 1)
  BY <1>3, AtAdvance
<1>. HIDE DEF n
<1>5. h - 1 \in Nat /\ (h - 1) + 1 = h /\ h - 1 \in 0 .. (RingSize - 1 - 1) /\ RingSize - 2 \in Nat
      /\ (RingSize - 1 - 1) + 1 = RingSize - 1
  BY <1>1, <1>3
<1>6. rh = At(n, h - 1) /\ rt = At(n, RingSize - 1 - 1)
  BY <1>1, <1>4, <1>5
<1>7. \A j \in (h - 1) .. (RingSize - 1 - 1) : d[At(n, j)] = 0
  <2>. SUFFICES ASSUME NEW j \in (h - 1) .. (RingSize - 1 - 1) PROVE d[At(n, j)] = 0
    OBVIOUS
  <2>1. j \in Nat /\ j + 1 \in h .. (RingSize - 1) /\ j + 1 <= RingSize - 1
    BY <1>1, <1>5
  <2>. QED BY <2>1, <1>1, <1>4
<1>8. RingAt(h - 1, 1, n, rh, rt, d)
  BY <1>5, <1>6, <1>7 DEF RingAt
<1>9. Holds(h - 1, c + 1, n, d, g, u)
  <2>. SUFFICES ASSUME NEW j \in 0 .. ((h - 1) - 1)
                PROVE  /\ d[At(n, j)] = (c + 1) + 1 + j
                       /\ g[At(n, j)] <=> \E i \in DOMAIN u : u[i] = (c + 1) + 1 + j
    BY DEF Holds
  <2>1. j \in Nat /\ j + 1 \in 0 .. (h - 1) /\ j + 1 <= RingSize - 1 /\ c + 1 + (j + 1) = (c + 1) + 1 + j
    BY <1>1, <1>5
  <2>2. At(n, j) = At(head, j + 1)
    BY <2>1, <1>4
  <2>3. /\ d[At(head, j + 1)] = c + 1 + (j + 1)
        /\ g[At(head, j + 1)] <=> \E i \in DOMAIN u : u[i] = c + 1 + (j + 1)
    BY <2>1 DEF Holds
  <2>. QED BY <2>1, <2>2, <2>3
<1>10. d[head] = c + 1 /\ (g[head] <=> \E i \in DOMAIN u : u[i] = c + 1)
  <2>1. 0 \in 0 .. (h - 1) /\ c + 1 + 0 = c + 1
    BY <1>3
  <2>2. d[At(head, 0)] = c + 1 + 0 /\ (g[At(head, 0)] <=> \E i \in DOMAIN u : u[i] = c + 1 + 0)
    BY <2>1 DEF Holds
  <2>. QED BY <2>1, <2>2, <1>2
<1>. QED BY <1>3, <1>4, <1>8, <1>9, <1>10 DEF n

\* The driver clears the descriptor before its head and moves the tail there.
LEMMA RingClears ==
  ASSUME NEW head \in Descs, NEW rh \in Descs, NEW rt \in Descs, NEW k \in Descs, NEW h, NEW c \in Nat,
         NEW d \in [Descs -> Int], NEW g \in [Descs -> BOOLEAN], NEW u,
         RingAt(h, 1, head, rh, rt, d), Holds(h, c, head, d, g, u), k = At(head, RingSize - 1)
  PROVE  /\ RingAt(h, 0, head, rh, k, [d EXCEPT ![k] = 0])
         /\ Holds(h, c, head, [d EXCEPT ![k] = 0], [g EXCEPT ![k] = FALSE], u)
<1>1. RingSize \in Nat \ {0} /\ h \in 0 .. (RingSize - 1 - 1) /\ rh = At(head, h)
      /\ \A j \in h .. (RingSize - 1 - 1) : d[At(head, j)] = 0
  BY RingAssumption DEF RingAt
<1>2. \A j \in 0 .. (RingSize - 1 - 1) : At(head, j) \in Descs /\ At(head, j) # k
  <2>. SUFFICES ASSUME NEW j \in 0 .. (RingSize - 1 - 1) PROVE At(head, j) \in Descs /\ At(head, j) # k
    OBVIOUS
  <2>1. j \in 0 .. (RingSize - 1) /\ RingSize - 1 \in 0 .. (RingSize - 1) /\ j # RingSize - 1
    BY <1>1
  <2>. QED BY <2>1, AtIn, AtOne
<1>3. RingAt(h, 0, head, rh, k, [d EXCEPT ![k] = 0])
  <2>1. \A j \in h .. (RingSize - 1 - 0) : [d EXCEPT ![k] = 0][At(head, j)] = 0
    <3>. SUFFICES ASSUME NEW j \in h .. (RingSize - 1 - 0) PROVE [d EXCEPT ![k] = 0][At(head, j)] = 0
      OBVIOUS
    <3>1. CASE j = RingSize - 1
      BY <3>1
    <3>2. CASE j # RingSize - 1
      <4>1. j \in h .. (RingSize - 1 - 1) /\ j \in 0 .. (RingSize - 1 - 1)
        BY <3>2, <1>1
      <4>. QED BY <4>1, <1>1, <1>2
    <3>. QED BY <3>1, <3>2
  <2>2. h \in 0 .. (RingSize - 1 - 0) /\ RingSize - 1 - 0 = RingSize - 1
    BY <1>1
  <2>. QED BY <1>1, <2>1, <2>2 DEF RingAt
<1>4. Holds(h, c, head, [d EXCEPT ![k] = 0], [g EXCEPT ![k] = FALSE], u)
  <2>. SUFFICES ASSUME NEW j \in 0 .. (h - 1)
                PROVE  /\ [d EXCEPT ![k] = 0][At(head, j)] = c + 1 + j
                       /\ [g EXCEPT ![k] = FALSE][At(head, j)] <=> \E i \in DOMAIN u : u[i] = c + 1 + j
    BY DEF Holds
  <2>1. At(head, j) \in Descs /\ At(head, j) # k
    <3>1. j \in 0 .. (RingSize - 1 - 1)
      BY <1>1
    <3>. QED BY <3>1, <1>2
  <2>2. [d EXCEPT ![k] = 0][At(head, j)] = d[At(head, j)] /\ [g EXCEPT ![k] = FALSE][At(head, j)] = g[At(head, j)]
    BY <2>1
  <2>. QED BY <2>2 DEF Holds
<1>. QED BY <1>3, <1>4

(***************************************************************************)
(* u: the good frames of the first m; g: those that were read; c: the last *)
(* one that was taken from the ring, which is to be read when p.           *)
(***************************************************************************)
Order(c, m, u, g, p) ==
  /\ Len(g) <= Len(u) /\ \A i \in 1 .. Len(g) : g[i] = u[i]
  /\ \A i, j \in 1 .. Len(u) : i < j => u[i] < u[j]
  /\ \A i \in 1 .. Len(u) : u[i] <= m
  /\ \A i \in 1 .. Len(g) : u[i] <= c
  /\ p => Len(g) + 1 <= Len(u) /\ u[Len(g) + 1] = c
  /\ ~p => \A i \in 1 .. Len(u) : i > Len(g) => u[i] > c

LEMMA OrderComes ==
  ASSUME NEW c \in Nat, NEW m \in Nat, NEW u \in Seq(Nat), NEW g \in Seq(Nat), NEW p \in BOOLEAN,
         NEW ok \in BOOLEAN, Order(c, m, u, g, p), c <= m
  PROVE  Order(c, m + 1, IF ok THEN Append(u, m + 1) ELSE u, g, p)
<1>1. CASE ~ok
  <2>1. \A i \in 1 .. Len(u) : u[i] <= m + 1
    BY DEF Order
  <2>. QED BY <1>1, <2>1 DEF Order
<1>2. CASE ok
  <2>. DEFINE v == Append(u, m + 1)
              n == Len(u)
              k == Len(g)
  <2>1. Len(v) = n + 1 /\ n \in Nat /\ k \in Nat /\ v[n + 1] = m + 1 /\ \A i \in 1 .. n : v[i] = u[i] /\ u[i] \in Nat
    OBVIOUS
  <2>2. k <= n /\ (\A i \in 1 .. k : g[i] = u[i]) /\ (\A i \in 1 .. n : u[i] <= m)
        /\ (\A i, j \in 1 .. n : i < j => u[i] < u[j]) /\ (\A i \in 1 .. k : u[i] <= c)
        /\ (p => k + 1 <= n /\ u[k + 1] = c) /\ (~p => \A i \in 1 .. n : i > k => u[i] > c)
    BY DEF Order
  <2>. HIDE DEF v, n, k
  <2>3. \A i \in 1 .. (n + 1) : i \in 1 .. n \/ i = n + 1
    BY <2>1
  <2>9. \A i \in 1 .. k : i \in 1 .. n
    BY <2>1, <2>2
  <2>4. k <= n + 1 /\ \A i \in 1 .. k : g[i] = v[i] /\ v[i] <= c
    <3>1. k <= n + 1
      BY <2>1, <2>2
    <3>2. ASSUME NEW i \in 1 .. k PROVE g[i] = v[i] /\ v[i] <= c
      BY <2>1, <2>2, <2>9
    <3>. QED BY <3>1, <3>2
  <2>5. \A i, j \in 1 .. (n + 1) : i < j => v[i] < v[j]
    <3>. SUFFICES ASSUME NEW i \in 1 .. (n + 1), NEW j \in 1 .. (n + 1), i < j PROVE v[i] < v[j]
      OBVIOUS
    <3>1. CASE j \in 1 .. n
      <4>1. i \in 1 .. n
        BY <3>1, <2>1
      <4>. QED BY <4>1, <3>1, <2>1, <2>2
    <3>2. CASE j = n + 1
      <4>1. i \in 1 .. n /\ v[i] = u[i] /\ u[i] \in Nat /\ u[i] <= m
        BY <3>2, <2>1, <2>2
      <4>. QED BY <4>1, <3>2, <2>1
    <3>. QED BY <3>1, <3>2, <2>3
  <2>6. \A i \in 1 .. (n + 1) : v[i] <= m + 1
    <3>. SUFFICES ASSUME NEW i \in 1 .. (n + 1) PROVE v[i] <= m + 1
      OBVIOUS
    <3>1. CASE i \in 1 .. n
      <4>1. v[i] = u[i] /\ u[i] \in Nat /\ u[i] <= m
        BY <3>1, <2>1, <2>2
      <4>. QED BY <4>1
    <3>2. CASE i = n + 1
      BY <3>2, <2>1
    <3>. QED BY <3>1, <3>2, <2>3
  <2>7. p => k + 1 <= n + 1 /\ v[k + 1] = c
    <3>. SUFFICES ASSUME p PROVE k + 1 <= n + 1 /\ v[k + 1] = c
      OBVIOUS
    <3>1. k + 1 \in 1 .. n /\ u[k + 1] = c
      BY <2>1, <2>2
    <3>. QED BY <3>1, <2>1
  <2>8. ASSUME ~p, NEW i \in 1 .. (n + 1), i > k
        PROVE  v[i] > c
    <3>1. CASE i \in 1 .. n
      <4>1. v[i] = u[i] /\ u[i] > c
        BY <3>1, <2>1, <2>2, <2>8
      <4>. QED BY <4>1
    <3>2. CASE i = n + 1
      BY <3>2, <2>1
    <3>. QED BY <3>1, <3>2, <2>3
  <2>. QED BY <1>2, <2>1, <2>4, <2>5, <2>6, <2>7, <2>8 DEF Order, v, k
<1>. QED BY <1>1, <1>2

LEMMA OrderTakes ==
  ASSUME NEW c \in Nat, NEW m \in Nat, NEW u \in Seq(Nat), NEW g \in Seq(Nat), NEW p \in BOOLEAN,
         Order(c, m, u, g, FALSE), p <=> \E i \in DOMAIN u : u[i] = c + 1
  PROVE  Order(c + 1, m, u, g, p)
<1>. DEFINE n == Len(u)
            k == Len(g)
<1>1. n \in Nat /\ k \in Nat /\ DOMAIN u = 1 .. n /\ \A i \in 1 .. n : u[i] \in Nat
  <2>. HIDE DEF Order
  <2>1. n \in Nat /\ DOMAIN u = 1 .. n
    OBVIOUS
  <2>2. k \in Nat
    OBVIOUS
  <2>3. \A i \in 1 .. n : u[i] \in Nat
    OBVIOUS
  <2>. QED BY <2>1, <2>2, <2>3
<1>2. k <= n /\ (\A i \in 1 .. k : g[i] = u[i]) /\ (\A i \in 1 .. n : u[i] <= m)
      /\ (\A i, j \in 1 .. n : i < j => u[i] < u[j]) /\ (\A i \in 1 .. k : u[i] <= c)
      /\ (\A i \in 1 .. n : i > k => u[i] > c)
  BY DEF Order
<1>. HIDE DEF n, k
<1>3. \A i \in 1 .. k : u[i] <= c + 1
  <2>. SUFFICES ASSUME NEW i \in 1 .. k PROVE u[i] <= c + 1
    OBVIOUS
  <2>1. i \in 1 .. n /\ u[i] \in Nat /\ u[i] <= c
    BY <1>1, <1>2
  <2>. QED BY <2>1
<1>4. p => k + 1 <= n /\ u[k + 1] = c + 1
  <2>. SUFFICES ASSUME p PROVE k + 1 <= n /\ u[k + 1] = c + 1
    OBVIOUS
  <2>1. PICK i \in 1 .. n : u[i] = c + 1
    BY <1>1
  <2>2. i > k
    <3>. SUFFICES ASSUME i <= k PROVE FALSE
      BY <1>1
    <3>1. i \in 1 .. k
      BY <1>1
    <3>. QED BY <3>1, <2>1, <1>2
  <2>3. k + 1 \in 1 .. n /\ u[k + 1] \in Nat /\ u[k + 1] > c
    BY <2>2, <1>1, <1>2
  <2>4. k + 1 < i => u[k + 1] < c + 1
    BY <2>1, <2>3, <1>2
  <2>5. k + 1 = i
    BY <2>2, <2>3, <2>4, <1>1
  <2>. QED BY <2>1, <2>5, <1>1
<1>5. ~p => \A i \in 1 .. n : i > k => u[i] > c + 1
  <2>. SUFFICES ASSUME ~p, NEW i \in 1 .. n, i > k PROVE u[i] > c + 1
    OBVIOUS
  <2>1. u[i] \in Nat /\ u[i] > c /\ u[i] # c + 1
    BY <1>1, <1>2
  <2>. QED BY <2>1
<1>. QED BY <1>2, <1>3, <1>4, <1>5 DEF Order, n, k

LEMMA OrderReads ==
  ASSUME NEW c \in Nat, NEW m \in Nat, NEW u \in Seq(Nat), NEW g \in Seq(Nat), Order(c, m, u, g, TRUE)
  PROVE  Order(c, m, u, Append(g, c), FALSE)
<1>. DEFINE n == Len(u)
            k == Len(g)
            f == Append(g, c)
<1>1. n \in Nat /\ k \in Nat /\ (\A i \in 1 .. n : u[i] \in Nat)
      /\ Len(f) = k + 1 /\ f[k + 1] = c /\ \A i \in 1 .. k : f[i] = g[i]
  OBVIOUS
<1>2. k <= n /\ (\A i \in 1 .. k : g[i] = u[i]) /\ (\A i \in 1 .. n : u[i] <= m)
      /\ (\A i, j \in 1 .. n : i < j => u[i] < u[j]) /\ (\A i \in 1 .. k : u[i] <= c)
      /\ k + 1 <= n /\ u[k + 1] = c
  BY DEF Order
<1>. HIDE DEF n, k, f
<1>3. \A i \in 1 .. (k + 1) : i \in 1 .. k \/ i = k + 1
  BY <1>1
<1>4. \A i \in 1 .. (k + 1) : f[i] = u[i] /\ u[i] <= c
  <2>. SUFFICES ASSUME NEW i \in 1 .. (k + 1) PROVE f[i] = u[i] /\ u[i] <= c
    OBVIOUS
  <2>1. CASE i \in 1 .. k
    BY <2>1, <1>1, <1>2
  <2>2. CASE i = k + 1
    BY <2>2, <1>1, <1>2
  <2>. QED BY <2>1, <2>2, <1>3
<1>5. \A i \in 1 .. n : i > k + 1 => u[i] > c
  BY <1>1, <1>2
<1>. QED BY <1>1, <1>2, <1>4, <1>5 DEF Order, n, f

-----------------------------------------------------------------------------
(* The driver. *)

OffStages == {"probe", "handler", "reset", "buffers", "address", "receive"}
OnStages == {"task", "unmask", "register", "calls", "done"}

Works(q) == q \in {"put", "wait", "clear"}
Width(q) == IF Works(q) THEN 1 ELSE 0
Pending(q, r) == q = "put" \/ (q = "wait" /\ r # -1)

NetTyped ==
  /\ stage \in OffStages \cup OnStages \cup {"failed"}
  /\ desc \in [Descs -> -1 .. NetFrames] /\ good \in [Descs -> BOOLEAN]
  /\ rdh \in Descs /\ rdt \in Descs /\ rxHead \in Descs /\ cur \in Descs
  /\ came \in 0 .. NetFrames /\ usable \in Seq(Nat) /\ netGot \in Seq(Nat)

\* The frame is handed over only while the task waits, and the task is told once.
HandInv ==
  /\ netPc \in {"none", "look", "put", "wait", "clear"}
  /\ rxFrame \in Descs \cup {-1} /\ event0 \in BOOLEAN
  /\ rxFrame # -1 => netPc = "wait" /\ rxFrame = cur
  /\ event0 => netPc = "wait" /\ rxFrame = -1

\* Before the receive registers are written.
NetOff ==
  /\ stage \in OffStages \cup {"failed"}
  /\ rdh = 0 /\ rdt = 0 /\ rxHead = 0 /\ netPc = "none" /\ came = 0
  /\ usable = <<>> /\ netGot = <<>>
  /\ \A d \in Descs : desc[d] <= 0
  /\ stage \in {"address", "receive"} => desc = Buffers

\* After that: h frames are in the ring, c were taken.
NetRing(h, c) ==
  /\ RingAt(h, Width(netPc), rxHead, rdh, rdt, desc)
  /\ Holds(h, c, rxHead, desc, good, usable)
  /\ came = c + h
  /\ Order(c, came, usable, netGot, Pending(netPc, rxFrame))
  /\ Works(netPc) => cur = At(rxHead, RingSize - 1)
  /\ Pending(netPc, rxFrame) => desc[cur] = c

NetOn ==
  /\ stage \in OnStages \cup {"failed"}
  /\ stage = "task" => netPc = "none"
  /\ \E h, c \in Nat : NetRing(h, c)

NetInv == NetTyped /\ HandInv /\ (NetOff \/ NetOn)

LEMMA NetStays == NetInv /\ UNCHANGED netVars => NetInv'
BY DEF NetInv, NetTyped, HandInv, NetOff, NetOn, NetRing, netVars, Works, Width, Pending, RingAt, Holds, Order

LEMMA NetStart == NetInit => NetInv
<1>. SUFFICES ASSUME NetInit PROVE NetInv
  OBVIOUS
<1>0. 0 \in Descs /\ -1 \in -1 .. NetFrames /\ 0 \in 0 .. NetFrames
  BY RingAssumption DEF Descs
<1>1. desc \in [Descs -> -1 .. NetFrames] /\ \A d \in Descs : desc[d] <= 0
  BY <1>0 DEF NetInit, NoBuffers
<1>2. NetTyped
  <2>1. usable \in Seq(Nat) /\ netGot \in Seq(Nat)
    BY DEF NetInit
  <2>. QED BY <1>0, <1>1, <2>1 DEF NetInit, NetTyped, OffStages
<1>3. HandInv
  BY DEF NetInit, HandInv
<1>4. NetOff
  BY <1>1 DEF NetInit, NetOff, OffStages
<1>. QED BY <1>2, <1>3, <1>4 DEF NetInv

\* The stages of network_e1000_init follow each other.
LEMMA AfterIs ==
  /\ After("probe") = "handler" /\ After("handler") = "reset" /\ After("reset") = "buffers"
  /\ After("buffers") = "address" /\ After("address") = "receive" /\ After("receive") = "task"
  /\ After("task") = "unmask" /\ After("unmask") = "register" /\ After("register") = "calls"
  /\ After("calls") = "done"
<1>1. Len(Stages) = 11
  BY DEF Stages
<1>2. ASSUME NEW s, NEW n \in 1 .. 11, Stages[n] = s, \A k \in 1 .. 11 : Stages[k] = s => k = n
      PROVE  After(s) = Stages[n + 1]
  <2>1. (CHOOSE k \in 1 .. Len(Stages) : Stages[k] = s) = n
    BY <1>1, <1>2
  <2>. QED BY <2>1 DEF After
<1>3. \A k \in 1 .. 11 : k = 1 \/ k = 2 \/ k = 3 \/ k = 4 \/ k = 5 \/ k = 6 \/ k = 7 \/ k = 8 \/ k = 9 \/ k = 10 \/ k = 11
  OBVIOUS
<1>4. /\ Stages[1] = "probe" /\ Stages[2] = "handler" /\ Stages[3] = "reset" /\ Stages[4] = "buffers"
      /\ Stages[5] = "address" /\ Stages[6] = "receive" /\ Stages[7] = "task" /\ Stages[8] = "unmask"
      /\ Stages[9] = "register" /\ Stages[10] = "calls" /\ Stages[11] = "done"
  BY DEF Stages
<1>5. After("probe") = Stages[1 + 1] /\ After("handler") = Stages[2 + 1] /\ After("reset") = Stages[3 + 1]
  BY <1>2, <1>3, <1>4
<1>6. After("buffers") = Stages[4 + 1] /\ After("address") = Stages[5 + 1] /\ After("receive") = Stages[6 + 1]
  BY <1>2, <1>3, <1>4
<1>7. After("task") = Stages[7 + 1] /\ After("unmask") = Stages[8 + 1] /\ After("register") = Stages[9 + 1]
      /\ After("calls") = Stages[10 + 1]
  BY <1>2, <1>3, <1>4
<1>. QED BY <1>4, <1>5, <1>6, <1>7

\* A step of network_e1000_init.
LEMMA InitStepKeeps == NetInv /\ InitStep => NetInv'
<1>. SUFFICES ASSUME NetInv, InitStep PROVE NetInv'
  OBVIOUS
<1>1. /\ stage \notin {"done", "failed"} /\ stage' = After(stage)
      /\ desc' = IF stage = "buffers" THEN Buffers ELSE desc
      /\ good' = good /\ came' = came /\ usable' = usable /\ rxHead' = rxHead /\ cur' = cur
      /\ rxFrame' = rxFrame /\ event0' = event0 /\ netGot' = netGot
      /\ netPc' = IF stage = "task" THEN "look" ELSE netPc
  BY DEF InitStep, StepAfter, hand
<1>2. IF stage = "receive" THEN rdh' = 0 /\ rdt' = RingSize - 1 ELSE rdh' = rdh /\ rdt' = rdt
  BY DEF InitStep
<1>3. 0 \in Descs /\ RingSize - 1 \in Descs /\ RingSize \in Nat \ {0} /\ NetFrames \in Nat
  BY RingAssumption DEF Descs
<1>4. Buffers \in [Descs -> -1 .. NetFrames]
  BY <1>3 DEF Buffers
<1>5. stage' \in OffStages \cup OnStages
  BY <1>1, AfterIs DEF NetInv, NetTyped, OffStages, OnStages
<1>6. NetTyped'
  BY <1>1, <1>2, <1>3, <1>4, <1>5 DEF NetInv, NetTyped
<1>7. CASE NetOff
  <2>1. /\ stage \in OffStages /\ rdh = 0 /\ rdt = 0 /\ rxHead = 0 /\ netPc = "none" /\ came = 0
        /\ usable = <<>> /\ netGot = <<>> /\ rxFrame = -1 /\ ~event0
        /\ (\A d \in Descs : desc[d] <= 0) /\ (stage \in {"address", "receive"} => desc = Buffers)
    BY <1>1, <1>7 DEF NetOff, NetInv, HandInv
  <2>2. netPc' = "none" /\ HandInv'
    BY <2>1, <1>1 DEF NetInv, OffStages, HandInv
  <2>3. CASE stage # "receive"
    <3>1. stage' \in OffStages /\ (stage' \in {"address", "receive"} => desc' = Buffers)
      BY <2>1, <2>3, <1>1, AfterIs DEF OffStages
    <3>2. \A d \in Descs : desc'[d] <= 0
      BY <2>1, <1>1 DEF Buffers
    <3>3. NetOff'
      BY <2>1, <2>2, <2>3, <3>1, <3>2, <1>1, <1>2 DEF NetOff
    <3>. QED BY <3>3, <2>2, <1>6 DEF NetInv
  <2>4. CASE stage = "receive"
    <3>1. stage' = "task" /\ desc' = Buffers /\ rdh' = 0 /\ rdt' = RingSize - 1
      BY <2>1, <2>4, <1>1, <1>2, AfterIs
    <3>2. RingAt(0, 0, 0, 0, RingSize - 1, Buffers)
      <4>1. At(0, 0) = 0 /\ At(0, RingSize - 1 - 0) = RingSize - 1 /\ 0 \in 0 .. (RingSize - 1 - 0)
        BY <1>3 DEF At
      <4>2. \A j \in 0 .. (RingSize - 1 - 0) : Buffers[At(0, j)] = 0
        BY <1>3, AtIn DEF Buffers
      <4>. QED BY <4>1, <4>2 DEF RingAt
    <3>3. ASSUME NEW d, NEW g, NEW u PROVE Holds(0, 0, 0, d, g, u)
      BY DEF Holds
    <3>4. Order(0, 0, <<>>, <<>>, FALSE)
      BY DEF Order
    <3>5. ~Works(netPc') /\ Width(netPc') = 0 /\ Pending(netPc', rxFrame') = FALSE
      BY <2>2 DEF Works, Width, Pending
    <3>6. RingAt(0, Width(netPc'), rxHead', rdh', rdt', desc')
      BY <3>1, <3>2, <3>5, <2>1, <1>1
    <3>7. Holds(0, 0, rxHead', desc', good', usable')
      BY <3>3, <2>1, <1>1
    <3>8. Order(0, came', usable', netGot', Pending(netPc', rxFrame'))
      BY <3>4, <3>5, <2>1, <1>1
    <3>9. NetRing(0, 0)'
      BY <3>5, <3>6, <3>7, <3>8, <2>1, <1>1 DEF NetRing
    <3>10. NetOn'
      BY <3>1, <3>9, <2>2 DEF NetOn, OnStages
    <3>. QED BY <3>10, <2>2, <1>6 DEF NetInv
  <2>. QED BY <2>3, <2>4
<1>8. CASE NetOn
  <2>1. stage \in OnStages /\ stage # "done" /\ (stage = "task" => netPc = "none")
    BY <1>1, <1>8 DEF NetOn
  <2>2. stage' \in OnStages \ {"task"}
    BY <2>1, <1>1, AfterIs DEF OnStages
  <2>3. desc' = desc /\ rdh' = rdh /\ rdt' = rdt
    BY <2>1, <1>1, <1>2 DEF OnStages
  <2>4. HandInv'
    BY <2>1, <1>1 DEF NetInv, HandInv
  <2>5. PICK h \in Nat, c \in Nat : NetRing(h, c)
    BY <1>8 DEF NetOn
  <2>6. /\ Works(netPc') = Works(netPc) /\ Width(netPc') = Width(netPc)
        /\ Pending(netPc', rxFrame') = Pending(netPc, rxFrame)
    BY <2>1, <1>1 DEF Works, Width, Pending
  <2>7. NetRing(h, c)'
    BY <2>3, <2>5, <2>6, <1>1 DEF NetRing
  <2>8. NetOn'
    BY <2>2, <2>7 DEF NetOn
  <2>. QED BY <2>4, <2>8, <1>6 DEF NetInv
<1>. QED BY <1>7, <1>8 DEF NetInv

LEMMA InitFailsKeeps == NetInv /\ InitFails => NetInv'
<1>. SUFFICES ASSUME NetInv, InitFails PROVE NetInv'
  OBVIOUS
<1>1. /\ stage' = "failed" /\ desc' = desc /\ good' = good /\ rdh' = rdh /\ rdt' = rdt /\ came' = came
      /\ usable' = usable /\ rxHead' = rxHead /\ netPc' = netPc /\ cur' = cur /\ rxFrame' = rxFrame
      /\ event0' = event0 /\ netGot' = netGot
  BY DEF InitFails, controller, worker, hand
<1>2. NetTyped' /\ HandInv'
  BY <1>1 DEF NetInv, NetTyped, HandInv
<1>3. NetOff => NetOff'
  BY <1>1 DEF NetOff
<1>4. NetOn => NetOn'
  <2>. SUFFICES ASSUME NetOn PROVE NetOn'
    OBVIOUS
  <2>1. PICK h \in Nat, c \in Nat : NetRing(h, c)
    BY DEF NetOn
  <2>2. NetRing(h, c)'
    BY <2>1, <1>1 DEF NetRing
  <2>. QED BY <2>2, <1>1 DEF NetOn
<1>. QED BY <1>2, <1>3, <1>4 DEF NetInv

LEMMA ComeKeeps ==
  ASSUME NEW ok \in BOOLEAN, NetInv, Come(ok)
  PROVE  NetInv' /\ desc[rdh] = 0
<1>1. /\ rdt # rdh /\ came < NetFrames /\ came' = came + 1
      /\ desc' = [desc EXCEPT ![rdh] = came + 1] /\ good' = [good EXCEPT ![rdh] = ok]
      /\ usable' = (IF ok THEN Append(usable, came + 1) ELSE usable)
      /\ rdh' = (rdh + 1) % RingSize
  BY DEF Come, Receiving
<1>2. /\ stage' = stage /\ rdt' = rdt /\ rxHead' = rxHead /\ netPc' = netPc /\ cur' = cur
      /\ rxFrame' = rxFrame /\ event0' = event0 /\ netGot' = netGot
  BY DEF Come, init, worker, hand
<1>3. /\ desc \in [Descs -> -1 .. NetFrames] /\ good \in [Descs -> BOOLEAN] /\ NetFrames \in Nat
      /\ rdh \in Descs /\ rdt \in Descs /\ rxHead \in Descs /\ cur \in Descs
      /\ came \in 0 .. NetFrames /\ usable \in Seq(Nat) /\ netGot \in Seq(Nat) /\ HandInv
  BY RingAssumption DEF NetInv, NetTyped
<1>4. ~NetOff
  BY <1>1 DEF NetOff
<1>5. PICK h \in Nat, c \in Nat : NetRing(h, c)
  BY <1>4 DEF NetInv, NetOn
<1>. DEFINE w == Width(netPc)
            p == Pending(netPc, rxFrame)
<1>6. w \in {0, 1} /\ p \in BOOLEAN
  BY DEF Width, Pending
<1>7. /\ RingAt(h, w, rxHead, rdh, rdt, desc) /\ Holds(h, c, rxHead, desc, good, usable) /\ came = c + h
      /\ Order(c, came, usable, netGot, p)
  BY <1>5 DEF NetRing
<1>. HIDE DEF w, p
<1>8. desc \in [Descs -> Int] /\ (\A i \in DOMAIN usable : usable[i] <= c + h) /\ c <= came /\ came \in Nat
  <2>1. desc \in [Descs -> Int]
    BY <1>3
  <2>2. \A i \in DOMAIN usable : usable[i] <= c + h
    <3>1. DOMAIN usable = 1 .. Len(usable)
      BY <1>3
    <3>2. \A i \in 1 .. Len(usable) : usable[i] <= came
      BY <1>7 DEF Order
    <3>. QED BY <3>1, <3>2, <1>7
  <2>. QED BY <2>1, <2>2, <1>7
<1>9. /\ RingAt(h + 1, w, rxHead, (rdh + 1) % RingSize, rdt, [desc EXCEPT ![rdh] = c + h + 1])
      /\ Holds(h + 1, c, rxHead, [desc EXCEPT ![rdh] = c + h + 1], [good EXCEPT ![rdh] = ok], usable')
      /\ desc[rdh] = 0
  <2>1. usable' = (IF ok THEN Append(usable, c + h + 1) ELSE usable)
    BY <1>1, <1>7
  <2>2. usable' \in Seq(Nat)
    BY <2>1, <1>3
  <2>. DEFINE v == usable'
  <2>3. v \in Seq(Nat) /\ v = (IF ok THEN Append(usable, c + h + 1) ELSE usable) /\ rdt # rdh
        /\ rdh \in Descs /\ rdt \in Descs /\ rxHead \in Descs /\ good \in [Descs -> BOOLEAN]
        /\ usable \in Seq(Nat)
    BY <2>1, <2>2, <1>1, <1>3
  <2>. HIDE DEF v
  <2>4. /\ RingAt(h + 1, w, rxHead, (rdh + 1) % RingSize, rdt, [desc EXCEPT ![rdh] = c + h + 1])
        /\ Holds(h + 1, c, rxHead, [desc EXCEPT ![rdh] = c + h + 1], [good EXCEPT ![rdh] = ok], v)
        /\ desc[rdh] = 0
    <3>1. Coming(w, rxHead, rdh, rdt, h, c, desc, good, usable, v, ok)
      BY <2>3, <1>6, <1>7, <1>8 DEF Coming
    <3>. QED BY <3>1, RingComes
  <2>. QED BY <2>4 DEF v
<1>10. Order(c, came + 1, usable', netGot, p)
  BY <1>1, <1>3, <1>6, <1>7, <1>8, OrderComes
<1>11. p => cur # rdh
  <2>. SUFFICES ASSUME p, cur = rdh PROVE FALSE
    OBVIOUS
  <2>1. Works(netPc) /\ cur = At(rxHead, RingSize - 1) /\ w = 1
    BY <1>5 DEF NetRing, Works, p, Pending, w, Width
  <2>2. rdh = At(rxHead, h) /\ h \in 0 .. (RingSize - 1 - 1)
    BY <2>1, <1>7 DEF RingAt
  <2>3. h \in 0 .. (RingSize - 1) /\ RingSize - 1 \in 0 .. (RingSize - 1) /\ h # RingSize - 1
    BY <2>2, RingAssumption
  <2>. QED BY <2>1, <2>2, <2>3, <1>3, AtOne
<1>12. came + 1 = c + h + 1 /\ came + 1 = c + (h + 1) /\ h + 1 \in Nat /\ came + 1 \in 0 .. NetFrames
  BY <1>1, <1>3, <1>7
<1>13. NetRing(h + 1, c)'
  <2>1. w = Width(netPc)' /\ p = Pending(netPc, rxFrame)'
    BY <1>2 DEF w, p
  <2>2. RingAt(h + 1, Width(netPc'), rxHead', rdh', rdt', desc') /\ Holds(h + 1, c, rxHead', desc', good', usable')
    BY <1>9, <1>1, <1>2, <1>12, <2>1
  <2>3. came' = c + (h + 1) /\ Order(c, came', usable', netGot', Pending(netPc', rxFrame'))
    BY <1>10, <1>1, <1>2, <1>12, <2>1
  <2>4. Works(netPc') => cur' = At(rxHead', RingSize - 1)
    BY <1>2, <1>5 DEF NetRing
  <2>5. Pending(netPc', rxFrame') => desc'[cur'] = c
    BY <1>1, <1>2, <1>3, <1>5, <1>11, <2>1 DEF NetRing, p
  <2>. QED BY <2>2, <2>3, <2>4, <2>5 DEF NetRing
<1>14. NetTyped'
  <2>1. rdh' \in Descs
    BY <1>1, <1>3, RingAssumption DEF Descs
  <2>2. usable' \in Seq(Nat)
    BY <1>1, <1>3
  <2>3. desc' \in [Descs -> -1 .. NetFrames]
    BY <1>1, <1>3, <1>12
  <2>4. good' \in [Descs -> BOOLEAN]
    BY <1>1, <1>3
  <2>. QED BY <2>1, <2>2, <2>3, <2>4, <1>1, <1>2, <1>12 DEF NetInv, NetTyped
<1>15. HandInv'
  BY <1>2, <1>3 DEF HandInv
<1>16. NetOn'
  BY <1>2, <1>4, <1>12, <1>13 DEF NetInv, NetOn
<1>. QED BY <1>9, <1>14, <1>15, <1>16 DEF NetInv

LEMMA TakeDescriptorKeeps == NetInv /\ TakeDescriptor => NetInv'
<1>. SUFFICES ASSUME NetInv, TakeDescriptor PROVE NetInv'
  OBVIOUS
<1>1. /\ netPc = "look" /\ rdh # rxHead /\ cur' = rxHead /\ rxHead' = Advance(rxHead)
      /\ netPc' = (IF good[rxHead] THEN "put" ELSE "clear")
      /\ stage' = stage /\ desc' = desc /\ good' = good /\ rdh' = rdh /\ rdt' = rdt /\ came' = came
      /\ usable' = usable /\ rxFrame' = rxFrame /\ event0' = event0 /\ netGot' = netGot
  BY DEF TakeDescriptor, init, controller, hand
<1>2. /\ good \in [Descs -> BOOLEAN] /\ rdh \in Descs /\ rdt \in Descs /\ rxHead \in Descs
      /\ came \in Nat /\ usable \in Seq(Nat) /\ netGot \in Seq(Nat) /\ HandInv
  BY RingAssumption DEF NetInv, NetTyped
<1>3. rxFrame = -1 /\ event0 = FALSE
  BY <1>1, <1>2 DEF HandInv
<1>4. NetOn
  BY <1>1 DEF NetInv, NetOff
<1>5. PICK h \in Nat, c \in Nat : NetRing(h, c)
  BY <1>4 DEF NetOn
<1>6. Width(netPc) = 0 /\ Pending(netPc, rxFrame) = FALSE
  BY <1>1 DEF Width, Works, Pending
<1>7. /\ RingAt(h, 0, rxHead, rdh, rdt, desc) /\ Holds(h, c, rxHead, desc, good, usable) /\ came = c + h
      /\ Order(c, came, usable, netGot, FALSE)
  BY <1>5, <1>6 DEF NetRing
<1>8. /\ RingAt(h - 1, 1, rxHead', rdh, rdt, desc) /\ Holds(h - 1, c + 1, rxHead', desc, good, usable)
      /\ rxHead' \in Descs /\ h \in Nat \ {0} /\ rxHead = At(rxHead', RingSize - 1)
      /\ desc[rxHead] = c + 1 /\ (good[rxHead] <=> \E i \in DOMAIN usable : usable[i] = c + 1)
  <2>1. /\ RingAt(h - 1, 1, Advance(rxHead), rdh, rdt, desc)
        /\ Holds(h - 1, c + 1, Advance(rxHead), desc, good, usable)
        /\ Advance(rxHead) \in Descs /\ h \in Nat \ {0} /\ rxHead = At(Advance(rxHead), RingSize - 1)
        /\ desc[rxHead] = c + 1 /\ (good[rxHead] <=> \E i \in DOMAIN usable : usable[i] = c + 1)
    <3>1. rdh # rxHead /\ rdh \in Descs /\ rdt \in Descs /\ rxHead \in Descs
      BY <1>1, <1>2
    <3>. QED BY <3>1, <1>7, RingTakes
  <2>. QED BY <2>1, <1>1
<1>9. Order(c + 1, came, usable, netGot, good[rxHead])
  <2>1. good[rxHead] \in BOOLEAN
    BY <1>2
  <2>. QED BY <2>1, <1>2, <1>7, <1>8, OrderTakes
<1>10. /\ Width(netPc') = 1 /\ Works(netPc') /\ (Pending(netPc', rxFrame') <=> good[rxHead])
  BY <1>1, <1>2, <1>3 DEF Width, Works, Pending
<1>11. Pending(netPc', rxFrame') = good[rxHead]
  BY <1>2, <1>10 DEF Pending
<1>12. NetRing(h - 1, c + 1)'
  <2>1. came' = (c + 1) + (h - 1)
    BY <1>1, <1>7, <1>8
  <2>2. Order(c + 1, came', usable', netGot', Pending(netPc', rxFrame'))
    BY <1>1, <1>9, <1>11
  <2>3. cur' = At(rxHead', RingSize - 1) /\ desc'[cur'] = c + 1
    BY <1>1, <1>8
  <2>4. RingAt(h - 1, Width(netPc'), rxHead', rdh', rdt', desc') /\ Holds(h - 1, c + 1, rxHead', desc', good', usable')
    BY <1>1, <1>8, <1>10
  <2>. QED BY <2>1, <2>2, <2>3, <2>4 DEF NetRing
<1>13. NetOn'
  <2>1. stage # "task"
    BY <1>1, <1>4 DEF NetOn
  <2>2. stage' \in OnStages \cup {"failed"} /\ stage' # "task"
    BY <2>1, <1>1, <1>4 DEF NetOn
  <2>3. h - 1 \in Nat /\ c + 1 \in Nat
    BY <1>8
  <2>. QED BY <2>2, <2>3, <1>12 DEF NetOn
<1>14. NetTyped'
  BY <1>1, <1>8 DEF NetInv, NetTyped
<1>15. HandInv'
  BY <1>1, <1>3 DEF HandInv
<1>. QED BY <1>13, <1>14, <1>15 DEF NetInv

LEMMA PutKeeps == NetInv /\ Put => NetInv'
<1>. SUFFICES ASSUME NetInv, Put PROVE NetInv'
  OBVIOUS
<1>1. /\ netPc = "put" /\ rxFrame' = (IF rxFrame = -1 THEN cur ELSE rxFrame)
      /\ netPc' = (IF rxFrame = -1 THEN "wait" ELSE "retry")
      /\ stage' = stage /\ desc' = desc /\ good' = good /\ rdh' = rdh /\ rdt' = rdt /\ came' = came /\ cur' = cur
      /\ usable' = usable /\ rxHead' = rxHead /\ event0' = event0 /\ netGot' = netGot
  BY DEF Put, HandFree, init, controller
<1>2. cur \in Descs /\ HandInv
  BY DEF NetInv, NetTyped
<1>3. rxFrame = -1 /\ event0 = FALSE /\ cur # -1
  BY <1>1, <1>2, RingAssumption DEF HandInv, Descs
<1>4. NetOn
  BY <1>1 DEF NetInv, NetOff
<1>5. PICK h \in Nat, c \in Nat : NetRing(h, c)
  BY <1>4 DEF NetOn
<1>6. /\ Width(netPc') = Width(netPc) /\ Works(netPc') = Works(netPc)
      /\ Pending(netPc', rxFrame') = Pending(netPc, rxFrame)
  BY <1>1, <1>3 DEF Width, Works, Pending
<1>7. NetRing(h, c)'
  BY <1>1, <1>5, <1>6 DEF NetRing
<1>8. NetOn'
  <2>1. stage' \in OnStages \cup {"failed"} /\ stage' # "task"
    BY <1>1, <1>4 DEF NetOn
  <2>. QED BY <2>1, <1>7 DEF NetOn
<1>9. NetTyped'
  BY <1>1 DEF NetInv, NetTyped
<1>10. HandInv'
  BY <1>1, <1>2, <1>3 DEF HandInv
<1>. QED BY <1>8, <1>9, <1>10 DEF NetInv

LEMMA WaitKeeps == NetInv /\ Wait => NetInv'
<1>. SUFFICES ASSUME NetInv, Wait PROVE NetInv'
  OBVIOUS
<1>1. /\ netPc \in {"wait", "retry"} /\ event0 /\ event0' = FALSE
      /\ netPc' = (IF netPc = "wait" THEN "clear" ELSE "put")
      /\ stage' = stage /\ desc' = desc /\ good' = good /\ rdh' = rdh /\ rdt' = rdt /\ came' = came /\ cur' = cur
      /\ usable' = usable /\ rxHead' = rxHead /\ rxFrame' = rxFrame /\ netGot' = netGot
  BY DEF Wait, WaitOver, init, controller
<1>2. netPc = "wait" /\ rxFrame = -1 /\ netPc' = "clear"
  BY <1>1 DEF NetInv, HandInv
<1>4. NetOn
  BY <1>2 DEF NetInv, NetOff
<1>5. PICK h \in Nat, c \in Nat : NetRing(h, c)
  BY <1>4 DEF NetOn
<1>6. /\ Width(netPc') = Width(netPc) /\ Works(netPc') = Works(netPc)
      /\ Pending(netPc', rxFrame') = Pending(netPc, rxFrame)
  BY <1>1, <1>2 DEF Width, Works, Pending
<1>7. NetRing(h, c)'
  BY <1>1, <1>5, <1>6 DEF NetRing
<1>8. NetOn'
  <2>1. stage' \in OnStages \cup {"failed"} /\ stage' # "task"
    BY <1>1, <1>2, <1>4 DEF NetOn
  <2>. QED BY <2>1, <1>7 DEF NetOn
<1>9. NetTyped'
  BY <1>1 DEF NetInv, NetTyped
<1>10. HandInv'
  BY <1>1, <1>2 DEF HandInv
<1>. QED BY <1>8, <1>9, <1>10 DEF NetInv

LEMMA ClearKeeps == NetInv /\ Clear => NetInv'
<1>. SUFFICES ASSUME NetInv, Clear PROVE NetInv'
  OBVIOUS
<1>1. /\ netPc = "clear" /\ desc' = [desc EXCEPT ![cur] = 0] /\ good' = [good EXCEPT ![cur] = FALSE]
      /\ rdt' = cur /\ netPc' = "look"
      /\ stage' = stage /\ rdh' = rdh /\ came' = came /\ cur' = cur
      /\ usable' = usable /\ rxHead' = rxHead /\ rxFrame' = rxFrame /\ event0' = event0 /\ netGot' = netGot
  BY DEF Clear, TailReg, init, hand
<1>2. /\ desc \in [Descs -> -1 .. NetFrames] /\ good \in [Descs -> BOOLEAN] /\ NetFrames \in Nat
      /\ cur \in Descs /\ rdh \in Descs /\ rdt \in Descs /\ rxHead \in Descs /\ HandInv
  BY RingAssumption DEF NetInv, NetTyped
<1>3. rxFrame = -1 /\ event0 = FALSE
  BY <1>1, <1>2 DEF HandInv
<1>4. NetOn
  BY <1>1 DEF NetInv, NetOff
<1>5. PICK h \in Nat, c \in Nat : NetRing(h, c)
  BY <1>4 DEF NetOn
<1>6. /\ Width(netPc) = 1 /\ Works(netPc) /\ Pending(netPc, rxFrame) = FALSE
      /\ Width(netPc') = 0 /\ ~Works(netPc') /\ Pending(netPc', rxFrame') = FALSE
  BY <1>1 DEF Width, Works, Pending
<1>7. /\ RingAt(h, 1, rxHead, rdh, rdt, desc) /\ Holds(h, c, rxHead, desc, good, usable) /\ came = c + h
      /\ Order(c, came, usable, netGot, FALSE) /\ cur = At(rxHead, RingSize - 1)
  BY <1>5, <1>6 DEF NetRing
<1>8. desc \in [Descs -> Int] /\ desc' \in [Descs -> -1 .. NetFrames] /\ good' \in [Descs -> BOOLEAN]
  BY <1>1, <1>2
<1>9. /\ RingAt(h, 0, rxHead, rdh, cur, [desc EXCEPT ![cur] = 0])
      /\ Holds(h, c, rxHead, [desc EXCEPT ![cur] = 0], [good EXCEPT ![cur] = FALSE], usable)
  BY <1>2, <1>7, <1>8, RingClears
<1>10. NetRing(h, c)'
  <2>1. RingAt(h, Width(netPc'), rxHead', rdh', rdt', desc') /\ Holds(h, c, rxHead', desc', good', usable')
    BY <1>1, <1>6, <1>9
  <2>2. came' = c + h /\ Order(c, came', usable', netGot', Pending(netPc', rxFrame'))
    BY <1>1, <1>6, <1>7
  <2>. QED BY <2>1, <2>2, <1>6 DEF NetRing
<1>11. NetOn'
  <2>1. stage' \in OnStages \cup {"failed"} /\ stage' # "task"
    BY <1>1, <1>4 DEF NetOn
  <2>. QED BY <2>1, <1>10 DEF NetOn
<1>12. NetTyped'
  BY <1>1, <1>8 DEF NetInv, NetTyped
<1>13. HandInv'
  BY <1>1, <1>2, <1>3 DEF HandInv
<1>. QED BY <1>11, <1>12, <1>13 DEF NetInv

LEMMA ReadFrameKeeps == ASSUME NEW t \in NetReaders, NetInv, ReadFrame(t) PROVE NetInv'
<1>1. /\ rxFrame # -1 /\ netGot' = Append(netGot, desc[rxFrame]) /\ rxFrame' = -1 /\ event0' = TRUE
      /\ stage' = stage /\ desc' = desc /\ good' = good /\ rdh' = rdh /\ rdt' = rdt /\ came' = came /\ cur' = cur
      /\ usable' = usable /\ rxHead' = rxHead /\ netPc' = netPc
  BY DEF ReadFrame, Told, init, controller, worker
<1>2. /\ came \in Nat /\ usable \in Seq(Nat) /\ netGot \in Seq(Nat) /\ HandInv
  BY RingAssumption DEF NetInv, NetTyped
<1>3. netPc = "wait" /\ rxFrame = cur
  BY <1>1, <1>2 DEF HandInv
<1>4. NetOn
  BY <1>3 DEF NetInv, NetOff
<1>5. PICK h \in Nat, c \in Nat : NetRing(h, c)
  BY <1>4 DEF NetOn
<1>6. /\ Width(netPc') = Width(netPc) /\ Works(netPc') = Works(netPc)
      /\ Pending(netPc, rxFrame) = TRUE /\ Pending(netPc', rxFrame') = FALSE
  BY <1>1, <1>3 DEF Width, Works, Pending
<1>7. desc[cur] = c /\ Order(c, came, usable, netGot, TRUE)
  BY <1>5, <1>6 DEF NetRing
<1>8. netGot' = Append(netGot, c) /\ netGot' \in Seq(Nat)
  BY <1>1, <1>2, <1>3, <1>7
<1>9. Order(c, came, usable, netGot', FALSE)
  BY <1>2, <1>7, <1>8, OrderReads
<1>10. NetRing(h, c)'
  BY <1>1, <1>5, <1>6, <1>9 DEF NetRing
<1>11. NetOn'
  <2>1. stage' \in OnStages \cup {"failed"} /\ stage' # "task"
    BY <1>1, <1>3, <1>4 DEF NetOn
  <2>. QED BY <2>1, <1>10 DEF NetOn
<1>12. NetTyped'
  BY <1>1, <1>8 DEF NetInv, NetTyped
<1>13. HandInv'
  BY <1>1, <1>2, <1>3 DEF HandInv
<1>. QED BY <1>11, <1>12, <1>13 DEF NetInv

LEMMA WakeKeeps == ASSUME NEW t \in NetReaders, NetInv, ReadRetry(t) \/ Wake(t) PROVE NetInv'
<1>1. /\ stage' = stage /\ desc' = desc /\ good' = good /\ rdh' = rdh /\ rdt' = rdt /\ came' = came /\ cur' = cur
      /\ usable' = usable /\ rxHead' = rxHead /\ netPc' = netPc /\ rxFrame' = rxFrame /\ event0' = event0
      /\ netGot' = netGot
  BY DEF ReadRetry, Wake, init, controller, worker, hand
<1>2. NetTyped' /\ HandInv'
  BY <1>1 DEF NetInv, NetTyped, HandInv
<1>3. NetOff => NetOff'
  BY <1>1 DEF NetOff
<1>4. NetOn => NetOn'
  <2>. SUFFICES ASSUME NetOn PROVE NetOn'
    OBVIOUS
  <2>1. PICK h \in Nat, c \in Nat : NetRing(h, c)
    BY DEF NetOn
  <2>2. NetRing(h, c)'
    BY <2>1, <1>1 DEF NetRing
  <2>. QED BY <2>2, <1>1 DEF NetOn
<1>. QED BY <1>2, <1>3, <1>4 DEF NetInv

LEMMA NetSteps == NetInv /\ NetNext => NetInv'
<1>. SUFFICES ASSUME NetInv, NetNext PROVE NetInv'
  OBVIOUS
<1>1. CASE InitStep
  BY <1>1, InitStepKeeps
<1>2. CASE InitFails
  BY <1>2, InitFailsKeeps
<1>3. CASE \E ok \in BOOLEAN : Come(ok)
  BY <1>3, ComeKeeps
<1>4. CASE TakeDescriptor
  BY <1>4, TakeDescriptorKeeps
<1>5. CASE Put
  BY <1>5, PutKeeps
<1>6. CASE Wait
  BY <1>6, WaitKeeps
<1>7. CASE Clear
  BY <1>7, ClearKeeps
<1>8. CASE \E t \in NetReaders : ReadFrame(t) \/ ReadRetry(t) \/ Wake(t)
  BY <1>8, ReadFrameKeeps, WakeKeeps
<1>. QED BY <1>1, <1>2, <1>3, <1>4, <1>5, <1>6, <1>7, <1>8 DEF NetNext

\* Only a clear descriptor is filled: no other step counts a frame.
LEMMA NetFills == NetInv /\ [NetNext]_netVars => FillsFree
<1>. SUFFICES ASSUME NetInv, [NetNext]_netVars, came' # came PROVE desc[rdh] = 0
  BY DEF FillsFree
<1>1. \E ok \in BOOLEAN : Come(ok)
  BY DEF NetNext, netVars, InitStep, InitFails, TakeDescriptor, Put, Wait, Clear, ReadFrame, ReadRetry, Wake,
         controller
<1>. QED BY <1>1, ComeKeeps

LEMMA PrefixIs ==
  ASSUME NEW u \in Seq(Nat), NEW g \in Seq(Nat), Len(g) <= Len(u), \A i \in 1 .. Len(g) : g[i] = u[i]
  PROVE  g = SubSeq(u, 1, Len(g))
<1>. DEFINE k == Len(g)
            s == SubSeq(u, 1, k)
<1>1. k \in Nat /\ k <= Len(u) /\ Len(u) \in Nat /\ DOMAIN g = 1 .. k /\ g = [i \in 1 .. k |-> g[i]]
  OBVIOUS
<1>. HIDE DEF k
<1>2. s = [i \in 1 .. k |-> u[i]]
  <2>1. s = [i \in 1 .. (k - 1 + 1) |-> u[1 + i - 1]]
    BY <1>1
  <2>2. \A i \in 1 .. k : 1 + i - 1 = i
    BY <1>1
  <2>3. k - 1 + 1 = k
    BY <1>1
  <2>. QED BY <2>1, <2>2, <2>3
<1>3. \A i \in 1 .. k : g[i] = u[i]
  BY DEF k
<1>4. s = g
  BY <1>1, <1>2, <1>3
<1>. QED BY <1>4 DEF k

LEMMA NetRight == NetInv => NoRetry /\ EmptyIsEmpty /\ InOrder
<1>. SUFFICES ASSUME NetInv PROVE NoRetry /\ EmptyIsEmpty /\ InOrder
  OBVIOUS
<1>0. /\ desc \in [Descs -> -1 .. NetFrames] /\ rdh \in Descs /\ rxHead \in Descs
      /\ usable \in Seq(Nat) /\ netGot \in Seq(Nat)
  BY DEF NetInv, NetTyped
<1>1. NoRetry
  BY DEF NetInv, HandInv, NoRetry
<1>2. CASE NetOff
  <2>1. EmptyIsEmpty
    BY <1>0, <1>2, RingAssumption DEF NetOff, EmptyIsEmpty
  <2>2. usable = <<>> /\ netGot = <<>>
    BY <1>2 DEF NetOff
  <2>3. InOrder
    BY <2>2 DEF InOrder
  <2>. QED BY <1>1, <2>1, <2>3
<1>3. CASE NetOn
  <2>1. PICK h \in Nat, c \in Nat : NetRing(h, c)
    BY <1>3 DEF NetOn
  <2>2. ASSUME rdh = rxHead, NEW d \in Descs, desc[d] > 0
        PROVE  d = cur
    <3>0. RingSize \in Nat \ {0}
      BY RingAssumption
    <3>1. /\ h \in 0 .. (RingSize - 1 - Width(netPc)) /\ rdh = At(rxHead, h) /\ Width(netPc) \in {0, 1}
          /\ \A j \in h .. (RingSize - 1 - Width(netPc)) : desc[At(rxHead, j)] = 0
      BY <2>1 DEF NetRing, RingAt, Width
    <3>2. At(rxHead, 0) = rxHead /\ h \in 0 .. (RingSize - 1) /\ 0 \in 0 .. (RingSize - 1)
      BY <1>0, <3>0, <3>1 DEF At, Descs
    <3>3. h = 0
      <4>1. At(rxHead, h) = At(rxHead, 0)
        <5>1. rdh = At(rxHead, h)
          BY <3>1
        <5>2. rxHead = At(rxHead, 0)
          BY <3>2
        <5>. QED BY <5>1, <5>2, <2>2
      <4>. QED BY <1>0, <3>2, <4>1, AtOne
    <3>4. PICK j \in 0 .. (RingSize - 1) : At(rxHead, j) = d
      BY <1>0, <2>2, AtAll
    <3>5. ~(j \in h .. (RingSize - 1 - Width(netPc)))
      <4>1. desc[At(rxHead, j)] > 0
        BY <2>2, <3>4
      <4>2. desc[At(rxHead, j)] # 0
        BY <4>1
      <4>. QED BY <4>2, <3>1
    <3>6. Width(netPc) = 1 /\ j = RingSize - 1
      BY <3>0, <3>1, <3>3, <3>5
    <3>7. Works(netPc)
      BY <3>6 DEF Width
    <3>. QED BY <2>1, <3>4, <3>6, <3>7 DEF NetRing
  <2>3. EmptyIsEmpty
    BY <2>2 DEF EmptyIsEmpty
  <2>4. Len(netGot) <= Len(usable) /\ \A i \in 1 .. Len(netGot) : netGot[i] = usable[i]
    BY <2>1 DEF NetRing, Order
  <2>5. InOrder
    BY <1>0, <2>4, PrefixIs DEF InOrder
  <2>. QED BY <1>1, <2>3, <2>5
<1>. QED BY <1>2, <1>3 DEF NetInv

-----------------------------------------------------------------------------
(***************************************************************************)
(* The parts together.                                                     *)
(***************************************************************************)
KernelInv == FramesInv /\ AcpiInv /\ RoundInv /\ NetInv

\* Blocks that do not overlap are as many as their frames and orders.
LEMMA BlocksCounted ==
  ASSUME FramesInv
  PROVE  Cardinality({Block(b[1], Count(b[2])) : b \in owned}) = Cardinality(owned)
<1>. DEFINE blocks == {BlockOf(b) : b \in owned}
            f == [b \in owned |-> BlockOf(b)]
<1>1. \A b \in owned : b[1] \in BlockOf(b)
  <2>. SUFFICES ASSUME NEW b \in owned PROVE b[1] \in BlockOf(b)
    OBVIOUS
  <2>1. b \in (Frame \ {0}) \X Orders
    BY DEF FramesInv, FramesTyped
  <2>2. b[1] \in Nat /\ Count(b[2]) \in Nat \ {0}
    BY <2>1, LimitAssumption DEF Frame
  <2>. QED BY <2>2 DEF BlockOf, Block
<1>2. \A b, c \in owned : BlockOf(b) = BlockOf(c) => b = c
  BY <1>1 DEF FramesInv, BlocksApart
<1>3. f \in Bijection(owned, blocks)
  <2>1. f \in Injection(owned, blocks)
    BY <1>2 DEF Injection, IsInjective
  <2>2. f \in Surjection(owned, blocks)
    BY DEF Surjection
  <2>. QED BY <2>1, <2>2 DEF Bijection
<1>4. ExistsBijection(owned, blocks)
  BY <1>3 DEF ExistsBijection
<1>5. Cardinality(blocks) = Cardinality(owned)
  BY <1>4, FS_Bijection DEF FramesInv, FramesTyped
<1>. QED BY <1>5 DEF BlockOf

LEMMA FramesExclusive == FramesInv => Exclusive
<1>. SUFFICES ASSUME FramesInv PROVE Exclusive
  OBVIOUS
<1>. DEFINE blocks == {Block(b[1], Count(b[2])) : b \in owned}
<1>1. \A x \in blocks : \E b \in owned : x = BlockOf(b)
  BY DEF BlockOf
<1>2. \A x, y \in blocks : x # y => x \cap y = {}
  BY <1>1 DEF FramesInv, BlocksApart
<1>3. \A x \in blocks : x \cap framesFree = {} /\ x \cap Kept = {}
  BY <1>1 DEF FramesInv, BlocksApart
<1>4. framesFree \cap Kept = {}
  BY DEF FramesInv, BlocksApart
<1>5. \A x, y \in blocks \cup {framesFree, Kept} : x # y => x \cap y = {}
  BY <1>2, <1>3, <1>4
<1>6. Cardinality(blocks) = Cardinality(owned)
  BY BlocksCounted
<1>7. \A x \in blocks : \A f \in x : f # 0 /\ (f \in FromHeap \/ (Given(f) /\ f * PageSize >= MinBase))
  <2>. SUFFICES ASSUME NEW b \in owned, NEW f \in BlockOf(b)
                PROVE  f # 0 /\ (f \in FromHeap \/ (Given(f) /\ f * PageSize >= MinBase))
    BY <1>1
  <2>1. Fit(f)
    BY DEF FramesInv, BlocksApart
  <2>2. b \in (Frame \ {0}) \X Orders
    BY DEF FramesInv, FramesTyped
  <2>3. b[1] \in Nat \ {0} /\ Count(b[2]) \in Nat
    BY <2>2, LimitAssumption DEF Frame
  <2>4. f # 0
    BY <2>3 DEF BlockOf, Block
  <2>. QED BY <2>1, <2>4 DEF Fit
<1>. QED BY <1>5, <1>6, <1>7 DEF Exclusive, Kept

LEMMA KernelStart == Init => KernelInv
BY FramesStart, AcpiStart, RoundStart, NetStart DEF Init, KernelInv

\* Every step keeps the invariant and does what the step of its part may.
LEMMA KernelStep ==
  ASSUME KernelInv, [Next]_vars
  PROVE  /\ KernelInv'
         /\ part = "frames" => BelowLimit
         /\ part = "acpi" => Services!CompleteIsComplete /\ Services!NotifyFirst /\ Services!GoesLast
         /\ part = "net" => FillsFree
<1>. USE DEF KernelInv
<1>1. UNCHANGED acpiVars => AcpiInv' /\ RoundInv'
  <2>. SUFFICES ASSUME UNCHANGED acpiVars PROVE AcpiInv' /\ RoundInv'
    OBVIOUS
  <2>1. UNCHANGED AcpiState /\ UNCHANGED <<place, begun>>
    BY DEF acpiVars, AcpiState
  <2>2. AcpiInv'
    BY <2>1, AcpiStays
  <2>3. RoundInv'
    BY <2>1 DEF AcpiState, RoundInv, Newer
  <2>. QED BY <2>2, <2>3
<1>2. /\ UNCHANGED mmVars => FramesInv'
      /\ UNCHANGED acpiVars => AcpiInv' /\ RoundInv'
      /\ UNCHANGED netVars => NetInv'
  BY <1>1, FramesStays, NetStays
<1>3. BelowLimit /\ Services!CompleteIsComplete
  BY FramesBelowLimit, AcpiComplete
<1>4. CASE AcpiMoves /\ Services!Next
  <2>1. UNCHANGED mmVars /\ UNCHANGED netVars /\ part = "acpi"
    BY <1>4 DEF AcpiMoves
  <2>2. AcpiInv' /\ RoundInv' /\ Services!NotifyFirst /\ Services!GoesLast
    BY <1>4, AcpiNext, RoundNext, AcpiNotify, AcpiGoesLast
  <2>. QED BY <2>1, <2>2, <1>2, <1>3
<1>5. CASE NetMoves /\ NetNext
  <2>1. UNCHANGED mmVars /\ UNCHANGED acpiVars /\ part = "net"
    BY <1>5 DEF NetMoves
  <2>2. NetInv' /\ FillsFree
    BY <1>5, NetSteps, NetFills
  <2>. QED BY <2>1, <2>2, <1>2, <1>3
<1>6. CASE FramesMoves /\ MmNext
  <2>1. UNCHANGED netVars /\ UNCHANGED acpiVars /\ part = "frames"
    BY <1>6 DEF FramesMoves
  <2>2. FramesInv'
    BY <1>6, FramesNext
  <2>. QED BY <2>1, <2>2, <1>2, <1>3
<1>7. CASE PageMoves \/ EdgeMoves \/ LevelMoves \/ SerialMoves \/ KmsgMoves \/ CatchMoves \/ PciMoves \/ HeapMoves
  <2>1. UNCHANGED mmVars /\ UNCHANGED acpiVars /\ UNCHANGED netVars /\ part \notin {"frames", "acpi", "net"}
    BY <1>7 DEF PageMoves, EdgeMoves, LevelMoves, SerialMoves, KmsgMoves, CatchMoves, PciMoves, HeapMoves
  <2>. QED BY <2>1, <1>2
<1>8. CASE UNCHANGED vars
  <2>1. UNCHANGED mmVars /\ UNCHANGED acpiVars /\ UNCHANGED netVars
    BY <1>8 DEF vars
  <2>2. Services!NotifyFirst /\ Services!GoesLast /\ FillsFree
    BY <2>1, AcpiNotify, AcpiGoesLast, NetFills
  <2>. QED BY <2>1, <2>2, <1>2, <1>3
<1>. QED BY <1>4, <1>5, <1>6, <1>7, <1>8 DEF Next

\* The invariant holds in every behaviour of the parts.
THEOREM KernelInvariant == Spec => []KernelInv
<1>1. Init => KernelInv
  BY KernelStart
<1>2. KernelInv /\ [Next]_vars => KernelInv'
  BY KernelStep
<1>. QED BY <1>1, <1>2, PTL DEF Spec

\* mm_alloc_pages never gives a device more than it can address,
\* AcpiOsWaitEventsComplete returns when no function is queued or runs, notify
\* handlers that wait when a round begins go first, the power goes when nothing
\* is left that was queued before the last round, and the network card never
\* fills a descriptor that e1000_task has not cleared.
THEOREM KernelStepsAreRight == Spec => StepsRight
<1>. DEFINE A == /\ part = "frames" => BelowLimit
                 /\ part = "acpi" => Services!CompleteIsComplete /\ Services!NotifyFirst /\ Services!GoesLast
                 /\ part = "net" => FillsFree
<1>1. KernelInv /\ [Next]_vars => [A]_vars
  BY KernelStep
<1>2. StepsRight <=> [][A]_vars
  BY PTL DEF StepsRight
<1>. HIDE DEF A
<1>. QED BY <1>1, <1>2, KernelInvariant, PTL DEF Spec

\* mm_alloc_page, mm_alloc_pages and mm_free_pages: no frame has two owners and
\* a call fails only when there is no block, whatever the memory map, the sizes
\* and the limits are.
THEOREM FramesAreRight == Spec => [](Exclusive /\ FailsWhenFull)
<1>1. KernelInv => Exclusive /\ FailsWhenFull
  BY FramesExclusive DEF KernelInv, FramesInv
<1>. QED BY <1>1, KernelInvariant, PTL

\* AcpiOsExecute: functions of one type run in the order they were queued.
\* e1000_task and n_read: frames are read in the order they came and once,
\* whatever the size of the ring and the number of readers.
THEOREM QueuesAreRight == Spec => [](Services!InOrder /\ InOrder /\ EmptyIsEmpty /\ NoRetry)
<1>1. KernelInv => Services!InOrder /\ InOrder /\ EmptyIsEmpty /\ NoRetry
  BY NetRight DEF KernelInv, AcpiInv
<1>. QED BY <1>1, KernelInvariant, PTL
=============================================================================
