------------------------- MODULE IndirectRefs_proofs -------------------------
(***************************************************************************)
(* Proofs about vm/IndirectRefTable.cpp, for tables of any size, any       *)
(* number of frames and any number of references.  TableInv is inductive:  *)
(* the segments of the frames lie one above the other, the holes of each   *)
(* are counted, and its topmost slot is none.  It makes the search for a   *)
(* hole end within its own segment, and the holes given up by a removal    *)
(* be those below the topmost slot.  With it, RefInv is inductive as long  *)
(* as serial numbers do not wrap round: no reference handed out has a      *)
(* greater serial number than its slot.  From both follows that every      *)
(* step is one of AbstractReferences.                                      *)
(***************************************************************************)
EXTENDS IndirectRefs, FiniteSetTheorems, SequenceTheorems, WellFoundedInduction, TLAPS

-----------------------------------------------------------------------------
(* The largest of some numbers.                                            *)

LEMMA Least ==
  ASSUME NEW T \in SUBSET Nat, T # {}
  PROVE  \E x \in T : \A y \in T : x <= y
<1>1. PICK x \in T : \A y \in T : ~(<<y, x>> \in OpToRel(<, Nat))
  BY NatLessThanWellFounded, WFMin
<1>2. \A y \in T : ~(y < x)
  BY <1>1 DEF OpToRel
<1>3. QED
  BY <1>2

LEMMA Largest ==
  ASSUME NEW n \in Nat, NEW S \in SUBSET (0..n), S # {}
  PROVE  Max(S) \in S /\ \A y \in S : y <= Max(S)
<1> DEFINE T == {k \in Nat : n - k \in S}
<1>1. T # {}
  <2>1. PICK i \in S : TRUE
    OBVIOUS
  <2>2. n - i \in Nat /\ n - (n - i) = i
    OBVIOUS
  <2>3. QED
    BY <2>1, <2>2
<1>2. PICK x \in T : \A y \in T : x <= y
  <2> HIDE DEF T
  <2>1. T \in SUBSET Nat
    BY DEF T
  <2>2. QED
    BY <1>1, <2>1, Least
<1>3. ASSUME NEW y \in S PROVE n - x >= y
  <2>1. n - y \in T
    OBVIOUS
  <2>2. x <= n - y
    BY <1>2, <2>1
  <2>3. QED
    BY <2>2
<1>4. \E m \in S : \A y \in S : m >= y
  BY <1>3
<1>5. QED
  BY <1>4 DEF Max

-----------------------------------------------------------------------------
(* The inductive invariant.                                                *)

Slot     == [obj : Objects \cup {Null, Junk}, serial : 0..(Serials - 1)]
Segment  == [topIndex : Nat, numHoles : Nat]
AnyRef   == [index : 0..(MaxCount - 1), serial : 0..(Serials - 1)]

RefTypes ==
  /\ slots \in [0..(Allocated - 1) -> Slot]
  /\ Allocated \in InitialCount..MaxCount
  /\ topIndex \in 0..Allocated /\ numHoles \in Nat
  /\ cookies \in Seq(Segment)
  /\ issued \in SUBSET AnyRef /\ IsFiniteSet(issued)

\* The segment between two segment states: its holes are counted, and its
\* topmost slot is none.
Nulls(table, a, b) == {i \in a..(b - 1) : table[i].obj = Null}
SegmentOK(table, below, seg) ==
  /\ below.topIndex <= seg.topIndex
  /\ seg.numHoles = below.numHoles + Cardinality(Nulls(table, below.topIndex, seg.topIndex))
  /\ below.topIndex < seg.topIndex => table[seg.topIndex - 1].obj # Null

\* The state at which frame k's segment begins.
Start(frames, k) == IF k = 1 THEN FirstSegment ELSE frames[k - 1]

StackOK(table, frames) ==
  /\ \A k \in 1..Len(frames) : SegmentOK(table, Start(frames, k), frames[k])
  /\ \A j, k \in 1..Len(frames) : j <= k => frames[j].topIndex <= frames[k].topIndex

SegmentsInv ==
  /\ StackOK(slots, cookies)
  /\ SegmentOK(slots, CookieOf(cookies), Cookie)

\* A reference that has been handed out has a slot, whose serial number has not
\* fallen behind it.
SerialsInv ==
  \A r \in issued : r.index < Allocated /\ r.serial <= slots[r.index].serial

\* No slot has been used more often than references were handed out.
UsesInv == /\ Cardinality(issued) <= MaxAdds
           /\ \A i \in 0..(Allocated - 1) : slots[i].serial <= Cardinality(issued)

TableInv == RefTypes /\ SegmentsInv
RefInv   == TableInv /\ SerialsInv /\ UsesInv

-----------------------------------------------------------------------------
(* Holes.                                                                  *)

LEMMA NullsFinite ==
  ASSUME NEW table, NEW a \in Nat, NEW b \in Nat
  PROVE  /\ IsFiniteSet(Nulls(table, a, b)) /\ Cardinality(Nulls(table, a, b)) \in Nat
         /\ Nulls(table, a, b) = {} <=> Cardinality(Nulls(table, a, b)) = 0
<1>1. Nulls(table, a, b) \in SUBSET (a..(b - 1))
  BY DEF Nulls
<1>2. IsFiniteSet(a..(b - 1))
  BY FS_Interval
<1>3. IsFiniteSet(Nulls(table, a, b))
  BY <1>1, <1>2, FS_Subset
<1>4. QED
  BY <1>3, FS_CardinalityType, FS_EmptySet

\* A segment does not notice what happens above it.
LEMMA SegmentKept ==
  ASSUME NEW t1, NEW t2, NEW below \in Segment, NEW seg \in Segment,
         SegmentOK(t1, below, seg), \A i \in 0..(seg.topIndex - 1) : t2[i].obj = t1[i].obj
  PROVE  SegmentOK(t2, below, seg)
<1>1. below.topIndex \in Nat /\ seg.topIndex \in Nat
  BY DEF Segment
<1>2. Nulls(t2, below.topIndex, seg.topIndex) = Nulls(t1, below.topIndex, seg.topIndex)
  BY <1>1 DEF Nulls
<1>3. QED
  BY <1>1, <1>2 DEF SegmentOK

LEMMA EmptySegment ==
  ASSUME NEW table, NEW seg \in Segment
  PROVE  SegmentOK(table, seg, seg)
<1>1. seg.topIndex \in Nat /\ seg.numHoles \in Nat
  BY DEF Segment
<1>2. Nulls(table, seg.topIndex, seg.topIndex) = {}
  BY <1>1 DEF Nulls
<1>3. QED
  BY <1>1, <1>2, FS_EmptySet DEF SegmentOK

\* IndirectRefTable::add fills a hole: its search for one ends within the segment.
LEMMA HoleFound ==
  ASSUME NEW table, NEW below \in Segment, NEW seg \in Segment,
         SegmentOK(table, below, seg), HasHole(seg, below)
  PROVE  LET at == Max({i \in 0..(seg.topIndex - 2) : table[i].obj = Null})
         IN  at \in below.topIndex..(seg.topIndex - 2) /\ table[at].obj = Null
<1> DEFINE S == {i \in 0..(seg.topIndex - 2) : table[i].obj = Null}
<1>1. /\ below.topIndex \in Nat /\ seg.topIndex \in Nat
      /\ below.numHoles \in Nat /\ seg.numHoles \in Nat
  BY DEF Segment
<1>2. Nulls(table, below.topIndex, seg.topIndex) # {}
  BY <1>1, NullsFinite DEF SegmentOK, HasHole
<1>3. PICK i \in below.topIndex..(seg.topIndex - 1) : table[i].obj = Null
  BY <1>2 DEF Nulls
<1>4. i # seg.topIndex - 1 /\ i \in S
  BY <1>1, <1>3 DEF SegmentOK
<1>5. seg.topIndex - 2 \in Nat /\ S \in SUBSET (0..(seg.topIndex - 2)) /\ S # {}
  BY <1>1, <1>3, <1>4
<1>6. Max(S) \in S /\ i <= Max(S)
  <2> HIDE DEF S
  <2>1. QED
    BY <1>4, <1>5, Largest
<1>7. QED
  BY <1>1, <1>3, <1>6

LEMMA HoleFilled ==
  ASSUME NEW t1, NEW t2, NEW below \in Segment, NEW seg \in Segment, NEW s2 \in Segment,
         SegmentOK(t1, below, seg), HasHole(seg, below),
         NEW at \in below.topIndex..(seg.topIndex - 2), t1[at].obj = Null, t2[at].obj # Null,
         \A i \in 0..(seg.topIndex - 1) \ {at} : t2[i].obj = t1[i].obj,
         s2.topIndex = seg.topIndex, s2.numHoles = seg.numHoles - 1
  PROVE  SegmentOK(t2, below, s2)
<1> DEFINE N == Nulls(t1, below.topIndex, seg.topIndex)
<1>1. /\ below.topIndex \in Nat /\ seg.topIndex \in Nat
      /\ below.numHoles \in Nat /\ seg.numHoles \in Nat
  BY DEF Segment
<1>2. Nulls(t2, below.topIndex, seg.topIndex) = N \ {at} /\ at \in N
  BY <1>1 DEF Nulls
<1>3. Cardinality(N \ {at}) = Cardinality(N) - 1 /\ Cardinality(N) \in Nat
  BY <1>1, <1>2, NullsFinite, FS_RemoveElement
<1>4. below.topIndex < seg.topIndex => t2[seg.topIndex - 1].obj # Null
  BY <1>1 DEF SegmentOK
<1>5. QED
  BY <1>1, <1>2, <1>3, <1>4 DEF SegmentOK

\* IndirectRefTable::add appends.
LEMMA SlotAppended ==
  ASSUME NEW t1, NEW t2, NEW below \in Segment, NEW seg \in Segment, NEW s2 \in Segment,
         SegmentOK(t1, below, seg), t2[seg.topIndex].obj # Null,
         \A i \in 0..(seg.topIndex - 1) : t2[i].obj = t1[i].obj,
         s2.topIndex = seg.topIndex + 1, s2.numHoles = seg.numHoles
  PROVE  SegmentOK(t2, below, s2)
<1>1. /\ below.topIndex \in Nat /\ seg.topIndex \in Nat
      /\ below.numHoles \in Nat /\ seg.numHoles \in Nat
  BY DEF Segment
<1>2. below.topIndex <= seg.topIndex
  BY DEF SegmentOK
<1>3. Nulls(t2, below.topIndex, seg.topIndex + 1) = Nulls(t1, below.topIndex, seg.topIndex)
  BY <1>1, <1>2 DEF Nulls
<1>4. QED
  BY <1>1, <1>2, <1>3 DEF SegmentOK

\* IndirectRefTable::remove leaves a hole.
LEMMA HoleLeft ==
  ASSUME NEW t1, NEW t2, NEW below \in Segment, NEW seg \in Segment, NEW s2 \in Segment,
         SegmentOK(t1, below, seg),
         NEW at \in below.topIndex..(seg.topIndex - 2), t1[at].obj # Null, t2[at].obj = Null,
         \A i \in 0..(seg.topIndex - 1) \ {at} : t2[i].obj = t1[i].obj,
         s2.topIndex = seg.topIndex, s2.numHoles = seg.numHoles + 1
  PROVE  SegmentOK(t2, below, s2)
<1> DEFINE N == Nulls(t1, below.topIndex, seg.topIndex)
<1>1. /\ below.topIndex \in Nat /\ seg.topIndex \in Nat
      /\ below.numHoles \in Nat /\ seg.numHoles \in Nat
  BY DEF Segment
<1>2. Nulls(t2, below.topIndex, seg.topIndex) = N \cup {at} /\ at \notin N
  BY <1>1 DEF Nulls
<1>3. Cardinality(N \cup {at}) = Cardinality(N) + 1 /\ Cardinality(N) \in Nat
  BY <1>1, <1>2, NullsFinite, FS_AddElement
<1>4. below.topIndex < seg.topIndex => t2[seg.topIndex - 1].obj # Null
  BY <1>1 DEF SegmentOK
<1>5. QED
  BY <1>1, <1>2, <1>3, <1>4 DEF SegmentOK

\* How many holes, h at most, may follow each other directly below the topmost slot.
Runs(table, a, b, h) ==
  {k \in 0..h : k <= b - 1 - a /\ \A j \in 1..k : table[b - 1 - j].obj = Null}

\* IndirectRefTable::remove gives up the topmost slot and the holes below it.
LEMMA TopHoles ==
  ASSUME NEW table, NEW a \in Nat, NEW b \in Nat, a < b, table[b - 1].obj # Null,
         NEW h, h = Cardinality(Nulls(table, a, b)),
         NEW n, n = Max(Runs(table, a, b, h))
  PROVE  /\ n \in 0..(b - 1 - a)
         /\ \A i \in (b - 1 - n)..(b - 2) : table[i].obj = Null
         /\ h = Cardinality(Nulls(table, a, b - 1 - n)) + n
         /\ a < b - 1 - n => table[b - 2 - n].obj # Null
<1> DEFINE All(k) == \A j \in 1..k : table[b - 1 - j].obj = Null
           S == Runs(table, a, b, h)
           N == Nulls(table, a, b)
           N2 == Nulls(table, a, b - 1 - n)
           R == (b - 1 - n)..(b - 2)
<1>1. h \in Nat
  BY NullsFinite
<1>2. n = Max(S)
  OBVIOUS
<1>3. n \in S /\ \A k \in S : k <= n
  <2>1. 0 \in S
    BY <1>1 DEF Runs
  <2>2. S \in SUBSET (0..h)
    BY DEF Runs
  <2> HIDE DEF S
  <2>3. QED
    BY <1>1, <1>2, <2>1, <2>2, Largest
<1>4. n \in 0..(b - 1 - a) /\ n <= h /\ All(n)
  BY <1>1, <1>3 DEF Runs
<1>5. \A i \in R : table[i].obj = Null
  <2>1. SUFFICES ASSUME NEW i \in R PROVE table[i].obj = Null
    OBVIOUS
  <2>2. b - 1 - i \in 1..n /\ b - 1 - (b - 1 - i) = i
    BY <1>4
  <2>3. QED
    BY <1>4, <2>2
<1>6. h = Cardinality(N2) + n /\ Cardinality(N2) \in Nat
  <2>1. N = N2 \cup R /\ N2 \cap R = {}
    <3>1. b - 1 - n \in Nat /\ b - 1 - n <= b - 1 /\ a <= b - 1 - n
      BY <1>4
    <3>2. \A i : i \in N <=> i \in N2 \/ i \in R
      <4>1. \A i \in Int : i \in a..(b - 1) <=> i \in a..(b - 1 - n - 1) \/ i \in R \/ i = b - 1
        BY <3>1
      <4>2. \A i : i \in N => i \in Int /\ i \in a..(b - 1) /\ table[i].obj = Null
        BY DEF Nulls
      <4>3. \A i : i \in N2 <=> i \in a..(b - 1 - n - 1) /\ table[i].obj = Null
        BY DEF Nulls
      <4>4. \A i : i \in N <=> i \in a..(b - 1) /\ table[i].obj = Null
        BY DEF Nulls
      <4>5. \A i : i \in R => i \in Int
        OBVIOUS
      <4>6. \A i : i \in a..(b - 1 - n - 1) => i \in Int
        OBVIOUS
      <4> HIDE DEF N, N2, R
      <4>7. QED
        BY <1>5, <4>1, <4>2, <4>3, <4>4, <4>5, <4>6
    <3>3. N2 \cap R = {}
      <4>1. \A i \in R : i \notin a..(b - 1 - n - 1)
        BY <3>1
      <4>2. \A i \in N2 : i \in a..(b - 1 - n - 1)
        BY DEF Nulls
      <4> HIDE DEF N2, R
      <4>3. QED
        BY <4>1, <4>2
    <3> HIDE DEF N, N2, R
    <3>4. QED
      BY <3>2, <3>3
  <2>2. IsFiniteSet(R) /\ Cardinality(R) = n
    <3>1. b - 1 - n \in Int /\ b - 2 \in Int
      BY <1>4
    <3>2. /\ IsFiniteSet(R)
          /\ Cardinality(R) = IF b - 1 - n > b - 2 THEN 0 ELSE (b - 2) - (b - 1 - n) + 1
      BY <3>1, FS_Interval
    <3>3. QED
      BY <1>4, <3>2
  <2>3. IsFiniteSet(N2) /\ Cardinality(N2) \in Nat
    <3>1. b - 1 - n \in Nat
      BY <1>4
    <3>2. QED
      BY <3>1, NullsFinite
  <2> HIDE DEF N2, R
  <2>4. Cardinality(N2 \cup R) = Cardinality(N2) + Cardinality(R) - Cardinality(N2 \cap R)
    BY <2>2, <2>3, FS_Union
  <2>5. Cardinality(N2 \cap R) = 0
    BY <2>1, FS_EmptySet
  <2>6. n \in Nat
    BY <1>4
  <2>7. h = Cardinality(N2 \cup R)
    BY <2>1
  <2> HIDE DEF N
  <2>8. QED
    BY <2>2, <2>3, <2>4, <2>5, <2>6, <2>7
<1>7. a < b - 1 - n => table[b - 2 - n].obj # Null
  <2>1. SUFFICES ASSUME a < b - 1 - n, table[b - 2 - n].obj = Null PROVE FALSE
    OBVIOUS
  <2>2. Cardinality(N2) # 0
    <3>1. b - 1 - n \in Nat /\ b - 2 - n \in a..(b - 1 - n - 1)
      BY <1>4, <2>1
    <3>2. N2 # {}
      BY <2>1, <3>1 DEF Nulls
    <3>3. QED
      BY <3>1, <3>2, NullsFinite
  <2>3. n + 1 <= h
    BY <1>4, <1>6, <2>2
  <2>4. All(n + 1)
    <3>1. SUFFICES ASSUME NEW j \in 1..(n + 1) PROVE table[b - 1 - j].obj = Null
      OBVIOUS
    <3>2. CASE j = n + 1
      <4>1. b - 1 - j = b - 2 - n
        BY <1>4, <3>2
      <4>2. QED
        BY <2>1, <4>1
    <3>3. CASE j # n + 1
      <4>1. j \in 1..n
        BY <1>4, <3>3
      <4>2. QED
        BY <1>4, <4>1
    <3>4. QED
      BY <3>2, <3>3
  <2>5. n + 1 \in S
    BY <1>1, <1>4, <2>1, <2>3, <2>4 DEF Runs
  <2>6. QED
    BY <1>3, <1>4, <2>5
<1>8. QED
  BY <1>4, <1>5, <1>6, <1>7

LEMMA HolesConsumed ==
  ASSUME NEW table, NEW below \in Segment, NEW seg \in Segment, NEW s2 \in Segment,
         SegmentOK(table, below, seg), below.topIndex < seg.topIndex,
         NEW n, n = Max(Runs(table, below.topIndex, seg.topIndex, seg.numHoles - below.numHoles)),
         s2.topIndex = seg.topIndex - 1 - n, s2.numHoles = seg.numHoles - n
  PROVE  /\ SegmentOK(table, below, s2)
         /\ n \in 0..(seg.topIndex - 1 - below.topIndex)
         /\ \A i \in s2.topIndex..(seg.topIndex - 2) : table[i].obj = Null
<1> DEFINE h == seg.numHoles - below.numHoles
           c == Cardinality(Nulls(table, below.topIndex, s2.topIndex))
<1>1. PICK a, b, p, q : a = below.topIndex /\ b = seg.topIndex /\ p = below.numHoles /\ q = seg.numHoles
  OBVIOUS
<1>2. a \in Nat /\ b \in Nat /\ a < b /\ p \in Nat /\ q \in Nat
  BY <1>1 DEF Segment
<1>3. h = Cardinality(Nulls(table, a, b)) /\ table[b - 1].obj # Null
  <2>1. q = p + Cardinality(Nulls(table, a, b)) /\ table[b - 1].obj # Null
    BY <1>1, <1>2 DEF SegmentOK
  <2>2. Cardinality(Nulls(table, a, b)) \in Nat
    BY <1>2, NullsFinite
  <2>3. h = q - p
    BY <1>1
  <2> HIDE DEF h
  <2>4. QED
    BY <1>2, <2>1, <2>2, <2>3
<1>4. n = Max(Runs(table, a, b, h))
  BY <1>1
<1> HIDE DEF h
<1>5. /\ n \in 0..(b - 1 - a)
      /\ \A i \in (b - 1 - n)..(b - 2) : table[i].obj = Null
      /\ h = Cardinality(Nulls(table, a, b - 1 - n)) + n
      /\ a < b - 1 - n => table[b - 2 - n].obj # Null
  BY <1>2, <1>3, <1>4, TopHoles
<1>6. s2.topIndex = b - 1 - n /\ s2.topIndex \in Nat /\ a <= s2.topIndex /\ s2.topIndex - 1 = b - 2 - n
  BY <1>1, <1>2, <1>5
<1>7. h = c + n /\ c \in Nat
  <2>1. c \in Nat
    BY <1>1, <1>2, <1>6, NullsFinite
  <2>2. QED
    BY <1>1, <1>5, <1>6, <2>1
<1>8. s2.numHoles = p + c
  <2> HIDE DEF c
  <2>1. h = q - p /\ s2.numHoles = q - n
    BY <1>1 DEF h
  <2>2. QED
    BY <1>2, <1>5, <1>7, <2>1
<1>9. QED
  BY <1>1, <1>5, <1>6, <1>8 DEF SegmentOK

-----------------------------------------------------------------------------
(* What IndirectRefTable::add does.                                        *)

USE TableAssumption

LEMMA TableSize ==
  ASSUME NEW table, NEW m \in Nat, DOMAIN table = 0..(m - 1)
  PROVE  Cardinality(DOMAIN table) = m
<1>1. m - 1 \in Int /\ 0 \in Int
  OBVIOUS
<1>2. Cardinality(0..(m - 1)) = IF 0 > m - 1 THEN 0 ELSE (m - 1) - 0 + 1
  BY <1>1, FS_Interval
<1>3. QED
  BY <1>2

LEMMA NextSerial ==
  ASSUME NEW n \in Nat
  PROVE  /\ nextSerial(n) \in 0..(Serials - 1)
         /\ n + 1 < Serials => nextSerial(n) = n + 1
  BY DEF nextSerial

\* A table that has no slot left grows.
LEMMA TableGrown ==
  ASSUME RefTypes, NEW seg \in Segment, seg.topIndex <= Allocated, seg.topIndex < MaxCount
  PROVE  \E m \in Allocated..MaxCount :
           /\ seg.topIndex < m
           /\ DOMAIN Allocate(seg) = 0..(m - 1)
           /\ \A i \in 0..(m - 1) :
                Allocate(seg)[i] = IF i < Allocated THEN slots[i] ELSE [obj |-> Junk, serial |-> 0]
<1>1. seg.topIndex \in Nat /\ Allocated \in Nat /\ Allocated >= 1 /\ Allocated <= MaxCount
  BY DEF RefTypes, Segment
<1>2. CASE seg.topIndex < Allocated
  BY <1>1, <1>2 DEF Allocate, RefTypes
<1>3. CASE ~(seg.topIndex < Allocated)
  <2> DEFINE S == {2 * Allocated, MaxCount}
             m == Min(S)
  <2>1. \E x \in S : \A y \in S : x <= y
    BY <1>1
  <2>2. m \in S /\ m <= 2 * Allocated /\ m <= MaxCount
    <3>1. m \in S /\ \A y \in S : m <= y
      BY <2>1 DEF Min
    <3> HIDE DEF m
    <3>2. QED
      BY <3>1
  <2>3. Allocate(seg) = [i \in 0..(m - 1) |-> IF i < Allocated THEN slots[i] ELSE [obj |-> Junk, serial |-> 0]]
    BY <1>3 DEF Allocate
  <2> HIDE DEF m
  <2>4. m \in Allocated..MaxCount /\ seg.topIndex < m
    BY <1>1, <1>3, <2>2
  <2>5. QED
    BY <2>3, <2>4
<1>4. QED
  BY <1>2, <1>3

\* Slot at is given to obj, which is where a hole was or the segment ended.
Added(seg, below, at, obj) ==
  /\ slots' \in [0..(Allocated' - 1) -> Slot] /\ Allocated' \in Allocated..MaxCount
  /\ at \in 0..(Allocated' - 1) /\ below.topIndex <= at /\ at <= seg.topIndex
  /\ at # seg.topIndex => slots[at].obj = Null
  /\ \A i \in 0..(Allocated - 1) \ {at} : slots'[i] = slots[i]
  /\ \A i \in Allocated..(Allocated' - 1) \ {at} : slots'[i].serial = 0
  /\ slots'[at] = [obj |-> obj, serial |-> nextSerial(IF at < Allocated THEN slots[at].serial ELSE 0)]
  /\ topIndex' = IF at = seg.topIndex THEN seg.topIndex + 1 ELSE seg.topIndex
  /\ topIndex' <= Allocated'
  /\ numHoles' \in Nat
  /\ SegmentOK(slots', below, Cookie')
  /\ issued' = issued \cup {[index |-> at, serial |-> slots'[at].serial]}

LEMMA AddEffect ==
  ASSUME RefTypes, NEW seg \in Segment, NEW below \in Segment, seg.topIndex <= Allocated,
         SegmentOK(slots, below, seg), Room(seg, below),
         NEW obj \in Objects, AddTo(seg, below, obj)
  PROVE  \E at \in Nat : Added(seg, below, at, obj)
<1>1. /\ seg.topIndex \in Nat /\ seg.numHoles \in Nat /\ below.topIndex \in Nat /\ below.numHoles \in Nat
      /\ Allocated \in Nat /\ Allocated <= MaxCount /\ slots \in [0..(Allocated - 1) -> Slot]
      /\ below.topIndex <= seg.topIndex
  BY DEF RefTypes, Segment, SegmentOK
<1>2. \A n \in 0..(Serials - 1) : [obj |-> obj, serial |-> nextSerial(n)] \in Slot
  BY NextSerial DEF Slot
<1>3. CASE HasHole(seg, below)
  <2> DEFINE at == FreeSlot(seg, below)
             e  == [obj |-> obj, serial |-> nextSerial(slots[at].serial)]
  <2>1. at \in below.topIndex..(seg.topIndex - 2) /\ slots[at].obj = Null
    BY <1>3, HoleFound DEF FreeSlot
  <2>2. /\ slots' = [slots EXCEPT ![at] = e]
        /\ topIndex' = seg.topIndex /\ numHoles' = seg.numHoles - 1
        /\ issued' = issued \cup {[index |-> at, serial |-> nextSerial(slots[at].serial)]}
    BY <1>3 DEF AddTo
  <2> HIDE DEF at
  <2>3. at \in 0..(Allocated - 1) /\ at # seg.topIndex /\ at < Allocated
    BY <1>1, <2>1
  <2>4. e \in Slot
    BY <1>1, <1>2, <2>3 DEF Slot
  <2> HIDE DEF e
  <2>5. /\ slots' \in [0..(Allocated - 1) -> Slot] /\ slots'[at] = e
        /\ \A i \in 0..(Allocated - 1) \ {at} : slots'[i] = slots[i]
    BY <1>1, <2>2, <2>3, <2>4
  <2>6. Allocated' = Allocated
    BY <1>1, <2>2 DEF Allocated
  <2>7. e.obj = obj /\ e.serial = nextSerial(slots[at].serial)
    BY DEF e
  <2>8. numHoles' \in Nat
    BY <1>1, <1>3, <2>2 DEF HasHole
  <2>9. SegmentOK(slots', below, Cookie')
    <3>1. Cookie' \in Segment /\ Cookie'.topIndex = seg.topIndex /\ Cookie'.numHoles = seg.numHoles - 1
      BY <1>1, <2>2, <2>8 DEF Cookie, Segment
    <3>2. slots'[at].obj # Null
      BY <2>5, <2>7
    <3>3. \A i \in 0..(seg.topIndex - 1) \ {at} : slots'[i].obj = slots[i].obj
      BY <1>1, <2>5
    <3>4. QED
      BY <1>3, <2>1, <3>1, <3>2, <3>3, HoleFilled
  <2>10. slots'[at] = [obj |-> obj, serial |-> nextSerial(slots[at].serial)]
    BY <2>5 DEF e
  <2>11. Added(seg, below, at, obj)
    BY <1>1, <2>1, <2>2, <2>3, <2>5, <2>6, <2>7, <2>8, <2>9, <2>10 DEF Added
  <2>12. QED
    BY <2>3, <2>11
<1>4. CASE ~HasHole(seg, below)
  <2> DEFINE at == seg.topIndex
             table == Allocate(seg)
             e  == [obj |-> obj, serial |-> nextSerial(table[at].serial)]
  <2>1. /\ slots' = [table EXCEPT ![at] = e]
        /\ topIndex' = seg.topIndex + 1 /\ numHoles' = seg.numHoles
        /\ issued' = issued \cup {[index |-> at, serial |-> nextSerial(table[at].serial)]}
    BY <1>4 DEF AddTo, FreeSlot
  <2>2. PICK m \in Allocated..MaxCount :
           /\ at < m
           /\ DOMAIN table = 0..(m - 1)
           /\ \A i \in 0..(m - 1) :
                table[i] = IF i < Allocated THEN slots[i] ELSE [obj |-> Junk, serial |-> 0]
    <3>1. seg.topIndex < MaxCount
      BY <1>4 DEF Room
    <3> HIDE DEF table
    <3>2. QED
      BY <3>1, TableGrown DEF table
  <2> HIDE DEF table
  <2>3. \A i \in 0..(m - 1) : table[i] \in Slot
    BY <1>1, <2>2 DEF Slot
  <2>4. at \in 0..(m - 1) /\ e \in Slot
    <3>1. at \in 0..(m - 1)
      BY <1>1, <2>2
    <3>2. table[at].serial \in 0..(Serials - 1)
      BY <2>3, <3>1 DEF Slot
    <3>3. QED
      BY <1>2, <3>1, <3>2
  <2> HIDE DEF e
  <2>5. DOMAIN slots' = 0..(m - 1) /\ slots'[at] = e /\ \A i \in 0..(m - 1) \ {at} : slots'[i] = table[i]
    BY <2>1, <2>2, <2>4
  <2>6. slots' \in [0..(m - 1) -> Slot]
    <3>1. slots' = [i \in 0..(m - 1) |-> slots'[i]]
      BY <2>1, <2>2, <2>5
    <3>2. \A i \in 0..(m - 1) : slots'[i] \in Slot
      BY <2>3, <2>4, <2>5
    <3>3. QED
      BY <3>1, <3>2
  <2>7. Allocated' = m
    <3>1. m \in Nat
      BY <1>1
    <3>2. QED
      BY <2>5, <3>1, TableSize DEF Allocated
  <2>8. e.obj = obj /\ e.serial = nextSerial(table[at].serial)
    BY DEF e
  <2>9. SegmentOK(slots', below, Cookie')
    <3>1. /\ Cookie' \in Segment /\ Cookie'.topIndex = seg.topIndex + 1
          /\ Cookie'.numHoles = seg.numHoles
      BY <1>1, <2>1 DEF Cookie, Segment
    <3>2. slots'[seg.topIndex].obj # Null
      BY <2>5, <2>8
    <3>3. \A i \in 0..(seg.topIndex - 1) : slots'[i].obj = slots[i].obj
      BY <1>1, <2>2, <2>5
    <3>4. QED
      BY <3>1, <3>2, <3>3, SlotAppended
  <2>10. table[at].serial = IF at < Allocated THEN slots[at].serial ELSE 0
    BY <2>2, <2>4
  <2>11. slots'[at] = [obj |-> obj, serial |-> nextSerial(table[at].serial)]
    BY <2>5 DEF e
  <2>12. /\ \A i \in 0..(Allocated - 1) \ {at} : slots'[i] = slots[i]
         /\ \A i \in Allocated..(m - 1) \ {at} : slots'[i].serial = 0
    BY <1>1, <2>2, <2>5
  <2>13. numHoles' \in Nat /\ topIndex' <= m
    BY <1>1, <2>1, <2>2
  <2>14. issued' = issued \cup {[index |-> at, serial |-> slots'[at].serial]}
    BY <2>1, <2>11
  <2>15. Added(seg, below, at, obj)
    BY <1>1, <2>1, <2>4, <2>6, <2>7, <2>9, <2>10, <2>11, <2>12, <2>13, <2>14 DEF Added
  <2>16. QED
    BY <1>1, <2>15
<1>5. QED
  BY <1>3, <1>4

-----------------------------------------------------------------------------
(* The table stays sound.                                                  *)

USE DEF Segment

LEMMA FrameFacts ==
  ASSUME NEW frames \in Seq(Segment)
  PROVE  /\ Len(frames) \in Nat
         /\ CookieOf(frames) = Start(frames, Len(frames) + 1)
         /\ \A k \in 1..Len(frames) : frames[k] \in Segment
         /\ \A k \in 1..(Len(frames) + 1) : Start(frames, k) \in Segment
<1>1. Len(frames) \in Nat /\ \A k \in 1..Len(frames) : frames[k] \in Segment
  BY ElementOfSeq, LenProperties
<1>2. CookieOf(frames) = Start(frames, Len(frames) + 1)
  BY <1>1, EmptySeq DEF CookieOf, Start
<1>3. ASSUME NEW k \in 1..(Len(frames) + 1) PROVE Start(frames, k) \in Segment
  <2>1. CASE k = 1
    BY <2>1 DEF Start, FirstSegment
  <2>2. CASE k # 1
    <3>1. k - 1 \in 1..Len(frames)
      BY <1>1, <2>2
    <3>2. QED
      BY <1>1, <2>2, <3>1 DEF Start
  <2>3. QED
    BY <2>1, <2>2
<1>4. QED
  BY <1>1, <1>2, <1>3

\* No frame begins above the last.
LEMMA FramesBelow ==
  ASSUME NEW table, NEW frames \in Seq(Segment), StackOK(table, frames)
  PROVE  /\ CookieOf(frames) \in Segment
         /\ \A k \in 1..Len(frames) : frames[k].topIndex <= CookieOf(frames).topIndex
<1>1. Len(frames) \in Nat /\ CookieOf(frames) \in Segment
  BY FrameFacts
<1>2. ASSUME NEW k \in 1..Len(frames) PROVE frames[k].topIndex <= CookieOf(frames).topIndex
  <2>1. frames # <<>> /\ Len(frames) \in 1..Len(frames) /\ k <= Len(frames)
    BY <1>1, EmptySeq
  <2>2. QED
    BY <2>1 DEF StackOK, CookieOf
<1>3. QED
  BY <1>1, <1>2

\* What happens above the last frame's beginning leaves the stack as it is.
LEMMA StackKept ==
  ASSUME NEW t1, NEW t2, NEW frames \in Seq(Segment), StackOK(t1, frames),
         \A i \in 0..(CookieOf(frames).topIndex - 1) : t2[i].obj = t1[i].obj
  PROVE  StackOK(t2, frames)
<1>1. /\ Len(frames) \in Nat /\ CookieOf(frames) \in Segment
      /\ \A k \in 1..Len(frames) : frames[k].topIndex <= CookieOf(frames).topIndex
  BY FrameFacts, FramesBelow
<1>2. ASSUME NEW k \in 1..Len(frames) PROVE SegmentOK(t2, Start(frames, k), frames[k])
  <2>1. frames[k] \in Segment /\ Start(frames, k) \in Segment
    <3>1. k \in 1..(Len(frames) + 1)
      BY <1>1
    <3>2. QED
      BY <3>1, FrameFacts
  <2>2. SegmentOK(t1, Start(frames, k), frames[k])
    BY DEF StackOK
  <2>3. \A i \in 0..(frames[k].topIndex - 1) : t2[i].obj = t1[i].obj
    BY <1>1, <2>1
  <2> HIDE DEF Segment
  <2>4. QED
    BY <2>1, <2>2, <2>3, SegmentKept
<1>3. QED
  BY <1>2 DEF StackOK

\* Frames to to are left.
LEMMA StackCut ==
  ASSUME NEW table, NEW frames \in Seq(Segment), StackOK(table, frames), NEW to \in 0..(Len(frames) - 1)
  PROVE  LET f2 == SubSeq(frames, 1, to)
         IN  /\ f2 \in Seq(Segment) /\ Len(f2) = to
             /\ \A k \in 1..to : f2[k] = frames[k]
             /\ StackOK(table, f2) /\ frames[to + 1] \in Segment
             /\ SegmentOK(table, CookieOf(f2), frames[to + 1])
             /\ frames[to + 1].topIndex <= CookieOf(frames).topIndex
<1> DEFINE f2 == SubSeq(frames, 1, to)
<1>1. Len(frames) \in Nat /\ to \in Nat /\ to + 1 \in 1..Len(frames)
  BY FrameFacts
<1>2. f2 \in Seq(Segment) /\ Len(f2) = to /\ \A k \in 1..to : f2[k] = frames[k]
  <2>1. \A k \in 1..to : frames[k] \in Segment
    BY <1>1, FrameFacts
  <2>2. /\ f2 \in Seq(Segment) /\ Len(f2) = IF 1 <= to THEN to - 1 + 1 ELSE 0
        /\ \A k \in 1..(to - 1 + 1) : f2[k] = frames[1 + k - 1]
    BY <1>1, <2>1, SubSeqProperties
  <2> HIDE DEF f2
  <2>3. Len(f2) = to
    BY <1>1, <2>2
  <2>4. ASSUME NEW k \in 1..to PROVE f2[k] = frames[k]
    <3>1. k \in 1..(to - 1 + 1) /\ 1 + k - 1 = k
      BY <1>1
    <3>2. QED
      BY <2>2, <3>1
  <2>5. QED
    BY <2>2, <2>3, <2>4
<1> HIDE DEF f2
<1>3. \A k \in 1..(to + 1) : Start(f2, k) = Start(frames, k)
  <2>1. SUFFICES ASSUME NEW k \in 1..(to + 1), k # 1 PROVE f2[k - 1] = frames[k - 1]
    BY DEF Start
  <2>2. k - 1 \in 1..to
    BY <1>1, <2>1
  <2>3. QED
    BY <1>2, <2>2
<1>4. StackOK(table, f2)
  <2>1. 1..to \subseteq 1..Len(frames) /\ 1..to \subseteq 1..(to + 1)
    BY <1>1
  <2>2. \A k \in 1..to : SegmentOK(table, Start(f2, k), f2[k])
    BY <1>2, <1>3, <2>1 DEF StackOK
  <2>3. \A j, k \in 1..to : j <= k => f2[j].topIndex <= f2[k].topIndex
    BY <1>2, <2>1 DEF StackOK
  <2>4. QED
    BY <1>2, <2>2, <2>3 DEF StackOK
<1>5. CookieOf(f2) = Start(frames, to + 1)
  BY <1>1, <1>2, <1>3, FrameFacts
<1>6. SegmentOK(table, CookieOf(f2), frames[to + 1])
  BY <1>1, <1>5 DEF StackOK
<1>7. frames[to + 1] \in Segment /\ frames[to + 1].topIndex <= CookieOf(frames).topIndex
  BY <1>1, FrameFacts, FramesBelow
<1>8. QED
  BY <1>2, <1>4, <1>6, <1>7 DEF f2

LEMMA TableFacts ==
  ASSUME TableInv
  PROVE  /\ Allocated \in Nat /\ topIndex \in Nat /\ topIndex <= Allocated /\ Allocated <= MaxCount
         /\ slots \in [0..(Allocated - 1) -> Slot] /\ cookies \in Seq(Segment) /\ Len(cookies) \in Nat
         /\ Cookie \in Segment /\ Cookie.topIndex = topIndex /\ Cookie.numHoles = numHoles
         /\ CookieOf(cookies) \in Segment /\ CookieOf(cookies).topIndex <= topIndex
         /\ StackOK(slots, cookies) /\ SegmentOK(slots, CookieOf(cookies), Cookie)
<1>1. /\ Allocated \in Nat /\ topIndex \in Nat /\ topIndex <= Allocated /\ Allocated <= MaxCount
      /\ slots \in [0..(Allocated - 1) -> Slot] /\ cookies \in Seq(Segment)
  BY DEF TableInv, RefTypes
<1>2. Len(cookies) \in Nat /\ CookieOf(cookies) \in Segment
  BY <1>1, FrameFacts
<1>3. Cookie \in Segment /\ Cookie.topIndex = topIndex /\ Cookie.numHoles = numHoles
  BY <1>1 DEF Cookie, TableInv, RefTypes
<1>4. StackOK(slots, cookies) /\ SegmentOK(slots, CookieOf(cookies), Cookie)
  BY DEF TableInv, SegmentsInv
<1>5. CookieOf(cookies).topIndex <= topIndex
  BY <1>3, <1>4 DEF SegmentOK
<1>6. QED
  BY <1>1, <1>2, <1>3, <1>4, <1>5

\* Only the frames' states need to be looked at when the slots are left alone.
LEMMA SlotsAlone ==
  ASSUME TableInv, UNCHANGED slots, issued' \in SUBSET issued, cookies' \in Seq(Segment),
         StackOK(slots, cookies'), Cookie' \in Segment, topIndex' <= Allocated,
         SegmentOK(slots, CookieOf(cookies'), Cookie')
  PROVE  TableInv'
<1>1. Allocated' = Allocated /\ topIndex' \in Nat /\ numHoles' \in Nat
  BY DEF Allocated, Cookie
<1>2. CookieOf(cookies)' = CookieOf(cookies')
  BY DEF CookieOf
<1>3. RefTypes'
  BY <1>1, TableFacts, FS_Subset DEF TableInv, RefTypes
<1>4. SegmentsInv'
  BY <1>2 DEF SegmentsInv
<1>5. QED
  BY <1>3, <1>4 DEF TableInv

LEMMA AddKeepsTable ==
  ASSUME RefTypes, NEW seg \in Segment, NEW at \in Nat, NEW obj \in Objects,
         cookies' \in Seq(Segment), StackOK(slots, cookies'), seg.topIndex <= Allocated,
         Added(seg, CookieOf(cookies'), at, obj)
  PROVE  TableInv'
<1>0. Allocated \in Nat
  BY DEF RefTypes
<1>1. CookieOf(cookies') \in Segment
  BY FrameFacts
<1>2. \A i \in 0..(CookieOf(cookies').topIndex - 1) : slots'[i].obj = slots[i].obj
  <2>1. /\ CookieOf(cookies').topIndex \in Nat /\ CookieOf(cookies').topIndex <= at
        /\ at <= seg.topIndex /\ seg.topIndex \in Nat /\ Allocated \in Nat
    BY <1>0, <1>1 DEF Added
  <2>2. \A i \in 0..(Allocated - 1) \ {at} : slots'[i] = slots[i]
    BY DEF Added
  <2>3. QED
    BY <2>1, <2>2
<1>3. StackOK(slots', cookies')
  BY <1>2, StackKept
<1>4. SegmentsInv'
  BY <1>3 DEF Added, SegmentsInv, CookieOf
<1>5. [index |-> at, serial |-> slots'[at].serial] \in AnyRef
  <2>1. PICK m : m = Allocated'
    OBVIOUS
  <2>2. slots' \in [0..(m - 1) -> Slot] /\ m \in Allocated..MaxCount /\ at \in 0..(m - 1)
    BY <2>1 DEF Added
  <2>3. at \in 0..(MaxCount - 1)
    BY <1>0, <2>2
  <2>4. slots'[at] \in Slot
    BY <2>2
  <2>5. QED
    BY <2>3, <2>4 DEF AnyRef, Slot
<1>6. issued' \in SUBSET AnyRef /\ IsFiniteSet(issued')
  <2>1. IsFiniteSet(issued) /\ issued \in SUBSET AnyRef
    BY DEF RefTypes
  <2>2. issued' = issued \cup {[index |-> at, serial |-> slots'[at].serial]}
    BY DEF Added
  <2>3. QED
    BY <1>5, <2>1, <2>2, FS_AddElement
<1>7. topIndex' \in 0..Allocated' /\ Allocated' \in InitialCount..MaxCount /\ numHoles' \in Nat
  BY DEF Added, RefTypes
<1>8. slots' \in [0..(Allocated' - 1) -> Slot]
  BY DEF Added
<1>9. QED
  BY <1>4, <1>6, <1>7, <1>8 DEF TableInv, RefTypes

LEMMA AddReferenceEffect ==
  ASSUME TableInv, AddReference
  PROVE  \E obj \in Objects, at \in Nat : Added(Cookie, CookieOf(cookies), at, obj)
<1>1. PICK obj \in Objects : AddTo(Cookie, CookieOf(cookies), obj)
  BY DEF AddReference
<1>2. Room(Cookie, CookieOf(cookies))
  BY DEF AddReference
<1>3. RefTypes
  BY DEF TableInv
<1> HIDE DEF Segment
<1>4. QED
  BY <1>1, <1>2, <1>3, TableFacts, AddEffect

\* PopLocalFrame adds to the segment below the popped one.
LEMMA PopLocalFrameEffect ==
  ASSUME TableInv, PopLocalFrame
  PROVE  LET n == Len(cookies)
         IN  /\ n \in Nat \ {0} /\ cookies' = SubSeq(cookies, 1, n - 1)
             /\ cookies' \in Seq(Segment) /\ StackOK(slots, cookies') /\ Len(cookies') = n - 1
             /\ cookies[n] \in Segment /\ cookies[n].topIndex <= topIndex
             /\ \E obj \in Objects, at \in Nat : Added(cookies[n], CookieOf(cookies'), at, obj)
<1> DEFINE n == Len(cookies)
<1>1. n \in Nat \ {0} /\ CookieOf(cookies) = cookies[n] /\ cookies' = SubSeq(cookies, 1, n - 1)
  BY TableFacts, EmptySeq DEF PopLocalFrame, CookieOf
<1>2. /\ cookies' \in Seq(Segment) /\ Len(cookies') = n - 1
      /\ StackOK(slots, cookies') /\ cookies[n] \in Segment
      /\ SegmentOK(slots, CookieOf(cookies'), cookies[n])
  <2>1. n - 1 \in 0..(n - 1) /\ n - 1 + 1 = n
    BY <1>1
  <2> HIDE DEF Segment
  <2>2. QED
    BY <1>1, <2>1, TableFacts, StackCut
<1>3. cookies[n].topIndex <= topIndex /\ cookies[n].topIndex <= Allocated
  BY <1>1, <1>2, TableFacts
<1>4. PICK obj \in Objects : AddTo(cookies[n], CookieOf(cookies'), obj)
  BY <1>1 DEF PopLocalFrame
<1>5. Room(cookies[n], CookieOf(cookies'))
  BY <1>1 DEF PopLocalFrame
<1>6. RefTypes /\ CookieOf(cookies') \in Segment
  BY <1>2, FrameFacts DEF TableInv
<1>7. \E at \in Nat : Added(cookies[n], CookieOf(cookies'), at, obj)
  <2> HIDE DEF Segment
  <2>1. QED
    BY <1>2, <1>3, <1>4, <1>5, <1>6, AddEffect
<1>8. QED
  BY <1>1, <1>2, <1>3, <1>7

LEMMA RemoveTopmostEffect ==
  ASSUME TableInv, NEW ref \in issued, RemoveTopmost(ref)
  PROVE  /\ SegmentOK(slots, CookieOf(cookies), Cookie') /\ Cookie' \in Segment
         /\ topIndex' \in CookieOf(cookies).topIndex..(topIndex - 1)
         /\ \A i \in topIndex'..(topIndex - 2) : slots[i].obj = Null
<1> DEFINE below == CookieOf(cookies)
           n == Consumed
<1>1. below.topIndex < topIndex
  <2>1. below.topIndex <= ref.index /\ ref.index < topIndex /\ ref.index = topIndex - 1
    BY DEF RemoveTopmost, Removable
  <2>2. QED
    BY <2>1, TableFacts
<1>2. n = Max(Runs(slots, below.topIndex, topIndex, numHoles - below.numHoles))
  BY DEF Consumed, Runs
<1>3. /\ below \in Segment /\ Cookie \in Segment /\ SegmentOK(slots, below, Cookie)
      /\ Cookie.topIndex = topIndex /\ Cookie.numHoles = numHoles
  BY TableFacts
<1>4. topIndex' = topIndex - 1 - n /\ numHoles' = numHoles - n
  BY DEF RemoveTopmost
<1> HIDE DEF n, below
<1>5. topIndex \in Nat /\ numHoles \in Nat /\ below.topIndex \in Nat /\ below.numHoles \in Nat
  BY <1>3, TableFacts
<1>6. /\ n \in 0..(topIndex - 1 - below.topIndex) /\ numHoles - below.numHoles >= n
  <2> DEFINE h == numHoles - below.numHoles
  <2>1. h = Cardinality(Nulls(slots, below.topIndex, topIndex)) /\ slots[topIndex - 1].obj # Null
    <3>1. Cardinality(Nulls(slots, below.topIndex, topIndex)) \in Nat
      BY <1>5, NullsFinite
    <3>2. numHoles = below.numHoles + Cardinality(Nulls(slots, below.topIndex, topIndex))
      BY <1>3 DEF SegmentOK
    <3>3. QED
      BY <1>1, <1>3, <1>5, <3>1, <3>2 DEF SegmentOK
  <2> HIDE DEF h
  <2>2. /\ n \in 0..(topIndex - 1 - below.topIndex)
        /\ h = Cardinality(Nulls(slots, below.topIndex, topIndex - 1 - n)) + n
    BY <1>1, <1>2, <1>5, <2>1, TopHoles DEF h
  <2>3. Cardinality(Nulls(slots, below.topIndex, topIndex - 1 - n)) \in Nat
    <3>1. topIndex - 1 - n \in Nat
      BY <1>5, <2>2
    <3>2. QED
      BY <1>5, <3>1, NullsFinite
  <2>4. h >= n
    BY <2>2, <2>3
  <2>5. QED
    BY <2>2, <2>4 DEF h
<1>7. Cookie' \in Segment /\ Cookie'.topIndex = topIndex - 1 - n /\ Cookie'.numHoles = numHoles - n
  BY <1>4, <1>5, <1>6 DEF Cookie
<1>8. /\ SegmentOK(slots, below, Cookie')
      /\ \A i \in Cookie'.topIndex..(topIndex - 2) : slots[i].obj = Null
  <2> HIDE DEF Segment
  <2>1. QED
    BY <1>1, <1>2, <1>3, <1>7, HolesConsumed
<1>9. QED
  BY <1>4, <1>5, <1>6, <1>7, <1>8 DEF below

LEMMA RemoveInsideEffect ==
  ASSUME TableInv, NEW ref \in issued, RemoveInside(ref)
  PROVE  LET at == ref.index
         IN  /\ at \in Nat /\ CookieOf(cookies).topIndex <= at /\ at < topIndex - 1
             /\ slots[at].obj # Null
             /\ slots' \in [0..(Allocated - 1) -> Slot] /\ Allocated' = Allocated
             /\ slots'[at].obj = Null /\ slots'[at].serial = slots[at].serial
             /\ \A i \in 0..(Allocated - 1) \ {at} : slots'[i] = slots[i]
             /\ numHoles' = numHoles + 1 /\ UNCHANGED <<topIndex, cookies, issued>>
<1> DEFINE at == ref.index
           e  == [slots[at] EXCEPT !.obj = Null]
<1>1. /\ CookieOf(cookies).topIndex <= at /\ at < topIndex - 1 /\ slots[at].obj # Null
      /\ slots' = [slots EXCEPT ![at] = e] /\ numHoles' = numHoles + 1
      /\ UNCHANGED <<topIndex, cookies, issued>>
  BY DEF RemoveInside, Removable
<1>2. at \in Nat
  BY DEF TableInv, RefTypes, AnyRef
<1> HIDE DEF at
<1>3. at \in 0..(Allocated - 1) /\ slots \in [0..(Allocated - 1) -> Slot]
  BY <1>1, <1>2, TableFacts
<1>4. e \in Slot /\ e.obj = Null /\ e.serial = slots[at].serial
  <2>1. slots[at] \in Slot
    BY <1>3
  <2>2. QED
    BY <2>1 DEF Slot
<1> HIDE DEF e
<1>5. /\ slots' \in [0..(Allocated - 1) -> Slot] /\ slots'[at] = e
      /\ \A i \in 0..(Allocated - 1) \ {at} : slots'[i] = slots[i]
  BY <1>1, <1>3, <1>4
<1>6. Allocated' = Allocated
  BY <1>3, <1>5 DEF Allocated
<1>7. QED
  BY <1>1, <1>2, <1>4, <1>5, <1>6 DEF at

\* Every step keeps the table sound, whatever the serial numbers do.
LEMMA TableInit == RefInit => TableInv
<1> SUFFICES ASSUME RefInit PROVE TableInv
  OBVIOUS
<1>1. DOMAIN slots = 0..(InitialCount - 1) /\ InitialCount \in Nat
  BY DEF RefInit
<1>2. Allocated = InitialCount
  BY <1>1, TableSize DEF Allocated
<1>3. [obj |-> Junk, serial |-> 0] \in Slot
  BY DEF Slot
<1>4. slots \in [0..(Allocated - 1) -> Slot]
  BY <1>2, <1>3 DEF RefInit
<1>5. cookies = <<>> /\ cookies \in Seq(Segment) /\ Len(cookies) = 0
  BY EmptySeq DEF RefInit
<1>6. RefTypes
  BY <1>2, <1>4, <1>5, FS_EmptySet DEF RefInit, RefTypes
<1>7. CookieOf(cookies) = Cookie /\ Cookie \in Segment
  BY <1>5 DEF RefInit, CookieOf, Cookie, FirstSegment
<1>8. StackOK(slots, cookies)
  BY <1>5 DEF StackOK
<1>9. QED
  BY <1>6, <1>7, <1>8, EmptySegment DEF TableInv, SegmentsInv

LEMMA TableStep == ASSUME TableInv, [RefNext]_refVars PROVE TableInv'
<1>1. CASE UNCHANGED refVars
  <2>1. issued' \in SUBSET issued /\ cookies' = cookies /\ Cookie' = Cookie /\ topIndex' = topIndex
    BY <1>1 DEF refVars, Cookie
  <2> HIDE DEF Segment
  <2>2. QED
    BY <1>1, <2>1, TableFacts, SlotsAlone DEF refVars
<1>2. CASE AddReference
  <2>1. PICK obj \in Objects, at \in Nat : Added(Cookie, CookieOf(cookies), at, obj)
    BY <1>2, AddReferenceEffect
  <2>2. cookies' = cookies /\ RefTypes
    BY <1>2 DEF AddReference, TableInv
  <2> HIDE DEF Segment
  <2>3. QED
    BY <2>1, <2>2, TableFacts, AddKeepsTable
<1>3. CASE PopLocalFrame
  <2> DEFINE n == Len(cookies)
  <2>1. /\ cookies' \in Seq(Segment) /\ StackOK(slots, cookies')
        /\ cookies[n] \in Segment /\ cookies[n].topIndex <= topIndex
        /\ \E obj \in Objects, at \in Nat : Added(cookies[n], CookieOf(cookies'), at, obj)
    BY <1>3, PopLocalFrameEffect
  <2>2. PICK obj \in Objects, at \in Nat : Added(cookies[n], CookieOf(cookies'), at, obj)
    BY <2>1
  <2>3. RefTypes /\ cookies[n].topIndex <= Allocated
    BY <2>1, TableFacts DEF TableInv
  <2> HIDE DEF Segment, n
  <2>4. QED
    BY <2>1, <2>2, <2>3, AddKeepsTable
<1>4. ASSUME NEW ref \in issued, RemoveTopmost(ref) PROVE TableInv'
  <2>1. /\ SegmentOK(slots, CookieOf(cookies), Cookie') /\ Cookie' \in Segment
        /\ topIndex' \in CookieOf(cookies).topIndex..(topIndex - 1)
    BY <1>4, RemoveTopmostEffect
  <2>2. UNCHANGED <<slots, cookies, issued>> /\ topIndex' <= Allocated
    BY <1>4, <2>1, TableFacts DEF RemoveTopmost
  <2> HIDE DEF Segment
  <2>3. QED
    BY <2>1, <2>2, TableFacts, SlotsAlone
<1>5. ASSUME NEW ref \in issued, RemoveInside(ref) PROVE TableInv'
  <2> DEFINE at == ref.index
  <2>1. /\ CookieOf(cookies).topIndex <= at /\ at < topIndex - 1 /\ slots[at].obj # Null
        /\ numHoles' = numHoles + 1 /\ UNCHANGED <<topIndex, cookies, issued>>
    BY <1>5, RemoveInsideEffect
  <2>2. at \in Nat /\ topIndex \in Nat /\ numHoles \in Nat /\ topIndex <= Allocated /\ Allocated \in Nat
    BY <1>5, RemoveInsideEffect, TableFacts DEF TableInv, RefTypes
  <2>3. /\ slots' \in [0..(Allocated - 1) -> Slot] /\ slots'[at].obj = Null
        /\ \A i \in 0..(Allocated - 1) \ {at} : slots'[i] = slots[i]
    BY <1>5, RemoveInsideEffect
  <2>4. Allocated' = Allocated
    BY <1>5, RemoveInsideEffect
  <2> HIDE DEF at
  <2>5. Cookie' \in Segment /\ Cookie'.topIndex = Cookie.topIndex /\ Cookie'.numHoles = Cookie.numHoles + 1
    BY <2>1, <2>2 DEF Cookie
  <2>6. RefTypes'
    BY <2>1, <2>2, <2>3, <2>4 DEF TableInv, RefTypes
  <2>7. SegmentOK(slots', CookieOf(cookies), Cookie')
    <3>1. at \in CookieOf(cookies).topIndex..(Cookie.topIndex - 2) /\ Cookie.topIndex = topIndex
      <4>1. CookieOf(cookies).topIndex \in Nat /\ Cookie.topIndex = topIndex
        BY TableFacts
      <4>2. QED
        BY <2>1, <2>2, <4>1
    <3>2. \A i \in 0..(Cookie.topIndex - 1) \ {at} : slots'[i].obj = slots[i].obj
      BY <2>2, <2>3, <3>1
    <3> HIDE DEF Segment
    <3>3. slots[at].obj # Null /\ slots'[at].obj = Null
      BY <2>1, <2>3
    <3>4. CookieOf(cookies) \in Segment /\ Cookie \in Segment /\ SegmentOK(slots, CookieOf(cookies), Cookie)
      BY TableFacts
    <3>5. QED
      BY <2>5, <3>1, <3>2, <3>3, <3>4, HoleLeft
  <2>8. StackOK(slots', cookies)
    <3>1. CookieOf(cookies).topIndex \in Nat
      BY TableFacts
    <3>2. \A i \in 0..(CookieOf(cookies).topIndex - 1) : slots'[i].obj = slots[i].obj
      BY <2>1, <2>2, <2>3, <3>1
    <3> HIDE DEF Segment
    <3>3. QED
      BY <3>2, TableFacts, StackKept
  <2>9. SegmentsInv'
    BY <2>1, <2>7, <2>8 DEF SegmentsInv, CookieOf
  <2>10. QED
    BY <2>6, <2>9 DEF TableInv
<1>6. CASE PushFrame
  <2>1. cookies' = Append(cookies, Cookie) /\ UNCHANGED <<slots, topIndex, numHoles, issued>>
    BY <1>6 DEF PushFrame
  <2> DEFINE n == Len(cookies)
             c2 == Append(cookies, Cookie)
  <2>2. /\ c2 \in Seq(Segment) /\ Len(c2) = n + 1 /\ c2[n + 1] = Cookie /\ n \in Nat /\ c2 # <<>>
        /\ \A k \in 1..n : c2[k] = cookies[k]
    <3> HIDE DEF Segment
    <3>1. QED
      BY TableFacts, AppendProperties
  <2> HIDE DEF c2
  <2>3. StackOK(slots, c2)
    <3>1. ASSUME NEW k \in 1..(n + 1) PROVE SegmentOK(slots, Start(c2, k), c2[k])
      <4>1. Start(c2, k) = Start(cookies, k)
        <5>1. CASE k = 1
          BY <5>1 DEF Start
        <5>2. CASE k # 1
          <6>1. k - 1 \in 1..n
            BY <2>2, <5>2
          <6>2. QED
            BY <2>2, <5>2, <6>1 DEF Start
        <5>3. QED
          BY <5>1, <5>2
      <4>2. CASE k = n + 1
        <5>1. CookieOf(cookies) = Start(cookies, n + 1)
          BY TableFacts, FrameFacts
        <5>2. QED
          BY <2>2, <4>1, <4>2, <5>1, TableFacts
      <4>3. CASE k # n + 1
        <5>1. k \in 1..n
          BY <2>2, <4>3
        <5>2. QED
          BY <2>2, <4>1, <5>1, TableFacts DEF StackOK
      <4>4. QED
        BY <4>2, <4>3
    <3>2. ASSUME NEW j \in 1..(n + 1), NEW k \in 1..(n + 1), j <= k
          PROVE  c2[j].topIndex <= c2[k].topIndex
      <4>1. CASE k \in 1..n
        <5>1. j \in 1..n
          BY <2>2, <3>2, <4>1
        <5>2. QED
          BY <2>2, <3>2, <4>1, <5>1, TableFacts DEF StackOK
      <4>2. CASE k = n + 1 /\ j \in 1..n
        <5>1. cookies[j].topIndex <= CookieOf(cookies).topIndex /\ cookies[j] \in Segment
          BY <4>2, TableFacts, FramesBelow, FrameFacts
        <5>2. /\ cookies[j].topIndex \in Nat /\ CookieOf(cookies).topIndex \in Nat
              /\ topIndex \in Nat /\ CookieOf(cookies).topIndex <= topIndex
          BY <5>1, TableFacts
        <5>3. c2[k].topIndex = topIndex /\ c2[j].topIndex = cookies[j].topIndex
          BY <2>2, <4>2, TableFacts
        <5>4. QED
          BY <5>1, <5>2, <5>3
      <4>3. CASE k = n + 1 /\ j = n + 1
        BY <2>2, <4>3, TableFacts
      <4>4. QED
        BY <2>2, <4>1, <4>2, <4>3
    <3>3. QED
      BY <2>2, <3>1, <3>2 DEF StackOK
  <2>4. CookieOf(c2) = Cookie
    BY <2>2 DEF CookieOf
  <2>5. cookies' = c2 /\ Cookie' = Cookie /\ topIndex' <= Allocated
    BY <2>1, TableFacts DEF c2, Cookie
  <2>6. SegmentOK(slots, CookieOf(cookies'), Cookie')
    BY <2>4, <2>5, TableFacts, EmptySegment
  <2> HIDE DEF Segment, n
  <2>7. issued' \in SUBSET issued
    BY <2>1
  <2>8. QED
    BY <2>1, <2>2, <2>3, <2>5, <2>6, <2>7, TableFacts, SlotsAlone
<1>7. CASE PopFrames
  <2>1. PICK to \in 0..(Len(cookies) - 1) :
          /\ cookies' = SubSeq(cookies, 1, to)
          /\ topIndex' = cookies[to + 1].topIndex /\ numHoles' = cookies[to + 1].numHoles
          /\ UNCHANGED <<slots, issued>>
    BY <1>7 DEF PopFrames
  <2>2. /\ cookies' \in Seq(Segment) /\ StackOK(slots, cookies') /\ cookies[to + 1] \in Segment
        /\ SegmentOK(slots, CookieOf(cookies'), cookies[to + 1])
        /\ cookies[to + 1].topIndex <= CookieOf(cookies).topIndex
    <3> HIDE DEF Segment
    <3>1. QED
      BY <2>1, TableFacts, StackCut
  <2>3. Cookie' = cookies[to + 1] /\ topIndex' <= Allocated
    BY <2>1, <2>2, TableFacts DEF Cookie
  <2>4. issued' \in SUBSET issued
    BY <2>1
  <2> HIDE DEF Segment
  <2>5. QED
    BY <2>1, <2>2, <2>3, <2>4, SlotsAlone
<1>8. QED
  BY <1>1, <1>2, <1>3, <1>4, <1>5, <1>6, <1>7 DEF RefNext

\* The holes of each segment are counted, its topmost slot is none, and segments
\* begin one above the other: what the assertions in add and remove say.
THEOREM TableStaysSound == RefInit /\ [][RefNext]_refVars => []TableInv
  BY TableInit, TableStep, PTL

-----------------------------------------------------------------------------
(* Serial numbers.                                                         *)

\* They do not wrap round.
SerialsLast == MaxAdds < Serials

NewRef(at) == [index |-> at, serial |-> slots'[at].serial]

LEMMA AddIsNew ==
  ASSUME SerialsLast, RefInv, NEW seg, NEW below, NEW at \in Nat, NEW obj,
         Added(seg, below, at, obj), Cardinality(issued) < MaxAdds
  PROVE  /\ NewRef(at) \notin issued /\ NewRef(at) \in AnyRef /\ issued' = issued \cup {NewRef(at)}
         /\ \A r \in issued : r.index = at => r.serial < slots'[at].serial
         /\ SerialsInv' /\ UsesInv'
<1>1. PICK m, a, c : m = Allocated' /\ a = Allocated /\ c = Cardinality(issued)
  OBVIOUS
<1>2. /\ slots' \in [0..(m - 1) -> Slot] /\ m \in a..MaxCount /\ at \in 0..(m - 1)
      /\ \A i \in 0..(a - 1) \ {at} : slots'[i] = slots[i]
      /\ \A i \in a..(m - 1) \ {at} : slots'[i].serial = 0
      /\ slots'[at].serial = nextSerial(IF at < a THEN slots[at].serial ELSE 0)
      /\ issued' = issued \cup {NewRef(at)}
  <2> HIDE DEF Segment
  <2>1. /\ slots' \in [0..(m - 1) -> Slot] /\ m \in a..MaxCount /\ at \in 0..(m - 1)
    BY <1>1 DEF Added
  <2>2. \A i \in 0..(a - 1) \ {at} : slots'[i] = slots[i]
    BY <1>1 DEF Added
  <2>3. \A i \in a..(m - 1) \ {at} : slots'[i].serial = 0
    BY <1>1 DEF Added
  <2>4. slots'[at] = [obj |-> obj, serial |-> nextSerial(IF at < a THEN slots[at].serial ELSE 0)]
    BY <1>1 DEF Added
  <2>5. slots'[at].serial = nextSerial(IF at < a THEN slots[at].serial ELSE 0)
    BY <2>4
  <2>6. issued' = issued \cup {NewRef(at)}
    BY DEF Added, NewRef
  <2>7. QED
    BY <2>1, <2>2, <2>3, <2>5, <2>6
<1>3. /\ a \in Nat /\ c \in Nat /\ c < MaxAdds /\ IsFiniteSet(issued)
      /\ slots \in [0..(a - 1) -> Slot] /\ issued \in SUBSET AnyRef
  BY <1>1, FS_CardinalityType DEF RefInv, TableInv, RefTypes
<1>4. PICK n : n = IF at < a THEN slots[at].serial ELSE 0
  OBVIOUS
<1>5. n \in Nat /\ n <= c /\ (at < a => n = slots[at].serial)
  <2>1. CASE at < a
    <3>1. at \in 0..(a - 1)
      BY <1>3, <2>1
    <3>2. slots[at].serial <= c
      BY <1>1, <3>1 DEF RefInv, UsesInv
    <3>3. slots[at].serial \in Nat
      BY <1>3, <3>1 DEF Slot
    <3>4. QED
      BY <1>4, <2>1, <3>2, <3>3
  <2>2. CASE ~(at < a)
    BY <1>3, <1>4, <2>2
  <2>3. QED
    BY <2>1, <2>2
<1>6. slots'[at].serial = n + 1
  <2>1. n + 1 < Serials
    BY <1>3, <1>5 DEF SerialsLast
  <2>2. QED
    BY <1>2, <1>4, <1>5, <2>1, NextSerial
<1>7. \A r \in issued : /\ r.index < a /\ r.serial <= slots[r.index].serial
                        /\ r.index \in Nat /\ r.serial \in Nat
  BY <1>1, <1>3 DEF RefInv, SerialsInv, AnyRef
<1>8. \A r \in issued : r.index = at => r.serial < slots'[at].serial
  BY <1>5, <1>6, <1>7
<1>9. NewRef(at) \notin issued
  BY <1>5, <1>6, <1>8 DEF NewRef
<1>10. NewRef(at) \in AnyRef
  <2>1. slots'[at] \in Slot /\ at \in 0..(MaxCount - 1)
    BY <1>2, <1>3
  <2>2. QED
    BY <2>1 DEF NewRef, AnyRef, Slot
<1>11. Cardinality(issued') = c + 1
  BY <1>1, <1>2, <1>3, <1>9, FS_AddElement
<1>12. SerialsInv'
  <2>1. SUFFICES ASSUME NEW r \in issued' PROVE r.index < m /\ r.serial <= slots'[r.index].serial
    BY <1>1 DEF SerialsInv
  <2>2. CASE r = NewRef(at)
    BY <1>2, <1>3, <1>5, <1>6, <2>2 DEF NewRef
  <2>3. CASE r \in issued /\ r.index = at
    BY <1>2, <1>3, <1>5, <1>6, <1>7, <1>8, <2>3
  <2>4. CASE r \in issued /\ r.index # at
    <3>1. r.index \in 0..(a - 1) \ {at} /\ r.serial <= slots[r.index].serial
      BY <1>3, <1>7, <2>4
    <3>2. r.index < m /\ slots'[r.index] = slots[r.index]
      BY <1>2, <1>3, <3>1
    <3>3. QED
      BY <3>1, <3>2
  <2>5. QED
    BY <1>2, <2>2, <2>3, <2>4
<1>13. UsesInv'
  <2>1. \A i \in 0..(a - 1) : slots[i].serial <= c /\ slots[i].serial \in Nat
    BY <1>1, <1>3 DEF RefInv, UsesInv, Slot
  <2>2. SUFFICES ASSUME NEW i \in 0..(m - 1) PROVE slots'[i].serial <= c + 1
    BY <1>1, <1>3, <1>11 DEF UsesInv
  <2>3. CASE i = at
    BY <1>3, <1>5, <1>6, <2>3
  <2>4. CASE i # at /\ i < a
    <3>1. i \in 0..(a - 1) \ {at}
      BY <1>3, <2>4
    <3>2. QED
      BY <1>2, <1>3, <2>1, <3>1
  <2>5. CASE i # at /\ ~(i < a)
    <3>1. i \in a..(m - 1) \ {at}
      BY <1>2, <1>3, <2>5
    <3>2. QED
      BY <1>2, <1>3, <3>1
  <2>6. QED
    BY <2>3, <2>4, <2>5
<1>14. QED
  BY <1>2, <1>8, <1>9, <1>10, <1>12, <1>13

\* The other steps hand out nothing and count no serial number on.
LEMMA NothingIssued ==
  ASSUME RefInv, issued' = issued, Allocated' = Allocated,
         \A i \in 0..(Allocated - 1) : slots'[i].serial = slots[i].serial
  PROVE  SerialsInv' /\ UsesInv'
<1>1. \A r \in issued : r.index \in Nat /\ r.index < Allocated
  BY DEF RefInv, SerialsInv, TableInv, RefTypes, AnyRef
<1>2. Allocated \in Nat
  BY DEF RefInv, TableInv, RefTypes
<1>3. \A r \in issued : r.index \in 0..(Allocated - 1)
  BY <1>1, <1>2
<1>4. SerialsInv'
  BY <1>1, <1>3 DEF RefInv, SerialsInv
<1>5. UsesInv'
  BY DEF RefInv, UsesInv
<1>6. QED
  BY <1>4, <1>5

-----------------------------------------------------------------------------
(* The frame that a slot belongs to.                                       *)

LevelIn(frames, index) == Cardinality({k \in 1..Len(frames) : frames[k].topIndex <= index})

LEMMA TopLevel ==
  ASSUME NEW frames \in Seq(Segment), NEW index,
         \A k \in 1..Len(frames) : frames[k].topIndex <= index
  PROVE  LevelIn(frames, index) = Len(frames)
<1>1. {k \in 1..Len(frames) : frames[k].topIndex <= index} = 1..Len(frames)
  OBVIOUS
<1>2. Len(frames) \in Nat
  BY FrameFacts
<1>3. Cardinality(1..Len(frames)) = IF 1 > Len(frames) THEN 0 ELSE Len(frames) - 1 + 1
  BY <1>2, FS_Interval
<1>4. LevelIn(frames, index) = Cardinality(1..Len(frames))
  BY <1>1 DEF LevelIn
<1>5. QED
  BY <1>2, <1>3, <1>4

\* Slots above the beginning of frame to + 1 belong to it or a later one, slots below
\* to a frame that stays when only to are left.
LEMMA LevelCut ==
  ASSUME NEW table, NEW frames \in Seq(Segment), StackOK(table, frames),
         NEW to \in 0..(Len(frames) - 1), NEW index \in Nat
  PROVE  IF index < frames[to + 1].topIndex
         THEN LevelIn(SubSeq(frames, 1, to), index) = LevelIn(frames, index) /\ LevelIn(frames, index) <= to
         ELSE ~(LevelIn(frames, index) <= to)
<1> DEFINE f2 == SubSeq(frames, 1, to)
           S  == {k \in 1..Len(frames) : frames[k].topIndex <= index}
<1>1. Len(frames) \in Nat /\ to \in Nat /\ to + 1 \in 1..Len(frames)
  BY FrameFacts
<1>2. \A k \in 1..Len(frames) : frames[k].topIndex \in Nat
  BY FrameFacts
<1>3. \A j, k \in 1..Len(frames) : j <= k => frames[j].topIndex <= frames[k].topIndex
  BY DEF StackOK
<1>4. IsFiniteSet(1..to) /\ Cardinality(1..to) = to
  <2>0. 1 \in Int /\ to \in Int
    BY <1>1
  <2>1. IsFiniteSet(1..to) /\ Cardinality(1..to) = IF 1 > to THEN 0 ELSE to - 1 + 1
    BY <2>0, FS_Interval
  <2>2. QED
    BY <1>1, <2>1
<1>5. CASE index < frames[to + 1].topIndex
  <2>1. \A k \in S : k <= to
    <3>1. SUFFICES ASSUME NEW k \in 1..Len(frames), frames[k].topIndex <= index, ~(k <= to) PROVE FALSE
      BY <1>1
    <3>2. frames[to + 1].topIndex <= frames[k].topIndex
      <4>1. to + 1 <= k
        BY <1>1, <3>1
      <4>2. QED
        BY <1>1, <1>3, <4>1
    <3>3. QED
      BY <1>1, <1>2, <1>5, <3>1, <3>2
  <2>2. S \in SUBSET (1..to)
    BY <1>1, <2>1
  <2>3. IsFiniteSet(S) /\ Cardinality(S) <= to
    <3> HIDE DEF S
    <3>1. QED
      BY <1>4, <2>2, FS_Subset
  <2>4. {k \in 1..Len(f2) : f2[k].topIndex <= index} = S
    <3>1. Len(f2) = to /\ \A k \in 1..to : f2[k] = frames[k]
      <4> HIDE DEF Segment
      <4>1. QED
        BY StackCut
    <3> HIDE DEF f2
    <3>2. QED
      BY <1>1, <2>2, <3>1
  <2>5. QED
    BY <1>5, <2>3, <2>4 DEF LevelIn
<1>6. CASE ~(index < frames[to + 1].topIndex)
  <2>1. 1..(to + 1) \in SUBSET S
    <3>1. SUFFICES ASSUME NEW k \in 1..(to + 1) PROVE k \in 1..Len(frames) /\ frames[k].topIndex <= index
      OBVIOUS
    <3>2. k \in 1..Len(frames) /\ k <= to + 1
      BY <1>1
    <3>3. frames[k].topIndex <= frames[to + 1].topIndex
      BY <1>1, <1>3, <3>2
    <3>4. QED
      BY <1>1, <1>2, <1>6, <3>2, <3>3
  <2>2. IsFiniteSet(S) /\ Cardinality(S) \in Nat
    <3>1. IsFiniteSet(1..Len(frames))
      BY <1>1, FS_Interval
    <3>2. S \in SUBSET (1..Len(frames))
      OBVIOUS
    <3> HIDE DEF S
    <3>3. QED
      BY <3>1, <3>2, FS_Subset, FS_CardinalityType
  <2>3. Cardinality(1..(to + 1)) = to + 1
    <3>1. Cardinality(1..(to + 1)) = IF 1 > to + 1 THEN 0 ELSE (to + 1) - 1 + 1
      BY <1>1, FS_Interval
    <3>2. QED
      BY <1>1, <3>1
  <2>4. to + 1 <= Cardinality(S)
    <3> HIDE DEF S
    <3>1. Cardinality(1..(to + 1)) <= Cardinality(S)
      BY <2>1, <2>2, FS_Subset
    <3>2. QED
      BY <2>3, <3>1
  <2> HIDE DEF S
  <2>5. ~(Cardinality(S) <= to)
    BY <1>1, <2>2, <2>4
  <2>6. QED
    BY <1>6, <2>5 DEF LevelIn, S
<1>7. QED
  BY <1>5, <1>6

\* A frame that begins above a slot does not count for it.
LEMMA LevelPush ==
  ASSUME NEW frames \in Seq(Segment), NEW seg \in Segment, NEW index \in Nat, index < seg.topIndex
  PROVE  LevelIn(Append(frames, seg), index) = LevelIn(frames, index)
<1> DEFINE f2 == Append(frames, seg)
           n  == Len(frames)
<1>1. /\ n \in Nat /\ Len(f2) = n + 1 /\ f2[n + 1] = seg
      /\ \A k \in 1..n : f2[k] = frames[k]
  <2> HIDE DEF Segment
  <2>1. QED
    BY AppendProperties, FrameFacts
<1> HIDE DEF f2
<1>2. ~(seg.topIndex <= index)
  OBVIOUS
<1>3. {k \in 1..Len(f2) : f2[k].topIndex <= index} = {k \in 1..n : frames[k].topIndex <= index}
  <2>1. \A k : k \in 1..(n + 1) <=> k \in 1..n \/ k = n + 1
    BY <1>1
  <2>2. QED
    BY <1>1, <1>2, <2>1
<1>4. LevelIn(f2, index) = LevelIn(frames, index)
  BY <1>3 DEF LevelIn
<1>5. QED
  BY <1>4 DEF f2

-----------------------------------------------------------------------------
(* The steps of AbstractReferences, in terms of what is live.              *)

HeldRefs == {Meaning(r) : r \in Live}
Stays(S) == \A r \in S : Meaning(r)' = Meaning(r)

LEMMA MeaningParts ==
  \A r : Meaning(r).ref = r /\ Meaning(r).obj = Get(r) /\ Meaning(r).level = LevelOf(r.index)
  BY DEF Meaning

LEMMA MapAdd ==
  ASSUME NEW obj \in Objects, NEW new \in AnyRef, new \notin issued,
         issued' = issued \cup {new}, Live' = Live \cup {new}, Stays(Live),
         Meaning(new)' = [ref |-> new, obj |-> obj, level |-> Len(cookies)],
         Len(cookies') = Len(cookies)
  PROVE  References!Next
<1>1. HeldRefs' = HeldRefs \cup {[ref |-> new, obj |-> obj, level |-> Len(cookies)]}
  BY DEF HeldRefs, Stays
<1>2. References!Give(obj, Len(cookies), HeldRefs)
  BY <1>1 DEF References!Give, HeldRefs, AnyRef
<1>3. References!Add
  BY <1>2 DEF References!Add, HeldRefs
<1>4. QED
  BY <1>3 DEF References!Next

LEMMA MapDelete ==
  ASSUME NEW ref \in issued, Live' = Live \ {ref}, Stays(Live'),
         ref \in Live => LevelOf(ref.index) = Len(cookies),
         issued' = issued, Len(cookies') = Len(cookies)
  PROVE  References!Next
<1>1. HeldRefs' = {h \in HeldRefs : h.ref # ref \/ h.level # Len(cookies)}
  <2>1. HeldRefs' = {Meaning(r) : r \in Live'}
    BY DEF HeldRefs, Stays
  <2>2. \A r \in Live : r \in Live' <=> Meaning(r).ref # ref \/ Meaning(r).level # Len(cookies)
    BY MeaningParts
  <2>3. Live' \in SUBSET Live
    OBVIOUS
  <2>4. QED
    BY <2>1, <2>2, <2>3 DEF HeldRefs
<1>2. References!Delete
  BY <1>1 DEF References!Delete, HeldRefs
<1>3. QED
  BY <1>2 DEF References!Next

LEMMA MapPush ==
  ASSUME Live' = Live, Stays(Live), issued' = issued, Len(cookies') = Len(cookies) + 1
  PROVE  References!Next
<1>1. HeldRefs' = HeldRefs
  BY DEF HeldRefs, Stays
<1>2. References!Push
  BY <1>1 DEF References!Push, HeldRefs
<1>3. QED
  BY <1>2 DEF References!Next

BelowLevel(to) == {r \in Live : LevelOf(r.index) <= to}

LEMMA HeldBelow ==
  ASSUME NEW to PROVE References!Below(to) = {Meaning(r) : r \in BelowLevel(to)}
<1>1. References!Below(to) = {h \in HeldRefs : h.level <= to}
  BY DEF References!Below, HeldRefs
<1>2. QED
  BY <1>1, MeaningParts DEF HeldRefs, BelowLevel

LEMMA MapPop ==
  ASSUME NEW to \in 0..(Len(cookies) - 1), Len(cookies') = to,
         Live' = BelowLevel(to), Stays(Live'), issued' = issued
  PROVE  References!Next
<1>1. HeldRefs' = References!Below(to)
  BY HeldBelow DEF HeldRefs, Stays
<1>2. References!Pop
  BY <1>1 DEF References!Pop, HeldRefs
<1>3. QED
  BY <1>2 DEF References!Next

LEMMA MapPopGive ==
  ASSUME NEW to \in 0..(Len(cookies) - 1), Len(cookies') = to,
         NEW obj \in Objects, NEW new \in AnyRef, new \notin issued,
         issued' = issued \cup {new},
         Live' = BelowLevel(to) \cup {new}, Stays(BelowLevel(to)),
         Meaning(new)' = [ref |-> new, obj |-> obj, level |-> to]
  PROVE  References!Next
<1>1. HeldRefs' = References!Below(to) \cup {[ref |-> new, obj |-> obj, level |-> to]}
  BY HeldBelow DEF HeldRefs, Stays
<1>2. References!Give(obj, to, References!Below(to))
  BY <1>1 DEF References!Give, HeldRefs, AnyRef
<1>3. References!Pop
  BY <1>2 DEF References!Pop, HeldRefs
<1>4. QED
  BY <1>3 DEF References!Next

-----------------------------------------------------------------------------
(* RefInv is inductive while serial numbers last.                          *)

LEMMA RefInvInit == RefInit => RefInv
<1> SUFFICES ASSUME RefInit PROVE RefInv
  OBVIOUS
<1>1. TableInv /\ issued = {} /\ Cardinality(issued) = 0
  BY TableInit, FS_EmptySet DEF RefInit
<1>2. DOMAIN slots = 0..(InitialCount - 1) /\ InitialCount \in Nat
  BY DEF RefInit
<1>3. Allocated = InitialCount
  BY <1>2, TableSize DEF Allocated
<1>4. \A i \in 0..(Allocated - 1) : slots[i].serial = 0
  BY <1>3 DEF RefInit
<1>5. SerialsInv
  BY <1>1 DEF SerialsInv
<1>6. UsesInv
  BY <1>1, <1>4 DEF UsesInv
<1>7. QED
  BY <1>1, <1>5, <1>6 DEF RefInv

LEMMA RefInvStep == ASSUME SerialsLast, RefInv, [RefNext]_refVars PROVE RefInv'
<1>0. TableInv /\ TableInv'
  BY TableStep DEF RefInv
<1>1. CASE UNCHANGED <<slots, issued>>
  <2>1. Allocated' = Allocated
    BY <1>1 DEF Allocated
  <2>2. QED
    BY <1>0, <1>1, <2>1, NothingIssued DEF RefInv
<1>2. CASE AddReference
  <2>1. PICK obj \in Objects, at \in Nat : Added(Cookie, CookieOf(cookies), at, obj)
    BY <1>0, <1>2, AddReferenceEffect
  <2>2. Cardinality(issued) < MaxAdds
    BY <1>2 DEF AddReference
  <2>3. SerialsInv' /\ UsesInv'
    BY <2>1, <2>2, AddIsNew
  <2>4. QED
    BY <1>0, <2>3 DEF RefInv
<1>3. CASE PopLocalFrame
  <2> DEFINE n == Len(cookies)
  <2>1. \E obj \in Objects, at \in Nat : Added(cookies[n], CookieOf(cookies'), at, obj)
    BY <1>0, <1>3, PopLocalFrameEffect
  <2>2. PICK obj \in Objects, at \in Nat : Added(cookies[n], CookieOf(cookies'), at, obj)
    BY <2>1
  <2>3. Cardinality(issued) < MaxAdds
    BY <1>3 DEF PopLocalFrame
  <2> HIDE DEF n
  <2>4. SerialsInv' /\ UsesInv'
    BY <2>2, <2>3, AddIsNew
  <2>5. QED
    BY <1>0, <2>4 DEF RefInv
<1>4. ASSUME NEW ref \in issued, RemoveInside(ref) PROVE RefInv'
  <2> DEFINE at == ref.index
  <2>1. /\ issued' = issued /\ Allocated' = Allocated
        /\ slots'[at].serial = slots[at].serial
        /\ \A i \in 0..(Allocated - 1) \ {at} : slots'[i] = slots[i]
    BY <1>0, <1>4, RemoveInsideEffect
  <2> HIDE DEF at
  <2>2. \A i \in 0..(Allocated - 1) : slots'[i].serial = slots[i].serial
    BY <2>1
  <2>3. SerialsInv' /\ UsesInv'
    BY <2>1, <2>2, NothingIssued
  <2>4. QED
    BY <1>0, <2>3 DEF RefInv
<1>5. UNCHANGED <<slots, issued>> \/ AddReference \/ PopLocalFrame \/ \E ref \in issued : RemoveInside(ref)
  BY DEF RefNext, refVars, PushFrame, PopFrames, RemoveTopmost
<1>6. QED
  BY <1>1, <1>2, <1>3, <1>4, <1>5

-----------------------------------------------------------------------------
(* Where references lead after a step.                                     *)

LEMMA IssuedFacts ==
  ASSUME RefInv, NEW r \in issued
  PROVE  r.index \in Nat /\ r.index < Allocated /\ r.serial \in Nat /\ r \in AnyRef
BY DEF RefInv, SerialsInv, TableInv, RefTypes, AnyRef

LEMMA NullIsNoObject == \A obj \in Objects : obj # Null
  OBVIOUS

\* When a slot is given to an object, the references below the segment's end
\* lead where they did, the ones beyond nowhere: neither uses of the same slot,
\* nor the slots of popped frames come back.
LEMMA GetAfterAdd ==
  ASSUME SerialsLast, RefInv, NEW seg \in Segment, NEW below, NEW at \in Nat, NEW obj \in Objects,
         Added(seg, below, at, obj), Cardinality(issued) < MaxAdds, seg.topIndex <= topIndex
  PROVE  \A r \in issued : Get(r)' = IF r.index < seg.topIndex THEN Get(r) ELSE Null
<1> SUFFICES ASSUME NEW r \in issued
             PROVE  Get(r)' = IF r.index < seg.topIndex THEN Get(r) ELSE Null
  OBVIOUS
<1>1. PICK a, b, i : a = Allocated /\ b = seg.topIndex /\ i = r.index
  OBVIOUS
<1>2. i \in Nat /\ i < a /\ r.serial \in Nat /\ a \in Nat /\ topIndex \in Nat /\ b \in Nat /\ b <= topIndex
  BY <1>1, IssuedFacts DEF RefInv, TableInv, RefTypes
<1>3. /\ topIndex' = IF at = b THEN b + 1 ELSE b
      /\ at # b => slots[at].obj = Null
      /\ \A j \in 0..(a - 1) \ {at} : slots'[j] = slots[j]
      /\ at <= b
  BY <1>1 DEF Added
<1>4. CASE i = at
  <2>1. r.serial < slots'[at].serial
    BY <1>1, <1>4, AddIsNew
  <2>2. slots'[at].serial # r.serial
    <3>1. slots'[at].serial \in Nat
      <4>1. PICK m : m = Allocated'
        OBVIOUS
      <4>2. slots' \in [0..(m - 1) -> Slot] /\ at \in 0..(m - 1)
        BY <4>1 DEF Added
      <4>3. QED
        BY <4>2 DEF Slot
    <3>2. QED
      BY <1>2, <2>1, <3>1
  <2>3. Get(r)' = Null
    BY <1>1, <1>4, <2>2 DEF Get
  <2>4. i < b => Get(r) = Null
    BY <1>1, <1>2, <1>3, <1>4 DEF Get
  <2>5. QED
    BY <1>1, <2>3, <2>4
<1>5. CASE i # at
  <2>1. slots'[i] = slots[i]
    BY <1>2, <1>3, <1>5
  <2>2. i < topIndex' <=> i < b
    BY <1>2, <1>3, <1>5
  <2>3. i < b => i < topIndex
    BY <1>2
  <2>4. QED
    BY <1>1, <2>1, <2>2, <2>3 DEF Get
<1>6. QED
  BY <1>4, <1>5

LEMMA GetNew ==
  ASSUME NEW seg \in Segment, NEW below, NEW at \in Nat, NEW obj \in Objects,
         Added(seg, below, at, obj), NEW new, new = NewRef(at)
  PROVE  Get(new)' = obj
<1>1. new.index = at /\ new.serial = slots'[at].serial
  BY DEF NewRef
<1>2. slots'[at].obj = obj
  BY DEF Added
<1>3. at < topIndex'
  BY DEF Added
<1>4. QED
  BY <1>1, <1>2, <1>3 DEF Get

-----------------------------------------------------------------------------
(* Every step is a step of AbstractReferences.                             *)

LEMMA LiveFacts ==
  ASSUME RefInv, NEW r \in Live
  PROVE  /\ r \in issued /\ r.index \in Nat /\ r.index < topIndex
         /\ slots[r.index].obj # Null /\ slots[r.index].serial = r.serial
<1>1. r \in issued /\ Get(r) # Null
  BY DEF Live
<1>2. QED
  BY <1>1, IssuedFacts DEF Get

LEMMA LevelIsIn == \A i : LevelOf(i) = LevelIn(cookies, i)
  BY DEF LevelOf, LevelIn

LEMMA MeaningKept ==
  ASSUME NEW r, Get(r)' = Get(r), LevelIn(cookies', r.index) = LevelIn(cookies, r.index)
  PROVE  Meaning(r)' = Meaning(r)
BY DEF Meaning, LevelOf, LevelIn

\* No slot above the last frame's beginning belongs to an earlier one.
LEMMA LevelAbove ==
  ASSUME NEW table, NEW frames \in Seq(Segment), StackOK(table, frames),
         NEW i \in Nat, CookieOf(frames).topIndex <= i
  PROVE  LevelIn(frames, i) = Len(frames)
<1>1. \A k \in 1..Len(frames) : frames[k].topIndex \in Nat /\ frames[k].topIndex <= CookieOf(frames).topIndex
  BY FrameFacts, FramesBelow
<1>2. CookieOf(frames).topIndex \in Nat
  BY FramesBelow
<1>3. \A k \in 1..Len(frames) : frames[k].topIndex <= i
  BY <1>1, <1>2
<1> HIDE DEF Segment
<1>4. QED
  BY <1>3, TopLevel

LEMMA AddReferenceMaps == ASSUME SerialsLast, RefInv, AddReference PROVE References!Next
<1>0. TableInv
  BY DEF RefInv
<1>1. PICK obj \in Objects, at \in Nat : Added(Cookie, CookieOf(cookies), at, obj)
  BY <1>0, AddReferenceEffect
<1>2. Cardinality(issued) < MaxAdds /\ cookies' = cookies
  BY DEF AddReference
<1>3. PICK new : new = NewRef(at)
  OBVIOUS
<1>4. /\ new \notin issued /\ new \in AnyRef /\ issued' = issued \cup {new}
  BY <1>1, <1>2, <1>3, AddIsNew
<1>5. Cookie \in Segment /\ Cookie.topIndex = topIndex /\ topIndex \in Nat
  BY <1>0, TableFacts
<1>6. \A r \in issued : Get(r)' = IF r.index < topIndex THEN Get(r) ELSE Null
  <2>1. Cookie.topIndex <= topIndex
    BY <1>5
  <2> HIDE DEF Segment
  <2>2. QED
    BY <1>1, <1>2, <1>5, <2>1, GetAfterAdd
<1>7. \A r \in issued : Get(r)' = Get(r)
  BY <1>6 DEF Get
<1>8. Get(new)' = obj
  <2> HIDE DEF Segment
  <2>1. QED
    BY <1>1, <1>3, <1>5, GetNew
<1>9. Live' = Live \cup {new}
  <2>1. \A r \in issued' : Get(r)' # Null <=> r \in Live \/ r = new
    BY <1>4, <1>7, <1>8, NullIsNoObject DEF Live
  <2>2. Live' = {r \in issued' : Get(r)' # Null}
    BY DEF Live
  <2>3. Live \in SUBSET issued'
    BY <1>4 DEF Live
  <2>4. QED
    BY <1>4, <2>1, <2>2, <2>3
<1>10. Stays(Live)
  <2>1. \A r \in Live : Meaning(r)' = Meaning(r)
    BY <1>2, <1>7, MeaningKept DEF Live
  <2>2. QED
    BY <2>1 DEF Stays
<1>11. Meaning(new)' = [ref |-> new, obj |-> obj, level |-> Len(cookies)]
  <2>1. CookieOf(cookies).topIndex <= at /\ cookies \in Seq(Segment) /\ StackOK(slots, cookies)
    BY <1>0, <1>1, TableFacts DEF Added
  <2>2. LevelIn(cookies, at) = Len(cookies)
    BY <2>1, LevelAbove
  <2>3. new.index = at
    BY <1>3 DEF NewRef
  <2>4. QED
    BY <1>2, <1>8, <2>2, <2>3 DEF Meaning, LevelOf, LevelIn
<1>12. Len(cookies') = Len(cookies)
  BY <1>2
<1>13. QED
  BY <1>4, <1>9, <1>10, <1>11, <1>12, MapAdd

LEMMA RemoveTopmostMaps ==
  ASSUME RefInv, NEW ref \in issued, RemoveTopmost(ref) PROVE References!Next
<1>0. TableInv
  BY DEF RefInv
<1>1. /\ CookieOf(cookies).topIndex <= ref.index /\ ref.index = topIndex - 1
      /\ slots[ref.index].serial = ref.serial /\ UNCHANGED <<slots, cookies, issued>>
  BY DEF RemoveTopmost, Removable
<1>2. /\ topIndex' \in CookieOf(cookies).topIndex..(topIndex - 1)
      /\ \A i \in topIndex'..(topIndex - 2) : slots[i].obj = Null
  BY <1>0, RemoveTopmostEffect
<1>3. topIndex \in Nat /\ CookieOf(cookies).topIndex \in Nat
  BY <1>0, TableFacts
<1>4. \A r \in Live : r # ref => r.index < topIndex'
  <2>1. SUFFICES ASSUME NEW r \in Live, r # ref, ~(r.index < topIndex') PROVE FALSE
    OBVIOUS
  <2>2. /\ r.index \in Nat /\ r.index < topIndex /\ r \in AnyRef /\ ref \in AnyRef
        /\ slots[r.index].obj # Null /\ slots[r.index].serial = r.serial
    BY LiveFacts, IssuedFacts
  <2>3. r.index # topIndex - 1
    <3>1. SUFFICES ASSUME r.index = topIndex - 1 PROVE r = ref
      BY <2>1
    <3>2. r.index = ref.index /\ r.serial = ref.serial
      BY <1>1, <2>2, <3>1
    <3>3. QED
      BY <2>2, <3>2 DEF AnyRef
  <2>4. r.index \in topIndex'..(topIndex - 2)
    BY <1>2, <1>3, <2>1, <2>2, <2>3
  <2>5. QED
    BY <1>2, <2>2, <2>4
<1>5. ~(ref.index < topIndex')
  BY <1>1, <1>2, <1>3
<1>6. \A r \in issued : Get(r)' = IF r.index < topIndex' THEN Get(r) ELSE Null
  <2>1. SUFFICES ASSUME NEW r \in issued, r.index < topIndex' PROVE r.index < topIndex
    BY <1>1 DEF Get
  <2>2. r.index \in Nat
    BY IssuedFacts
  <2>3. QED
    BY <1>2, <1>3, <2>1, <2>2
<1>7. Live' = Live \ {ref} /\ \A r \in Live' : Get(r)' = Get(r)
  <2>1. Live' = {r \in issued : Get(r)' # Null}
    BY <1>1 DEF Live
  <2>2. QED
    BY <1>4, <1>5, <1>6, <2>1 DEF Live
<1>8. Stays(Live')
  <2>1. \A r \in Live' : Meaning(r)' = Meaning(r)
    BY <1>1, <1>7, MeaningKept
  <2>2. QED
    BY <2>1 DEF Stays
<1>9. LevelOf(ref.index) = Len(cookies)
  <2>1. ref.index \in Nat
    BY IssuedFacts
  <2>2. QED
    BY <1>0, <1>1, <2>1, TableFacts, LevelAbove, LevelIsIn
<1>10. QED
  BY <1>1, <1>7, <1>8, <1>9, MapDelete

LEMMA RemoveInsideMaps ==
  ASSUME RefInv, NEW ref \in issued, RemoveInside(ref) PROVE References!Next
<1> DEFINE at == ref.index
<1>0. TableInv
  BY DEF RefInv
<1>1. /\ CookieOf(cookies).topIndex <= at /\ at \in Nat
      /\ slots'[at].obj = Null /\ slots'[at].serial = slots[at].serial
      /\ \A i \in 0..(Allocated - 1) \ {at} : slots'[i] = slots[i]
      /\ UNCHANGED <<topIndex, cookies, issued>>
  BY <1>0, RemoveInsideEffect
<1>2. slots[at].serial = ref.serial
  BY DEF RemoveInside, Removable
<1>3. Allocated \in Nat
  BY <1>0, TableFacts
<1>4. \A r \in issued : IF r = ref THEN Get(r)' = Null ELSE Get(r)' = Get(r)
  <2>1. SUFFICES ASSUME NEW r \in issued
                 PROVE  IF r = ref THEN Get(r)' = Null ELSE Get(r)' = Get(r)
    OBVIOUS
  <2>2. r.index \in Nat /\ r.index < Allocated /\ r \in AnyRef /\ ref \in AnyRef
    BY IssuedFacts
  <2>3. CASE r.index = at
    <3>1. Get(r)' = Null
      BY <1>1, <2>3 DEF Get
    <3>2. r # ref => r.serial # slots[at].serial
      BY <1>2, <2>2, <2>3 DEF AnyRef
    <3>3. r # ref => Get(r) = Null
      BY <2>3, <3>2 DEF Get
    <3>4. QED
      BY <3>1, <3>3
  <2>4. CASE r.index # at
    <3>1. slots'[r.index] = slots[r.index]
      BY <1>1, <1>3, <2>2, <2>4
    <3>2. QED
      BY <1>1, <2>4, <3>1 DEF Get
  <2>5. QED
    BY <2>3, <2>4
<1>5. Live' = Live \ {ref} /\ \A r \in Live' : Get(r)' = Get(r)
  <2>1. Live' = {r \in issued : Get(r)' # Null}
    BY <1>1 DEF Live
  <2>2. QED
    BY <1>4, <2>1 DEF Live
<1>6. Stays(Live')
  <2>1. \A r \in Live' : Meaning(r)' = Meaning(r)
    BY <1>1, <1>5, MeaningKept
  <2>2. QED
    BY <2>1 DEF Stays
<1>7. LevelOf(at) = Len(cookies)
  BY <1>0, <1>1, TableFacts, LevelAbove, LevelIsIn
<1>8. QED
  BY <1>1, <1>5, <1>6, <1>7, MapDelete

LEMMA PushFrameMaps == ASSUME RefInv, PushFrame PROVE References!Next
<1>0. TableInv
  BY DEF RefInv
<1>1. cookies' = Append(cookies, Cookie) /\ UNCHANGED <<slots, topIndex, issued>>
  BY DEF PushFrame
<1>2. cookies \in Seq(Segment) /\ Cookie \in Segment /\ Cookie.topIndex = topIndex
  BY <1>0, TableFacts
<1>3. \A r : Get(r)' = Get(r)
  BY <1>1 DEF Get
<1>4. Live' = Live
  BY <1>1, <1>3 DEF Live
<1>5. ASSUME NEW r \in Live PROVE Meaning(r)' = Meaning(r)
  <2>1. r.index \in Nat /\ r.index < Cookie.topIndex
    BY <1>2, LiveFacts
  <2> HIDE DEF Segment
  <2>2. LevelIn(cookies', r.index) = LevelIn(cookies, r.index)
    BY <1>1, <1>2, <2>1, LevelPush
  <2>3. QED
    BY <1>3, <2>2, MeaningKept
<1>6. Stays(Live)
  BY <1>5 DEF Stays
<1>7. Len(cookies') = Len(cookies) + 1
  <2> HIDE DEF Segment
  <2>1. QED
    BY <1>1, <1>2, AppendProperties
<1>8. QED
  BY <1>1, <1>4, <1>6, <1>7, MapPush

\* What stays when frames to to are left: references below the beginning of the
\* first frame popped, with the level they had.
LEMMA LiveBelow ==
  ASSUME RefInv, NEW to \in 0..(Len(cookies) - 1)
  PROVE  /\ cookies[to + 1].topIndex \in Nat /\ cookies[to + 1].topIndex <= topIndex
         /\ Len(SubSeq(cookies, 1, to)) = to
         /\ BelowLevel(to) = {r \in Live : r.index < cookies[to + 1].topIndex}
         /\ \A r \in BelowLevel(to) :
              LevelIn(SubSeq(cookies, 1, to), r.index) = LevelIn(cookies, r.index)
<1>0. TableInv
  BY DEF RefInv
<1>1. cookies \in Seq(Segment) /\ StackOK(slots, cookies)
  BY <1>0, TableFacts
<1>2. /\ Len(SubSeq(cookies, 1, to)) = to /\ cookies[to + 1] \in Segment
      /\ cookies[to + 1].topIndex <= CookieOf(cookies).topIndex
  <2> HIDE DEF Segment
  <2>1. QED
    BY <1>1, StackCut
<1>3. cookies[to + 1].topIndex \in Nat /\ cookies[to + 1].topIndex <= topIndex
  <2>1. CookieOf(cookies).topIndex \in Nat /\ CookieOf(cookies).topIndex <= topIndex /\ topIndex \in Nat
    BY <1>0, TableFacts
  <2>2. QED
    BY <1>2, <2>1
<1>4. ASSUME NEW r \in Live
      PROVE  IF r.index < cookies[to + 1].topIndex
             THEN /\ LevelIn(SubSeq(cookies, 1, to), r.index) = LevelIn(cookies, r.index)
                  /\ LevelIn(cookies, r.index) <= to
             ELSE ~(LevelIn(cookies, r.index) <= to)
  <2>1. r.index \in Nat
    BY LiveFacts
  <2> HIDE DEF Segment
  <2>2. QED
    BY <1>1, <2>1, LevelCut
<1>5. BelowLevel(to) = {r \in Live : LevelIn(cookies, r.index) <= to}
  BY LevelIsIn DEF BelowLevel
<1>6. QED
  BY <1>2, <1>3, <1>4, <1>5

LEMMA PopFramesMaps == ASSUME RefInv, PopFrames PROVE References!Next
<1>1. PICK to \in 0..(Len(cookies) - 1) :
        /\ cookies' = SubSeq(cookies, 1, to) /\ topIndex' = cookies[to + 1].topIndex
        /\ UNCHANGED <<slots, issued>>
  BY DEF PopFrames
<1>2. /\ topIndex' \in Nat /\ topIndex' <= topIndex /\ Len(cookies') = to
      /\ BelowLevel(to) = {r \in Live : r.index < topIndex'}
      /\ \A r \in BelowLevel(to) : LevelIn(cookies', r.index) = LevelIn(cookies, r.index)
  BY <1>1, LiveBelow
<1>3. \A r \in issued : Get(r)' = IF r.index < topIndex' THEN Get(r) ELSE Null
  <2>1. SUFFICES ASSUME NEW r \in issued, r.index < topIndex' PROVE r.index < topIndex
    BY <1>1 DEF Get
  <2>2. r.index \in Nat /\ topIndex \in Nat
    BY IssuedFacts DEF RefInv, TableInv, RefTypes
  <2>3. QED
    BY <1>2, <2>1, <2>2
<1>4. Live' = BelowLevel(to) /\ \A r \in Live' : Get(r)' = Get(r)
  <2>1. Live' = {r \in issued : Get(r)' # Null}
    BY <1>1 DEF Live
  <2>2. QED
    BY <1>2, <1>3, <2>1 DEF Live
<1>5. Stays(Live')
  <2>1. \A r \in Live' : Meaning(r)' = Meaning(r)
    BY <1>2, <1>4, MeaningKept
  <2>2. QED
    BY <2>1 DEF Stays
<1>6. QED
  BY <1>1, <1>2, <1>4, <1>5, MapPop

LEMMA PopLocalFrameMaps == ASSUME SerialsLast, RefInv, PopLocalFrame PROVE References!Next
<1>0. TableInv
  BY DEF RefInv
<1>1. PICK to : to = Len(cookies) - 1
  OBVIOUS
<1>2. to \in 0..(Len(cookies) - 1) /\ to + 1 = Len(cookies) /\ cookies' = SubSeq(cookies, 1, to)
  BY <1>0, <1>1, PopLocalFrameEffect
<1>3. /\ cookies[to + 1] \in Segment /\ cookies' \in Seq(Segment) /\ StackOK(slots, cookies')
      /\ \E obj \in Objects, at \in Nat : Added(cookies[to + 1], CookieOf(cookies'), at, obj)
  BY <1>0, <1>2, PopLocalFrameEffect
<1>4. PICK obj \in Objects, at \in Nat : Added(cookies[to + 1], CookieOf(cookies'), at, obj)
  BY <1>3
<1>5. Cardinality(issued) < MaxAdds
  BY DEF PopLocalFrame
<1>6. PICK new : new = NewRef(at)
  OBVIOUS
<1>7. /\ new \notin issued /\ new \in AnyRef /\ issued' = issued \cup {new}
  BY <1>4, <1>5, <1>6, AddIsNew
<1>8. /\ cookies[to + 1].topIndex <= topIndex /\ Len(cookies') = to
      /\ BelowLevel(to) = {r \in Live : r.index < cookies[to + 1].topIndex}
      /\ \A r \in BelowLevel(to) : LevelIn(cookies', r.index) = LevelIn(cookies, r.index)
  BY <1>2, LiveBelow
<1>9. \A r \in issued : Get(r)' = IF r.index < cookies[to + 1].topIndex THEN Get(r) ELSE Null
  <2> HIDE DEF Segment
  <2>1. QED
    BY <1>3, <1>4, <1>5, <1>8, GetAfterAdd
<1>10. Get(new)' = obj
  <2> HIDE DEF Segment
  <2>1. QED
    BY <1>3, <1>4, <1>6, GetNew
<1>11. Live' = BelowLevel(to) \cup {new}
  <2>1. Live' = {r \in issued' : Get(r)' # Null}
    BY DEF Live
  <2>2. \A r \in issued : Get(r)' # Null <=> r \in BelowLevel(to)
    BY <1>8, <1>9 DEF Live
  <2>3. \A r \in issued' : Get(r)' # Null <=> r \in BelowLevel(to) \/ r = new
    BY <1>7, <1>10, <2>2, NullIsNoObject DEF BelowLevel, Live
  <2>4. BelowLevel(to) \in SUBSET issued'
    BY <1>7 DEF BelowLevel, Live
  <2>5. QED
    BY <1>7, <2>1, <2>3, <2>4
<1>12. Stays(BelowLevel(to))
  <2>1. \A r \in BelowLevel(to) : Get(r)' = Get(r)
    BY <1>8, <1>9 DEF Live
  <2>2. \A r \in BelowLevel(to) : Meaning(r)' = Meaning(r)
    BY <1>8, <2>1, MeaningKept
  <2>3. QED
    BY <2>2 DEF Stays
<1>13. Meaning(new)' = [ref |-> new, obj |-> obj, level |-> to]
  <2>1. CookieOf(cookies').topIndex <= at
    BY <1>4 DEF Added
  <2>2. LevelIn(cookies', at) = to
    BY <1>3, <1>8, <2>1, LevelAbove
  <2>3. new.index = at
    BY <1>6 DEF NewRef
  <2>4. QED
    BY <1>10, <2>2, <2>3 DEF Meaning, LevelOf, LevelIn
<1>14. QED
  BY <1>2, <1>7, <1>8, <1>11, <1>12, <1>13, MapPopGive

LEMMA StepsMap ==
  ASSUME SerialsLast, RefInv, [RefNext]_refVars
  PROVE  References!Next \/ UNCHANGED <<HeldRefs, Len(cookies), issued>>
<1>1. CASE UNCHANGED refVars
  <2>1. \A i : LevelOf(i)' = LevelOf(i)
    BY <1>1 DEF refVars, LevelOf
  <2>2. \A r : Get(r)' = Get(r)
    BY <1>1 DEF refVars, Get
  <2>3. Live' = Live
    BY <1>1, <2>2 DEF refVars, Live
  <2>4. \A r : Meaning(r)' = Meaning(r)
    BY <2>1, <2>2 DEF Meaning
  <2>5. HeldRefs' = HeldRefs
    BY <2>3, <2>4 DEF HeldRefs
  <2>6. QED
    BY <1>1, <2>5 DEF refVars
<1>2. CASE \E ref \in issued : RemoveTopmost(ref) \/ RemoveInside(ref)
  BY <1>2, RemoveTopmostMaps, RemoveInsideMaps
<1>3. QED
  BY <1>1, <1>2, AddReferenceMaps, PushFrameMaps, PopFramesMaps, PopLocalFrameMaps DEF RefNext

LEMMA InitMaps == RefInit => References!Init
<1> SUFFICES ASSUME RefInit PROVE HeldRefs = {} /\ Len(cookies) = 0 /\ issued = {}
  BY DEF References!Init, HeldRefs
<1>1. issued = {} /\ cookies = <<>>
  BY DEF RefInit
<1>2. QED
  BY <1>1, EmptySeq DEF HeldRefs, Live

\* Until serial numbers wrap round, every reference leads to its object until it
\* is deleted or its frame is popped, and nowhere afterwards: IndirectRefTable's
\* add, get and remove, for tables of any size and any number of frames.
THEOREM ReferencesAreRight ==
  ASSUME SerialsLast
  PROVE  RefInit /\ [][RefNext]_refVars => RefinesReferences
<1>1. RefInv /\ [RefNext]_refVars => [References!Next]_<<HeldRefs, Len(cookies), issued>>
  BY StepsMap
<1>2. RefInv /\ [RefNext]_refVars => RefInv'
  BY RefInvStep
<1>3. References!Spec <=> References!Init /\ [][References!Next]_<<HeldRefs, Len(cookies), issued>>
  BY DEF References!Spec, HeldRefs
<1>4. QED
  BY <1>1, <1>2, <1>3, RefInvInit, InitMaps, PTL DEF RefinesReferences
=============================================================================
