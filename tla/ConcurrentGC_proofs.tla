------------------------- MODULE ConcurrentGC_proofs -------------------------
(***************************************************************************)
(* Proof that the collector frees nothing that is in use, that the cards   *)
(* cover what the mutators change during a trace, that a pause clears no   *)
(* reference to a strongly held object, and that garbage does not float    *)
(* twice, for any heap, any sizes of words and cards and any interleaving. *)
(*                                                                         *)
(* The invariant of a trace is over the set of objects that something led  *)
(* to when it began or that are new: nothing leads out of it (Sound), and  *)
(* whoever is gray is on the stack, ahead of the walk, behind the write    *)
(* barrier or on a dirty card (Covered).  A loop of the collector is a     *)
(* function given by its first value and its turn: LoopExists gives the    *)
(* function, Climb what its turns keep.  The mark stack runs empty since   *)
(* an object is pushed once, the walk ends since a turn visits one object. *)
(***************************************************************************)
EXTENDS ConcurrentGC, FiniteSetTheorems, SequenceTheorems, WellFoundedInduction, TLAPS

-----------------------------------------------------------------------------
(* The inductive invariant.                                                *)

Ref == Obj \cup {None}

Specs == {GC_FOR_MALLOC, GC_CONCURRENT, GC_EXPLICIT, GC_BEFORE_OOM}

Contexts ==
  [finger : Nat, word : SUBSET Obj, stack : Seq(Obj),
   pending : [References -> Seq(Obj)], cleared : SUBSET Obj,
   sweep : Nat, garbage : SUBSET Obj]

\* What the collector changes.
States ==
  [mark : SUBSET Obj, field : [Obj -> Ref], referent : [Obj -> Ref], ctx : Contexts]

HeapTypes ==
  /\ kind \in [Obj -> References \cup {"data"}] /\ zygote \in 0..N
  /\ chunk \in SUBSET Obj /\ live \in SUBSET Obj
  /\ roots \in SUBSET Obj /\ weak \in Ref /\ barrier \in SUBSET Obj
  /\ State \in States
  /\ phase \in {"idle", "walk", "trace", "sweep"} /\ spec \in Specs
  /\ condemned \in SUBSET Obj

\* References lead from objects in W to objects in W.
Inside(g, W) == \A o \in W : g.field[o] \in W \cup {None} /\ g.referent[o] \in W \cup {None}

\* What has its live bit is allocated and closed under what the mutators can follow.
\* The reference to a finalizable object is held until it has been enqueued.
HeapOK ==
  /\ live \subseteq chunk /\ roots \subseteq live /\ weak \in live \cup {None}
  /\ Inside(State, live)
  /\ \A o \in Obj : ~IsReference(o) => referent[o] = None
  /\ \A o \in Obj \ chunk : field[o] = None
  /\ \A o \in live : kind[o] = "final" /\ referent[o] # None => o \in roots

\* The objects of a collection under way: nothing leads out of them.
Kept == live \ condemned

\* A marked object whose scan is due: its field is white, or its referent
\* is and it is in no list.
Gray(o, g) ==
  \/ White(g.field[o], g)
  \/ IsReference(o) /\ White(g.referent[o], g) /\ ~IsPending(o, g)

\* What the collector knows of the objects W, at any point of a trace.
Sound(g, W) ==
  /\ g.mark \subseteq W /\ Inside(g, W)
  /\ \A o \in Obj : ~IsReference(o) => g.referent[o] = None
  /\ Elements(g.ctx.stack) \subseteq g.mark
  /\ Len(g.ctx.stack) <= Cardinality(g.mark)
  /\ \A k \in References : \A o \in Elements(g.ctx.pending[k]) : o \in g.mark /\ kind[o] = k
  /\ g.ctx.word \subseteq g.mark /\ \A o \in g.ctx.word : o < g.ctx.finger
  /\ g.ctx.cleared \subseteq g.mark /\ \A o \in g.ctx.cleared : g.referent[o] = None
  /\ g.ctx.sweep = 0 /\ g.ctx.garbage = {}

\* Who will be scanned yet.
Due(g) == Elements(g.ctx.stack) \cup g.ctx.word \cup {o \in Obj : o >= g.ctx.finger}

TraceOK ==
  phase \in {"walk", "trace"} =>
    /\ Sound(State, Kept)
    /\ ctx.cleared = {}
    /\ roots \subseteq Kept /\ weak \in Kept \cup {None}
    /\ \A o \in mark : Gray(o, State) => o \in Due(State) \cup barrier \/ CardOf(o) \in dirty
    /\ phase = "trace" => ctx.word = {} /\ ctx.finger = N + 1

SweepOK ==
  /\ phase = "idle" => mark = {} /\ condemned = {}
  /\ phase = "sweep" =>
       /\ ctx.cleared \subseteq live /\ live \cap condemned = {}
       /\ \A o \in ctx.garbage : o \in chunk \ live /\ WordOf(o) < ctx.sweep
       /\ \A o \in mark : WordOf(o) >= ctx.sweep => o \in chunk
       /\ condemned \subseteq (1..zygote) \cup ctx.garbage \cup {o \in mark : WordOf(o) >= ctx.sweep}

\* Outside the zygote's heap, what is allocated is live or waits for the sweep.
ChunksOK ==
  /\ condemned \subseteq chunk
  /\ chunk \subseteq (1..zygote) \cup live \cup
       IF phase = "sweep" THEN ctx.garbage \cup {o \in mark : WordOf(o) >= ctx.sweep} ELSE {}

GCInv == HeapTypes /\ HeapOK /\ TraceOK /\ SweepOK /\ ChunksOK

-----------------------------------------------------------------------------
(* Loops.                                                                  *)

LEMMA Least ==
  ASSUME NEW T \in SUBSET Nat, T # {}
  PROVE  \E x \in T : \A y \in T : x <= y
<1>1. PICK x \in T : \A y \in T : ~(<<y, x>> \in OpToRel(<, Nat))
  BY NatLessThanWellFounded, WFMin
<1>2. \A y \in T : ~(y < x)
  BY <1>1 DEF OpToRel
<1>3. QED
  BY <1>2

\* What every turn keeps holds after the last.
LEMMA Climb ==
  ASSUME NEW n \in Nat, NEW Good, 0 \in Good, \A i \in 1..n : i - 1 \in Good => i \in Good
  PROVE  \A i \in 0..n : i \in Good
<1> SUFFICES ASSUME NEW j \in 0..n, j \notin Good PROVE FALSE
  OBVIOUS
<1> DEFINE T == {i \in 0..n : i \notin Good}
<1>1. PICK i \in T : \A k \in T : i <= k
  <2>1. T \in SUBSET Nat /\ T # {}
    OBVIOUS
  <2> HIDE DEF T
  <2>2. QED
    BY <2>1, Least
<1>2. i \in 1..n /\ i - 1 \in 0..n
  BY <1>1
<1>3. i - 1 \notin T
  BY <1>1, <1>2
<1>4. QED
  BY <1>1, <1>2, <1>3

\* f is what a loop of n turns F that starts at x goes through.
Runs(f, n, x, F) == f = [i \in 0..n |-> IF i = 0 THEN x ELSE F[i][f[i - 1]]]

\* A function that is given by its first value and a turn exists.
LEMMA LoopExists ==
  ASSUME NEW n \in Nat, NEW D, NEW x \in D, NEW F \in [1..n -> [D -> D]]
  PROVE  \E f \in [0..n -> D] : Runs(f, n, x, F)
<1> DEFINE Made(f, m) == /\ f \in [0..m -> D] /\ f[0] = x
                         /\ \A i \in 1..m : f[i] = F[i][f[i - 1]]
           Good == {m \in 0..n : \E f \in [0..m -> D] : Made(f, m)}
<1>1. 0 \in Good
  <2> DEFINE h == [i \in 0..0 |-> x]
  <2>1. h \in [0..0 -> D] /\ Made(h, 0)
    OBVIOUS
  <2> HIDE DEF h, Made
  <2>2. QED
    BY <2>1
<1>2. ASSUME NEW m \in 1..n, m - 1 \in Good PROVE m \in Good
  <2>1. PICK f \in [0..(m - 1) -> D] : Made(f, m - 1)
    BY <1>2
  <2> DEFINE h == [i \in 0..m |-> IF i = m THEN F[m][f[m - 1]] ELSE f[i]]
  <2>2. m - 1 \in 0..(m - 1) /\ f[m - 1] \in D /\ F[m][f[m - 1]] \in D
    <3>1. m - 1 \in 0..(m - 1) /\ f[m - 1] \in D
      OBVIOUS
    <3>2. F[m] \in [D -> D]
      OBVIOUS
    <3>3. QED
      BY <3>1, <3>2
  <2>3. h \in [0..m -> D]
    BY <2>2
  <2>4. h[0] = x
    BY <2>1
  <2>5. ASSUME NEW i \in 1..m PROVE h[i] = F[i][h[i - 1]]
    <3>1. CASE i = m
      BY <3>1
    <3>2. CASE i # m
      <4>1. i \in 1..(m - 1) /\ i - 1 \in 0..m /\ i - 1 # m
        BY <3>2
      <4>2. h[i] = f[i] /\ h[i - 1] = f[i - 1]
        BY <3>2, <4>1
      <4>3. QED
        BY <2>1, <4>1, <4>2
    <3>3. QED
      BY <3>1, <3>2
  <2> HIDE DEF h
  <2>6. Made(h, m)
    BY <2>3, <2>4, <2>5
  <2> HIDE DEF Made
  <2>7. m \in 0..n
    OBVIOUS
  <2>8. QED
    BY <2>3, <2>6, <2>7
<1>3. n \in Good
  <2> HIDE DEF Good
  <2>1. \A m \in 1..n : m - 1 \in Good => m \in Good
    BY <1>2
  <2>2. \A m \in 0..n : m \in Good
    BY <1>1, <2>1, Climb
  <2>3. QED
    BY <2>2
<1>4. PICK f \in [0..n -> D] : Made(f, n)
  BY <1>3
<1>5. f = [i \in 0..n |-> f[i]]
  OBVIOUS
<1>6. \A i \in 0..n : f[i] = IF i = 0 THEN x ELSE F[i][f[i - 1]]
  BY <1>4
<1>7. f = [i \in 0..n |-> IF i = 0 THEN x ELSE F[i][f[i - 1]]]
  BY <1>5, <1>6
<1>8. QED
  BY <1>7 DEF Runs

-----------------------------------------------------------------------------
(* The words of the bitmaps.                                               *)

USE HeapAssumption

LEMMA Division ==
  ASSUME NEW a \in Nat, NEW b \in Nat \ {0}
  PROVE  a \div b \in Nat /\ b * (a \div b) <= a /\ a < b * (a \div b) + b
OBVIOUS

LEMMA Multiples ==
  ASSUME NEW a \in Nat, NEW b \in Nat \ {0}, NEW q \in Nat, b * q <= a, a < b * q + b
  PROVE  \A w \in Nat : a >= (w + 1) * b <=> q > w
OBVIOUS

LEMMA WordFacts ==
  ASSUME NEW o \in Obj
  PROVE  /\ WordOf(o) \in Nat
         /\ \A w \in Nat : o >= (w + 1) * WordBits + 1 <=> WordOf(o) > w
<1>1. PICK a, q : a = o - 1 /\ q = a \div WordBits
  OBVIOUS
<1>2. a \in Nat /\ WordBits \in Nat \ {0} /\ q = WordOf(o)
  BY <1>1 DEF Obj, WordOf
<1>3. q \in Nat /\ WordBits * q <= a /\ a < WordBits * q + WordBits
  BY <1>1, <1>2, Division
<1>4. \A w \in Nat : a >= (w + 1) * WordBits <=> q > w
  BY <1>2, <1>3, Multiples
<1>5. ASSUME NEW w \in Nat PROVE o >= (w + 1) * WordBits + 1 <=> a >= (w + 1) * WordBits
  <2>1. PICK m \in Nat : m = (w + 1) * WordBits
    BY <1>2
  <2>2. QED
    BY <1>1, <2>1 DEF Obj
<1>6. QED
  BY <1>2, <1>3, <1>4, <1>5

-----------------------------------------------------------------------------
(* Lists and sets of objects.                                              *)

LEMMA ElementsAppend ==
  ASSUME NEW S, NEW s \in Seq(S), NEW v \in S
  PROVE  /\ Append(s, v) \in Seq(S) /\ Len(Append(s, v)) = Len(s) + 1
         /\ Elements(Append(s, v)) = Elements(s) \cup {v}
<1> DEFINE t == Append(s, v)
<1>1. /\ t \in Seq(S) /\ Len(t) = Len(s) + 1 /\ Len(s) \in Nat
      /\ \A i \in 1..Len(s) : t[i] = s[i]
      /\ t[Len(s) + 1] = v
  BY AppendProperties
<1>2. DOMAIN t = 1..(Len(s) + 1) /\ DOMAIN s = 1..Len(s)
  BY <1>1, LenProperties
<1> HIDE DEF t
<1>3. \A i : i \in 1..(Len(s) + 1) <=> i \in 1..Len(s) \/ i = Len(s) + 1
  BY <1>1
<1>4. Elements(t) = Elements(s) \cup {v}
  BY <1>1, <1>2, <1>3 DEF Elements
<1>5. QED
  BY <1>1, <1>4 DEF t

\* Taking the last element off a list.
LEMMA ElementsPop ==
  ASSUME NEW S, NEW s \in Seq(S), s # <<>>
  PROVE  LET t == SubSeq(s, 1, Len(s) - 1)
         IN  /\ t \in Seq(S) /\ Len(t) = Len(s) - 1 /\ Len(s) \in Nat \ {0} /\ s[Len(s)] \in S
             /\ Elements(s) = Elements(t) \cup {s[Len(s)]}
<1> DEFINE n == Len(s)
           t == SubSeq(s, 1, n - 1)
<1>1. n \in Nat \ {0} /\ \A i \in 1..n : s[i] \in S
  BY EmptySeq, LenProperties, ElementOfSeq
<1>2. /\ t \in Seq(S) /\ Len(t) = IF 1 <= n - 1 THEN n - 1 - 1 + 1 ELSE 0
      /\ \A i \in 1..(n - 1 - 1 + 1) : t[i] = s[1 + i - 1]
  <2>1. n - 1 \in 0..n /\ 1 \in 1..(n + 1) /\ \A i \in 1..(n - 1) : s[i] \in S
    BY <1>1
  <2> HIDE DEF n
  <2>2. QED
    BY <1>1, <2>1, SubSeqProperties
<1> HIDE DEF t, n
<1>3. Len(t) = n - 1 /\ \A i \in 1..(n - 1) : t[i] = s[i]
  <2>1. Len(t) = n - 1
    BY <1>1, <1>2
  <2>2. ASSUME NEW i \in 1..(n - 1) PROVE t[i] = s[i]
    <3>1. i \in 1..(n - 1 - 1 + 1) /\ 1 + i - 1 = i
      BY <1>1
    <3>2. QED
      BY <1>2, <3>1
  <2>3. QED
    BY <2>1, <2>2
<1>4. DOMAIN t = 1..(n - 1) /\ DOMAIN s = 1..n
  BY <1>2, <1>3, LenProperties DEF n
<1>5. \A i : i \in 1..n <=> i \in 1..(n - 1) \/ i = n
  BY <1>1
<1>6. Elements(s) = Elements(t) \cup {s[n]}
  BY <1>3, <1>4, <1>5 DEF Elements
<1>7. QED
  BY <1>1, <1>2, <1>3, <1>6 DEF t, n

LEMMA ElementsEmpty ==
  ASSUME NEW S, NEW s \in Seq(S)
  PROVE  (s = <<>> <=> Elements(s) = {}) /\ (s = <<>> <=> Len(s) = 0) /\ Len(s) \in Nat
         /\ Elements(s) \in SUBSET S
<1>1. Len(s) \in Nat /\ DOMAIN s = 1..Len(s) /\ (s = <<>> <=> Len(s) = 0)
  BY EmptySeq, LenProperties
<1>2. \A i \in 1..Len(s) : s[i] \in S
  BY ElementOfSeq
<1>3. 1..Len(s) = {} <=> Len(s) = 0
  <2>1. Len(s) # 0 => 1 \in 1..Len(s)
    BY <1>1
  <2>2. Len(s) = 0 => 1..Len(s) = {}
    OBVIOUS
  <2>3. QED
    BY <2>1, <2>2
<1>4. QED
  BY <1>1, <1>2, <1>3 DEF Elements

LEMMA NoElements == Elements(<<>>) = {}
  BY EmptySeq, ElementsEmpty

LEMMA Count ==
  ASSUME NEW M \in SUBSET Obj
  PROVE  /\ IsFiniteSet(M) /\ Cardinality(M) \in 0..N
         /\ \A v \in Obj \ M : Cardinality(M \cup {v}) = Cardinality(M) + 1
<1>1. IsFiniteSet(Obj) /\ Cardinality(Obj) = N
  <2>1. 1 \in Int /\ N \in Int /\ N >= 1
    OBVIOUS
  <2>2. IsFiniteSet(1..N) /\ Cardinality(1..N) = IF 1 > N THEN 0 ELSE N - 1 + 1
    BY <2>1, FS_Interval
  <2>3. QED
    BY <2>1, <2>2 DEF Obj
<1>2. IsFiniteSet(M) /\ Cardinality(M) <= N /\ Cardinality(M) \in Nat
  BY <1>1, FS_Subset, FS_CardinalityType
<1>3. QED
  BY <1>2, FS_AddElement

-----------------------------------------------------------------------------
(* Marking and scanning one object.                                        *)

\* What marking leaves alone.
SameHeap(g, h) ==
  /\ h.field = g.field /\ h.referent = g.referent
  /\ h.ctx.cleared = g.ctx.cleared /\ h.ctx.sweep = g.ctx.sweep /\ h.ctx.garbage = g.ctx.garbage

SameWalk(g, h) == h.ctx.finger = g.ctx.finger /\ h.ctx.word = g.ctx.word

\* How much of the stack's room is left.
Slack(g) == Cardinality(g.mark) - Len(g.ctx.stack)

Pushed(g, v) == IF White(v, g) /\ v < g.ctx.finger THEN {v} ELSE {}

LEMMA MarkEffect ==
  ASSUME NEW g \in States, NEW v \in Ref, NEW h, h = MarkObject(g, v)
  PROVE  /\ h \in States /\ SameHeap(g, h) /\ SameWalk(g, h) /\ h.ctx.pending = g.ctx.pending
         /\ h.mark = g.mark \cup ({v} \ {None})
         /\ Elements(h.ctx.stack) = Elements(g.ctx.stack) \cup Pushed(g, v)
         /\ Slack(g) <= Slack(h)
<1>1. /\ g.mark \in SUBSET Obj /\ g.ctx \in Contexts /\ g.ctx.stack \in Seq(Obj)
  BY DEF States, Contexts
<1>2. CASE ~White(v, g)
  <2>1. h = g /\ Pushed(g, v) = {} /\ {v} \ {None} \in SUBSET g.mark
    BY <1>2 DEF MarkObject, Pushed, White
  <2>2. Cardinality(g.mark) \in Nat /\ Len(g.ctx.stack) \in Nat
    BY <1>1, Count, ElementsEmpty
  <2>3. QED
    BY <2>1, <2>2 DEF SameHeap, SameWalk, Slack
<1>3. CASE White(v, g)
  <2> DEFINE s2 == IF v < g.ctx.finger THEN Append(g.ctx.stack, v) ELSE g.ctx.stack
  <2>1. v \in Obj \ g.mark /\ v # None
    BY <1>3 DEF White, Ref
  <2>2. /\ s2 \in Seq(Obj) /\ Elements(s2) = Elements(g.ctx.stack) \cup Pushed(g, v)
        /\ Len(s2) \in Nat /\ Len(s2) <= Len(g.ctx.stack) + 1
    <3>1. Len(g.ctx.stack) \in Nat
      BY <1>1, ElementsEmpty
    <3>2. /\ Append(g.ctx.stack, v) \in Seq(Obj) /\ Len(Append(g.ctx.stack, v)) = Len(g.ctx.stack) + 1
          /\ Elements(Append(g.ctx.stack, v)) = Elements(g.ctx.stack) \cup {v}
      BY <1>1, <2>1, ElementsAppend
    <3>3. QED
      BY <1>1, <1>3, <3>1, <3>2 DEF Pushed
  <2>3. h = [g EXCEPT !.mark = @ \cup {v}, !.ctx.stack = s2]
    BY <1>3 DEF MarkObject
  <2> HIDE DEF s2
  <2> DEFINE c == [g.ctx EXCEPT !.stack = s2]
  <2>4. h.mark = g.mark \cup {v} /\ h.field = g.field /\ h.referent = g.referent /\ h.ctx = c
        /\ h = [mark |-> h.mark, field |-> h.field, referent |-> h.referent, ctx |-> h.ctx]
    BY <2>3 DEF States
  <2>5. /\ c \in Contexts
        /\ c.stack = s2 /\ c.finger = g.ctx.finger /\ c.word = g.ctx.word
        /\ c.pending = g.ctx.pending /\ c.cleared = g.ctx.cleared
        /\ c.sweep = g.ctx.sweep /\ c.garbage = g.ctx.garbage
    BY <1>1, <2>2 DEF Contexts
  <2> HIDE DEF c
  <2>6. h \in States
    BY <1>1, <2>1, <2>4, <2>5 DEF States
  <2>7. Slack(g) <= Slack(h)
    <3>1. Cardinality(g.mark \cup {v}) = Cardinality(g.mark) + 1 /\ Cardinality(g.mark) \in Nat
      BY <1>1, <2>1, Count
    <3>2. Len(g.ctx.stack) \in Nat
      BY <1>1, ElementsEmpty
    <3>3. h.mark = g.mark \cup {v} /\ h.ctx.stack = s2
      BY <2>4, <2>5
    <3>4. QED
      BY <2>2, <3>1, <3>2, <3>3 DEF Slack
  <2>8. QED
    BY <2>1, <2>2, <2>4, <2>5, <2>6, <2>7 DEF SameHeap, SameWalk
<1>4. QED
  BY <1>2, <1>3

\* The lists grow by o at most, which goes where its class says.
MoreListed(g, h, o) ==
  \A k \in References :
    /\ Elements(g.ctx.pending[k]) \subseteq Elements(h.ctx.pending[k])
    /\ \A p \in Elements(h.ctx.pending[k]) \ Elements(g.ctx.pending[k]) : p = o /\ kind[o] = k

LEMMA DelayEffect ==
  ASSUME NEW g \in States, NEW o \in Obj, NEW h, h = DelayReferent(g, o)
  PROVE  /\ h \in States /\ SameHeap(g, h) /\ SameWalk(g, h)
         /\ h.mark = g.mark /\ h.ctx.stack = g.ctx.stack
         /\ MoreListed(g, h, o)
         /\ IsReference(o) /\ White(g.referent[o], g) => IsPending(o, h)
<1>1. g.ctx \in Contexts /\ g.ctx.pending \in [References -> Seq(Obj)]
  BY DEF States, Contexts
<1>2. CASE ~(IsReference(o) /\ ~IsPending(o, g) /\ White(g.referent[o], g))
  <2>1. h = g
    BY <1>2 DEF DelayReferent
  <2>2. QED
    BY <1>2, <2>1 DEF SameHeap, SameWalk, MoreListed
<1>3. CASE IsReference(o) /\ ~IsPending(o, g) /\ White(g.referent[o], g)
  <2> DEFINE k == kind[o]
             l == Append(g.ctx.pending[k], o)
             p == [g.ctx.pending EXCEPT ![k] = l]
             c == [g.ctx EXCEPT !.pending = p]
  <2>1. k \in References /\ h = [g EXCEPT !.ctx.pending[k] = l]
    BY <1>3 DEF DelayReferent, IsReference
  <2>2. l \in Seq(Obj) /\ Elements(l) = Elements(g.ctx.pending[k]) \cup {o}
    <3>1. g.ctx.pending[k] \in Seq(Obj)
      BY <1>1, <2>1
    <3>2. QED
      BY <3>1, ElementsAppend
  <2> HIDE DEF l
  <2>3. p \in [References -> Seq(Obj)] /\ p[k] = l /\ \A j \in References \ {k} : p[j] = g.ctx.pending[j]
    BY <1>1, <2>1, <2>2
  <2>4. h = [g EXCEPT !.ctx = c]
    BY <2>1
  <2> HIDE DEF p
  <2>5. /\ c \in Contexts
        /\ c.pending = p /\ c.stack = g.ctx.stack /\ c.finger = g.ctx.finger /\ c.word = g.ctx.word
        /\ c.cleared = g.ctx.cleared /\ c.sweep = g.ctx.sweep /\ c.garbage = g.ctx.garbage
    BY <1>1, <2>3 DEF Contexts
  <2> HIDE DEF c
  <2>6. h \in States /\ h.mark = g.mark /\ h.field = g.field /\ h.referent = g.referent /\ h.ctx = c
    BY <2>4, <2>5 DEF States
  <2> HIDE DEF k
  <2>7. MoreListed(g, h, o)
    <3>1. ASSUME NEW j \in References
          PROVE  /\ Elements(g.ctx.pending[j]) \subseteq Elements(h.ctx.pending[j])
                 /\ \A q \in Elements(h.ctx.pending[j]) \ Elements(g.ctx.pending[j]) : q = o /\ k = j
      <4>1. CASE j = k
        <5>1. Elements(h.ctx.pending[j]) = Elements(g.ctx.pending[j]) \cup {o}
          BY <2>2, <2>3, <2>5, <2>6, <4>1
        <5>2. QED
          BY <4>1, <5>1
      <4>2. CASE j # k
        <5>1. h.ctx.pending[j] = g.ctx.pending[j]
          BY <2>3, <2>5, <2>6, <4>2
        <5>2. QED
          BY <5>1
      <4>3. QED
        BY <4>1, <4>2
    <3>2. QED
      BY <3>1 DEF MoreListed, k
  <2>8. IsPending(o, h)
    <3>1. o \in Elements(h.ctx.pending[k])
      BY <2>2, <2>3, <2>5, <2>6
    <3>2. QED
      BY <3>1 DEF IsPending, k
  <2>9. QED
    BY <2>5, <2>6, <2>7, <2>8 DEF SameHeap, SameWalk
<1>4. QED
  BY <1>2, <1>3

LEMMA ScanEffect ==
  ASSUME NEW g \in States, NEW o \in Obj, NEW h, h = ScanObject(g, o)
  PROVE  /\ h \in States /\ SameHeap(g, h) /\ SameWalk(g, h)
         /\ h.mark = g.mark \cup ({g.field[o]} \ {None})
         /\ Elements(h.ctx.stack) = Elements(g.ctx.stack) \cup Pushed(g, g.field[o])
         /\ Slack(g) <= Slack(h)
         /\ MoreListed(g, h, o)
         /\ \A p : Gray(p, h) => p # o /\ Gray(p, g)
<1>1. PICK v \in Ref : v = g.field[o]
  BY DEF States
<1>2. PICK m : m = MarkObject(g, v)
  OBVIOUS
<1>3. /\ m \in States /\ SameHeap(g, m) /\ SameWalk(g, m) /\ m.ctx.pending = g.ctx.pending
      /\ m.mark = g.mark \cup ({g.field[o]} \ {None})
      /\ Elements(m.ctx.stack) = Elements(g.ctx.stack) \cup Pushed(g, g.field[o])
      /\ Slack(g) <= Slack(m)
  <2>1. /\ m \in States /\ SameHeap(g, m) /\ SameWalk(g, m) /\ m.ctx.pending = g.ctx.pending
        /\ m.mark = g.mark \cup ({v} \ {None})
        /\ Elements(m.ctx.stack) = Elements(g.ctx.stack) \cup Pushed(g, v)
        /\ Slack(g) <= Slack(m)
    BY <1>2, MarkEffect
  <2>2. QED
    BY <1>1, <2>1
<1>4. h = DelayReferent(m, o)
  BY <1>1, <1>2 DEF ScanObject
<1>5. /\ h \in States /\ SameHeap(m, h) /\ SameWalk(m, h)
      /\ h.mark = m.mark /\ h.ctx.stack = m.ctx.stack
      /\ MoreListed(m, h, o)
      /\ IsReference(o) /\ White(m.referent[o], m) => IsPending(o, h)
  BY <1>3, <1>4, DelayEffect
<1>6. SameHeap(g, h) /\ SameWalk(g, h) /\ Slack(h) = Slack(m) /\ MoreListed(g, h, o)
  BY <1>3, <1>5 DEF SameHeap, SameWalk, Slack, MoreListed
<1>7. ~Gray(o, h)
  <2>1. ~White(h.field[o], h)
    BY <1>3, <1>5, <1>6 DEF White, SameHeap
  <2>2. White(h.referent[o], h) => White(m.referent[o], m)
    BY <1>5 DEF White, SameHeap
  <2>3. QED
    BY <1>5, <2>1, <2>2 DEF Gray
<1>8. ASSUME NEW p, Gray(p, h) PROVE Gray(p, g)
  <2>1. White(h.field[p], h) => White(g.field[p], g)
    BY <1>3, <1>5, <1>6 DEF White, SameHeap
  <2>2. White(h.referent[p], h) => White(g.referent[p], g)
    BY <1>3, <1>5, <1>6 DEF White, SameHeap
  <2>3. IsReference(p) /\ IsPending(p, g) => IsPending(p, h)
    BY <1>6 DEF IsPending, MoreListed, SameHeap, IsReference
  <2>4. QED
    BY <1>8, <2>1, <2>2, <2>3 DEF Gray
<1>9. QED
  BY <1>3, <1>5, <1>6, <1>7, <1>8

-----------------------------------------------------------------------------
(* A trace.                                                                *)

\* Who is gray is due for a scan, or in X.
Covered(g, X) == \A p \in g.mark : Gray(p, g) => p \in Due(g) \cup X

\* What a collector does from g to h: it clears references to white objects only,
\* and touches no object outside W.
Evolves(g, h, W) ==
  /\ g.mark \subseteq h.mark
  /\ \A r \in Obj : \/ h.referent[r] = g.referent[r]
                    \/ h.referent[r] = None /\ White(g.referent[r], g)
  /\ \A o \in Obj \ W : h.field[o] = g.field[o]

LEMMA EvolvesRefl == \A g, W : Evolves(g, g, W)
  BY DEF Evolves

LEMMA EvolvesTrans ==
  ASSUME NEW g, NEW h, NEW k, NEW W, Evolves(g, h, W), Evolves(h, k, W)
  PROVE  Evolves(g, k, W)
BY DEF Evolves, White

\* What a trace does from g to h.
Onward(g, h) == SameHeap(g, h) /\ g.mark \subseteq h.mark

LEMMA OnwardRefl == \A g : Onward(g, g) /\ SameWalk(g, g)
BY DEF Onward, SameHeap, SameWalk

LEMMA OnwardTrans ==
  ASSUME NEW g, NEW h, NEW k, Onward(g, h), Onward(h, k)
  PROVE  Onward(g, k) /\ (SameWalk(g, h) /\ SameWalk(h, k) => SameWalk(g, k))
BY DEF Onward, SameHeap, SameWalk

LEMMA OnwardEvolves ==
  ASSUME NEW g, NEW h, NEW W, Onward(g, h)
  PROVE  Evolves(g, h, W)
BY DEF Evolves, Onward, SameHeap

LEMMA ScanKeeps ==
  ASSUME NEW g \in States, NEW W \in SUBSET Obj, Sound(g, W), NEW o \in g.mark,
         NEW h, h = ScanObject(g, o), NEW X, Covered(g, X \cup {o})
  PROVE  /\ h \in States /\ Sound(h, W) /\ Covered(h, X)
         /\ Onward(g, h) /\ SameWalk(g, h) /\ Slack(g) <= Slack(h)
<1>0. o \in Obj /\ g.mark \in SUBSET Obj
  BY DEF States
<1>1. /\ h \in States /\ SameHeap(g, h) /\ SameWalk(g, h)
      /\ h.mark = g.mark \cup ({g.field[o]} \ {None})
      /\ Elements(h.ctx.stack) = Elements(g.ctx.stack) \cup Pushed(g, g.field[o])
      /\ Slack(g) <= Slack(h)
      /\ MoreListed(g, h, o)
      /\ \A p : Gray(p, h) => p # o /\ Gray(p, g)
  BY <1>0, ScanEffect
<1>2. Onward(g, h)
  BY <1>1 DEF Onward
<1>3. Sound(h, W)
  <2>1. h.mark \subseteq W /\ Inside(h, W)
    BY <1>1 DEF Sound, Inside, SameHeap
  <2>2. Elements(h.ctx.stack) \subseteq h.mark
    BY <1>1 DEF Sound, Pushed, White
  <2>3. Len(h.ctx.stack) <= Cardinality(h.mark)
    <3>1. /\ Len(g.ctx.stack) \in Nat /\ Len(h.ctx.stack) \in Nat
          /\ Cardinality(g.mark) \in Nat /\ Cardinality(h.mark) \in Nat
      BY <1>1, Count, ElementsEmpty DEF States, Contexts
    <3>2. QED
      BY <1>1, <3>1 DEF Sound, Slack
  <2>4. ASSUME NEW k \in References, NEW p \in Elements(h.ctx.pending[k])
        PROVE  p \in h.mark /\ kind[p] = k
    <3>1. CASE p \in Elements(g.ctx.pending[k])
      BY <1>1, <3>1 DEF Sound
    <3>2. CASE p \notin Elements(g.ctx.pending[k])
      BY <1>1, <3>2 DEF MoreListed
    <3>3. QED
      BY <3>1, <3>2
  <2>5. QED
    BY <1>1, <2>1, <2>2, <2>3, <2>4 DEF Sound, SameHeap, SameWalk
<1>4. Covered(h, X)
  <2>1. SUFFICES ASSUME NEW p \in h.mark, Gray(p, h) PROVE p \in Due(h) \cup X
    BY DEF Covered
  <2>2. Due(g) \in SUBSET Due(h)
    BY <1>1 DEF Due, SameWalk
  <2>3. CASE p \in g.mark
    BY <1>1, <2>1, <2>2, <2>3 DEF Covered
  <2>4. CASE p \notin g.mark
    <3>1. p = g.field[o] /\ White(p, g)
      BY <1>1, <2>4 DEF White
    <3>2. p \in Obj /\ g.ctx.finger \in Nat
      BY <1>1 DEF States, Contexts
    <3>3. CASE p < g.ctx.finger
      BY <1>1, <3>1, <3>3 DEF Pushed, Due
    <3>4. CASE ~(p < g.ctx.finger)
      BY <1>1, <3>2, <3>4 DEF Due, SameWalk, Obj
    <3>5. QED
      BY <3>3, <3>4
  <2>5. QED
    BY <2>3, <2>4
<1>5. QED
  BY <1>1, <1>2, <1>3, <1>4

-----------------------------------------------------------------------------
(* The mark stack.                                                         *)

LEMMA SlackIsInt == \A g \in States : Slack(g) \in Int
<1> SUFFICES ASSUME NEW g \in States PROVE Slack(g) \in Int
  OBVIOUS
<1>1. g.mark \in SUBSET Obj /\ g.ctx.stack \in Seq(Obj)
  BY DEF States, Contexts
<1>2. Cardinality(g.mark) \in Nat /\ Len(g.ctx.stack) \in Nat
  BY <1>1, Count, ElementsEmpty
<1>3. QED
  BY <1>2 DEF Slack

LEMMA PopKeeps ==
  ASSUME NEW g \in States, NEW W \in SUBSET Obj, Sound(g, W), NEW X, Covered(g, X),
         g.ctx.stack # <<>>, NEW h, h = PopAndScan(g)
  PROVE  /\ h \in States /\ Sound(h, W) /\ Covered(h, X)
         /\ Onward(g, h) /\ SameWalk(g, h) /\ Slack(h) >= Slack(g) + 1
<1>1. PICK s \in Seq(Obj) : s = g.ctx.stack
  BY DEF States, Contexts
<1>2. PICK t \in Seq(Obj), o \in Obj :
        /\ t = SubSeq(s, 1, Len(s) - 1) /\ o = s[Len(s)]
        /\ Len(t) = Len(s) - 1 /\ Len(s) \in Nat \ {0}
        /\ Elements(s) = Elements(t) \cup {o}
  <2>1. s # <<>>
    BY <1>1
  <2>2. /\ SubSeq(s, 1, Len(s) - 1) \in Seq(Obj) /\ Len(SubSeq(s, 1, Len(s) - 1)) = Len(s) - 1
        /\ Len(s) \in Nat \ {0} /\ s[Len(s)] \in Obj
        /\ Elements(s) = Elements(SubSeq(s, 1, Len(s) - 1)) \cup {s[Len(s)]}
    BY <2>1, ElementsPop, Zenon
  <2>3. QED
    BY <2>2
<1>3. PICK c : c = [g.ctx EXCEPT !.stack = t]
  OBVIOUS
<1>4. PICK k : k = [g EXCEPT !.ctx = c]
  OBVIOUS
<1>5. h = ScanObject(k, o)
  BY <1>1, <1>2, <1>3, <1>4 DEF PopAndScan
<1>6. /\ c \in Contexts
      /\ c.stack = t /\ c.finger = g.ctx.finger /\ c.word = g.ctx.word
      /\ c.pending = g.ctx.pending /\ c.cleared = g.ctx.cleared
      /\ c.sweep = g.ctx.sweep /\ c.garbage = g.ctx.garbage
  BY <1>3 DEF States, Contexts
<1>7. k \in States /\ k.mark = g.mark /\ k.field = g.field /\ k.referent = g.referent /\ k.ctx = c
  BY <1>4, <1>6 DEF States
<1>8. Onward(g, k) /\ SameWalk(g, k)
  BY <1>6, <1>7 DEF Onward, SameHeap, SameWalk
<1>9. Cardinality(g.mark) \in Nat /\ Len(t) \in Nat /\ Slack(k) = Slack(g) + 1
  <2>1. Cardinality(g.mark) \in Nat /\ Len(t) \in Nat
    BY Count, ElementsEmpty DEF States
  <2>2. QED
    BY <1>1, <1>2, <1>6, <1>7, <2>1 DEF Slack
<1>10. Sound(k, W) /\ o \in k.mark
  <2>1. Len(k.ctx.stack) <= Cardinality(k.mark)
    BY <1>1, <1>2, <1>6, <1>7, <1>9 DEF Sound
  <2>2. Elements(k.ctx.stack) \subseteq k.mark /\ o \in k.mark
    BY <1>1, <1>2, <1>6, <1>7 DEF Sound
  <2>3. QED
    BY <1>6, <1>7, <2>1, <2>2 DEF Sound, Inside
<1>11. Covered(k, X \cup {o})
  <2>1. \A p : Gray(p, k) <=> Gray(p, g)
    BY <1>6, <1>7 DEF Gray, IsPending, White
  <2>2. Due(g) \subseteq Due(k) \cup {o}
    BY <1>1, <1>2, <1>6, <1>7 DEF Due
  <2>3. QED
    BY <1>7, <2>1, <2>2 DEF Covered
<1>12. /\ h \in States /\ Sound(h, W) /\ Covered(h, X)
       /\ Onward(k, h) /\ SameWalk(k, h) /\ Slack(k) <= Slack(h)
  BY <1>5, <1>7, <1>10, <1>11, ScanKeeps
<1>13. Slack(h) >= Slack(g) + 1
  <2>1. Slack(g) \in Int /\ Slack(k) \in Int /\ Slack(h) \in Int
    BY <1>7, <1>12, SlackIsInt
  <2>2. QED
    BY <1>9, <1>12, <2>1
<1>14. QED
  BY <1>8, <1>12, <1>13, OnwardTrans

\* What a trace makes of g, for the objects W, when those gray in X are someone else's.
Traced(g, W, X) ==
  {h \in States : Sound(h, W) /\ Covered(h, X) /\ Onward(g, h) /\ SameWalk(g, h)}

\* An object is popped as often as it is pushed, and so at most once.
LEMMA StackEmptied ==
  ASSUME NEW g \in States, NEW W \in SUBSET Obj, Sound(g, W), NEW X, Covered(g, X),
         NEW h, h = ProcessMarkStack(g)
  PROVE  h \in Traced(g, W, X) /\ h.ctx.stack = <<>>
<1> DEFINE D == Traced(g, W, X)
           F == [i \in 1..N |-> [k \in D |-> PopAndScan(k)]]
           Is(f) == f = [i \in 0..N |-> IF i = 0 THEN g ELSE PopAndScan(f[i - 1])]
<1>1. g \in D
  BY OnwardRefl DEF Traced
<1>2. ASSUME NEW k \in D
      PROVE  /\ PopAndScan(k) \in D
             /\ k.ctx.stack = <<>> => PopAndScan(k) = k
             /\ k.ctx.stack # <<>> => Slack(PopAndScan(k)) >= Slack(k) + 1
  <2>1. k \in States /\ Sound(k, W) /\ Covered(k, X) /\ Onward(g, k) /\ SameWalk(g, k)
    BY DEF Traced
  <2>2. CASE k.ctx.stack = <<>>
    BY <2>1, <2>2 DEF PopAndScan
  <2>3. CASE k.ctx.stack # <<>>
    <3>1. PICK p : p = PopAndScan(k)
      OBVIOUS
    <3>2. /\ p \in States /\ Sound(p, W) /\ Covered(p, X)
          /\ Onward(k, p) /\ SameWalk(k, p) /\ Slack(p) >= Slack(k) + 1
      BY <2>1, <2>3, <3>1, PopKeeps
    <3>3. Onward(g, p) /\ SameWalk(g, p)
      BY <2>1, <3>2, OnwardTrans
    <3>4. QED
      BY <2>3, <3>1, <3>2, <3>3 DEF Traced
  <2>4. QED
    BY <2>2, <2>3
<1> HIDE DEF D
<1>3. F \in [1..N -> [D -> D]]
  BY <1>2
<1>4. PICK f \in [0..N -> D] : Runs(f, N, g, F)
  <2> HIDE DEF F
  <2>1. QED
    BY <1>1, <1>3, LoopExists
<1>5. Is(f)
  <2>1. \A i \in 0..N : i # 0 => i \in 1..N /\ f[i - 1] \in D
    OBVIOUS
  <2>2. \A i \in 0..N : i # 0 => F[i][f[i - 1]] = PopAndScan(f[i - 1])
    BY <2>1
  <2> HIDE DEF F
  <2>3. QED
    BY <1>4, <2>2 DEF Runs
<1>6. PICK a : Is(a) /\ h = a[N]
  <2>1. h = (CHOOSE q : Is(q))[N]
    BY DEF ProcessMarkStack, Loop
  <2> HIDE DEF Is
  <2>2. QED
    BY <1>5, <2>1
<1>7. a[0] = g /\ \A i \in 1..N : a[i] = PopAndScan(a[i - 1])
  BY <1>6
<1> DEFINE Good == {i \in 0..N : a[i] \in D /\ (a[i].ctx.stack = <<>> \/ Slack(a[i]) >= i)}
<1>8. 0 \in Good
  <2>1. Cardinality(g.mark) \in Nat /\ Len(g.ctx.stack) \in Nat
    BY Count, ElementsEmpty DEF States, Contexts
  <2>2. Slack(g) >= 0
    BY <2>1 DEF Slack, Sound
  <2>3. QED
    BY <1>1, <1>7, <2>2
<1>9. ASSUME NEW i \in 1..N, i - 1 \in Good PROVE i \in Good
  <2>1. PICK k \in D : k = a[i - 1] /\ (k.ctx.stack = <<>> \/ Slack(k) >= i - 1)
    BY <1>9
  <2>2. a[i] = PopAndScan(k) /\ a[i] \in D
    BY <1>2, <1>7, <2>1
  <2>3. CASE k.ctx.stack = <<>>
    BY <1>2, <2>1, <2>2, <2>3
  <2>4. CASE k.ctx.stack # <<>>
    <3>1. Slack(k) >= i - 1 /\ Slack(a[i]) >= Slack(k) + 1
      BY <1>2, <2>1, <2>2, <2>4
    <3>2. Slack(k) \in Int /\ Slack(a[i]) \in Int
      <4>1. k \in States /\ a[i] \in States
        BY <2>1, <2>2 DEF D, Traced
      <4>2. QED
        BY <4>1, SlackIsInt
    <3>3. QED
      BY <2>2, <3>1, <3>2
  <2>5. QED
    BY <2>3, <2>4
<1>10. N \in Good
  <2> HIDE DEF Good
  <2>1. \A i \in 0..N : i \in Good
    BY <1>8, <1>9, Climb
  <2>2. QED
    BY <2>1
<1>11. h \in D /\ (h.ctx.stack = <<>> \/ Slack(h) >= N)
  BY <1>6, <1>10
<1>12. h.ctx.stack = <<>>
  <2>1. h \in States
    BY <1>11 DEF D, Traced
  <2>2. h.ctx.stack \in Seq(Obj) /\ Cardinality(h.mark) \in 0..N
    BY <2>1, Count DEF States, Contexts
  <2>3. (h.ctx.stack = <<>> <=> Len(h.ctx.stack) = 0) /\ Len(h.ctx.stack) \in Nat
    BY <2>2, ElementsEmpty
  <2>4. QED
    BY <1>11, <2>2, <2>3 DEF Slack
<1>13. QED
  BY <1>11, <1>12 DEF D

-----------------------------------------------------------------------------
(* The walk over the bitmap.                                               *)

LEMMA MinIsLeast ==
  ASSUME NEW S \in SUBSET Obj, S # {}
  PROVE  MinOf(S) \in S /\ \A y \in S : MinOf(S) <= y
<1>1. S \in SUBSET Nat
  BY DEF Obj
<1>2. \E x \in S : \A y \in S : x <= y
  BY <1>1, Least
<1>3. QED
  BY <1>2 DEF MinOf

\* What the walk has not visited yet.
Left(g) == g.ctx.word \cup {o \in Obj : o >= g.ctx.finger}

\* Reading the next word that has a marked object.
Fetch(g, m) ==
  [g EXCEPT !.ctx.word = Ahead(g) \cap Word(WordOf(m)),
            !.ctx.finger = (WordOf(m) + 1) * WordBits + 1]

LEMMA FetchKeeps ==
  ASSUME NEW g \in States, NEW W \in SUBSET Obj, Sound(g, W), NEW X, Covered(g, X),
         g.ctx.word = {}, Ahead(g) # {}, NEW h, h = Fetch(g, MinOf(Ahead(g)))
  PROVE  /\ h \in States /\ Sound(h, W) /\ Covered(h, X) /\ Onward(g, h)
         /\ h.ctx.word # {} /\ Left(h) \subseteq Left(g)
<1> DEFINE m == MinOf(Ahead(g))
           w == WordOf(m)
           f == (w + 1) * WordBits + 1
           c == [g.ctx EXCEPT !.word = Ahead(g) \cap Word(w), !.finger = f]
<1>1. g.mark \in SUBSET Obj /\ g.ctx \in Contexts /\ g.ctx.finger \in Nat
  BY DEF States, Contexts
<1>2. m \in Ahead(g) /\ m \in Obj /\ \A y \in Ahead(g) : m <= y
  <2>1. Ahead(g) \in SUBSET Obj
    BY <1>1 DEF Ahead
  <2>2. QED
    BY <2>1, MinIsLeast
<1> HIDE DEF m
<1>3. w \in Nat /\ \A o \in Obj : o >= f <=> WordOf(o) > w
  BY <1>2, WordFacts
<1>4. f \in Nat
  <2>1. PICK n \in Nat : n = w
    BY <1>3
  <2>2. QED
    BY <2>1
<1> HIDE DEF f
<1>5. \A o \in Ahead(g) : o \in Obj /\ (WordOf(o) = w \/ o >= f)
  <2>1. SUFFICES ASSUME NEW o \in Ahead(g), o \in Obj, WordOf(o) # w PROVE WordOf(o) > w
    BY <1>1, <1>3 DEF Ahead
  <2>2. PICK q \in Nat : q = WordOf(o)
    BY <2>1, WordFacts
  <2>3. PICK b : b = (q + 1) * WordBits + 1
    OBVIOUS
  <2>4. b \in Nat
    BY <2>3
  <2>5. (o >= b <=> q > q) /\ (m >= b <=> w > q)
    BY <1>2, <2>1, <2>2, <2>3, WordFacts
  <2>6. m <= o
    BY <1>2
  <2>7. m \in Nat /\ o \in Nat
    BY <1>2, <2>1 DEF Obj
  <2>8. QED
    BY <1>3, <2>1, <2>2, <2>4, <2>5, <2>6, <2>7
<1>6. ~(m >= f)
  BY <1>2, <1>3
<1> HIDE DEF w
<1>7. h = [g EXCEPT !.ctx = c]
  BY DEF Fetch, f, w, m
<1>8. Word(w) \subseteq Obj /\ \A o \in Obj : o \in Word(w) <=> WordOf(o) = w
  BY DEF Word
<1>9. /\ c \in Contexts
      /\ c.word = Ahead(g) \cap Word(w) /\ c.finger = f
      /\ c.stack = g.ctx.stack /\ c.pending = g.ctx.pending /\ c.cleared = g.ctx.cleared
      /\ c.sweep = g.ctx.sweep /\ c.garbage = g.ctx.garbage
  BY <1>1, <1>4, <1>8 DEF Contexts
<1> HIDE DEF c
<1>10. h \in States /\ h.mark = g.mark /\ h.field = g.field /\ h.referent = g.referent /\ h.ctx = c
  BY <1>7, <1>9 DEF States
<1>11. Onward(g, h)
  BY <1>9, <1>10 DEF Onward, SameHeap
<1>12. c.word # {}
  BY <1>2, <1>8, <1>9 DEF w
<1>13. \A o \in c.word : o < f
  <2>1. SUFFICES ASSUME NEW o \in c.word PROVE o < f
    OBVIOUS
  <2>2. o \in Obj /\ WordOf(o) = w
    BY <1>8, <1>9
  <2>3. ~(o >= f)
    BY <1>3, <2>2
  <2>4. QED
    BY <1>4, <2>2, <2>3 DEF Obj
<1>14. Sound(h, W)
  <2>1. c.word \subseteq g.mark
    BY <1>9 DEF Ahead
  <2>2. QED
    BY <1>9, <1>10, <1>13, <2>1 DEF Sound, Inside
<1>15. Covered(h, X)
  <2>1. \A p : Gray(p, h) <=> Gray(p, g)
    BY <1>9, <1>10 DEF Gray, IsPending, White
  <2>2. ASSUME NEW p \in g.mark, p \in Due(g) PROVE p \in Due(h)
    <3>1. CASE p \in Elements(g.ctx.stack)
      BY <1>9, <1>10, <3>1 DEF Due
    <3>2. CASE p \in Obj /\ p >= g.ctx.finger
      <4>1. p \in Ahead(g)
        BY <3>2 DEF Ahead
      <4>2. p \in c.word \/ p >= f
        BY <1>5, <1>8, <1>9, <4>1
      <4>3. QED
        BY <1>9, <1>10, <3>2, <4>2 DEF Due
    <3>3. QED
      BY <2>2, <3>1, <3>2 DEF Due
  <2>3. QED
    BY <1>10, <2>1, <2>2 DEF Covered
<1>16. Left(h) \subseteq Left(g)
  <2>1. ASSUME NEW o \in Obj, o >= f PROVE o >= g.ctx.finger
    <3>1. m >= g.ctx.finger /\ m \in Nat /\ o \in Nat
      BY <1>2, <2>1 DEF Ahead, Obj
    <3>2. QED
      BY <1>1, <1>4, <1>6, <2>1, <3>1
  <2>2. ASSUME NEW o \in c.word PROVE o \in Obj /\ o >= g.ctx.finger
    BY <1>1, <1>9 DEF Ahead
  <2>3. QED
    BY <1>9, <1>10, <2>1, <2>2 DEF Left
<1>17. QED
  BY <1>9, <1>10, <1>11, <1>12, <1>14, <1>15, <1>16

\* The visit of the first object of the word that has been read.
LEMMA VisitKeeps ==
  ASSUME NEW g \in States, NEW W \in SUBSET Obj, Sound(g, W), NEW X, Covered(g, X),
         g.ctx.word # {}, NEW o, o = MinOf(g.ctx.word),
         NEW h, h = ScanObject([g EXCEPT !.ctx.word = @ \ {o}], o)
  PROVE  /\ h \in States /\ Sound(h, W) /\ Covered(h, X) /\ Onward(g, h)
         /\ o \in Left(g) /\ Left(h) \subseteq Left(g) \ {o}
<1>1. g.ctx \in Contexts /\ g.ctx.word \in SUBSET Obj /\ g.ctx.finger \in Nat
  BY DEF States, Contexts
<1>2. o \in g.ctx.word /\ o \in Obj
  BY <1>1, MinIsLeast
<1>3. PICK c : c = [g.ctx EXCEPT !.word = g.ctx.word \ {o}]
  OBVIOUS
<1>4. PICK k : k = [g EXCEPT !.ctx = c]
  OBVIOUS
<1>5. h = ScanObject(k, o)
  BY <1>3, <1>4
<1>6. /\ c \in Contexts /\ c.word = g.ctx.word \ {o}
      /\ c.stack = g.ctx.stack /\ c.finger = g.ctx.finger
      /\ c.pending = g.ctx.pending /\ c.cleared = g.ctx.cleared
      /\ c.sweep = g.ctx.sweep /\ c.garbage = g.ctx.garbage
  BY <1>1, <1>3 DEF Contexts
<1>7. k \in States /\ k.mark = g.mark /\ k.field = g.field /\ k.referent = g.referent /\ k.ctx = c
  BY <1>4, <1>6 DEF States
<1>8. Onward(g, k)
  BY <1>6, <1>7 DEF Onward, SameHeap
<1>9. Sound(k, W) /\ o \in k.mark /\ o < g.ctx.finger
  BY <1>2, <1>6, <1>7 DEF Sound, Inside
<1>10. Covered(k, X \cup {o})
  <2>1. \A p : Gray(p, k) <=> Gray(p, g)
    BY <1>6, <1>7 DEF Gray, IsPending, White
  <2>2. Due(g) \subseteq Due(k) \cup {o}
    BY <1>6, <1>7 DEF Due
  <2>3. QED
    BY <1>7, <2>1, <2>2 DEF Covered
<1>11. h \in States /\ Sound(h, W) /\ Covered(h, X) /\ Onward(k, h) /\ SameWalk(k, h)
  BY <1>5, <1>7, <1>9, <1>10, ScanKeeps
<1>12. o \in Left(g) /\ Left(h) \subseteq Left(g) \ {o}
  <2>1. ~(o >= g.ctx.finger)
    BY <1>1, <1>2, <1>9 DEF Obj
  <2>2. QED
    BY <1>2, <1>6, <1>7, <1>11, <2>1 DEF Left, SameWalk
<1>13. QED
  BY <1>8, <1>11, <1>12, OnwardTrans

LEMMA WalkKeeps ==
  ASSUME NEW g \in States, NEW W \in SUBSET Obj, Sound(g, W), NEW X, Covered(g, X),
         ~WalkDone(g), NEW h, h = WalkAndScan(g)
  PROVE  /\ h \in States /\ Sound(h, W) /\ Covered(h, X) /\ Onward(g, h)
         /\ \E o \in Left(g) : Left(h) \subseteq Left(g) \ {o}
<1>1. PICK k : k = IF g.ctx.word # {} THEN g ELSE Fetch(g, MinOf(Ahead(g)))
  OBVIOUS
<1>2. h = ScanObject([k EXCEPT !.ctx.word = @ \ {MinOf(k.ctx.word)}], MinOf(k.ctx.word))
  BY <1>1 DEF WalkAndScan, Fetch
<1>3. /\ k \in States /\ Sound(k, W) /\ Covered(k, X) /\ Onward(g, k)
      /\ k.ctx.word # {} /\ Left(k) \subseteq Left(g)
  <2>1. CASE g.ctx.word # {}
    BY <1>1, <2>1, OnwardRefl
  <2>2. CASE g.ctx.word = {}
    <3>1. Ahead(g) # {} /\ k = Fetch(g, MinOf(Ahead(g)))
      BY <1>1, <2>2 DEF WalkDone
    <3>2. QED
      BY <2>2, <3>1, FetchKeeps
  <2>3. QED
    BY <2>1, <2>2
<1>4. PICK o : o = MinOf(k.ctx.word)
  OBVIOUS
<1>5. h = ScanObject([k EXCEPT !.ctx.word = @ \ {o}], o)
  BY <1>2, <1>4
<1>6. /\ h \in States /\ Sound(h, W) /\ Covered(h, X) /\ Onward(k, h)
      /\ o \in Left(k) /\ Left(h) \subseteq Left(k) \ {o}
  BY <1>3, <1>4, <1>5, VisitKeeps
<1>7. Onward(g, h)
  BY <1>3, <1>6, OnwardTrans
<1>8. QED
  BY <1>3, <1>6, <1>7

\* The finger at the end: what is marked from here on goes on the stack.
Past(g) == g.ctx.word = {} /\ g.ctx.finger = N + 1

LEMMA PastDue ==
  ASSUME NEW g \in States, Past(g)
  PROVE  Due(g) = Elements(g.ctx.stack)
<1>1. \A o \in Obj : ~(o >= N + 1)
  BY DEF Obj
<1>2. QED
  BY <1>1 DEF Due, Past

LEMMA WalkEnds ==
  ASSUME NEW g \in States, NEW W \in SUBSET Obj, Sound(g, W), NEW X, Covered(g, X),
         WalkDone(g), NEW h, h = EndWalk(g)
  PROVE  h \in States /\ Sound(h, W) /\ Covered(h, X) /\ Onward(g, h) /\ Past(h)
<1>1. PICK c : c = [g.ctx EXCEPT !.finger = N + 1]
  OBVIOUS
<1>2. /\ c \in Contexts /\ c.word = {} /\ c.word = g.ctx.word
      /\ c.stack = g.ctx.stack /\ c.finger = N + 1
      /\ c.pending = g.ctx.pending /\ c.cleared = g.ctx.cleared
      /\ c.sweep = g.ctx.sweep /\ c.garbage = g.ctx.garbage
  <2>1. g.ctx \in Contexts /\ g.ctx.word = {} /\ N + 1 \in Nat
    BY DEF WalkDone, States, Contexts
  <2>2. QED
    BY <1>1, <2>1 DEF Contexts
<1>3. h = [g EXCEPT !.ctx = c]
  BY <1>1 DEF EndWalk
<1>4. h \in States /\ h.mark = g.mark /\ h.field = g.field /\ h.referent = g.referent /\ h.ctx = c
  BY <1>2, <1>3 DEF States
<1>5. Onward(g, h) /\ Past(h) /\ Sound(h, W)
  BY <1>2, <1>4 DEF Onward, SameHeap, Past, Sound, Inside
<1>6. Covered(h, X)
  <2>1. \A p : Gray(p, h) <=> Gray(p, g)
    BY <1>2, <1>4 DEF Gray, IsPending, White
  <2>2. \A p \in g.mark : p \in Due(g) => p \in Due(h)
    BY <1>2, <1>4 DEF Due, WalkDone, Ahead
  <2>3. QED
    BY <1>4, <2>1, <2>2 DEF Covered
<1>7. QED
  BY <1>4, <1>5, <1>6

\* A turn of the walk visits one of the objects that are left.
LEMMA HeapWalked ==
  ASSUME NEW g \in States, NEW W \in SUBSET Obj, Sound(g, W), NEW X, Covered(g, X),
         NEW h, h = ScanMarkedObjects(g)
  PROVE  /\ h \in States /\ Sound(h, W) /\ Covered(h, X) /\ Onward(g, h)
         /\ Past(h) /\ h.ctx.stack = <<>>
<1> DEFINE D == {k \in States : Sound(k, W) /\ Covered(k, X) /\ Onward(g, k)}
           F == [i \in 1..N |-> [k \in D |-> WalkAndScan(k)]]
           Is(f) == f = [i \in 0..N |-> IF i = 0 THEN g ELSE WalkAndScan(f[i - 1])]
<1>1. g \in D
  BY OnwardRefl
<1>2. ASSUME NEW k \in D
      PROVE  /\ WalkAndScan(k) \in D
             /\ WalkDone(k) => WalkAndScan(k) = k
             /\ ~WalkDone(k) => \E o \in Left(k) : Left(WalkAndScan(k)) \subseteq Left(k) \ {o}
  <2>1. CASE WalkDone(k)
    BY <2>1 DEF WalkAndScan
  <2>2. CASE ~WalkDone(k)
    <3>1. PICK p : p = WalkAndScan(k)
      OBVIOUS
    <3>2. /\ p \in States /\ Sound(p, W) /\ Covered(p, X) /\ Onward(k, p)
          /\ \E o \in Left(k) : Left(p) \subseteq Left(k) \ {o}
      BY <2>2, <3>1, WalkKeeps
    <3>3. Onward(g, p)
      BY <3>2, OnwardTrans
    <3>4. QED
      BY <2>2, <3>1, <3>2, <3>3
  <2>3. QED
    BY <2>1, <2>2
<1>3. \A k \in D : Left(k) \in SUBSET Obj
  BY DEF Left, States, Contexts
<1> HIDE DEF D
<1>4. F \in [1..N -> [D -> D]]
  BY <1>2
<1>5. PICK f \in [0..N -> D] : Runs(f, N, g, F)
  <2> HIDE DEF F
  <2>1. QED
    BY <1>1, <1>4, LoopExists
<1>6. Is(f)
  <2>1. \A i \in 0..N : i # 0 => i \in 1..N /\ f[i - 1] \in D
    OBVIOUS
  <2>2. \A i \in 0..N : i # 0 => F[i][f[i - 1]] = WalkAndScan(f[i - 1])
    BY <2>1
  <2> HIDE DEF F
  <2>3. QED
    BY <1>5, <2>2 DEF Runs
<1>7. PICK a : Is(a) /\ h = ProcessMarkStack(EndWalk(a[N]))
  <2>1. h = ProcessMarkStack(EndWalk((CHOOSE q : Is(q))[N]))
    BY DEF ScanMarkedObjects, Loop
  <2> HIDE DEF Is
  <2>2. QED
    BY <1>6, <2>1
<1>8. a[0] = g /\ \A i \in 1..N : a[i] = WalkAndScan(a[i - 1])
  BY <1>7
<1> DEFINE Good == {i \in 0..N : a[i] \in D /\ (WalkDone(a[i]) \/ Cardinality(Left(a[i])) <= N - i)}
<1>9. 0 \in Good
  <2>1. Cardinality(Left(g)) <= N
    BY <1>1, <1>3, Count
  <2>2. QED
    BY <1>1, <1>8, <2>1
<1>10. ASSUME NEW i \in 1..N, i - 1 \in Good PROVE i \in Good
  <2>1. PICK k \in D : k = a[i - 1] /\ (WalkDone(k) \/ Cardinality(Left(k)) <= N - (i - 1))
    BY <1>10
  <2>2. a[i] = WalkAndScan(k) /\ a[i] \in D
    BY <1>2, <1>8, <2>1
  <2>3. CASE WalkDone(k)
    BY <1>2, <2>1, <2>2, <2>3
  <2>4. CASE ~WalkDone(k)
    <3>1. PICK o \in Left(k) : Left(a[i]) \subseteq Left(k) \ {o}
      BY <1>2, <2>2, <2>4
    <3>2. PICK L \in SUBSET Obj : L = Left(k) \ {o}
      BY <1>3
    <3>3. o \in Obj \ L /\ L \cup {o} = Left(k)
      BY <1>3, <3>2
    <3>4. Cardinality(Left(k)) = Cardinality(L) + 1 /\ Cardinality(L) \in Nat /\ IsFiniteSet(L)
      <4>1. /\ IsFiniteSet(L) /\ Cardinality(L) \in 0..N
            /\ Cardinality(L \cup {o}) = Cardinality(L) + 1
        BY <3>3, Count
      <4>2. Cardinality(Left(k)) = Cardinality(L) + 1
        BY <3>3, <4>1, Zenon
      <4>3. QED
        BY <4>1, <4>2
    <3>5. Cardinality(Left(a[i])) <= Cardinality(L) /\ Cardinality(Left(a[i])) \in Nat
      <4>1. Left(a[i]) \in SUBSET L
        BY <3>1, <3>2
      <4>2. QED
        BY <3>4, <4>1, FS_Subset, FS_CardinalityType
    <3>6. Cardinality(Left(k)) <= N - (i - 1)
      BY <2>1, <2>4
    <3>7. QED
      BY <2>2, <3>4, <3>5, <3>6
  <2>5. QED
    BY <2>3, <2>4
<1>11. N \in Good
  <2> HIDE DEF Good
  <2>1. \A i \in 0..N : i \in Good
    BY <1>9, <1>10, Climb
  <2>2. QED
    BY <2>1
<1>12. PICK k \in D : k = a[N] /\ (WalkDone(k) \/ Cardinality(Left(k)) <= 0)
  BY <1>11
<1>13. WalkDone(k)
  <2>1. SUFFICES ASSUME Cardinality(Left(k)) <= 0 PROVE WalkDone(k)
    BY <1>12
  <2>2. IsFiniteSet(Left(k)) /\ Cardinality(Left(k)) \in Nat
    BY <1>3, Count
  <2>3. Left(k) = {}
    BY <2>1, <2>2, FS_EmptySet
  <2>4. k.mark \subseteq Obj
    BY DEF D, States
  <2>5. QED
    BY <2>3, <2>4 DEF WalkDone, Left, Ahead
<1>14. k \in States /\ Sound(k, W) /\ Covered(k, X) /\ Onward(g, k)
  BY DEF D
<1>15. PICK e : e = EndWalk(k)
  OBVIOUS
<1>16. e \in States /\ Sound(e, W) /\ Covered(e, X) /\ Onward(k, e) /\ Past(e)
  BY <1>13, <1>14, <1>15, WalkEnds
<1>17. h = ProcessMarkStack(e)
  BY <1>7, <1>12, <1>15
<1>18. h \in Traced(e, W, X) /\ h.ctx.stack = <<>>
  BY <1>16, <1>17, StackEmptied
<1>19. Onward(g, h)
  BY <1>14, <1>16, <1>18, OnwardTrans DEF Traced
<1>20. Past(h)
  BY <1>16, <1>18 DEF Traced, Past, SameWalk
<1>21. QED
  BY <1>18, <1>19, <1>20 DEF Traced

-----------------------------------------------------------------------------
(* The second pause: the roots again, and the dirty cards.                 *)

\* Marking one more object, with the finger at the end.
LEMMA MarkKeeps ==
  ASSUME NEW g \in States, NEW W \in SUBSET Obj, Sound(g, W), NEW X, Covered(g, X), Past(g),
         NEW v \in W, NEW h, h = MarkObject(g, v)
  PROVE  /\ h \in States /\ Sound(h, W) /\ Covered(h, X) /\ Onward(g, h) /\ SameWalk(g, h)
         /\ v \in h.mark /\ h.ctx.pending = g.ctx.pending
<1>1. v \in Ref /\ v \in Obj /\ v # None
  <2>1. v \in Obj
    OBVIOUS
  <2>2. v # None
    BY <2>1 DEF Obj, None
  <2>3. QED
    BY <2>1, <2>2 DEF Ref
<1>2. /\ h \in States /\ SameHeap(g, h) /\ SameWalk(g, h) /\ h.ctx.pending = g.ctx.pending
      /\ h.mark = g.mark \cup {v}
      /\ Elements(h.ctx.stack) = Elements(g.ctx.stack) \cup Pushed(g, v)
      /\ Slack(g) <= Slack(h)
  <2>1. /\ h \in States /\ SameHeap(g, h) /\ SameWalk(g, h) /\ h.ctx.pending = g.ctx.pending
        /\ h.mark = g.mark \cup ({v} \ {None})
        /\ Elements(h.ctx.stack) = Elements(g.ctx.stack) \cup Pushed(g, v)
        /\ Slack(g) <= Slack(h)
    BY <1>1, MarkEffect
  <2>2. QED
    BY <1>1, <2>1
<1>3. Onward(g, h)
  BY <1>2 DEF Onward
<1>4. Sound(h, W)
  <2>1. h.mark \subseteq W /\ Inside(h, W)
    BY <1>2 DEF Sound, Inside, SameHeap
  <2>2. Elements(h.ctx.stack) \subseteq h.mark
    BY <1>2 DEF Sound, Pushed
  <2>3. Len(h.ctx.stack) <= Cardinality(h.mark)
    <3>1. /\ Len(g.ctx.stack) \in Nat /\ Len(h.ctx.stack) \in Nat
          /\ Cardinality(g.mark) \in Nat /\ Cardinality(h.mark) \in Nat
      BY <1>2, Count, ElementsEmpty DEF States, Contexts
    <3>2. QED
      BY <1>2, <3>1 DEF Sound, Slack
  <2>4. QED
    BY <1>2, <2>1, <2>2, <2>3 DEF Sound, SameHeap, SameWalk
<1>5. Covered(h, X)
  <2>1. SUFFICES ASSUME NEW p \in h.mark, Gray(p, h) PROVE p \in Due(h) \cup X
    BY DEF Covered
  <2>2. Gray(p, g)
    BY <1>2, <2>1 DEF Gray, IsPending, White, SameHeap
  <2>3. Due(g) \in SUBSET Due(h)
    BY <1>2 DEF Due, SameWalk
  <2>4. CASE p \in g.mark
    BY <2>2, <2>3, <2>4 DEF Covered
  <2>5. CASE p \notin g.mark
    <3>1. p = v /\ White(v, g)
      BY <1>1, <1>2, <2>5 DEF White
    <3>2. v < g.ctx.finger
      BY <1>1 DEF Past, Obj
    <3>3. QED
      BY <1>2, <3>1, <3>2 DEF Pushed, Due
  <2>6. QED
    BY <2>4, <2>5
<1>6. QED
  BY <1>1, <1>2, <1>3, <1>4, <1>5

LEMMA RootsMarked ==
  ASSUME NEW g \in States, NEW W \in SUBSET Obj, Sound(g, W), NEW X, Covered(g, X), Past(g),
         roots \subseteq W, NEW h, h = ReMarkRootSet(g)
  PROVE  h \in Traced(g, W, X) /\ roots \subseteq h.mark
<1> DEFINE Turn(k, o) == IF o \in roots THEN MarkObject(k, o) ELSE k
           D == Traced(g, W, X)
           F == [i \in 1..N |-> [k \in D |-> Turn(k, i)]]
           Is(f) == f = [i \in 0..N |-> IF i = 0 THEN g ELSE Turn(f[i - 1], i)]
<1>1. g \in D
  BY OnwardRefl DEF Traced
<1>2. ASSUME NEW k \in D, NEW i \in 1..N
      PROVE  Turn(k, i) \in D /\ k.mark \subseteq Turn(k, i).mark /\ (i \in roots => i \in Turn(k, i).mark)
  <2>1. k \in States /\ Sound(k, W) /\ Covered(k, X) /\ Onward(g, k) /\ SameWalk(g, k) /\ Past(k)
    BY DEF Traced, Past, SameWalk
  <2>2. CASE i \notin roots
    BY <2>2
  <2>3. CASE i \in roots
    <3>1. PICK p : p = MarkObject(k, i)
      OBVIOUS
    <3>2. i \in W
      BY <2>3
    <3>3. /\ p \in States /\ Sound(p, W) /\ Covered(p, X) /\ Onward(k, p) /\ SameWalk(k, p)
          /\ i \in p.mark
      BY <2>1, <3>1, <3>2, MarkKeeps
    <3>4. Onward(g, p) /\ SameWalk(g, p)
      BY <2>1, <3>3, OnwardTrans
    <3>5. Turn(k, i) = p
      BY <2>3, <3>1
    <3>6. QED
      BY <3>3, <3>4, <3>5 DEF Traced, Onward
  <2>4. QED
    BY <2>2, <2>3
<1> HIDE DEF D, Turn
<1>3. F \in [1..N -> [D -> D]]
  BY <1>2
<1>4. PICK f \in [0..N -> D] : Runs(f, N, g, F)
  <2> HIDE DEF F
  <2>1. QED
    BY <1>1, <1>3, LoopExists
<1>5. Is(f)
  <2>1. \A i \in 0..N : i # 0 => i \in 1..N /\ f[i - 1] \in D
    OBVIOUS
  <2>2. \A i \in 0..N : i # 0 => F[i][f[i - 1]] = Turn(f[i - 1], i)
    BY <2>1
  <2> HIDE DEF F
  <2>3. QED
    BY <1>4, <2>2 DEF Runs
<1>6. PICK a : Is(a) /\ h = a[N]
  <2>1. h = (CHOOSE q : Is(q))[N]
    BY DEF ReMarkRootSet, ForEach, Loop, Turn
  <2> HIDE DEF Is
  <2>2. QED
    BY <1>5, <2>1
<1>7. a[0] = g /\ \A i \in 1..N : a[i] = Turn(a[i - 1], i)
  BY <1>6
<1> DEFINE Good == {i \in 0..N : a[i] \in D /\ \A o \in roots : o <= i => o \in a[i].mark}
<1>8. roots \subseteq 1..N
  BY DEF Obj
<1>9. 0 \in Good
  BY <1>1, <1>7, <1>8
<1>10. ASSUME NEW i \in 1..N, i - 1 \in Good PROVE i \in Good
  <2>1. PICK k \in D : k = a[i - 1] /\ \A o \in roots : o <= i - 1 => o \in k.mark
    BY <1>10
  <2>2. a[i] = Turn(k, i) /\ a[i] \in D /\ k.mark \subseteq a[i].mark /\ (i \in roots => i \in a[i].mark)
    BY <1>2, <1>7, <2>1
  <2>3. \A o \in roots : o <= i => o <= i - 1 \/ o = i
    BY <1>8
  <2>4. QED
    BY <2>1, <2>2, <2>3
<1>11. N \in Good
  <2> HIDE DEF Good
  <2>1. \A i \in 0..N : i \in Good
    BY <1>9, <1>10, Climb
  <2>2. QED
    BY <2>1
<1>12. QED
  BY <1>6, <1>8, <1>11 DEF D

\* An object that is gray for its card only is scanned once in the pause.
LEMMA GrayScanned ==
  ASSUME NEW g \in States, NEW W \in SUBSET Obj, Sound(g, W),
         Covered(g, {o \in Obj : CardOf(o) \in dirty}),
         NEW h, h = ScanGrayObjects(g)
  PROVE  h \in Traced(g, W, {})
<1> DEFINE S == {o \in g.mark : CardOf(o) \in dirty}
           Turn(k, o) == IF o \in S THEN ScanObject(k, o) ELSE k
           D == Traced(g, W, Obj)
           F == [i \in 1..N |-> [k \in D |-> Turn(k, i)]]
           Is(f) == f = [i \in 0..N |-> IF i = 0 THEN g ELSE Turn(f[i - 1], i)]
           Rest(i) == {o \in S : o > i}
<1>0. g.mark \in SUBSET Obj
  BY DEF States
<1>1. g \in D
  BY <1>0, OnwardRefl DEF Traced, Covered
<1>2. ASSUME NEW k \in D, NEW i \in 1..N
      PROVE  /\ Turn(k, i) \in D
             /\ \A X : Covered(k, X \cup {i}) /\ i \in S => Covered(Turn(k, i), X)
  <2>1. k \in States /\ Sound(k, W) /\ Onward(g, k) /\ SameWalk(g, k)
    BY DEF Traced
  <2>2. CASE i \notin S
    BY <2>2
  <2>3. CASE i \in S
    <3>1. PICK p : p = ScanObject(k, i)
      OBVIOUS
    <3>2. i \in k.mark
      BY <2>1, <2>3 DEF Onward
    <3>3. ASSUME NEW X, Covered(k, X \cup {i})
          PROVE  /\ p \in States /\ Sound(p, W) /\ Covered(p, X)
                 /\ Onward(k, p) /\ SameWalk(k, p)
      BY <2>1, <3>1, <3>2, <3>3, ScanKeeps
    <3>4. Covered(k, Obj \cup {i})
      BY <2>1 DEF Covered, States
    <3>5. /\ p \in States /\ Sound(p, W) /\ Covered(p, Obj)
          /\ Onward(k, p) /\ SameWalk(k, p)
      BY <3>3, <3>4
    <3>6. Onward(g, p) /\ SameWalk(g, p)
      BY <2>1, <3>5, OnwardTrans
    <3>7. Turn(k, i) = p
      BY <2>3, <3>1
    <3>8. QED
      BY <3>3, <3>5, <3>6, <3>7 DEF Traced
  <2>4. QED
    BY <2>2, <2>3
<1> HIDE DEF D, Turn
<1>3. F \in [1..N -> [D -> D]]
  BY <1>2
<1>4. PICK f \in [0..N -> D] : Runs(f, N, g, F)
  <2> HIDE DEF F
  <2>1. QED
    BY <1>1, <1>3, LoopExists
<1>5. Is(f)
  <2>1. \A i \in 0..N : i # 0 => i \in 1..N /\ f[i - 1] \in D
    OBVIOUS
  <2>2. \A i \in 0..N : i # 0 => F[i][f[i - 1]] = Turn(f[i - 1], i)
    BY <2>1
  <2> HIDE DEF F
  <2>3. QED
    BY <1>4, <2>2 DEF Runs
<1>6. PICK a : Is(a) /\ h = a[N]
  <2>1. h = (CHOOSE q : Is(q))[N]
    BY DEF ScanGrayObjects, ForEach, Loop, Turn
  <2> HIDE DEF Is
  <2>2. QED
    BY <1>5, <2>1
<1>7. a[0] = g /\ \A i \in 1..N : a[i] = Turn(a[i - 1], i)
  BY <1>6
<1> DEFINE Good == {i \in 0..N : a[i] \in D /\ Covered(a[i], Rest(i))}
<1>8. S \subseteq 1..N
  BY <1>0 DEF Obj
<1>9. 0 \in Good
  <2>1. Covered(g, Rest(0))
    BY <1>0, <1>8 DEF Covered
  <2>2. QED
    BY <1>1, <1>7, <2>1
<1>10. ASSUME NEW i \in 1..N, i - 1 \in Good PROVE i \in Good
  <2>1. PICK k \in D : k = a[i - 1] /\ Covered(k, Rest(i - 1))
    BY <1>10
  <2>2. a[i] = Turn(k, i) /\ a[i] \in D
    BY <1>2, <1>7, <2>1
  <2>3. \A o \in S : o > i - 1 => o > i \/ o = i
    BY <1>8
  <2>4. Covered(k, Rest(i) \cup {i})
    BY <2>1, <2>3 DEF Covered
  <2>5. CASE i \in S
    BY <1>2, <2>2, <2>4, <2>5
  <2>6. CASE i \notin S
    <3>1. Rest(i - 1) \subseteq Rest(i)
      BY <2>3, <2>6
    <3>2. a[i] = k
      BY <2>2, <2>6 DEF Turn
    <3>3. QED
      BY <2>1, <2>2, <3>1, <3>2 DEF Covered
  <2>7. QED
    BY <2>5, <2>6
<1>11. N \in Good
  <2> HIDE DEF Good
  <2>1. \A i \in 0..N : i \in Good
    BY <1>9, <1>10, Climb
  <2>2. QED
    BY <2>1
<1>12. h \in D /\ Covered(h, Rest(N))
  BY <1>6, <1>11
<1>13. Rest(N) = {}
  BY <1>8
<1>14. QED
  BY <1>12, <1>13 DEF D, Traced

-----------------------------------------------------------------------------
(* References.                                                             *)

\* A trace that is done: nothing is on the stack, nothing is gray.
Settled(g) == Past(g) /\ g.ctx.stack = <<>> /\ Covered(g, {})

LEMMA NothingGray ==
  ASSUME NEW g \in States, Settled(g)
  PROVE  \A p \in g.mark : ~Gray(p, g)
BY PastDue, NoElements DEF Settled, Covered

LEMMA ListsTyped ==
  ASSUME NEW g \in States, NEW k \in References
  PROVE  g.ctx.pending[k] \in Seq(Obj)
BY DEF States, Contexts

\* A list of discovered references is replaced.
Relist(g, k, l) == [g EXCEPT !.ctx.pending[k] = l]

LEMMA Relisted ==
  ASSUME NEW g \in States, NEW k \in References, NEW l \in Seq(Obj),
         NEW h, h = Relist(g, k, l)
  PROVE  /\ h \in States /\ SameHeap(g, h) /\ SameWalk(g, h)
         /\ h.mark = g.mark /\ h.ctx.stack = g.ctx.stack
         /\ h.ctx.pending[k] = l /\ \A j \in References \ {k} : h.ctx.pending[j] = g.ctx.pending[j]
<1>1. g.ctx \in Contexts /\ g.ctx.pending \in [References -> Seq(Obj)]
  BY DEF States, Contexts
<1>2. PICK p : p = [g.ctx.pending EXCEPT ![k] = l]
  OBVIOUS
<1>3. p \in [References -> Seq(Obj)] /\ p[k] = l /\ \A j \in References \ {k} : p[j] = g.ctx.pending[j]
  BY <1>1, <1>2
<1>4. PICK c : c = [g.ctx EXCEPT !.pending = p]
  OBVIOUS
<1>5. /\ c \in Contexts
      /\ c.pending = p /\ c.stack = g.ctx.stack /\ c.finger = g.ctx.finger /\ c.word = g.ctx.word
      /\ c.cleared = g.ctx.cleared /\ c.sweep = g.ctx.sweep /\ c.garbage = g.ctx.garbage
  BY <1>1, <1>3, <1>4 DEF Contexts
<1>6. h = [g EXCEPT !.ctx = c]
  BY <1>2, <1>4 DEF Relist
<1>7. h \in States /\ h.mark = g.mark /\ h.field = g.field /\ h.referent = g.referent /\ h.ctx = c
  BY <1>5, <1>6 DEF States
<1>8. QED
  BY <1>3, <1>5, <1>7 DEF SameHeap, SameWalk

\* Leaving references to marked objects off a list.
LEMMA RelistKeeps ==
  ASSUME NEW g \in States, NEW W \in SUBSET Obj, Sound(g, W), NEW X, Covered(g, X),
         NEW k \in References, NEW l \in Seq(Obj),
         Elements(l) \subseteq Elements(g.ctx.pending[k]),
         \A p \in Elements(g.ctx.pending[k]) : White(g.referent[p], g) => p \in Elements(l),
         NEW h, h = Relist(g, k, l)
  PROVE  h \in States /\ Sound(h, W) /\ Covered(h, X) /\ Onward(g, h) /\ SameWalk(g, h)
<1>1. /\ h \in States /\ SameHeap(g, h) /\ SameWalk(g, h)
      /\ h.mark = g.mark /\ h.ctx.stack = g.ctx.stack
      /\ h.ctx.pending[k] = l /\ \A j \in References \ {k} : h.ctx.pending[j] = g.ctx.pending[j]
  BY Relisted
<1>2. \A j \in References : Elements(h.ctx.pending[j]) \subseteq Elements(g.ctx.pending[j])
  BY <1>1
<1>3. Sound(h, W)
  BY <1>1, <1>2 DEF Sound, Inside, SameHeap, SameWalk
<1>4. Covered(h, X)
  <2>1. SUFFICES ASSUME NEW p \in h.mark, Gray(p, h) PROVE p \in Due(h) \cup X
    BY DEF Covered
  <2>2. Due(h) = Due(g)
    BY <1>1 DEF Due, SameWalk
  <2>3. Gray(p, g)
    <3>1. CASE White(h.field[p], h)
      BY <1>1, <3>1 DEF Gray, White, SameHeap
    <3>2. CASE IsReference(p) /\ White(h.referent[p], h) /\ ~IsPending(p, h)
      <4>1. White(g.referent[p], g) /\ kind[p] \in References
        BY <1>1, <3>2 DEF White, SameHeap, IsReference
      <4>2. ASSUME p \in Elements(g.ctx.pending[kind[p]]) PROVE p \in Elements(h.ctx.pending[kind[p]])
        <5>1. CASE kind[p] = k
          BY <1>1, <4>1, <4>2, <5>1
        <5>2. CASE kind[p] # k
          BY <1>1, <4>1, <4>2, <5>2
        <5>3. QED
          BY <5>1, <5>2
      <4>3. ~IsPending(p, g)
        BY <1>1, <3>2, <4>2 DEF IsPending, SameHeap
      <4>4. QED
        BY <3>2, <4>1, <4>3 DEF Gray
    <3>3. QED
      BY <2>1, <3>1, <3>2 DEF Gray
  <2>4. QED
    BY <1>1, <2>1, <2>2, <2>3 DEF Covered
<1>5. QED
  BY <1>1, <1>3, <1>4 DEF Onward

\* The states of the loop over the soft references of g.
Preserving(g, W) ==
  {acc \in [g : Traced(g, W, {}), counter : Nat, clear : Seq(Obj)] :
     /\ acc.g.ctx.pending = g.ctx.pending
     /\ Elements(acc.clear) \subseteq Elements(g.ctx.pending["soft"])}

LEMMA PreserveKeeps ==
  ASSUME NEW g \in States, NEW W \in SUBSET Obj, Sound(g, W), Past(g),
         NEW acc \in Preserving(g, W), NEW r \in Elements(g.ctx.pending["soft"]),
         NEW b, b = PreserveSoft(acc, r)
  PROVE  /\ b \in Preserving(g, W)
         /\ Elements(acc.clear) \subseteq Elements(b.clear) /\ acc.g.mark \subseteq b.g.mark
         /\ White(g.referent[r], b.g) => r \in Elements(b.clear)
<1>1. /\ acc.g \in States /\ Sound(acc.g, W) /\ Covered(acc.g, {}) /\ Onward(g, acc.g) /\ SameWalk(g, acc.g)
      /\ acc.counter \in Nat /\ acc.clear \in Seq(Obj)
      /\ acc.g.ctx.pending = g.ctx.pending
      /\ Elements(acc.clear) \subseteq Elements(g.ctx.pending["soft"])
      /\ acc = [g |-> acc.g, counter |-> acc.counter, clear |-> acc.clear]
  BY DEF Preserving, Traced
<1>2. r \in Obj /\ r \in W
  <2>1. r \in g.mark
    BY DEF Sound, References
  <2>2. QED
    BY <2>1 DEF Sound
<1>3. PICK v : v = g.referent[r] /\ v = acc.g.referent[r]
  BY <1>1 DEF Onward, SameHeap
<1>4. CASE ~White(v, acc.g)
  <2>1. b = acc
    BY <1>3, <1>4 DEF PreserveSoft
  <2>2. QED
    BY <1>3, <1>4, <2>1
<1>5. CASE White(v, acc.g) /\ acc.counter % 2 = 0
  <2>1. PICK m : m = MarkObject(acc.g, v)
    OBVIOUS
  <2>2. b = [acc EXCEPT !.counter = @ + 1, !.g = m]
    BY <1>3, <1>5, <2>1 DEF PreserveSoft
  <2>3. b = [g |-> m, counter |-> acc.counter + 1, clear |-> acc.clear]
    BY <1>1, <2>2
  <2>4. v \in W
    BY <1>1, <1>2, <1>3, <1>5 DEF Sound, Inside, White
  <2>5. Past(acc.g)
    BY <1>1 DEF Past, SameWalk
  <2>6. /\ m \in States /\ Sound(m, W) /\ Covered(m, {}) /\ Onward(acc.g, m) /\ SameWalk(acc.g, m)
        /\ v \in m.mark /\ m.ctx.pending = acc.g.ctx.pending
    BY <1>1, <2>1, <2>4, <2>5, MarkKeeps
  <2>7. m \in Traced(g, W, {})
    BY <1>1, <2>6, OnwardTrans DEF Traced
  <2>8. b \in Preserving(g, W)
    BY <1>1, <2>3, <2>6, <2>7 DEF Preserving
  <2>9. b.g = m /\ b.clear = acc.clear
    BY <2>3
  <2>10. QED
    BY <1>3, <2>6, <2>8, <2>9 DEF White, Onward
<1>6. CASE White(v, acc.g) /\ acc.counter % 2 # 0
  <2>1. PICK l : l = Append(acc.clear, r)
    OBVIOUS
  <2>2. b = [acc EXCEPT !.counter = @ + 1, !.clear = l]
    BY <1>3, <1>6, <2>1 DEF PreserveSoft
  <2>3. b = [g |-> acc.g, counter |-> acc.counter + 1, clear |-> l]
    BY <1>1, <2>2
  <2>4. l \in Seq(Obj) /\ Elements(l) = Elements(acc.clear) \cup {r}
    BY <1>1, <1>2, <2>1, ElementsAppend
  <2>5. acc.g \in Traced(g, W, {})
    BY DEF Preserving
  <2>6. b \in Preserving(g, W)
    BY <1>1, <2>3, <2>4, <2>5 DEF Preserving
  <2>7. b.g = acc.g /\ b.clear = l
    BY <2>3
  <2>8. QED
    BY <2>4, <2>6, <2>7
<1>7. QED
  BY <1>4, <1>5, <1>6

LEMMA SoftPreserved ==
  ASSUME NEW g \in States, NEW W \in SUBSET Obj, Sound(g, W), Past(g), Covered(g, {}),
         NEW h, h = PreserveSomeSoftReferences(g)
  PROVE  h \in Traced(g, W, {}) /\ h.ctx.stack = <<>>
<1> DEFINE soft == g.ctx.pending["soft"]
           n == Len(soft)
           x == [g |-> g, counter |-> 0, clear |-> <<>>]
           D == Preserving(g, W)
           F == [i \in 1..n |-> [k \in D |-> PreserveSoft(k, soft[i])]]
           Is(f) == f = [i \in 0..n |-> IF i = 0 THEN x ELSE PreserveSoft(f[i - 1], soft[i])]
<1>0. soft \in Seq(Obj) /\ n \in Nat /\ DOMAIN soft = 1..n
  <2>1. soft \in Seq(Obj)
    BY ListsTyped DEF References
  <2>2. QED
    BY <2>1, LenProperties
<1>1. \A i \in 1..n : soft[i] \in Elements(soft)
  BY <1>0 DEF Elements
<1> HIDE DEF n
<1>2. x \in D
  <2>1. g \in Traced(g, W, {})
    BY OnwardRefl DEF Traced
  <2>2. <<>> \in Seq(Obj)
    BY EmptySeq
  <2>3. x \in [g : Traced(g, W, {}), counter : Nat, clear : Seq(Obj)]
    BY <2>1, <2>2
  <2>4. QED
    BY <2>3, NoElements DEF Preserving
<1>3. ASSUME NEW k \in D, NEW i \in 1..n
      PROVE  /\ PreserveSoft(k, soft[i]) \in D
             /\ Elements(k.clear) \subseteq Elements(PreserveSoft(k, soft[i]).clear)
             /\ k.g.mark \subseteq PreserveSoft(k, soft[i]).g.mark
             /\ White(g.referent[soft[i]], PreserveSoft(k, soft[i]).g)
                  => soft[i] \in Elements(PreserveSoft(k, soft[i]).clear)
  <2>1. PICK b : b = PreserveSoft(k, soft[i])
    OBVIOUS
  <2>2. PICK r \in Elements(soft) : r = soft[i]
    BY <1>1
  <2>3. /\ b \in Preserving(g, W)
        /\ Elements(k.clear) \subseteq Elements(b.clear) /\ k.g.mark \subseteq b.g.mark
        /\ White(g.referent[r], b.g) => r \in Elements(b.clear)
    BY <2>1, <2>2, PreserveKeeps
  <2>4. QED
    BY <2>1, <2>2, <2>3
<1> HIDE DEF D, x, soft
<1>4. F \in [1..n -> [D -> D]]
  BY <1>3
<1>5. PICK f \in [0..n -> D] : Runs(f, n, x, F)
  <2> HIDE DEF F
  <2>1. QED
    BY <1>0, <1>2, <1>4, LoopExists
<1>6. Is(f)
  <2>1. \A i \in 0..n : i # 0 => i \in 1..n /\ f[i - 1] \in D
    BY <1>0
  <2>2. \A i \in 0..n : i # 0 => F[i][f[i - 1]] = PreserveSoft(f[i - 1], soft[i])
    BY <2>1
  <2> HIDE DEF F
  <2>3. QED
    BY <1>5, <2>2 DEF Runs
<1>7. PICK a : Is(a) /\ h = ProcessMarkStack([a[n].g EXCEPT !.ctx.pending["soft"] = a[n].clear])
  <2>1. h = LET done == (CHOOSE q : Is(q))[n]
            IN ProcessMarkStack([done.g EXCEPT !.ctx.pending["soft"] = done.clear])
    BY DEF PreserveSomeSoftReferences, Loop, x, soft, n
  <2> HIDE DEF Is
  <2>2. QED
    BY <1>6, <2>1
<1>8. a[0] = x /\ \A i \in 1..n : a[i] = PreserveSoft(a[i - 1], soft[i])
  <2>1. a = [i \in 0..n |-> IF i = 0 THEN x ELSE PreserveSoft(a[i - 1], soft[i])]
    BY <1>7
  <2>2. 0 \in 0..n /\ \A i \in 1..n : i \in 0..n /\ i # 0
    BY <1>0
  <2>3. QED
    BY <2>1, <2>2
<1> DEFINE Seen(k, i) == \A j \in 1..n : j <= i /\ White(g.referent[soft[j]], k.g) => soft[j] \in Elements(k.clear)
           Good == {i \in 0..n : a[i] \in D /\ Seen(a[i], i)}
<1>9. 0 \in Good
  BY <1>0, <1>2, <1>8
<1>10. ASSUME NEW i \in 1..n, i - 1 \in Good PROVE i \in Good
  <2>1. PICK k \in D : k = a[i - 1] /\ Seen(k, i - 1)
    BY <1>10
  <2>2. PICK b \in D : b = PreserveSoft(k, soft[i]) /\ b = a[i]
    BY <1>3, <1>8, <2>1
  <2>3. /\ Elements(k.clear) \subseteq Elements(b.clear) /\ k.g.mark \subseteq b.g.mark
        /\ White(g.referent[soft[i]], b.g) => soft[i] \in Elements(b.clear)
    BY <1>3, <2>2
  <2>4. ASSUME NEW j \in 1..n, j <= i, White(g.referent[soft[j]], b.g)
        PROVE  soft[j] \in Elements(b.clear)
    <3>1. CASE j = i
      BY <2>3, <2>4, <3>1
    <3>2. CASE j # i
      <4>1. j <= i - 1
        BY <1>0, <2>4, <3>2
      <4>2. White(g.referent[soft[j]], k.g)
        BY <2>3, <2>4 DEF White
      <4>3. QED
        BY <2>1, <2>3, <4>1, <4>2
    <3>3. QED
      BY <3>1, <3>2
  <2>5. QED
    BY <1>0, <2>2, <2>4
<1>11. n \in Good
  <2> HIDE DEF Good
  <2>1. \A i \in 0..n : i \in Good
    BY <1>0, <1>9, <1>10, Climb
  <2>2. QED
    BY <1>0, <2>1
<1>12. PICK k \in D : k = a[n] /\ \A p \in Elements(soft) : White(g.referent[p], k.g) => p \in Elements(k.clear)
  BY <1>0, <1>11 DEF Elements
<1>13. /\ k.g \in States /\ Sound(k.g, W) /\ Covered(k.g, {}) /\ Onward(g, k.g) /\ SameWalk(g, k.g)
       /\ k.clear \in Seq(Obj)
       /\ k.g.ctx.pending = g.ctx.pending
       /\ Elements(k.clear) \subseteq Elements(soft)
  BY DEF D, Preserving, Traced, soft
<1>14. PICK m, l, e : m = k.g /\ l = k.clear /\ e = Relist(m, "soft", l)
  OBVIOUS
<1>15. e \in States /\ Sound(e, W) /\ Covered(e, {}) /\ Onward(m, e) /\ SameWalk(m, e)
  <2>1. /\ Elements(l) \subseteq Elements(m.ctx.pending["soft"])
        /\ \A p \in Elements(m.ctx.pending["soft"]) : White(m.referent[p], m) => p \in Elements(l)
    BY <1>12, <1>13, <1>14 DEF soft, Onward, SameHeap
  <2>2. "soft" \in References
    BY DEF References
  <2>3. m \in States /\ Sound(m, W) /\ Covered(m, {}) /\ l \in Seq(Obj)
    BY <1>13, <1>14
  <2>4. QED
    BY <1>14, <2>1, <2>2, <2>3, RelistKeeps
<1>16. h = ProcessMarkStack(e)
  BY <1>7, <1>12, <1>14 DEF Relist
<1>17. h \in Traced(e, W, {}) /\ h.ctx.stack = <<>>
  BY <1>15, <1>16, StackEmptied
<1>18. Onward(g, h) /\ SameWalk(g, h)
  <2>1. Onward(e, h) /\ SameWalk(e, h)
    BY <1>17 DEF Traced
  <2>2. Onward(g, e) /\ SameWalk(g, e)
    BY <1>13, <1>14, <1>15, OnwardTrans
  <2>3. QED
    BY <2>1, <2>2, OnwardTrans
<1>19. QED
  BY <1>17, <1>18 DEF Traced

\* The references that a clearing of some lists clears.
Doomed(g, kinds) == {r \in UNION {Elements(g.ctx.pending[k]) : k \in kinds} : White(g.referent[r], g)}

LEMMA ClearKeeps ==
  ASSUME NEW g \in States, NEW W \in SUBSET Obj, Sound(g, W), Settled(g),
         NEW kinds \in SUBSET References, NEW h, h = ClearWhiteReferences(g, kinds)
  PROVE  /\ h \in States /\ Sound(h, W) /\ Settled(h) /\ Evolves(g, h, W)
         /\ h.mark = g.mark
         /\ \A k \in References : h.ctx.pending[k] = IF k \in kinds THEN <<>> ELSE g.ctx.pending[k]
<1>1. /\ g.ctx \in Contexts /\ g.ctx.pending \in [References -> Seq(Obj)]
      /\ g.referent \in [Obj -> Ref] /\ g.ctx.cleared \in SUBSET Obj
  BY DEF States, Contexts
<1>2. PICK D : D = Doomed(g, kinds)
  OBVIOUS
<1>3. /\ D \subseteq g.mark /\ D \subseteq Obj
      /\ \A r \in D : White(g.referent[r], g)
      /\ \A k \in kinds : \A r \in Elements(g.ctx.pending[k]) : White(g.referent[r], g) => r \in D
  <2>1. \A k \in References : Elements(g.ctx.pending[k]) \subseteq g.mark
    BY DEF Sound
  <2>2. g.mark \subseteq Obj
    BY DEF States
  <2>3. QED
    BY <1>2, <2>1, <2>2 DEF Doomed
<1>4. PICK f : f = [r \in Obj |-> IF r \in D THEN None ELSE g.referent[r]]
  OBVIOUS
<1>5. PICK p : p = [k \in References |-> IF k \in kinds THEN <<>> ELSE g.ctx.pending[k]]
  OBVIOUS
<1>6. PICK c : c = [g.ctx EXCEPT !.pending = p, !.cleared = @ \cup D]
  OBVIOUS
<1>7. h = [g EXCEPT !.referent = f, !.ctx = c]
  BY <1>2, <1>4, <1>5, <1>6 DEF ClearWhiteReferences, Doomed
<1>8. f \in [Obj -> Ref] /\ \A r \in Obj : f[r] = IF r \in D THEN None ELSE g.referent[r]
  BY <1>1, <1>4 DEF Ref
<1>9. /\ p \in [References -> Seq(Obj)]
      /\ \A k \in References : p[k] = IF k \in kinds THEN <<>> ELSE g.ctx.pending[k]
  <2>1. <<>> \in Seq(Obj)
    BY EmptySeq
  <2>2. QED
    BY <1>1, <1>5, <2>1
<1>10. /\ c \in Contexts
       /\ c.pending = p /\ c.cleared = g.ctx.cleared \cup D
       /\ c.stack = g.ctx.stack /\ c.finger = g.ctx.finger /\ c.word = g.ctx.word
       /\ c.sweep = g.ctx.sweep /\ c.garbage = g.ctx.garbage
  BY <1>1, <1>3, <1>6, <1>9 DEF Contexts
<1>11. h \in States /\ h.mark = g.mark /\ h.field = g.field /\ h.referent = f /\ h.ctx = c
  BY <1>7, <1>8, <1>10 DEF States
<1>12. Evolves(g, h, W)
  BY <1>3, <1>8, <1>11 DEF Evolves
<1>13. Sound(h, W)
  <2>1. Inside(h, W)
    BY <1>8, <1>11 DEF Sound, Inside
  <2>2. \A o \in Obj : ~IsReference(o) => h.referent[o] = None
    BY <1>8, <1>11 DEF Sound
  <2>3. \A k \in References : \A o \in Elements(h.ctx.pending[k]) : o \in h.mark /\ kind[o] = k
    <3>1. \A k \in References : Elements(h.ctx.pending[k]) \subseteq Elements(g.ctx.pending[k])
      BY <1>9, <1>10, <1>11, NoElements
    <3>2. QED
      BY <1>11, <3>1 DEF Sound
  <2>4. h.ctx.cleared \subseteq h.mark /\ \A o \in h.ctx.cleared : h.referent[o] = None
    BY <1>1, <1>3, <1>8, <1>10, <1>11 DEF Sound
  <2>5. QED
    BY <1>10, <1>11, <2>1, <2>2, <2>3, <2>4 DEF Sound
<1>14. Covered(h, {})
  <2>1. SUFFICES ASSUME NEW o \in h.mark, Gray(o, h) PROVE FALSE
    BY DEF Covered
  <2>2. o \in g.mark /\ o \in Obj /\ ~Gray(o, g)
    BY <1>11, <2>1, NothingGray DEF States
  <2>3. ~White(h.field[o], h)
    BY <1>11, <2>2 DEF Gray, White
  <2>4. IsReference(o) /\ White(h.referent[o], h) /\ ~IsPending(o, h)
    BY <2>1, <2>3 DEF Gray
  <2>5. o \notin D /\ White(g.referent[o], g) /\ kind[o] \in References
    BY <1>8, <1>11, <2>2, <2>4 DEF White, IsReference
  <2>6. IsPending(o, g)
    BY <2>2, <2>4, <2>5 DEF Gray
  <2>7. o \in Elements(g.ctx.pending[kind[o]])
    BY <1>10, <1>11, <2>4, <2>6 DEF IsPending
  <2>8. kind[o] \notin kinds
    BY <1>3, <2>5, <2>7
  <2>9. QED
    BY <1>9, <1>10, <1>11, <2>4, <2>5, <2>7, <2>8 DEF IsPending
<1>15. Settled(h)
  BY <1>10, <1>11, <1>14 DEF Settled, Past
<1>16. QED
  BY <1>9, <1>10, <1>11, <1>12, <1>13, <1>15

\* Whoever has a finalizer is held by a marked reference, until it is enqueued.
FinalsHeld(g, W) == \A p \in W : kind[p] = "final" /\ g.referent[p] # None => p \in g.mark

FinalsDone(g) == \A p \in g.mark : kind[p] = "final" => ~White(g.referent[p], g)

\* The states of the loop over the finalizer references of g.
Enqueuing(g, W) ==
  {h \in States : /\ Sound(h, W) /\ Covered(h, {}) /\ Evolves(g, h, W) /\ SameWalk(g, h)
                  /\ h.ctx.pending = g.ctx.pending}

LEMMA EnqueueKeeps ==
  ASSUME NEW g \in States, NEW W \in SUBSET Obj, Sound(g, W), Past(g),
         NEW k \in Enqueuing(g, W), NEW r \in Elements(g.ctx.pending["final"]),
         NEW b, b = EnqueueFinal(k, r)
  PROVE  b \in Enqueuing(g, W) /\ Evolves(k, b, W) /\ ~White(b.referent[r], b)
<1>1. /\ k \in States /\ Sound(k, W) /\ Covered(k, {}) /\ Evolves(g, k, W) /\ SameWalk(g, k)
      /\ k.ctx.pending = g.ctx.pending /\ Past(k)
  BY DEF Enqueuing, Past, SameWalk
<1>2. r \in Obj /\ r \in W /\ r \in k.mark /\ kind[r] = "final" /\ IsReference(r)
  <2>1. r \in k.mark /\ kind[r] = "final"
    BY <1>1 DEF Sound, References
  <2>2. QED
    BY <1>1, <2>1 DEF Sound, IsReference, References
<1>3. PICK v : v = k.referent[r]
  OBVIOUS
<1>4. CASE ~White(v, k)
  <2>1. b = k
    BY <1>3, <1>4 DEF EnqueueFinal
  <2>2. QED
    BY <1>3, <1>4, <2>1, EvolvesRefl
<1>5. CASE White(v, k)
  <2>1. PICK m : m = MarkObject(k, v)
    OBVIOUS
  <2>2. v \in W /\ v # None /\ v \in Ref /\ v \notin k.mark
    BY <1>1, <1>2, <1>3, <1>5 DEF Sound, Inside, White, Ref
  <2>3. /\ m \in States /\ Sound(m, W) /\ Covered(m, {}) /\ Onward(k, m) /\ SameWalk(k, m)
        /\ v \in m.mark /\ m.ctx.pending = k.ctx.pending
    BY <1>1, <2>1, <2>2, MarkKeeps
  <2>4. PICK f, u : f = [m.field EXCEPT ![r] = v] /\ u = [m.referent EXCEPT ![r] = None]
    OBVIOUS
  <2>5. PICK c : c = [m.ctx EXCEPT !.cleared = @ \cup {r}]
    OBVIOUS
  <2>6. b = [m EXCEPT !.field = f, !.referent = u, !.ctx = c]
    BY <1>3, <1>5, <2>1, <2>4, <2>5 DEF EnqueueFinal
  <2>7. /\ f \in [Obj -> Ref] /\ f[r] = v /\ \A o \in Obj \ {r} : f[o] = m.field[o]
        /\ u \in [Obj -> Ref] /\ u[r] = None /\ \A o \in Obj \ {r} : u[o] = m.referent[o]
    BY <1>2, <2>2, <2>3, <2>4 DEF States, Ref
  <2>8. /\ c \in Contexts
        /\ c.cleared = m.ctx.cleared \cup {r} /\ c.pending = m.ctx.pending
        /\ c.stack = m.ctx.stack /\ c.finger = m.ctx.finger /\ c.word = m.ctx.word
        /\ c.sweep = m.ctx.sweep /\ c.garbage = m.ctx.garbage
    BY <1>2, <2>3, <2>5 DEF States, Contexts
  <2>9. b \in States /\ b.mark = m.mark /\ b.field = f /\ b.referent = u /\ b.ctx = c
    BY <2>3, <2>6, <2>7, <2>8 DEF States
  <2>10. Evolves(k, b, W)
    <3>1. k.mark \subseteq b.mark
      BY <2>3, <2>9 DEF Onward
    <3>2. \A o \in Obj : m.referent[o] = k.referent[o] /\ m.field[o] = k.field[o]
      BY <2>3 DEF Onward, SameHeap
    <3>3. White(k.referent[r], k)
      BY <1>3, <1>5
    <3>4. QED
      BY <1>2, <2>7, <2>9, <3>1, <3>2, <3>3 DEF Evolves
  <2>11. Sound(b, W)
    <3>1. Inside(b, W)
      <4>1. Inside(m, W)
        BY <2>3 DEF Sound
      <4>2. SUFFICES ASSUME NEW o \in W
                     PROVE  b.field[o] \in W \cup {None} /\ b.referent[o] \in W \cup {None}
        BY DEF Inside
      <4>3. CASE o = r
        BY <2>2, <2>7, <2>9, <4>3
      <4>4. CASE o # r
        BY <2>7, <2>9, <4>1, <4>4 DEF Inside
      <4>5. QED
        BY <4>3, <4>4
    <3>2. \A o \in Obj : ~IsReference(o) => b.referent[o] = None
      BY <1>2, <2>3, <2>7, <2>9 DEF Sound
    <3>3. b.ctx.cleared \subseteq b.mark /\ \A o \in b.ctx.cleared : b.referent[o] = None
      <4>1. m.ctx.cleared \subseteq m.mark /\ m.mark \subseteq Obj /\ \A o \in m.ctx.cleared : m.referent[o] = None
        BY <2>3 DEF Sound, States
      <4>2. r \in m.mark
        BY <1>2, <2>3 DEF Onward
      <4>3. QED
        BY <2>7, <2>8, <2>9, <4>1, <4>2
    <3>4. QED
      BY <2>3, <2>8, <2>9, <3>1, <3>2, <3>3 DEF Sound
  <2>12. Covered(b, {})
    <3>1. SUFFICES ASSUME NEW o \in b.mark, Gray(o, b) PROVE o \in Due(b)
      BY DEF Covered
    <3>2. o \in m.mark /\ o \in Obj
      BY <2>3, <2>9, <3>1 DEF States
    <3>3. CASE o = r
      <4>1. ~White(b.field[o], b) /\ ~White(b.referent[o], b)
        BY <2>3, <2>7, <2>9, <3>3 DEF White
      <4>2. QED
        BY <3>1, <4>1 DEF Gray
    <3>4. CASE o # r
      <4>1. b.field[o] = m.field[o] /\ b.referent[o] = m.referent[o]
        BY <2>7, <2>9, <3>2, <3>4
      <4>2. Gray(o, m)
        BY <2>8, <2>9, <3>1, <4>1 DEF Gray, White, IsPending
      <4>3. o \in Due(m)
        BY <2>3, <3>2, <4>2 DEF Covered
      <4>4. QED
        BY <2>8, <2>9, <4>3 DEF Due
    <3>5. QED
      BY <3>3, <3>4
  <2>13. Evolves(g, b, W)
    BY <1>1, <2>10, EvolvesTrans
  <2>14. SameWalk(g, b) /\ b.ctx.pending = g.ctx.pending
    BY <1>1, <2>3, <2>8, <2>9 DEF SameWalk
  <2>15. QED
    BY <2>7, <2>9, <2>10, <2>11, <2>12, <2>13, <2>14 DEF Enqueuing, White
<1>6. QED
  BY <1>4, <1>5

LEMMA FinalsEnqueued ==
  ASSUME NEW g \in States, NEW W \in SUBSET Obj, Sound(g, W), Settled(g), FinalsHeld(g, W),
         NEW h, h = EnqueueFinalizerReferences(g)
  PROVE  h \in States /\ Sound(h, W) /\ Settled(h) /\ Evolves(g, h, W) /\ FinalsDone(h)
<1> DEFINE final == g.ctx.pending["final"]
           n == Len(final)
           D == Enqueuing(g, W)
           F == [i \in 1..n |-> [k \in D |-> EnqueueFinal(k, final[i])]]
           Is(f) == f = [i \in 0..n |-> IF i = 0 THEN g ELSE EnqueueFinal(f[i - 1], final[i])]
<1>0. final \in Seq(Obj) /\ n \in Nat /\ DOMAIN final = 1..n
  <2>1. final \in Seq(Obj)
    BY ListsTyped DEF References
  <2>2. QED
    BY <2>1, LenProperties
<1>1. \A i \in 1..n : final[i] \in Elements(final)
  BY <1>0 DEF Elements
<1> HIDE DEF n
<1>2. g \in D
  BY EvolvesRefl, OnwardRefl DEF Enqueuing, Settled
<1>3. ASSUME NEW k \in D, NEW i \in 1..n
      PROVE  /\ EnqueueFinal(k, final[i]) \in D
             /\ Evolves(k, EnqueueFinal(k, final[i]), W)
             /\ ~White(EnqueueFinal(k, final[i]).referent[final[i]], EnqueueFinal(k, final[i]))
  <2>1. PICK b : b = EnqueueFinal(k, final[i])
    OBVIOUS
  <2>2. PICK r \in Elements(final) : r = final[i]
    BY <1>1
  <2>3. b \in Enqueuing(g, W) /\ Evolves(k, b, W) /\ ~White(b.referent[r], b)
    BY <2>1, <2>2, EnqueueKeeps DEF Settled
  <2>4. QED
    BY <2>1, <2>2, <2>3
<1> HIDE DEF D, final
<1>4. F \in [1..n -> [D -> D]]
  BY <1>3
<1>5. PICK f \in [0..n -> D] : Runs(f, n, g, F)
  <2> HIDE DEF F
  <2>1. QED
    BY <1>0, <1>2, <1>4, LoopExists
<1>6. Is(f)
  <2>1. \A i \in 0..n : i # 0 => i \in 1..n /\ f[i - 1] \in D
    BY <1>0
  <2>2. \A i \in 0..n : i # 0 => F[i][f[i - 1]] = EnqueueFinal(f[i - 1], final[i])
    BY <2>1
  <2> HIDE DEF F
  <2>3. QED
    BY <1>5, <2>2 DEF Runs
<1>7. PICK a : Is(a) /\ h = ProcessMarkStack([a[n] EXCEPT !.ctx.pending["final"] = <<>>])
  <2>1. h = LET done == (CHOOSE q : Is(q))[n]
            IN ProcessMarkStack([done EXCEPT !.ctx.pending["final"] = <<>>])
    BY DEF EnqueueFinalizerReferences, Loop, final, n
  <2> HIDE DEF Is
  <2>2. QED
    BY <1>6, <2>1
<1>8. a[0] = g /\ \A i \in 1..n : a[i] = EnqueueFinal(a[i - 1], final[i])
  <2>1. a = [i \in 0..n |-> IF i = 0 THEN g ELSE EnqueueFinal(a[i - 1], final[i])]
    BY <1>7
  <2>2. 0 \in 0..n /\ \A i \in 1..n : i \in 0..n /\ i # 0
    BY <1>0
  <2>3. QED
    BY <2>1, <2>2
<1> DEFINE Seen(k, i) == \A j \in 1..n : j <= i => ~White(k.referent[final[j]], k)
           Good == {i \in 0..n : a[i] \in D /\ Seen(a[i], i)}
<1>9. 0 \in Good
  BY <1>0, <1>2, <1>8
<1>10. ASSUME NEW i \in 1..n, i - 1 \in Good PROVE i \in Good
  <2>1. PICK k \in D : k = a[i - 1] /\ Seen(k, i - 1)
    BY <1>10
  <2>2. PICK b \in D : b = EnqueueFinal(k, final[i]) /\ b = a[i]
    BY <1>3, <1>8, <2>1
  <2>3. Evolves(k, b, W) /\ ~White(b.referent[final[i]], b)
    BY <1>3, <2>2
  <2>4. ASSUME NEW j \in 1..n, j <= i
        PROVE  ~White(b.referent[final[j]], b)
    <3>1. CASE j = i
      BY <2>3, <3>1
    <3>2. CASE j # i
      <4>1. j <= i - 1
        BY <1>0, <2>4, <3>2
      <4>2. ~White(k.referent[final[j]], k)
        BY <2>1, <4>1
      <4>3. final[j] \in Obj
        BY <1>0
      <4>4. QED
        BY <2>3, <4>2, <4>3 DEF White, Evolves
    <3>3. QED
      BY <3>1, <3>2
  <2>5. QED
    BY <1>0, <2>2, <2>4
<1>11. n \in Good
  <2> HIDE DEF Good
  <2>1. \A i \in 0..n : i \in Good
    BY <1>0, <1>9, <1>10, Climb
  <2>2. QED
    BY <1>0, <2>1
<1>12. PICK k \in D : k = a[n] /\ \A p \in Elements(final) : ~White(k.referent[p], k)
  BY <1>0, <1>11 DEF Elements
<1>13. /\ k \in States /\ Sound(k, W) /\ Covered(k, {}) /\ Evolves(g, k, W) /\ SameWalk(g, k)
       /\ k.ctx.pending = g.ctx.pending
  BY DEF D, Enqueuing
<1>14. PICK l \in Seq(Obj) : l = <<>> /\ Elements(l) = {}
  BY EmptySeq, NoElements
<1>15. PICK e : e = Relist(k, "final", l)
  OBVIOUS
<1>16. e \in States /\ Sound(e, W) /\ Covered(e, {}) /\ Onward(k, e) /\ SameWalk(k, e)
  <2>1. /\ Elements(l) \subseteq Elements(k.ctx.pending["final"])
        /\ \A p \in Elements(k.ctx.pending["final"]) : White(k.referent[p], k) => p \in Elements(l)
    BY <1>12, <1>13, <1>14 DEF final
  <2>2. "final" \in References
    BY DEF References
  <2>3. QED
    BY <1>13, <1>15, <2>1, <2>2, RelistKeeps
<1>17. h = ProcessMarkStack(e)
  BY <1>7, <1>12, <1>14, <1>15 DEF Relist
<1>18. h \in Traced(e, W, {}) /\ h.ctx.stack = <<>>
  BY <1>16, <1>17, StackEmptied
<1>19. Onward(k, h) /\ SameWalk(k, h)
  BY <1>16, <1>18, OnwardTrans DEF Traced
<1>20. Evolves(g, h, W) /\ SameWalk(g, h)
  <2>1. Evolves(k, h, W)
    BY <1>19, OnwardEvolves
  <2>2. QED
    BY <1>13, <1>19, <2>1, EvolvesTrans DEF SameWalk
<1>21. h \in States /\ Sound(h, W) /\ Settled(h)
  BY <1>18, <1>20 DEF Traced, Settled, Past, SameWalk
<1>22. FinalsDone(h)
  <2>1. SUFFICES ASSUME NEW p \in h.mark, kind[p] = "final", White(h.referent[p], h) PROVE FALSE
    BY DEF FinalsDone
  <2>2. p \in W /\ p \in Obj
    BY <1>21 DEF Sound
  <2>3. g.referent[p] = h.referent[p] /\ White(g.referent[p], g)
    BY <1>20, <2>1, <2>2 DEF Evolves, White
  <2>4. p \in g.mark
    BY <2>1, <2>2, <2>3 DEF FinalsHeld, White
  <2>5. IsPending(p, g)
    BY <2>1, <2>3, <2>4, NothingGray DEF Gray, IsReference, References
  <2>6. p \notin g.ctx.cleared
    BY <2>3 DEF Sound, White
  <2>7. p \in Elements(final)
    BY <2>1, <2>5, <2>6 DEF IsPending, final
  <2>8. h.referent[p] = k.referent[p] /\ k.mark \subseteq h.mark
    BY <1>19 DEF Onward, SameHeap
  <2>9. QED
    BY <1>12, <2>1, <2>7, <2>8 DEF White
<1>23. QED
  BY <1>20, <1>21, <1>22

\* What becomes of a settled trace: a heap without references to white objects.
LEMMA ReferencesProcessed ==
  ASSUME NEW g \in States, NEW W \in SUBSET Obj, Sound(g, W), Settled(g), FinalsHeld(g, W),
         NEW s, NEW h, h = ProcessReferences(g, s)
  PROVE  h \in States /\ Sound(h, W) /\ Evolves(g, h, W) /\ Inside(h, h.mark)
<1>1. PICK a, b, c, d :
        /\ a = IF s.doPreserve THEN PreserveSomeSoftReferences(g) ELSE g
        /\ b = ClearWhiteReferences(a, {"soft", "weak"})
        /\ c = EnqueueFinalizerReferences(b)
        /\ d = ClearWhiteReferences(c, {"soft", "weak"})
  OBVIOUS
<1>2. h = ClearWhiteReferences(d, {"phantom"})
  BY <1>1 DEF ProcessReferences, ClearFReachable
<1>3. {"soft", "weak"} \in SUBSET References /\ {"phantom"} \in SUBSET References
  BY DEF References
<1>4. a \in States /\ Sound(a, W) /\ Settled(a) /\ Evolves(g, a, W)
  <2>1. CASE a = g
    BY <2>1, EvolvesRefl
  <2>2. CASE a = PreserveSomeSoftReferences(g)
    <3>1. a \in Traced(g, W, {}) /\ a.ctx.stack = <<>>
      BY <2>2, SoftPreserved DEF Settled
    <3>2. QED
      BY <3>1, OnwardEvolves DEF Traced, Settled, Past, SameWalk
  <2>3. QED
    BY <1>1, <2>1, <2>2
<1>5. b \in States /\ Sound(b, W) /\ Settled(b) /\ Evolves(a, b, W)
  BY <1>1, <1>3, <1>4, ClearKeeps
<1>6. FinalsHeld(b, W)
  <2>1. Evolves(g, b, W)
    BY <1>4, <1>5, EvolvesTrans
  <2>2. QED
    BY <2>1 DEF FinalsHeld, Evolves
<1>7. c \in States /\ Sound(c, W) /\ Settled(c) /\ Evolves(b, c, W) /\ FinalsDone(c)
  BY <1>1, <1>5, <1>6, FinalsEnqueued
<1>8. /\ d \in States /\ Sound(d, W) /\ Settled(d) /\ Evolves(c, d, W)
      /\ d.mark = c.mark
      /\ \A k \in References : d.ctx.pending[k] = IF k \in {"soft", "weak"} THEN <<>> ELSE c.ctx.pending[k]
  BY <1>1, <1>3, <1>7, ClearKeeps
<1>9. /\ h \in States /\ Sound(h, W) /\ Settled(h) /\ Evolves(d, h, W)
      /\ h.mark = d.mark
      /\ \A k \in References : h.ctx.pending[k] = IF k \in {"phantom"} THEN <<>> ELSE d.ctx.pending[k]
  BY <1>2, <1>3, <1>8, ClearKeeps
<1>10. Evolves(c, h, W) /\ Evolves(g, h, W)
  <2>1. Evolves(c, h, W)
    BY <1>8, <1>9, EvolvesTrans
  <2>2. Evolves(b, h, W)
    BY <1>7, <2>1, EvolvesTrans
  <2>3. Evolves(a, h, W)
    BY <1>5, <2>2, EvolvesTrans
  <2>4. QED
    BY <1>4, <2>1, <2>3, EvolvesTrans
<1>11. Inside(h, h.mark)
  <2>1. SUFFICES ASSUME NEW p \in h.mark
                 PROVE  ~White(h.field[p], h) /\ ~White(h.referent[p], h)
    BY DEF Inside, White
  <2>2. ~Gray(p, h) /\ p \in Obj /\ p \in c.mark
    BY <1>8, <1>9, <2>1, NothingGray DEF States
  <2>3. ASSUME White(h.referent[p], h) PROVE FALSE
    <3>1. IsReference(p)
      BY <1>9, <2>2, <2>3 DEF Sound, White
    <3>2. p \notin h.ctx.cleared
      BY <1>9, <2>3 DEF Sound, White
    <3>3. p \in Elements(h.ctx.pending[kind[p]])
      BY <2>2, <2>3, <3>1, <3>2 DEF Gray, IsPending
    <3>4. kind[p] = "final"
      <4>1. kind[p] \in {"soft", "weak", "phantom"} => h.ctx.pending[kind[p]] = <<>>
        BY <1>8, <1>9 DEF References
      <4>2. QED
        BY <3>1, <3>3, <4>1, NoElements DEF IsReference, References
    <3>5. White(c.referent[p], c)
      BY <1>10, <2>2, <2>3 DEF Evolves, White
    <3>6. QED
      BY <1>7, <2>2, <3>4, <3>5 DEF FinalsDone
  <2>4. QED
    BY <2>2, <2>3 DEF Gray
<1>12. QED
  BY <1>9, <1>10, <1>11

-----------------------------------------------------------------------------
(* What can be reached.                                                    *)

LEMMA ReachContains ==
  ASSUME NEW S \in SUBSET Obj, NEW leads
  PROVE  S \subseteq Reach(S, leads)
BY DEF Reach

LEMMA ReachClosed ==
  ASSUME NEW S, NEW leads, NEW p \in Reach(S, leads), NEW q \in leads[p], q \in Obj
  PROVE  q \in Reach(S, leads)
BY DEF Reach

LEMMA ReachLeast ==
  ASSUME NEW S, NEW leads, NEW C \in SUBSET Obj, S \subseteq C, \A p \in C : leads[p] \subseteq C
  PROVE  Reach(S, leads) \subseteq C
BY DEF Reach

\* The heap that the mutators can get hold of is live.
LEMMA ObtainableIsLive ==
  ASSUME HeapTypes, HeapOK
  PROVE  Obtainable \subseteq live
<1> DEFINE leads == [o \in Obj |-> {field[o], referent[o]} \ {None}]
<1>1. live \in SUBSET Obj
  BY DEF HeapTypes
<1>2. \A p \in live : leads[p] \subseteq live
  BY <1>1 DEF HeapOK, Inside, State
<1>3. roots \cup ({weak} \ {None}) \subseteq live
  BY DEF HeapOK
<1> HIDE DEF leads
<1>4. Reach(roots \cup ({weak} \ {None}), leads) \subseteq live
  BY <1>1, <1>2, <1>3, ReachLeast
<1>5. QED
  BY <1>4 DEF Obtainable, ObtainableFrom, leads

-----------------------------------------------------------------------------
(* The pauses.                                                             *)

LEMMA ImmuneObjects ==
  ASSUME HeapTypes, NEW s
  PROVE  Immune(s) \in SUBSET Obj /\ Immune(s) \subseteq 1..zygote
BY DEF HeapTypes, Immune, Obj

LEMMA EmptyContextTyped ==
  /\ EmptyContext \in Contexts
  /\ EmptyContext.finger = 0 /\ EmptyContext.word = {} /\ EmptyContext.stack = <<>>
  /\ \A k \in References : EmptyContext.pending[k] = <<>>
  /\ EmptyContext.cleared = {} /\ EmptyContext.sweep = 0 /\ EmptyContext.garbage = {}
<1>1. <<>> \in Seq(Obj)
  BY EmptySeq
<1>2. QED
  BY <1>1 DEF EmptyContext, Contexts

\* Marking the roots starts a trace of the objects that something leads to.
LEMMA RootSetMarked ==
  ASSUME HeapTypes, HeapOK, SweepOK, ChunksOK, phase = "idle", NEW s,
         NEW C, C = chunk \ ObtainableFrom(roots \cup (live \cap Immune(s))),
         NEW m, m = MarkRootSet(s)
  PROVE  /\ m \in States /\ Sound(m, live \ C) /\ Covered(m, {})
         /\ m.field = field /\ m.referent = referent /\ m.ctx = EmptyContext
         /\ roots \subseteq live \ C /\ weak \in (live \ C) \cup {None}
<1> DEFINE B == roots \cup (live \cap Immune(s))
           leads == [o \in Obj |-> {field[o], referent[o]} \ {None}]
           R == ObtainableFrom(B)
<1>1. /\ live \in SUBSET Obj /\ roots \in SUBSET Obj /\ chunk \in SUBSET Obj /\ weak \in Ref
      /\ field \in [Obj -> Ref] /\ referent \in [Obj -> Ref] /\ mark = {}
      /\ roots \subseteq live /\ live \subseteq chunk
  BY DEF HeapTypes, HeapOK, SweepOK, States, State
<1>2. live \ C = live \cap R
  BY <1>1
<1>3. B \cup ({weak} \ {None}) \in SUBSET Obj
  BY <1>1, ImmuneObjects DEF Ref
<1>4. R = Reach(B \cup ({weak} \ {None}), leads)
  BY DEF ObtainableFrom
<1>5. B \subseteq R /\ weak \in R \cup {None}
  <2> HIDE DEF B, leads
  <2>1. B \cup ({weak} \ {None}) \subseteq R
    BY <1>3, <1>4, ReachContains
  <2>2. QED
    BY <2>1
<1>6. \A p \in live \cap R : field[p] \in R \cup {None} /\ referent[p] \in R \cup {None}
  <2>1. SUFFICES ASSUME NEW p \in live \cap R, NEW q \in {field[p], referent[p]} \ {None} PROVE q \in R
    OBVIOUS
  <2>2. q \in leads[p] /\ q \in Obj
    BY <1>1, <2>1 DEF Ref
  <2> HIDE DEF leads, B
  <2>3. q \in Reach(B \cup ({weak} \ {None}), leads)
    BY <1>4, <2>1, <2>2, ReachClosed
  <2>4. QED
    BY <1>4, <2>3
<1> HIDE DEF R
<1>7. /\ m.mark = (live \cap Immune(s)) \cup roots /\ m.field = field /\ m.referent = referent
      /\ m.ctx = EmptyContext
      /\ m = [mark |-> m.mark, field |-> field, referent |-> referent, ctx |-> EmptyContext]
  BY <1>1 DEF MarkRootSet, State
<1>8. m \in States
  BY <1>1, <1>7, EmptyContextTyped DEF States
<1>9. Inside(m, live \cap R)
  <2>1. \A p \in live : field[p] \in live \cup {None} /\ referent[p] \in live \cup {None}
    BY DEF HeapOK, Inside, State
  <2>2. QED
    BY <1>6, <1>7, <2>1 DEF Inside
<1>10. Sound(m, live \cap R)
  <2>1. m.mark \subseteq live \cap R
    BY <1>1, <1>5, <1>7
  <2>2. Len(m.ctx.stack) <= Cardinality(m.mark) /\ Elements(m.ctx.stack) = {}
    <3>1. Cardinality(m.mark) \in 0..N
      BY <1>8, Count DEF States
    <3>2. m.ctx.stack = <<>>
      BY <1>7, EmptyContextTyped
    <3>3. Len(<<>>) = 0
      BY EmptySeq, ElementsEmpty
    <3>4. QED
      BY <3>1, <3>2, <3>3, NoElements
  <2>3. \A k \in References : Elements(m.ctx.pending[k]) = {}
    BY <1>7, EmptyContextTyped, NoElements
  <2>4. \A o \in Obj : ~IsReference(o) => m.referent[o] = None
    BY <1>7 DEF HeapOK
  <2>5. QED
    BY <1>7, <1>9, <2>1, <2>2, <2>3, <2>4, EmptyContextTyped DEF Sound
<1>11. Covered(m, {})
  <2>1. \A o \in Obj : o >= m.ctx.finger
    BY <1>7, EmptyContextTyped DEF Obj
  <2>2. QED
    BY <1>8, <2>1 DEF Covered, Due, States
<1>12. weak \in (live \cap R) \cup {None} /\ roots \subseteq live \cap R
  BY <1>1, <1>5 DEF HeapOK
<1>13. QED
  BY <1>2, <1>7, <1>8, <1>10, <1>11, <1>12

\* The finalizer references that are needed are roots.
LEMMA RootsHoldFinals ==
  ASSUME HeapTypes, HeapOK, NEW g, g.referent = referent, roots \subseteq g.mark,
         NEW W, W \subseteq live
  PROVE  FinalsHeld(g, W)
BY DEF FinalsHeld, HeapOK

\* What the program holds strongly is marked when a trace is settled.
LEMMA StronglyReachableMarked ==
  ASSUME HeapTypes, NEW g \in States, NEW W \in SUBSET Obj, Sound(g, W), Settled(g),
         g.field = field, roots \subseteq g.mark
  PROVE  StronglyReachable \subseteq g.mark
<1> DEFINE leads == [o \in Obj |-> {field[o]} \ {None}]
<1>1. g.mark \in SUBSET Obj
  BY DEF States
<1>2. \A p \in g.mark : leads[p] \subseteq g.mark
  BY <1>1, NothingGray DEF Gray, White
<1> HIDE DEF leads
<1>3. Reach(roots, leads) \subseteq g.mark
  BY <1>1, <1>2, ReachLeast
<1>4. QED
  BY <1>3 DEF StronglyReachable, leads

\* What a pause leaves alone.
ClearsOnlyUnreachable ==
  /\ \A r \in Obj : referent[r] \in StronglyReachable => referent'[r] = referent[r]
  /\ weak \in StronglyReachable => weak' = weak

LEMMA PauseKeeps ==
  ASSUME HeapTypes, HeapOK, ChunksOK, phase # "sweep",
         NEW g \in States, Sound(g, live \ condemned'), Settled(g),
         g.field = field, g.referent = referent, roots \subseteq g.mark,
         ProcessAndSwap(g), spec' \in Specs, condemned' \in SUBSET chunk,
         UNCHANGED <<fixed, chunk, roots, barrier>>
  PROVE  GCInv' /\ ClearsOnlyUnreachable
<1>1. PICK W \in SUBSET Obj : W = live \ condemned'
  BY DEF HeapTypes
<1>2. PICK d : d = ProcessReferences(g, spec')
  OBVIOUS
<1>3. Sound(g, W) /\ W \subseteq live
  BY <1>1
<1>4. FinalsHeld(g, W)
  BY <1>3, RootsHoldFinals
<1>5. d \in States /\ Sound(d, W) /\ Evolves(g, d, W) /\ Inside(d, d.mark)
  <2>1. PICK s : s = spec'
    OBVIOUS
  <2>2. d = ProcessReferences(g, s)
    BY <1>2, <2>1
  <2>3. QED
    BY <1>3, <1>4, <2>2, ReferencesProcessed
<1>6. /\ field' = d.field /\ referent' = d.referent /\ ctx' = d.ctx
      /\ weak' = (IF White(weak, d) THEN None ELSE weak)
      /\ live' = d.mark /\ mark' = live /\ phase' = "sweep"
  BY <1>2 DEF ProcessAndSwap
<1>7. kind' = kind /\ zygote' = zygote /\ chunk' = chunk /\ roots' = roots /\ barrier' = barrier
  BY DEF fixed
<1>8. /\ d.mark \in SUBSET Obj /\ d.mark \subseteq W /\ g.mark \subseteq d.mark
      /\ d.field \in [Obj -> Ref] /\ d.referent \in [Obj -> Ref] /\ d.ctx \in Contexts
  BY <1>5 DEF States, Sound, Evolves
<1>9. /\ kind \in [Obj -> References \cup {"data"}] /\ zygote \in 0..N
      /\ chunk \in SUBSET Obj /\ live \in SUBSET Obj
      /\ roots \in SUBSET Obj /\ weak \in Ref /\ barrier \in SUBSET Obj
      /\ live \subseteq chunk /\ roots \subseteq live
  BY DEF HeapTypes, HeapOK
<1>10. HeapTypes'
  <2>1. weak' \in Ref
    BY <1>6, <1>9 DEF Ref
  <2>2. (State \in States)'
    BY <1>6, <1>8, <1>9 DEF State, States
  <2>3. condemned' \in SUBSET Obj
    BY <1>9
  <2>4. QED
    BY <1>6, <1>7, <1>8, <1>9, <2>1, <2>2, <2>3 DEF HeapTypes
<1>11. HeapOK'
  <2>1. live' \subseteq chunk' /\ roots' \subseteq live' /\ weak' \in live' \cup {None}
    BY <1>3, <1>6, <1>7, <1>8, <1>9 DEF White
  <2>2. Inside(State, live)'
    BY <1>5, <1>6 DEF Inside, State
  <2>3. (\A o \in Obj : ~IsReference(o) => referent[o] = None)'
    BY <1>5, <1>6, <1>7 DEF Sound, IsReference
  <2>4. (\A o \in Obj \ chunk : field[o] = None)'
    <3>1. \A o \in Obj \ chunk : o \notin W /\ field[o] = None
      BY <1>3, <1>9 DEF HeapOK
    <3>2. QED
      BY <1>5, <1>6, <1>7, <3>1 DEF Evolves
  <2>5. (\A o \in live : kind[o] = "final" /\ referent[o] # None => o \in roots)'
    <3>1. SUFFICES ASSUME NEW o \in d.mark, kind[o] = "final", d.referent[o] # None PROVE o \in roots
      BY <1>6, <1>7
    <3>2. o \in Obj /\ o \in live
      BY <1>3, <1>8
    <3>3. referent[o] = d.referent[o]
      BY <1>5, <3>1, <3>2 DEF Evolves
    <3>4. QED
      BY <3>1, <3>2, <3>3 DEF HeapOK
  <2>6. QED
    BY <2>1, <2>2, <2>3, <2>4, <2>5 DEF HeapOK
<1>12. TraceOK'
  BY <1>6 DEF TraceOK
<1>13. \A o \in Obj : WordOf(o) \in Nat
  BY WordFacts
<1>14. d.ctx.sweep = 0 /\ d.ctx.garbage = {} /\ d.ctx.cleared \subseteq d.mark
  BY <1>5 DEF Sound
<1>15. {o \in mark : WordOf(o) >= ctx.sweep}' = live
  BY <1>6, <1>9, <1>13, <1>14
<1>16. chunk \subseteq (1..zygote) \cup live
  BY DEF ChunksOK
<1>17. SweepOK'
  <2>1. live' \cap condemned' = {}
    BY <1>1, <1>6, <1>8
  <2>2. condemned' \subseteq (1..zygote') \cup live
    BY <1>7, <1>16
  <2>3. (\A o \in mark : WordOf(o) >= ctx.sweep => o \in chunk)'
    BY <1>6, <1>7, <1>9
  <2>4. QED
    BY <1>6, <1>14, <1>15, <2>1, <2>2, <2>3 DEF SweepOK
<1>18. ChunksOK'
  BY <1>6, <1>7, <1>15, <1>16 DEF ChunksOK
<1>19. ClearsOnlyUnreachable
  <2>1. StronglyReachable \subseteq g.mark
    BY <1>1, <1>3, StronglyReachableMarked
  <2>2. QED
    BY <1>5, <1>6, <1>8, <2>1 DEF Evolves, White, ClearsOnlyUnreachable
<1>20. QED
  BY <1>10, <1>11, <1>12, <1>17, <1>18, <1>19 DEF GCInv

\* The second pause.
LEMMA ReMarkKeeps ==
  ASSUME GCInv, ReMark
  PROVE  GCInv' /\ ClearsOnlyUnreachable
<1>1. HeapTypes /\ HeapOK /\ ChunksOK /\ TraceOK
  BY DEF GCInv
<1>2. /\ phase = "trace" /\ ctx.stack = <<>> /\ barrier = {}
      /\ ProcessAndSwap(ProcessMarkStack(ScanGrayObjects(ReMarkRootSet(State))))
      /\ UNCHANGED <<fixed, chunk, roots, barrier, condemned>> /\ spec' = spec
  BY DEF ReMark, WorldStoppable
<1>3. PICK g \in States : g = State
  BY <1>1 DEF HeapTypes
<1>4. PICK W \in SUBSET Obj : W = Kept
  BY <1>1 DEF HeapTypes, Kept
<1>5. PICK X : X = {o \in Obj : CardOf(o) \in dirty}
  OBVIOUS
<1>6. g.mark = mark /\ g.field = field /\ g.referent = referent /\ g.ctx = ctx
  BY <1>3 DEF State
<1>7. Sound(g, W) /\ roots \subseteq W /\ Past(g)
  BY <1>1, <1>2, <1>3, <1>4, <1>6 DEF TraceOK, Past
<1>8. Covered(g, X)
  <2>1. \A o \in mark : o \in Obj
    BY <1>3, <1>6 DEF States
  <2>2. \A o \in mark : Gray(o, State) => o \in Due(State) \cup barrier \/ CardOf(o) \in dirty
    BY <1>1, <1>2 DEF TraceOK
  <2>3. QED
    BY <1>2, <1>3, <1>5, <1>6, <2>1, <2>2 DEF Covered
<1>9. PICK h : h = ReMarkRootSet(g)
  OBVIOUS
<1>10. h \in Traced(g, W, X) /\ roots \subseteq h.mark
  BY <1>7, <1>8, <1>9, RootsMarked
<1>11. h \in States /\ Sound(h, W) /\ Covered(h, X) /\ Onward(g, h) /\ SameWalk(g, h)
  BY <1>10 DEF Traced
<1>12. PICK k : k = ScanGrayObjects(h)
  OBVIOUS
<1>13. k \in Traced(h, W, {})
  BY <1>5, <1>11, <1>12, GrayScanned
<1>14. PICK p : p = ProcessMarkStack(k)
  OBVIOUS
<1>15. p \in Traced(k, W, {}) /\ p.ctx.stack = <<>>
  BY <1>13, <1>14, StackEmptied DEF Traced
<1>16. Onward(h, p) /\ SameWalk(h, p)
  BY <1>13, <1>15, OnwardTrans DEF Traced
<1>17. Onward(g, p) /\ SameWalk(g, p)
  BY <1>11, <1>16, OnwardTrans
<1>18. /\ p \in States /\ Sound(p, W) /\ Settled(p) /\ roots \subseteq p.mark
       /\ p.field = field /\ p.referent = referent
  BY <1>6, <1>7, <1>10, <1>15, <1>16, <1>17 DEF Traced, Settled, Past, SameWalk, Onward, SameHeap
<1>19. W = live \ condemned' /\ condemned' \in SUBSET chunk /\ spec' \in Specs
  BY <1>1, <1>2, <1>4 DEF Kept, ChunksOK, HeapTypes
<1>20. ProcessAndSwap(p)
  BY <1>2, <1>3, <1>9, <1>12, <1>14
<1>21. QED
  BY <1>1, <1>2, <1>18, <1>19, <1>20, PauseKeeps

\* The pause of a collection that is not concurrent.
LEMMA MarkStoppedKeeps ==
  ASSUME GCInv, NEW s \in Specs, MarkStopped(s)
  PROVE  GCInv' /\ ClearsOnlyUnreachable
<1>1. HeapTypes /\ HeapOK /\ ChunksOK /\ SweepOK
  BY DEF GCInv
<1>2. /\ phase = "idle" /\ spec' = s
      /\ ProcessAndSwap(ScanMarkedObjects(MarkRootSet(s)))
      /\ UNCHANGED <<fixed, chunk, roots, barrier>>
  BY DEF MarkStopped
<1>3. PICK C : C = chunk \ ObtainableFrom(roots \cup (live \cap Immune(s))) /\ C = condemned'
  BY DEF MarkStopped
<1>4. PICK W \in SUBSET Obj : W = live \ C
  BY <1>1 DEF HeapTypes
<1>5. PICK m : m = MarkRootSet(s)
  OBVIOUS
<1>6. /\ m \in States /\ Sound(m, W) /\ Covered(m, {})
      /\ m.field = field /\ m.referent = referent
  BY <1>1, <1>2, <1>3, <1>4, <1>5, RootSetMarked
<1>7. PICK p : p = ScanMarkedObjects(m)
  OBVIOUS
<1>8. /\ p \in States /\ Sound(p, W) /\ Covered(p, {}) /\ Onward(m, p)
      /\ Past(p) /\ p.ctx.stack = <<>>
  BY <1>6, <1>7, HeapWalked
<1>9. roots \subseteq m.mark
  BY <1>5 DEF MarkRootSet, State
<1>10. /\ Settled(p) /\ roots \subseteq p.mark /\ p.field = field /\ p.referent = referent
  BY <1>6, <1>8, <1>9 DEF Settled, Onward, SameHeap
<1>11. ProcessAndSwap(p)
  BY <1>2, <1>5, <1>7
<1>12. condemned' \in SUBSET chunk /\ W = live \ condemned' /\ phase # "sweep"
  BY <1>2, <1>3, <1>4
<1>13. QED
  BY <1>1, <1>2, <1>8, <1>10, <1>11, <1>12, PauseKeeps

-----------------------------------------------------------------------------
(* The steps of the trace.                                                 *)

\* Whose scan the mutators ask for.
Guarded == {o \in Obj : o \in barrier \/ CardOf(o) \in dirty}

LEMMA GuardedCovers ==
  ASSUME HeapTypes
  PROVE  (\A o \in mark : Gray(o, State) => o \in Due(State) \cup barrier \/ CardOf(o) \in dirty)
           <=> Covered(State, Guarded)
<1>1. State.mark = mark /\ mark \in SUBSET Obj
  BY DEF HeapTypes, State, States
<1>2. QED
  BY <1>1 DEF Covered, Guarded

LEMMA TraceStep ==
  ASSUME HeapTypes, HeapOK, TraceOK, ChunksOK, phase \in {"walk", "trace"},
         NEW h \in States, Sound(h, Kept), Covered(h, Guarded), Onward(State, h), Become(h),
         phase' \in {"walk", "trace"}, phase' = "trace" => Past(h),
         UNCHANGED <<fixed, chunk, mutators, live, dirty, spec, condemned>>
  PROVE  GCInv'
<1>1. State' = h
  BY DEF State, Become, States
<1>2. /\ kind' = kind /\ zygote' = zygote /\ chunk' = chunk /\ roots' = roots /\ weak' = weak
      /\ barrier' = barrier /\ live' = live /\ dirty' = dirty /\ spec' = spec /\ condemned' = condemned
      /\ Kept' = Kept
  BY DEF fixed, mutators, Kept
<1>3. /\ mark' = h.mark /\ field' = h.field /\ referent' = h.referent /\ ctx' = h.ctx
      /\ h.field = field /\ h.referent = referent /\ h.ctx.cleared = ctx.cleared
  BY DEF Become, Onward, SameHeap, State
<1>4. HeapTypes'
  BY <1>1, <1>2 DEF HeapTypes
<1>5. HeapOK'
  <2>1. Inside(State, live)'
    BY <1>1, <1>2, <1>3 DEF HeapOK, Inside, State
  <2>2. QED
    BY <1>2, <1>3, <2>1 DEF HeapOK, IsReference
<1>6. TraceOK'
  <2>1. Sound(State, Kept)'
    BY <1>1, <1>2 DEF Sound, Inside, IsReference
  <2>2. (\A o \in mark : Gray(o, State) => o \in Due(State) \cup barrier \/ CardOf(o) \in dirty)'
    <3>1. \A o \in h.mark : Gray(o, h) => o \in Due(h) \cup barrier \/ CardOf(o) \in dirty
      BY DEF Covered, Guarded
    <3>2. QED
      BY <1>1, <1>2, <1>3, <3>1 DEF Gray, IsPending, White, IsReference, Due
  <2>3. ctx'.cleared = {}
    BY <1>3 DEF TraceOK
  <2>4. phase' = "trace" => ctx'.word = {} /\ ctx'.finger = N + 1
    BY <1>3 DEF Past
  <2>5. QED
    BY <1>2, <2>1, <2>2, <2>3, <2>4 DEF TraceOK
<1>7. SweepOK'
  BY DEF SweepOK
<1>8. ChunksOK'
  BY <1>2 DEF ChunksOK
<1>9. QED
  BY <1>4, <1>5, <1>6, <1>7, <1>8 DEF GCInv

LEMMA WalkBitmapKeeps ==
  ASSUME GCInv, WalkBitmap
  PROVE  GCInv'
<1>1. HeapTypes /\ HeapOK /\ ChunksOK /\ TraceOK /\ phase = "walk"
  BY DEF GCInv, WalkBitmap
<1>2. PICK g \in States, W \in SUBSET Obj : g = State /\ W = Kept
  BY <1>1 DEF HeapTypes, Kept
<1>3. Sound(g, W) /\ Covered(g, Guarded)
  BY <1>1, <1>2, GuardedCovers DEF TraceOK
<1>4. UNCHANGED <<fixed, chunk, mutators, live, dirty, spec, condemned>>
  BY DEF WalkBitmap
<1>5. CASE WalkDone(g)
  <2>1. PICK h : h = EndWalk(g)
    OBVIOUS
  <2>2. phase' = "trace" /\ Become(h)
    BY <1>2, <1>5, <2>1 DEF WalkBitmap
  <2>3. h \in States /\ Sound(h, W) /\ Covered(h, Guarded) /\ Onward(g, h) /\ Past(h)
    BY <1>3, <1>5, <2>1, WalkEnds
  <2>4. QED
    BY <1>1, <1>2, <1>4, <2>2, <2>3, TraceStep
<1>6. CASE ~WalkDone(g)
  <2>1. PICK h : h = WalkAndScan(g)
    OBVIOUS
  <2>2. phase' = "walk" /\ Become(h)
    BY <1>1, <1>2, <1>6, <2>1 DEF WalkBitmap
  <2>3. h \in States /\ Sound(h, W) /\ Covered(h, Guarded) /\ Onward(g, h)
    BY <1>3, <1>6, <2>1, WalkKeeps
  <2>4. QED
    BY <1>1, <1>2, <1>4, <2>2, <2>3, TraceStep
<1>7. QED
  BY <1>5, <1>6

LEMMA PopMarkStackKeeps ==
  ASSUME GCInv, PopMarkStack
  PROVE  GCInv'
<1>1. HeapTypes /\ HeapOK /\ ChunksOK /\ TraceOK /\ phase = "trace" /\ phase' = phase /\ ctx.stack # <<>>
  BY DEF GCInv, PopMarkStack
<1>2. PICK g \in States, W \in SUBSET Obj : g = State /\ W = Kept
  BY <1>1 DEF HeapTypes, Kept
<1>3. Sound(g, W) /\ Covered(g, Guarded) /\ Past(g) /\ g.ctx.stack # <<>>
  BY <1>1, <1>2, GuardedCovers DEF TraceOK, Past, State
<1>4. PICK h : h = PopAndScan(g)
  OBVIOUS
<1>5. Become(h) /\ UNCHANGED <<fixed, chunk, mutators, live, dirty, spec, condemned>>
  BY <1>2, <1>4 DEF PopMarkStack
<1>6. h \in States /\ Sound(h, W) /\ Covered(h, Guarded) /\ Onward(g, h) /\ SameWalk(g, h)
  BY <1>3, <1>4, PopKeeps
<1>7. Past(h)
  BY <1>3, <1>6 DEF Past, SameWalk
<1>8. QED
  BY <1>1, <1>2, <1>5, <1>6, <1>7, TraceStep

LEMMA BeginKeeps ==
  ASSUME GCInv, NEW s \in Specs, Begin(s)
  PROVE  GCInv'
<1>1. HeapTypes /\ HeapOK /\ ChunksOK /\ SweepOK
  BY DEF GCInv
<1>2. /\ phase = "idle" /\ phase' = "walk" /\ spec' = s /\ dirty' = {}
      /\ kind' = kind /\ zygote' = zygote /\ chunk' = chunk /\ roots' = roots /\ weak' = weak
      /\ barrier' = barrier /\ live' = live
  BY DEF Begin, fixed, mutators
<1>3. PICK C : C = chunk \ ObtainableFrom(roots \cup (live \cap Immune(s))) /\ C = condemned'
  BY DEF Begin
<1>4. PICK h : h = MarkRootSet(s)
  OBVIOUS
<1>5. /\ h \in States /\ Sound(h, live \ C) /\ Covered(h, {})
      /\ h.field = field /\ h.referent = referent /\ h.ctx = EmptyContext
      /\ roots \subseteq live \ C /\ weak \in (live \ C) \cup {None}
  BY <1>1, <1>2, <1>3, <1>4, RootSetMarked
<1>6. Become(h) /\ Kept' = live \ C
  BY <1>2, <1>3, <1>4 DEF Begin, Kept
<1>7. State' = h
  BY <1>5, <1>6 DEF State, Become, States
<1>8. mark' = h.mark /\ field' = field /\ referent' = referent /\ ctx' = EmptyContext
  BY <1>5, <1>6 DEF Become
<1>9. HeapTypes'
  BY <1>1, <1>2, <1>3, <1>5, <1>7 DEF HeapTypes
<1>10. HeapOK'
  <2>1. Inside(State, live)'
    BY <1>1, <1>2, <1>8 DEF HeapOK, Inside, State
  <2>2. QED
    BY <1>1, <1>2, <1>8, <2>1 DEF HeapOK, IsReference
<1>11. TraceOK'
  <2>1. Sound(State, Kept)'
    BY <1>2, <1>5, <1>6, <1>7 DEF Sound, Inside, IsReference
  <2>2. (\A o \in mark : Gray(o, State) => o \in Due(State) \cup barrier \/ CardOf(o) \in dirty)'
    <3>1. \A o \in h.mark : Gray(o, h) => o \in Due(h)
      BY <1>5 DEF Covered
    <3>2. QED
      BY <1>2, <1>7, <1>8, <3>1 DEF Gray, IsPending, White, IsReference, Due
  <2>3. QED
    BY <1>2, <1>5, <1>6, <1>8, <2>1, <2>2, EmptyContextTyped DEF TraceOK
<1>12. SweepOK'
  BY <1>2 DEF SweepOK
<1>13. ChunksOK'
  BY <1>1, <1>2, <1>3 DEF ChunksOK
<1>14. QED
  BY <1>9, <1>10, <1>11, <1>12, <1>13 DEF GCInv

-----------------------------------------------------------------------------
(* The steps of the mutators.                                              *)

LEMMA RootsStep ==
  ASSUME GCInv, UNCHANGED <<heap, live, mark, phase, spec, ctx, condemned>>,
         roots' \subseteq live, weak' \in live \cup {None}, barrier' \in SUBSET Obj,
         \A o \in live : kind[o] = "final" /\ referent[o] # None => o \in roots',
         phase \in {"walk", "trace"} =>
           /\ roots' \subseteq Kept /\ weak' \in Kept \cup {None}
           /\ \A o \in Obj : o \in barrier \/ CardOf(o) \in dirty => o \in barrier' \/ CardOf(o) \in dirty'
  PROVE  GCInv'
<1>1. HeapTypes /\ HeapOK /\ TraceOK /\ SweepOK /\ ChunksOK
  BY DEF GCInv
<1>2. /\ kind' = kind /\ zygote' = zygote /\ chunk' = chunk /\ field' = field /\ referent' = referent
      /\ live' = live /\ mark' = mark /\ phase' = phase /\ spec' = spec /\ ctx' = ctx
      /\ condemned' = condemned
  BY DEF heap, fixed
<1>3. State' = State /\ Kept' = Kept
  BY <1>2 DEF State, Kept
<1>4. HeapTypes'
  BY <1>1, <1>2, <1>3 DEF HeapTypes, Ref
<1>5. HeapOK'
  BY <1>1, <1>2, <1>3 DEF HeapOK, IsReference, Inside
<1>6. TraceOK'
  <2>1. SUFFICES ASSUME phase \in {"walk", "trace"} PROVE TraceOK'
    BY <1>2 DEF TraceOK
  <2>2. Sound(State, Kept)'
    BY <1>1, <1>2, <1>3, <2>1 DEF TraceOK, Sound, Inside, IsReference
  <2>3. (\A o \in mark : Gray(o, State) => o \in Due(State) \cup barrier \/ CardOf(o) \in dirty)'
    <3>1. mark \subseteq Obj
      BY <1>1 DEF HeapTypes, State, States
    <3>2. \A o \in mark : Gray(o, State) => o \in Due(State) \/ o \in barrier' \/ CardOf(o) \in dirty'
      BY <1>1, <2>1, <3>1 DEF TraceOK
    <3>3. QED
      BY <1>2, <1>3, <3>2 DEF Gray, IsPending, White, IsReference, Due
  <2>4. QED
    BY <1>1, <1>2, <2>1, <1>3, <2>2, <2>3 DEF TraceOK
<1>7. SweepOK'
  BY <1>1, <1>2 DEF SweepOK
<1>8. ChunksOK'
  BY <1>1, <1>2 DEF ChunksOK
<1>9. QED
  BY <1>4, <1>5, <1>6, <1>7, <1>8 DEF GCInv

LEMMA LoadKeeps ==
  ASSUME GCInv, NEW v \in Obj, Load(v)
  PROVE  GCInv'
<1>1. HeapTypes /\ HeapOK /\ TraceOK
  BY DEF GCInv
<1>2. /\ UNCHANGED <<heap, live, mark, phase, spec, ctx, condemned>>
      /\ weak' = weak /\ barrier' = barrier /\ dirty' = dirty /\ roots' = roots \cup {v}
  BY DEF Load
<1>3. v # None
  BY DEF Obj, None
<1>4. \A W : roots \subseteq W /\ weak \in W \cup {None} /\ Inside(State, W) => v \in W
  BY <1>3 DEF Load, Inside, State
<1>5. v \in live
  BY <1>1, <1>4 DEF HeapOK
<1>6. phase \in {"walk", "trace"} => v \in Kept
  BY <1>1, <1>4 DEF TraceOK, Sound
<1>7. roots' \subseteq live /\ weak' \in live \cup {None} /\ barrier' \in SUBSET Obj
  BY <1>1, <1>2, <1>5 DEF HeapOK, HeapTypes
<1>8. \A o \in live : kind[o] = "final" /\ referent[o] # None => o \in roots'
  BY <1>1, <1>2 DEF HeapOK
<1>9. phase \in {"walk", "trace"} =>
        /\ roots' \subseteq Kept /\ weak' \in Kept \cup {None}
        /\ \A o \in Obj : o \in barrier \/ CardOf(o) \in dirty => o \in barrier' \/ CardOf(o) \in dirty'
  BY <1>1, <1>2, <1>6 DEF TraceOK
<1>10. QED
  BY <1>2, <1>7, <1>8, <1>9, RootsStep

LEMMA DropKeeps ==
  ASSUME GCInv, NEW v \in Obj, Drop(v)
  PROVE  GCInv'
<1>1. HeapTypes /\ HeapOK /\ TraceOK
  BY DEF GCInv
<1>2. /\ UNCHANGED <<heap, live, mark, phase, spec, ctx, condemned>>
      /\ weak' = weak /\ barrier' = barrier /\ dirty' = dirty /\ roots' = roots \ {v}
      /\ ~(kind[v] = "final" /\ referent[v] # None)
  BY DEF Drop
<1>3. roots' \subseteq live /\ weak' \in live \cup {None} /\ barrier' \in SUBSET Obj
  BY <1>1, <1>2 DEF HeapOK, HeapTypes
<1>4. \A o \in live : kind[o] = "final" /\ referent[o] # None => o \in roots'
  BY <1>1, <1>2 DEF HeapOK
<1>5. phase \in {"walk", "trace"} =>
        /\ roots' \subseteq Kept /\ weak' \in Kept \cup {None}
        /\ \A o \in Obj : o \in barrier \/ CardOf(o) \in dirty => o \in barrier' \/ CardOf(o) \in dirty'
  BY <1>1, <1>2 DEF TraceOK
<1>6. QED
  BY <1>2, <1>3, <1>4, <1>5, RootsStep

LEMMA NewWeakGlobalKeeps ==
  ASSUME GCInv, NEW v \in Obj, NewWeakGlobal(v)
  PROVE  GCInv'
<1>1. HeapTypes /\ HeapOK /\ TraceOK
  BY DEF GCInv
<1>2. /\ UNCHANGED <<heap, live, mark, phase, spec, ctx, condemned>>
      /\ weak' = v /\ v \in roots /\ barrier' = barrier /\ dirty' = dirty /\ roots' = roots
  BY DEF NewWeakGlobal
<1>3. roots' \subseteq live /\ weak' \in live \cup {None} /\ barrier' \in SUBSET Obj
  BY <1>1, <1>2 DEF HeapOK, HeapTypes
<1>4. \A o \in live : kind[o] = "final" /\ referent[o] # None => o \in roots'
  BY <1>1, <1>2 DEF HeapOK
<1>5. phase \in {"walk", "trace"} =>
        /\ roots' \subseteq Kept /\ weak' \in Kept \cup {None}
        /\ \A o \in Obj : o \in barrier \/ CardOf(o) \in dirty => o \in barrier' \/ CardOf(o) \in dirty'
  BY <1>1, <1>2 DEF TraceOK
<1>6. QED
  BY <1>2, <1>3, <1>4, <1>5, RootsStep

\* Who leaves the barrier is on a dirty card.
LEMMA MarkCardKeeps ==
  ASSUME GCInv, NEW v \in Obj, MarkCard(v)
  PROVE  GCInv'
<1>1. HeapTypes /\ HeapOK /\ TraceOK
  BY DEF GCInv
<1>2. /\ UNCHANGED <<heap, live, mark, phase, spec, ctx, condemned>>
      /\ weak' = weak /\ roots' = roots /\ barrier' = barrier \ {v}
      /\ phase \in {"walk", "trace"} => dirty' = dirty \cup {CardOf(v)}
  BY DEF MarkCard, CardsToMark
<1>3. roots' \subseteq live /\ weak' \in live \cup {None} /\ barrier' \in SUBSET Obj
  BY <1>1, <1>2 DEF HeapOK, HeapTypes
<1>4. \A o \in live : kind[o] = "final" /\ referent[o] # None => o \in roots'
  BY <1>1, <1>2 DEF HeapOK
<1>5. phase \in {"walk", "trace"} =>
        /\ roots' \subseteq Kept /\ weak' \in Kept \cup {None}
        /\ \A o \in Obj : o \in barrier \/ CardOf(o) \in dirty => o \in barrier' \/ CardOf(o) \in dirty'
  BY <1>1, <1>2 DEF TraceOK
<1>6. QED
  BY <1>2, <1>3, <1>4, <1>5, RootsStep

\* A store between roots, with the barrier, and Reference.clear().
LEMMA HeapStep ==
  ASSUME GCInv, UNCHANGED <<fixed, chunk, roots, weak, live, mark, dirty, phase, spec, ctx, condemned>>,
         field' \in [Obj -> Ref], referent' \in [Obj -> Ref],
         barrier' \in SUBSET Obj, barrier \subseteq barrier',
         \A o \in Obj : \/ field'[o] = field[o]
                        \/ o \in roots /\ field'[o] = None
                        \/ o \in roots /\ field'[o] \in roots /\ o \in barrier',
         \A o \in Obj : referent'[o] = referent[o] \/ referent'[o] = None
  PROVE  GCInv'
<1>1. HeapTypes /\ HeapOK /\ TraceOK /\ SweepOK /\ ChunksOK
  BY DEF GCInv
<1>2. /\ kind' = kind /\ zygote' = zygote /\ chunk' = chunk /\ roots' = roots /\ weak' = weak
      /\ live' = live /\ mark' = mark /\ dirty' = dirty /\ phase' = phase /\ spec' = spec /\ ctx' = ctx
      /\ condemned' = condemned /\ Kept' = Kept
  BY DEF fixed, Kept
<1>3. /\ State.mark = mark /\ State.field = field /\ State.referent = referent /\ State.ctx = ctx
      /\ State'.mark = mark /\ State'.field = field' /\ State'.referent = referent' /\ State'.ctx = ctx
      /\ State' = [mark |-> mark, field |-> field', referent |-> referent', ctx |-> ctx]
  BY <1>2 DEF State
<1>4. mark \in SUBSET Obj /\ live \in SUBSET Obj /\ ctx \in Contexts
  BY <1>1, <1>3 DEF HeapTypes, States
<1>5. ASSUME NEW W \in SUBSET Obj, Inside(State, W), roots \subseteq W
      PROVE  \A o \in W : field'[o] \in W \cup {None} /\ referent'[o] \in W \cup {None}
  BY <1>3, <1>5 DEF Inside
<1>6. HeapTypes'
  <2>1. State' \in States
    BY <1>3, <1>4 DEF States
  <2>2. QED
    BY <1>1, <1>2, <2>1 DEF HeapTypes
<1>7. HeapOK'
  <2>1. Inside(State, live)'
    BY <1>1, <1>2, <1>3, <1>4, <1>5 DEF HeapOK, Inside
  <2>2. (\A o \in Obj : ~IsReference(o) => referent[o] = None)'
    BY <1>1, <1>2 DEF HeapOK, IsReference
  <2>3. (\A o \in Obj \ chunk : field[o] = None)'
    BY <1>1, <1>2 DEF HeapOK
  <2>4. (\A o \in live : kind[o] = "final" /\ referent[o] # None => o \in roots)'
    BY <1>1, <1>2, <1>4 DEF HeapOK
  <2>5. QED
    BY <1>1, <1>2, <2>1, <2>2, <2>3, <2>4 DEF HeapOK
<1>8. TraceOK'
  <2>1. SUFFICES ASSUME phase \in {"walk", "trace"} PROVE TraceOK'
    BY <1>2 DEF TraceOK
  <2>2. Sound(State, Kept) /\ ctx.cleared = {} /\ roots \subseteq Kept /\ weak \in Kept \cup {None}
    BY <1>1, <2>1 DEF TraceOK
  <2>3. Sound(State, Kept)'
    <3>1. \A o \in Kept : field'[o] \in Kept \cup {None} /\ referent'[o] \in Kept \cup {None}
      BY <1>4, <1>5, <2>2 DEF Sound, Kept
    <3>2. \A o \in Obj : ~IsReference(o) => referent'[o] = None
      BY <1>1 DEF HeapOK
    <3>3. QED
      BY <1>2, <1>3, <2>2, <3>1, <3>2 DEF Sound, Inside, IsReference
  <2>4. (\A o \in mark : Gray(o, State) => o \in Due(State) \cup barrier \/ CardOf(o) \in dirty)'
    <3>1. SUFFICES ASSUME NEW o \in mark, Gray(o, State)'
                   PROVE  (o \in Due(State) \cup barrier \/ CardOf(o) \in dirty)'
      BY <1>2
    <3>2. \/ field'[o] # None /\ field'[o] \notin mark
          \/ IsReference(o) /\ referent'[o] # None /\ referent'[o] \notin mark /\ ~IsPending(o, State)
      BY <1>2, <1>3, <3>1 DEF Gray, White, IsPending, IsReference
    <3>3. o \in barrier' \/ Gray(o, State)
      BY <1>3, <1>4, <3>2 DEF Gray, White
    <3>4. Gray(o, State) => o \in Due(State) \cup barrier \/ CardOf(o) \in dirty
      BY <1>1, <2>1 DEF TraceOK
    <3>5. QED
      BY <1>2, <1>3, <3>3, <3>4 DEF Due
  <2>5. QED
    BY <1>1, <1>2, <2>1, <2>3, <2>4 DEF TraceOK
<1>9. SweepOK'
  BY <1>1, <1>2 DEF SweepOK
<1>10. ChunksOK'
  BY <1>1, <1>2 DEF ChunksOK
<1>11. QED
  BY <1>6, <1>7, <1>8, <1>9, <1>10 DEF GCInv

LEMMA StoreKeeps ==
  ASSUME GCInv, NEW o \in Obj, NEW v \in Obj \cup {None}, Store(o, v)
  PROVE  GCInv'
<1>1. /\ field \in [Obj -> Ref] /\ referent \in [Obj -> Ref]
  BY DEF GCInv, HeapTypes, State, States
<1>2. /\ o \in roots /\ v \in roots \cup {None} /\ barrier = {}
      /\ field' = [field EXCEPT ![o] = v] /\ barrier' = (IF v = None THEN {} ELSE {o})
      /\ referent' = referent
      /\ UNCHANGED <<fixed, chunk, roots, weak, live, mark, dirty, phase, spec, ctx, condemned>>
  BY DEF Store
<1>3. field' \in [Obj -> Ref] /\ barrier' \in SUBSET Obj
  BY <1>1, <1>2 DEF Ref
<1>4. \A p \in Obj : \/ field'[p] = field[p]
                     \/ p \in roots /\ field'[p] = None
                     \/ p \in roots /\ field'[p] \in roots /\ p \in barrier'
  BY <1>1, <1>2
<1>5. QED
  BY <1>1, <1>2, <1>3, <1>4, HeapStep

LEMMA ClearReferenceKeeps ==
  ASSUME GCInv, NEW o \in Obj, Clear(o)
  PROVE  GCInv'
<1>1. /\ field \in [Obj -> Ref] /\ referent \in [Obj -> Ref] /\ barrier \in SUBSET Obj
  BY DEF GCInv, HeapTypes, State, States
<1>2. /\ referent' = [referent EXCEPT ![o] = None] /\ field' = field /\ barrier' = barrier
      /\ UNCHANGED <<fixed, chunk, roots, weak, live, mark, dirty, phase, spec, ctx, condemned>>
  BY DEF Clear, mutators
<1>3. referent' \in [Obj -> Ref] /\ \A p \in Obj : referent'[p] = referent[p] \/ referent'[p] = None
  BY <1>1, <1>2 DEF Ref
<1>4. QED
  BY <1>1, <1>2, <1>3, HeapStep

LEMMA NewKeeps ==
  ASSUME GCInv, NEW n \in Obj, New(n)
  PROVE  GCInv'
<1>1. HeapTypes /\ HeapOK /\ TraceOK /\ SweepOK /\ ChunksOK
  BY DEF GCInv
<1>2. /\ n \notin chunk
      /\ chunk' = chunk \cup {n} /\ live' = live \cup {n} /\ roots' = roots \cup {n}
      /\ kind' = kind /\ zygote' = zygote /\ field' = field /\ weak' = weak /\ barrier' = barrier
      /\ mark' = mark /\ dirty' = dirty /\ phase' = phase /\ spec' = spec /\ ctx' = ctx
      /\ condemned' = condemned
  BY DEF New, fixed
<1>3. PICK r : r \in (IF IsReference(n) THEN roots ELSE {None}) /\ referent' = [referent EXCEPT ![n] = r]
  BY DEF New
<1>4. /\ field \in [Obj -> Ref] /\ referent \in [Obj -> Ref] /\ mark \in SUBSET Obj /\ ctx \in Contexts
      /\ live \in SUBSET Obj /\ roots \subseteq live /\ live \subseteq chunk /\ condemned \subseteq chunk
  BY <1>1 DEF HeapTypes, HeapOK, ChunksOK, State, States
<1>5. /\ referent' \in [Obj -> Ref] /\ referent'[n] = r /\ \A o \in Obj \ {n} : referent'[o] = referent[o]
      /\ field[n] = None /\ r \in roots \cup {None} /\ (~IsReference(n) => r = None)
  BY <1>1, <1>2, <1>3, <1>4 DEF HeapOK, Ref
<1>6. /\ State.mark = mark /\ State.field = field /\ State.referent = referent /\ State.ctx = ctx
      /\ State'.mark = mark /\ State'.field = field /\ State'.referent = referent' /\ State'.ctx = ctx
      /\ State' = [mark |-> mark, field |-> field, referent |-> referent', ctx |-> ctx]
  BY <1>2 DEF State
<1>7. ASSUME NEW W \in SUBSET Obj, Inside(State, W), roots \subseteq W, n \notin W
      PROVE  \A o \in W \cup {n} : /\ field[o] \in W \cup {n} \cup {None}
                                   /\ referent'[o] \in W \cup {n} \cup {None}
  BY <1>5, <1>6, <1>7 DEF Inside
<1>8. HeapTypes'
  <2>1. State' \in States
    BY <1>4, <1>5, <1>6 DEF States
  <2>2. QED
    BY <1>1, <1>2, <2>1 DEF HeapTypes
<1>9. HeapOK'
  <2>1. \A o \in live \cup {n} : /\ field[o] \in live \cup {n} \cup {None}
                                 /\ referent'[o] \in live \cup {n} \cup {None}
    BY <1>1, <1>2, <1>4, <1>7 DEF HeapOK
  <2>2. Inside(State, live)'
    BY <1>2, <1>6, <2>1 DEF Inside
  <2>3. (\A o \in Obj : ~IsReference(o) => referent[o] = None)'
    BY <1>1, <1>2, <1>5 DEF HeapOK, IsReference
  <2>4. (\A o \in Obj \ chunk : field[o] = None)'
    BY <1>1, <1>2 DEF HeapOK
  <2>5. (\A o \in live : kind[o] = "final" /\ referent[o] # None => o \in roots)'
    BY <1>1, <1>2, <1>4, <1>5 DEF HeapOK
  <2>6. (live \subseteq chunk /\ roots \subseteq live /\ weak \in live \cup {None})'
    BY <1>1, <1>2 DEF HeapOK
  <2>7. QED
    BY <2>2, <2>3, <2>4, <2>5, <2>6 DEF HeapOK
<1>10. TraceOK'
  <2>1. SUFFICES ASSUME phase \in {"walk", "trace"} PROVE TraceOK'
    BY <1>2 DEF TraceOK
  <2>2. Sound(State, Kept) /\ ctx.cleared = {} /\ roots \subseteq Kept /\ weak \in Kept \cup {None}
    BY <1>1, <2>1 DEF TraceOK
  <2>3. Kept' = Kept \cup {n} /\ n \notin Kept /\ Kept \in SUBSET Obj
    BY <1>2, <1>4 DEF Kept
  <2>4. n \notin mark
    BY <1>6, <2>2, <2>3 DEF Sound
  <2>5. Sound(State, Kept)'
    <3>1. \A o \in Kept \cup {n} : /\ field[o] \in Kept \cup {n} \cup {None}
                                   /\ referent'[o] \in Kept \cup {n} \cup {None}
      BY <1>7, <2>2, <2>3 DEF Sound
    <3>2. \A o \in Obj : ~IsReference(o) => referent'[o] = None
      BY <1>1, <1>5 DEF HeapOK
    <3>3. mark \subseteq Kept \cup {n}
      BY <1>6, <2>2 DEF Sound
    <3>4. QED
      BY <1>2, <1>6, <2>2, <2>3, <3>1, <3>2, <3>3 DEF Sound, Inside, IsReference
  <2>6. (\A o \in mark : Gray(o, State) => o \in Due(State) \cup barrier \/ CardOf(o) \in dirty)'
    <3>1. SUFFICES ASSUME NEW o \in mark, Gray(o, State)'
                   PROVE  (o \in Due(State) \cup barrier \/ CardOf(o) \in dirty)'
      BY <1>2
    <3>2. referent'[o] = referent[o]
      BY <1>4, <1>5, <2>4
    <3>3. Gray(o, State)
      BY <1>2, <1>6, <3>1, <3>2 DEF Gray, White, IsPending, IsReference
    <3>4. o \in Due(State) \cup barrier \/ CardOf(o) \in dirty
      BY <1>1, <2>1, <3>3 DEF TraceOK
    <3>5. QED
      BY <1>2, <1>6, <3>4 DEF Due
  <2>7. QED
    BY <1>1, <1>2, <2>1, <2>2, <2>3, <2>5, <2>6 DEF TraceOK
<1>11. SweepOK'
  <2>1. SUFFICES ASSUME phase = "sweep" PROVE SweepOK'
    BY <1>1, <1>2 DEF SweepOK
  <2>2. /\ ctx.cleared \subseteq live /\ live \cap condemned = {}
        /\ \A o \in ctx.garbage : o \in chunk \ live /\ WordOf(o) < ctx.sweep
        /\ \A o \in mark : WordOf(o) >= ctx.sweep => o \in chunk
        /\ condemned \subseteq (1..zygote) \cup ctx.garbage \cup {o \in mark : WordOf(o) >= ctx.sweep}
    BY <1>1, <2>1 DEF SweepOK
  <2>3. \A o \in ctx.garbage : o \in chunk' \ live'
    BY <1>2, <2>2
  <2>4. live' \cap condemned' = {} /\ ctx.cleared \subseteq live'
    BY <1>2, <1>4, <2>2
  <2>5. QED
    BY <1>2, <2>1, <2>2, <2>3, <2>4 DEF SweepOK
<1>12. ChunksOK'
  BY <1>1, <1>2 DEF ChunksOK
<1>13. QED
  BY <1>8, <1>9, <1>10, <1>11, <1>12 DEF GCInv

-----------------------------------------------------------------------------
(* The sweep.                                                              *)

LEMMA SweepWordKeeps ==
  ASSUME GCInv, SweepWord
  PROVE  GCInv'
<1>1. HeapTypes /\ HeapOK /\ SweepOK /\ ChunksOK
  BY DEF GCInv
<1>2. PICK s, G : s = ctx.sweep /\ G = ctx.garbage \cup ((Word(s) \cap mark) \ (live \cup Immune(spec)))
  OBVIOUS
<1>3. /\ phase = "sweep" /\ ctx' = [ctx EXCEPT !.sweep = s + 1, !.garbage = G]
      /\ UNCHANGED <<heap, mutators, live, mark, dirty, phase, spec, condemned>>
  BY <1>2 DEF SweepWord
<1>4. /\ kind' = kind /\ zygote' = zygote /\ chunk' = chunk /\ field' = field /\ referent' = referent
      /\ roots' = roots /\ weak' = weak /\ barrier' = barrier
      /\ live' = live /\ mark' = mark /\ phase' = phase /\ spec' = spec /\ condemned' = condemned
  BY <1>3 DEF heap, fixed, mutators
<1>5. /\ mark \in SUBSET Obj /\ field \in [Obj -> Ref] /\ referent \in [Obj -> Ref]
      /\ ctx \in Contexts /\ s \in Nat /\ ctx.garbage \in SUBSET Obj
  BY <1>1, <1>2 DEF HeapTypes, State, States, Contexts
<1>6. G \in SUBSET Obj /\ s + 1 \in Nat
  BY <1>2, <1>5
<1>7. /\ ctx' \in Contexts /\ ctx'.sweep = s + 1 /\ ctx'.garbage = G /\ ctx'.cleared = ctx.cleared
  BY <1>3, <1>5, <1>6 DEF Contexts
<1>8. \A o \in Obj : /\ WordOf(o) \in Nat
                     /\ o \in Word(s) <=> WordOf(o) = s
                     /\ WordOf(o) >= s <=> WordOf(o) = s \/ WordOf(o) >= s + 1
                     /\ WordOf(o) < s + 1 <=> WordOf(o) < s \/ WordOf(o) = s
  <2>1. SUFFICES ASSUME NEW o \in Obj
                 PROVE  /\ WordOf(o) \in Nat
                        /\ o \in Word(s) <=> WordOf(o) = s
                        /\ WordOf(o) >= s <=> WordOf(o) = s \/ WordOf(o) >= s + 1
                        /\ WordOf(o) < s + 1 <=> WordOf(o) < s \/ WordOf(o) = s
    OBVIOUS
  <2>2. PICK w \in Nat : w = WordOf(o)
    BY WordFacts
  <2>3. o \in Word(s) <=> w = s
    BY <2>2 DEF Word
  <2>4. QED
    BY <1>5, <2>2, <2>3
<1>9. /\ ctx.cleared \subseteq live /\ live \cap condemned = {}
      /\ \A o \in ctx.garbage : o \in chunk \ live /\ WordOf(o) < s
      /\ \A o \in mark : WordOf(o) >= s => o \in chunk
      /\ condemned \subseteq (1..zygote) \cup ctx.garbage \cup {o \in mark : WordOf(o) >= s}
  BY <1>1, <1>2, <1>3 DEF SweepOK
<1>10. Immune(spec) \subseteq 1..zygote
  BY <1>1, ImmuneObjects
<1>11. HeapTypes'
  <2>1. (State \in States)'
    BY <1>4, <1>5, <1>7 DEF State, States
  <2>2. QED
    BY <1>1, <1>4, <2>1 DEF HeapTypes
<1>12. HeapOK'
  <2>1. Inside(State, live)'
    BY <1>1, <1>4 DEF HeapOK, Inside, State
  <2>2. QED
    BY <1>1, <1>4, <2>1 DEF HeapOK, IsReference
<1>13. TraceOK'
  BY <1>3, <1>4 DEF TraceOK
<1>14. SweepOK'
  <2>1. \A o \in G : o \in chunk \ live /\ WordOf(o) < s + 1
    BY <1>2, <1>5, <1>8, <1>9
  <2>2. \A o \in mark : WordOf(o) >= s + 1 => o \in chunk
    BY <1>5, <1>8, <1>9
  <2>3. condemned \subseteq (1..zygote) \cup G \cup {o \in mark : WordOf(o) >= s + 1}
    BY <1>2, <1>5, <1>8, <1>9, <1>10
  <2>4. QED
    BY <1>3, <1>4, <1>7, <1>9, <2>1, <2>2, <2>3 DEF SweepOK
<1>15. ChunksOK'
  <2>1. chunk \subseteq (1..zygote) \cup live \cup (ctx.garbage \cup {o \in mark : WordOf(o) >= s})
    BY <1>1, <1>2, <1>3 DEF ChunksOK
  <2>2. chunk \subseteq (1..zygote) \cup live \cup (G \cup {o \in mark : WordOf(o) >= s + 1})
    BY <1>2, <1>5, <1>8, <1>10, <2>1
  <2>3. QED
    BY <1>1, <1>3, <1>4, <1>7, <2>2 DEF ChunksOK
<1>16. QED
  BY <1>11, <1>12, <1>13, <1>14, <1>15 DEF GCInv

LEMMA FreeListKeeps ==
  ASSUME GCInv, FreeList
  PROVE  GCInv'
<1>1. HeapTypes /\ HeapOK /\ SweepOK /\ ChunksOK
  BY DEF GCInv
<1>2. PICK G, s : G = ctx.garbage /\ s = ctx.sweep
  OBVIOUS
<1>3. /\ phase = "sweep"
      /\ chunk' = chunk \ {o \in G : o > zygote} /\ live' = live \ G
      /\ field' = [o \in Obj |-> IF o \in G THEN None ELSE field[o]]
      /\ referent' = [o \in Obj |-> IF o \in G THEN None ELSE referent[o]]
      /\ ctx' = [ctx EXCEPT !.garbage = {}] /\ condemned' = condemned \ G
      /\ UNCHANGED <<fixed, mutators, mark, dirty, phase, spec>>
  BY <1>2 DEF FreeList
<1>4. /\ kind' = kind /\ zygote' = zygote /\ roots' = roots /\ weak' = weak /\ barrier' = barrier
      /\ mark' = mark /\ phase' = phase /\ spec' = spec
  BY <1>3 DEF fixed, mutators
<1>5. /\ mark \in SUBSET Obj /\ field \in [Obj -> Ref] /\ referent \in [Obj -> Ref]
      /\ ctx \in Contexts /\ s \in Nat /\ G \in SUBSET Obj /\ zygote \in 0..N
  BY <1>1, <1>2 DEF HeapTypes, State, States, Contexts
<1>6. ctx' \in Contexts /\ ctx'.sweep = s /\ ctx'.garbage = {} /\ ctx'.cleared = ctx.cleared
  BY <1>2, <1>3, <1>5 DEF Contexts
<1>7. /\ ctx.cleared \subseteq live /\ live \cap condemned = {}
      /\ \A o \in G : o \in chunk \ live /\ WordOf(o) < s
      /\ \A o \in mark : WordOf(o) >= s => o \in chunk
      /\ condemned \subseteq (1..zygote) \cup G \cup {o \in mark : WordOf(o) >= s}
  BY <1>1, <1>2, <1>3 DEF SweepOK
<1>8. live' = live
  BY <1>3, <1>7
<1>9. /\ field' \in [Obj -> Ref] /\ referent' \in [Obj -> Ref]
      /\ \A o \in Obj : /\ field'[o] = IF o \in G THEN None ELSE field[o]
                        /\ referent'[o] = IF o \in G THEN None ELSE referent[o]
  BY <1>3, <1>5 DEF Ref
<1>10. HeapTypes'
  <2>1. (State \in States)'
    BY <1>4, <1>5, <1>6, <1>9 DEF State, States
  <2>2. chunk' \in SUBSET Obj /\ condemned' \in SUBSET Obj
    BY <1>1, <1>3 DEF HeapTypes
  <2>3. QED
    BY <1>1, <1>4, <1>8, <2>1, <2>2 DEF HeapTypes
<1>11. HeapOK'
  <2>1. \A o \in live : o \in Obj /\ field'[o] = field[o] /\ referent'[o] = referent[o]
    BY <1>1, <1>7, <1>9 DEF HeapTypes
  <2>2. Inside(State, live)'
    BY <1>1, <1>8, <2>1 DEF HeapOK, Inside, State
  <2>3. live \subseteq chunk'
    BY <1>1, <1>3, <1>7 DEF HeapOK
  <2>4. (\A o \in Obj : ~IsReference(o) => referent[o] = None)'
    BY <1>1, <1>4, <1>9 DEF HeapOK, IsReference
  <2>5. (\A o \in Obj \ chunk : field[o] = None)'
    BY <1>1, <1>3, <1>9 DEF HeapOK
  <2>6. (\A o \in live : kind[o] = "final" /\ referent[o] # None => o \in roots)'
    BY <1>1, <1>4, <1>8, <2>1 DEF HeapOK
  <2>7. QED
    BY <1>1, <1>4, <1>8, <2>2, <2>3, <2>4, <2>5, <2>6 DEF HeapOK
<1>12. TraceOK'
  BY <1>3, <1>4 DEF TraceOK
<1>13. \A o \in mark : WordOf(o) >= s => o \notin G
  BY <1>5, <1>7, WordFacts
<1>14. SweepOK'
  <2>1. \A o \in mark : WordOf(o) >= s => o \in chunk'
    BY <1>3, <1>7, <1>13
  <2>2. condemned' \subseteq (1..zygote) \cup {o \in mark : WordOf(o) >= s}
    BY <1>3, <1>7
  <2>3. QED
    BY <1>3, <1>4, <1>6, <1>7, <1>8, <2>1, <2>2 DEF SweepOK
<1>15. ChunksOK'
  <2>1. chunk \subseteq (1..zygote) \cup live \cup (G \cup {o \in mark : WordOf(o) >= s})
    BY <1>1, <1>2, <1>3 DEF ChunksOK
  <2>2. \A o \in G : o \in chunk' => o \in 1..zygote
    BY <1>3, <1>5 DEF Obj
  <2>3. chunk' \subseteq (1..zygote) \cup live \cup {o \in mark : WordOf(o) >= s}
    BY <1>3, <2>1, <2>2
  <2>4. condemned' \subseteq chunk'
    BY <1>1, <1>3 DEF ChunksOK
  <2>5. QED
    BY <1>3, <1>4, <1>6, <1>8, <2>3, <2>4 DEF ChunksOK
<1>16. QED
  BY <1>10, <1>11, <1>12, <1>14, <1>15 DEF GCInv

\* Past the last word of the bitmap there is no object.
LEMMA WordsEnd ==
  ASSUME NEW s \in Nat, s \notin Words
  PROVE  \A o \in Obj : ~(WordOf(o) >= s)
<1> SUFFICES ASSUME NEW o \in Obj, WordOf(o) >= s PROVE FALSE
  OBVIOUS
<1>1. WordOf(o) > s
  <2>1. WordOf(o) \in Nat /\ WordOf(o) # s
    BY WordFacts DEF Words
  <2>2. QED
    BY <2>1
<1>2. PICK b : b = s * WordBits + 1
  OBVIOUS
<1>3. PICK c : c = (s + 1) * WordBits + 1
  OBVIOUS
<1>4. b \in Nat /\ b >= 1 /\ c > b /\ c \in Nat
  <2>1. PICK m \in Nat : m = s * WordBits
    OBVIOUS
  <2>2. (s + 1) * WordBits = m + WordBits
    BY <2>1
  <2>3. QED
    BY <1>2, <1>3, <2>1, <2>2
<1>5. o >= c
  BY <1>1, <1>3, WordFacts
<1>6. b \in Obj
  BY <1>4, <1>5 DEF Obj
<1>7. PICK w \in Nat : w = WordOf(b)
  BY <1>6, WordFacts
<1>8. ~(w > s)
  <2>1. b >= c <=> w > s
    BY <1>3, <1>6, <1>7, WordFacts
  <2>2. QED
    BY <1>4, <2>1
<1>9. ~(w < s)
  <2>1. SUFFICES ASSUME w < s PROVE FALSE
    OBVIOUS
  <2>2. PICK q \in Nat : q = s - 1
    BY <2>1
  <2>3. b >= (q + 1) * WordBits + 1 <=> w > q
    BY <1>6, <1>7, <2>2, WordFacts
  <2>4. q + 1 = s
    BY <2>2
  <2>5. b >= b <=> w > q
    BY <1>2, <2>3, <2>4
  <2>6. QED
    BY <1>4, <2>1, <2>2, <2>5
<1>10. w = s
  BY <1>8, <1>9
<1>11. QED
  BY <1>6, <1>7, <1>10 DEF Words

LEMMA SweepIsOver ==
  ASSUME GCInv, phase = "sweep", ctx.sweep \notin Words, ctx.garbage = {}
  PROVE  condemned \subseteq 1..zygote /\ chunk \subseteq (1..zygote) \cup live
<1>1. HeapTypes /\ SweepOK /\ ChunksOK
  BY DEF GCInv
<1>2. PICK s \in Nat : s = ctx.sweep
  BY <1>1 DEF HeapTypes, State, States, Contexts
<1>3. mark \in SUBSET Obj
  BY <1>1 DEF HeapTypes, State, States
<1>4. {o \in mark : WordOf(o) >= ctx.sweep} = {}
  BY <1>2, <1>3, WordsEnd
<1>5. QED
  BY <1>1, <1>4 DEF SweepOK, ChunksOK

LEMMA FinishKeeps ==
  ASSUME GCInv, Finish
  PROVE  GCInv'
<1>1. HeapTypes /\ HeapOK /\ SweepOK /\ ChunksOK
  BY DEF GCInv
<1>2. /\ phase = "sweep" /\ ctx.sweep \notin Words /\ ctx.garbage = {}
      /\ phase' = "idle" /\ mark' = {} /\ roots' = roots \cup ctx.cleared
      /\ ctx' = EmptyContext /\ condemned' = {}
      /\ kind' = kind /\ zygote' = zygote /\ chunk' = chunk /\ field' = field /\ referent' = referent
      /\ weak' = weak /\ barrier' = barrier /\ live' = live /\ spec' = spec
  BY DEF Finish, FinishMarkStep, heap, fixed
<1>3. chunk \subseteq (1..zygote) \cup live
  BY <1>2, SweepIsOver
<1>4. ctx.cleared \subseteq live
  BY <1>1, <1>2 DEF SweepOK
<1>5. HeapTypes'
  <2>1. (State \in States)'
    BY <1>1, <1>2, EmptyContextTyped DEF HeapTypes, State, States
  <2>2. roots' \in SUBSET Obj
    BY <1>1, <1>2, <1>4 DEF HeapTypes
  <2>3. QED
    BY <1>1, <1>2, <2>1, <2>2 DEF HeapTypes
<1>6. HeapOK'
  <2>1. Inside(State, live)'
    BY <1>1, <1>2 DEF HeapOK, Inside, State
  <2>2. QED
    BY <1>1, <1>2, <1>4, <2>1 DEF HeapOK, IsReference
<1>7. TraceOK' /\ SweepOK'
  BY <1>2 DEF TraceOK, SweepOK
<1>8. ChunksOK'
  BY <1>2, <1>3 DEF ChunksOK
<1>9. QED
  BY <1>5, <1>6, <1>7, <1>8 DEF GCInv

-----------------------------------------------------------------------------
(* The theorems.                                                           *)

LEMMA GCInit ==
  ASSUME Init
  PROVE  GCInv
<1>1. PICK shape \in Shapes : kind = shape.kind /\ zygote = shape.zygote
  BY DEF Init
<1>2. /\ chunk = 1..zygote /\ live = 1..zygote /\ roots = 1..zygote
      /\ field = [o \in Obj |-> None] /\ referent = [o \in Obj |-> None]
      /\ weak = None /\ barrier = {} /\ mark = {} /\ dirty = {}
      /\ phase = "idle" /\ spec = GC_FOR_MALLOC /\ ctx = EmptyContext /\ condemned = {}
  BY DEF Init
<1>3. kind \in [Obj -> References \cup {"data"}] /\ zygote \in 0..N
  BY <1>1
<1>4. 1..zygote \in SUBSET Obj
  BY <1>3 DEF Obj
<1>5. State \in States
  BY <1>2, EmptyContextTyped DEF State, States, Ref
<1>6. HeapTypes
  BY <1>2, <1>3, <1>4, <1>5 DEF HeapTypes, Ref, Specs
<1>7. HeapOK
  BY <1>2, <1>4 DEF HeapOK, Inside, State
<1>8. TraceOK /\ SweepOK /\ ChunksOK
  BY <1>2 DEF TraceOK, SweepOK, ChunksOK
<1>9. QED
  BY <1>6, <1>7, <1>8 DEF GCInv

\* A pause is the only step into the sweep.
LEMMA GCStep ==
  ASSUME GCInv, [Next]_vars
  PROVE  GCInv' /\ (phase' = "sweep" /\ phase # "sweep" => ClearsOnlyUnreachable)
<1>1. CASE Next
  <2>1. ASSUME NEW s \in {GC_CONCURRENT, GC_EXPLICIT}, Begin(s)
        PROVE  GCInv' /\ phase' # "sweep"
    <3>1. s \in Specs
      BY DEF Specs
    <3>2. QED
      BY <2>1, <3>1, BeginKeeps DEF Begin
  <2>2. ASSUME NEW s \in {GC_FOR_MALLOC, GC_BEFORE_OOM}, MarkStopped(s)
        PROVE  GCInv' /\ ClearsOnlyUnreachable
    <3>1. s \in Specs
      BY DEF Specs
    <3>2. QED
      BY <2>2, <3>1, MarkStoppedKeeps
  <2>3. CASE WalkBitmap
    BY <2>3, WalkBitmapKeeps DEF WalkBitmap
  <2>4. CASE PopMarkStack
    BY <2>4, PopMarkStackKeeps DEF PopMarkStack
  <2>5. CASE ReMark
    BY <2>5, ReMarkKeeps
  <2>6. CASE SweepWord
    BY <2>6, SweepWordKeeps DEF SweepWord
  <2>7. CASE FreeList
    BY <2>7, FreeListKeeps DEF FreeList
  <2>8. CASE Finish
    BY <2>8, FinishKeeps DEF Finish
  <2>9. ASSUME NEW o \in Obj,
               New(o) \/ Load(o) \/ Drop(o) \/ MarkCard(o) \/ Clear(o) \/ NewWeakGlobal(o)
        PROVE  GCInv' /\ phase' = phase
    <3>1. GCInv'
      BY <2>9, NewKeeps, LoadKeeps, DropKeeps, MarkCardKeeps, ClearReferenceKeeps, NewWeakGlobalKeeps
    <3>2. phase' = phase
      BY <2>9 DEF New, Load, Drop, MarkCard, Clear, NewWeakGlobal
    <3>3. QED
      BY <3>1, <3>2
  <2>10. ASSUME NEW o \in Obj, NEW v \in Obj \cup {None}, Store(o, v)
         PROVE  GCInv' /\ phase' = phase
    BY <2>10, StoreKeeps DEF Store
  <2>11. QED
    BY <1>1, <2>1, <2>2, <2>3, <2>4, <2>5, <2>6, <2>7, <2>8, <2>9, <2>10 DEF Next, Collect, Mutate
<1>2. CASE UNCHANGED vars
  <2>1. /\ UNCHANGED <<heap, live, mark, phase, spec, ctx, condemned>>
        /\ roots' = roots /\ weak' = weak /\ barrier' = barrier /\ dirty' = dirty
    BY <1>2 DEF vars, mutators
  <2>2. HeapTypes /\ HeapOK /\ TraceOK
    BY DEF GCInv
  <2>3. /\ roots' \subseteq live /\ weak' \in live \cup {None} /\ barrier' \in SUBSET Obj
        /\ \A o \in live : kind[o] = "final" /\ referent[o] # None => o \in roots'
    BY <2>1, <2>2 DEF HeapOK, HeapTypes
  <2>4. phase \in {"walk", "trace"} =>
          /\ roots' \subseteq Kept /\ weak' \in Kept \cup {None}
          /\ \A o \in Obj : o \in barrier \/ CardOf(o) \in dirty => o \in barrier' \/ CardOf(o) \in dirty'
    BY <2>1, <2>2 DEF TraceOK
  <2>5. GCInv'
    BY <2>1, <2>3, <2>4, RootsStep
  <2>6. QED
    BY <2>1, <2>5
<1>3. QED
  BY <1>1, <1>2

\* The collector and the mutators together keep the heap, the trace and the sweep sound,
\* however their steps interleave.
THEOREM CollectorSound == Spec => []GCInv
<1>1. Init => GCInv
  BY GCInit
<1>2. GCInv /\ [Next]_vars => GCInv'
  BY GCStep
<1>3. QED
  BY <1>1, <1>2, PTL DEF Spec

\* No collection, whole or partial, concurrent or not, frees what the program can still
\* get hold of through roots, fields, Reference.get() or weak globals.
THEOREM NothingInUseIsFreed == Spec => []NoDangling
<1>1. GCInv => NoDangling
  BY ObtainableIsLive DEF GCInv, HeapOK, NoDangling
<1>2. QED
  BY <1>1, CollectorSound, PTL

\* The write barrier does its part: when the second pause has marked the roots, a marked
\* object with a white field is on a dirty card or on the mark stack.
THEOREM CardsCoverGray == Spec => []GrayOnDirtyCards
<1>1. ASSUME GCInv PROVE GrayOnDirtyCards
  <2>1. SUFFICES ASSUME phase = "trace", ctx.stack = <<>>, barrier = {}, NEW h, h = ReMarkRootSet(State),
                        NEW o \in h.mark, White(field[o], h)
                 PROVE  CardOf(o) \in dirty \/ o \in Elements(h.ctx.stack)
    BY DEF GrayOnDirtyCards, WorldStoppable
  <2>2. HeapTypes /\ TraceOK
    BY <1>1 DEF GCInv
  <2>3. PICK g \in States, W \in SUBSET Obj : g = State /\ W = Kept
    BY <2>2 DEF HeapTypes, Kept
  <2>4. Sound(g, W) /\ Covered(g, Guarded) /\ Past(g) /\ roots \subseteq W /\ g.field = field
    BY <2>1, <2>2, <2>3, GuardedCovers DEF TraceOK, Past, State
  <2>5. h \in Traced(g, W, Guarded)
    BY <2>1, <2>3, <2>4, RootsMarked
  <2>6. Covered(h, Guarded) /\ h.field = field /\ Past(h) /\ h \in States
    BY <2>4, <2>5 DEF Traced, Onward, SameHeap, SameWalk, Past
  <2>7. o \in Due(h) \cup Guarded
    BY <2>1, <2>6 DEF Covered, Gray
  <2>8. QED
    BY <2>1, <2>6, <2>7, PastDue DEF Guarded
<1>2. QED
  BY <1>1, CollectorSound, PTL

\* A pause clears no Reference and no weak global to an object that is strongly held.
THEOREM OnlyUnreachableCleared == Spec => ClearsUnreachable
<1>1. GCInv /\ [Next]_vars =>
        [phase' = "sweep" /\ phase # "sweep" =>
          /\ \A r \in Obj : referent[r] \in StronglyReachable => referent'[r] = referent[r]
          /\ weak \in StronglyReachable => weak' = weak]_vars
  BY GCStep DEF ClearsOnlyUnreachable
<1>2. QED
  BY <1>1, CollectorSound, PTL DEF Spec, ClearsUnreachable

\* Garbage does not float twice: outside the zygote's heap, what nothing led to when a
\* collection started is free when its sweep is over.
THEOREM GarbageDoesNotFloatTwice == Spec => []GarbageIsFreed
<1>1. GCInv => GarbageIsFreed
  BY SweepIsOver DEF GarbageIsFreed
<1>2. QED
  BY <1>1, CollectorSound, PTL
=============================================================================
