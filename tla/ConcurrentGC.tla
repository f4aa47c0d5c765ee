---------------------------- MODULE ConcurrentGC ----------------------------
(***************************************************************************)
(* The mark and sweep collector of vm/alloc: root marking, the bitmap walk *)
(* behind a finger, the mark stack, the card table that covers what the    *)
(* mutators do meanwhile, the second pause with its reference processing,  *)
(* the swap of the bitmaps and the concurrent sweep.                       *)
(*                                                                         *)
(* Addresses are 1..N.  An object has one strong field, and a Reference a  *)
(* referent besides; the field of a FinalizerReference is its zombie.      *)
(* `roots' is everything dvmVisitRoots reaches: stacks, local and global   *)
(* JNI references, literals.  A pause is one step: the world is stopped    *)
(* (ThreadSuspend models how), so no mutator can interleave with it.       *)
(* Addresses up to zygote were allocated before the zygote forked: they    *)
(* are immune in a partial collection and never given back.                *)
(***************************************************************************)
EXTENDS Integers, FiniteSets, Sequences

CONSTANTS N,          \* number of object addresses
          WordBits,   \* objects per bitmap word
          CardBits,   \* objects per card
          Shapes      \* heaps to try: the classes of the objects at the
                      \* addresses, and how many of them the zygote allocated

Obj  == 1..N
None == 0
References == {"soft", "weak", "final", "phantom"}

ASSUME HeapAssumption ==
  /\ N \in Nat \ {0}
  /\ WordBits \in Nat \ {0} /\ CardBits \in Nat \ {0}
  /\ \A shape \in Shapes : /\ shape.kind \in [Obj -> References \cup {"data"}]
                           /\ shape.zygote \in 0..N

VARIABLES
  kind,       \* class of the object an address holds, fixed for a behaviour
  zygote,     \* addresses 1..zygote belong to the zygote's heap, fixed too
  chunk,      \* addresses mspace_calloc has given out
  field,      \* the strong field of each object
  referent,   \* Reference.referent
  roots,      \* root references
  weak,       \* the one entry of the weak JNI global table, or None
  barrier,    \* objects stored into whose card is not marked yet
  live, mark, \* the two heap bitmaps
  dirty,      \* cards dirtied since the table was cleared
  phase,      \* where the collection is between its steps
  spec,       \* the GcSpec of the running collection
  ctx,        \* GcMarkContext, the reference lists and the sweep
  condemned   \* history: what nothing led to when the collection started

fixed == <<kind, zygote>>
heap == <<fixed, chunk, field, referent>>
mutators == <<roots, weak, barrier>>
vars == <<heap, mutators, live, mark, dirty, phase, spec, ctx, condemned>>

IsReference(o) == kind[o] \in References

GC_FOR_MALLOC == [isPartial |-> TRUE,  isConcurrent |-> FALSE, doPreserve |-> TRUE]
GC_CONCURRENT == [isPartial |-> TRUE,  isConcurrent |-> TRUE,  doPreserve |-> TRUE]
GC_EXPLICIT   == [isPartial |-> FALSE, isConcurrent |-> TRUE,  doPreserve |-> TRUE]
GC_BEFORE_OOM == [isPartial |-> FALSE, isConcurrent |-> FALSE, doPreserve |-> FALSE]

\* finger 0 is NULL and N + 1 is ULONG_MAX.  word: marked objects of the
\* bitmap word the walk has read and not visited.  pending: the four lists of
\* references, in the order of discovery.
EmptyContext == [finger |-> 0, word |-> {}, stack |-> <<>>,
                 pending |-> [k \in References |-> <<>>], cleared |-> {}, sweep |-> 0, garbage |-> {}]

WordOf(o) == (o - 1) \div WordBits
CardOf(o) == (o - 1) \div CardBits
Word(w) == {o \in Obj : WordOf(o) = w}
Words == {WordOf(o) : o \in Obj}
MinOf(S) == CHOOSE x \in S : \A y \in S : x <= y
Elements(s) == {s[i] : i \in DOMAIN s}

\* A loop: x after turns 1 to n.
Loop(Turn(_, _), n, x) ==
  LET After[i \in 0..n] == IF i = 0 THEN x ELSE Turn(After[i - 1], i) IN After[n]

\* A walk over S in address order.
ForEach(S, Visit(_, _), x) == Loop(LAMBDA y, o : IF o \in S THEN Visit(y, o) ELSE y, N, x)

-----------------------------------------------------------------------------
(* Reachability, used by the properties and by the history variable.       *)

\* The least set that has S and, with an object, what it leads to.
Reach(S, leads) ==
  {o \in Obj : \A C \in SUBSET Obj :
                 S \subseteq C /\ (\A p \in C : leads[p] \subseteq C) => o \in C}

StronglyReachable == Reach(roots, [o \in Obj |-> {field[o]} \ {None}])
ObtainableFrom(S) ==
  Reach(S \cup ({weak} \ {None}), [o \in Obj |-> {field[o], referent[o]} \ {None}])
Obtainable == ObtainableFrom(roots)

-----------------------------------------------------------------------------
(* Marking.  g is a record of what the collector changes: the mark bits,   *)
(* fields and referents, and the context.                                  *)

State == [mark |-> mark, field |-> field, referent |-> referent, ctx |-> ctx]
Become(g) == mark' = g.mark /\ field' = g.field /\ referent' = g.referent /\ ctx' = g.ctx

Immune(s) == IF s.isPartial THEN 1..zygote ELSE {}
\* Immune objects have their bits copied from the live bitmap.
White(v, g) == v # None /\ v \notin g.mark

\* Mutant of MarkObject: an object behind the finger is not pushed.
MarkObjectOnly(g, v) == IF White(v, g) THEN [g EXCEPT !.mark = @ \cup {v}] ELSE g

\* markObjectNonNull: below the finger only the mark stack will find it again.
MarkObject(g, v) ==
  IF ~White(v, g) THEN g
  ELSE [g EXCEPT !.mark = @ \cup {v},
                 !.ctx.stack = IF v < g.ctx.finger THEN Append(@, v) ELSE @]

\* pendingNext is set exactly while a reference is in one of the lists.
IsPending(o, g) == o \in Elements(g.ctx.pending[kind[o]]) \/ o \in g.ctx.cleared

\* delayReferenceReferent
DelayReferent(g, o) ==
  IF IsReference(o) /\ ~IsPending(o, g) /\ White(g.referent[o], g)
  THEN [g EXCEPT !.ctx.pending[kind[o]] = Append(@, o)]
  ELSE g

ScanObject(g, o) == DelayReferent(MarkObject(g, g.field[o]), o)

\* One turn of processMarkStack.
PopAndScan(g) ==
  LET s == g.ctx.stack IN
  IF s = <<>> THEN g
  ELSE ScanObject([g EXCEPT !.ctx.stack = SubSeq(s, 1, Len(s) - 1)], s[Len(s)])

\* An object is pushed at most once in a collection.
ProcessMarkStack(g) == Loop(LAMBDA h, i : PopAndScan(h), N, g)

\* One turn of dvmHeapBitmapScanWalk.  A word is read once and the finger set
\* past it; the objects it had then are visited in address order.
Ahead(g) == {o \in g.mark : o >= g.ctx.finger}
WalkDone(g) == g.ctx.word = {} /\ Ahead(g) = {}
WalkAndScan(g) ==
  LET w == WordOf(MinOf(Ahead(g)))
      h == IF g.ctx.word # {} THEN g
           ELSE [g EXCEPT !.ctx.word = Ahead(g) \cap Word(w), !.ctx.finger = (w + 1) * WordBits + 1]
      o == MinOf(h.ctx.word)
  IN IF WalkDone(g) THEN g
     ELSE ScanObject([h EXCEPT !.ctx.word = @ \ {o}], o)

EndWalk(g) == [g EXCEPT !.ctx.finger = N + 1]

\* dvmHeapScanMarkedObjects
ScanMarkedObjects(g) == ProcessMarkStack(EndWalk(Loop(LAMBDA h, i : WalkAndScan(h), N, g)))

\* dvmHeapReMarkRootSet: marks and, the finger being past the heap, pushes.
ReMarkRootSet(g) == ForEach(roots, MarkObject, g)

\* scanGrayObjects: every marked object on a dirty card, in address order;
\* what is marked on the way is on the stack.
ScanGrayObjects(g) == ForEach({o \in g.mark : CardOf(o) \in dirty}, ScanObject, g)

-----------------------------------------------------------------------------
(* References.                                                             *)

\* preserveSomeSoftReferences: of the white referents every other one, from
\* the first, is marked; the list keeps the references to the rest.
PreserveSoft(acc, r) ==
  LET v == acc.g.referent[r] IN
  IF ~White(v, acc.g) THEN acc
  ELSE IF acc.counter % 2 = 0
  THEN [acc EXCEPT !.counter = @ + 1, !.g = MarkObject(@, v)]
  ELSE [acc EXCEPT !.counter = @ + 1, !.clear = Append(@, r)]

PreserveSomeSoftReferences(g) ==
  LET soft == g.ctx.pending["soft"]
      done == Loop(LAMBDA acc, i : PreserveSoft(acc, soft[i]), Len(soft),
                   [g |-> g, counter |-> 0, clear |-> <<>>])
  IN ProcessMarkStack([done.g EXCEPT !.ctx.pending["soft"] = done.clear])

\* clearWhiteReferences, for the lists of some classes
ClearWhiteReferences(g, kinds) ==
  LET white == {r \in UNION {Elements(g.ctx.pending[k]) : k \in kinds} : White(g.referent[r], g)}
  IN [g EXCEPT !.referent = [r \in Obj |-> IF r \in white THEN None ELSE @[r]],
               !.ctx.pending = [k \in References |-> IF k \in kinds THEN <<>> ELSE @[k]],
               !.ctx.cleared = @ \cup white]

\* enqueueFinalizerReferences: a white referent is marked and made a zombie.
EnqueueFinal(g, r) ==
  LET v == g.referent[r] IN
  IF ~White(v, g) THEN g
  ELSE [MarkObject(g, v) EXCEPT
          !.field[r] = v, !.referent[r] = None, !.ctx.cleared = @ \cup {r}]

EnqueueFinalizerReferences(g) ==
  LET final == g.ctx.pending["final"]
      done  == Loop(LAMBDA h, i : EnqueueFinal(h, final[i]), Len(final), g)
  IN ProcessMarkStack([done EXCEPT !.ctx.pending["final"] = <<>>])

\* Mutant of ClearFReachable: soft and weak references are not cleared again.
ClearPhantomsOnly(g) == ClearWhiteReferences(g, {"phantom"})

\* What only finalization could reach is cleared in a second round.
ClearFReachable(g) ==
  ClearWhiteReferences(ClearWhiteReferences(g, {"soft", "weak"}), {"phantom"})

\* dvmHeapProcessReferences
ProcessReferences(g, s) ==
  LET kept == IF s.doPreserve THEN PreserveSomeSoftReferences(g) ELSE g
  IN ClearFReachable(EnqueueFinalizerReferences(ClearWhiteReferences(kept, {"soft", "weak"})))

-----------------------------------------------------------------------------
(* The mutators.                                                           *)

\* dvmMalloc by a running thread; only the live bit is set.
New(o) ==
  /\ o \notin chunk /\ o > zygote
  /\ chunk' = chunk \cup {o} /\ live' = live \cup {o}
  /\ roots' = roots \cup {o}
  /\ \E r \in IF IsReference(o) THEN roots ELSE {None} :
       referent' = [referent EXCEPT ![o] = r]
  /\ UNCHANGED <<fixed, field, weak, barrier, mark, dirty, phase, spec, ctx, condemned>>

\* A thread loads a field, calls Reference.get(), or makes a local reference
\* of a weak global one.  A PhantomReference never shows its referent.
Load(v) ==
  /\ v \notin roots
  /\ \/ v = weak
     \/ \E o \in roots : v = field[o] \/ (kind[o] \in {"soft", "weak"} /\ v = referent[o])
  /\ roots' = roots \cup {v}
  /\ UNCHANGED <<heap, weak, barrier, live, mark, dirty, phase, spec, ctx, condemned>>

\* The static list in FinalizerReference holds a reference until it has been
\* enqueued, that is, while its referent is set.
Drop(o) ==
  /\ o \in roots
  /\ ~(kind[o] = "final" /\ referent[o] # None)
  /\ roots' = roots \ {o}
  /\ UNCHANGED <<heap, weak, barrier, live, mark, dirty, phase, spec, ctx, condemned>>

\* dvmSetFieldObject: the store, and then the card.  Nothing is due after
\* NULL.  One thread is between the two at a time.
Store(o, v) ==
  /\ o \in roots /\ v \in roots \cup {None} /\ field[o] # v
  /\ kind[o] # "final" \/ v = None
  /\ barrier = {}
  /\ field' = [field EXCEPT ![o] = v]
  /\ barrier' = IF v = None THEN {} ELSE {o}
  /\ UNCHANGED <<fixed, chunk, referent, roots, weak, live, mark, dirty, phase, spec, ctx, condemned>>

\* Mutant of CardsToMark: the card of the value is marked, not of the object.
CardsOfValue(o) == {CardOf(field[o])}
\* dvmMarkCard.  Only a trace reads the table, and it begins by clearing it:
\* what is dirtied at other times is left out.
CardsToMark(o) == {CardOf(o)}

MarkCard(o) ==
  /\ o \in barrier
  /\ dirty' = IF phase \in {"walk", "trace"} THEN dirty \cup CardsToMark(o) ELSE dirty
  /\ barrier' = barrier \ {o}
  /\ UNCHANGED <<heap, roots, weak, live, mark, phase, spec, ctx, condemned>>

\* Reference.clear()
Clear(o) ==
  /\ o \in roots /\ kind[o] \in {"soft", "weak", "phantom"} /\ referent[o] # None
  /\ referent' = [referent EXCEPT ![o] = None]
  /\ UNCHANGED <<fixed, chunk, field, mutators, live, mark, dirty, phase, spec, ctx, condemned>>

\* NewWeakGlobalRef.  To bound the state space, in heaps without References.
NewWeakGlobal(o) ==
  /\ o \in roots /\ weak = None /\ ~\E r \in Obj : IsReference(r)
  /\ weak' = o
  /\ UNCHANGED <<heap, roots, barrier, live, mark, dirty, phase, spec, ctx, condemned>>

-----------------------------------------------------------------------------
(* The steps of a collection.                                              *)

\* A thread that has stored and not marked the card has no safe point in
\* between: suspend-all waits for it.
WorldStoppable == barrier = {}

\* dvmMarkImmuneObjects copies the live bits of the zygote's heap, then
\* dvmHeapMarkRootSet marks the roots without pushing them.
MarkRootSet(s) ==
  [State EXCEPT !.mark = ((@ \ Immune(s)) \cup (live \cap Immune(s))) \cup roots,
                !.ctx = EmptyContext]

\* The first pause of a concurrent collection.
Begin(s) ==
  /\ phase = "idle" /\ WorldStoppable
  /\ phase' = "walk" /\ spec' = s
  /\ Become(MarkRootSet(s))
  /\ dirty' = {}
  /\ condemned' = chunk \ ObtainableFrom(roots \cup (live \cap Immune(s)))
  /\ UNCHANGED <<fixed, chunk, mutators, live>>

WalkBitmap ==
  /\ phase = "walk"
  /\ IF WalkDone(State) THEN phase' = "trace" /\ Become(EndWalk(State))
     ELSE phase' = phase /\ Become(WalkAndScan(State))
  /\ UNCHANGED <<fixed, chunk, mutators, live, dirty, spec, condemned>>

PopMarkStack ==
  /\ phase = "trace" /\ ctx.stack # <<>>
  /\ Become(PopAndScan(State))
  /\ UNCHANGED <<fixed, chunk, mutators, live, dirty, phase, spec, condemned>>

\* From the processing of references to the swap of the bitmaps, for marks g:
\* sweepWeakJniGlobals is the part of dvmHeapSweepSystemWeaks that shows here.
ProcessAndSwap(g) ==
  LET done == ProcessReferences(g, spec') IN
  /\ field' = done.field /\ referent' = done.referent /\ ctx' = done.ctx
  /\ weak' = IF White(weak, done) THEN None ELSE weak
  /\ live' = done.mark /\ mark' = live
  /\ phase' = "sweep"

\* The second pause.
ReMark ==
  /\ phase = "trace" /\ ctx.stack = <<>> /\ WorldStoppable
  /\ spec' = spec
  /\ ProcessAndSwap(ProcessMarkStack(ScanGrayObjects(ReMarkRootSet(State))))
  /\ dirty' = {}
  /\ UNCHANGED <<fixed, chunk, roots, barrier, condemned>>

\* A collection that is not concurrent has one pause.
MarkStopped(s) ==
  /\ phase = "idle" /\ WorldStoppable
  /\ spec' = s
  /\ ProcessAndSwap(ScanMarkedObjects(MarkRootSet(s)))
  /\ condemned' = chunk \ ObtainableFrom(roots \cup (live \cap Immune(s)))
  /\ UNCHANGED <<fixed, chunk, roots, barrier, dirty>>

\* dvmHeapBitmapSweepWalk, one word, without a lock: mark is by now the old
\* live bitmap and live the new one.
SweepWord ==
  /\ phase = "sweep" /\ ctx.sweep \in Words
  /\ ctx' = [ctx EXCEPT !.sweep = @ + 1,
                        !.garbage = @ \cup ((Word(ctx.sweep) \cap mark) \ (live \cup Immune(spec)))]
  /\ UNCHANGED <<heap, mutators, live, mark, dirty, phase, spec, condemned>>

\* sweepBitmapCallback under the heap lock.  Objects of the zygote's heap
\* only lose their live bit.
FreeList ==
  /\ phase = "sweep" /\ ctx.garbage # {}
  /\ chunk' = chunk \ {o \in ctx.garbage : o > zygote}
  /\ live' = live \ ctx.garbage
  /\ field' = [o \in Obj |-> IF o \in ctx.garbage THEN None ELSE field[o]]
  /\ referent' = [o \in Obj |-> IF o \in ctx.garbage THEN None ELSE referent[o]]
  /\ ctx' = [ctx EXCEPT !.garbage = {}]
  /\ condemned' = condemned \ ctx.garbage
  /\ UNCHANGED <<fixed, mutators, mark, dirty, phase, spec>>

\* Mutant of FinishMarkStep: the next collection takes the bits for marks.
FinishMarkStepKeeping == mark
\* dvmHeapFinishMarkStep zeroes the bitmap.
FinishMarkStep == {}

\* ReferenceQueue.add holds the cleared references from then on.
Finish ==
  /\ phase = "sweep" /\ ctx.sweep \notin Words /\ ctx.garbage = {}
  /\ phase' = "idle"
  /\ mark' = FinishMarkStep
  /\ roots' = roots \cup ctx.cleared
  /\ ctx' = EmptyContext /\ condemned' = {}
  /\ UNCHANGED <<heap, weak, barrier, live, dirty, spec>>

-----------------------------------------------------------------------------
Init ==
  /\ \E shape \in Shapes : kind = shape.kind /\ zygote = shape.zygote
  /\ chunk = 1..zygote /\ live = 1..zygote /\ roots = 1..zygote
  /\ field = [o \in Obj |-> None] /\ referent = [o \in Obj |-> None]
  /\ weak = None /\ barrier = {} /\ mark = {} /\ dirty = {}
  /\ phase = "idle" /\ spec = GC_FOR_MALLOC /\ ctx = EmptyContext /\ condemned = {}

Collect == \/ \E s \in {GC_CONCURRENT, GC_EXPLICIT} : Begin(s)
           \/ \E s \in {GC_FOR_MALLOC, GC_BEFORE_OOM} : MarkStopped(s)
           \/ WalkBitmap \/ PopMarkStack \/ ReMark
           \/ SweepWord \/ FreeList \/ Finish

\* The world stays stopped while a collection that is not concurrent sweeps.
Running == phase = "sweep" => spec.isConcurrent

Mutate == /\ Running
          /\ \/ \E o \in Obj : \/ New(o) \/ Load(o) \/ Drop(o)
                               \/ MarkCard(o) \/ Clear(o) \/ NewWeakGlobal(o)
             \/ \E o \in Obj, v \in Obj \cup {None} : Store(o, v)

Next == Collect \/ Mutate
Spec == Init /\ [][Next]_vars

-----------------------------------------------------------------------------
(* Properties.                                                             *)

\* Whatever the program can still get hold of, through fields, get() or weak
\* globals, is allocated and has its live bit: the collector frees nothing
\* in use, and leaves no reference to what it frees.
NoDangling == Obtainable \subseteq chunk \cap live

\* What dvmVerifyCardTable checks when the second pause has marked the roots:
\* a marked object with a white field is on a dirty card or on the stack.
GrayOnDirtyCards ==
  phase = "trace" /\ ctx.stack = <<>> /\ WorldStoppable =>
    LET g == ReMarkRootSet(State) IN
    \A o \in g.mark : White(field[o], g) =>
      CardOf(o) \in dirty \/ o \in Elements(g.ctx.stack)

\* A pause clears no reference, and no weak global, to an object the program
\* holds strongly at that moment.
ClearsUnreachable ==
  [][ phase' = "sweep" /\ phase # "sweep" =>
      /\ \A r \in Obj : referent[r] \in StronglyReachable => referent'[r] = referent[r]
      /\ weak \in StronglyReachable => weak' = weak ]_vars

\* What nothing led to when the collection started is free when it ends,
\* except in the zygote's heap: garbage does not float twice.
GarbageIsFreed ==
  phase = "sweep" /\ ctx.sweep \notin Words /\ ctx.garbage = {} => condemned \subseteq 1..zygote
=============================================================================
