---------------------------- MODULE ClassLoading_proofs ----------------------------
(***************************************************************************)
(* Proofs about the loading and initialisation of classes in               *)
(* vm/oo/Class.cpp and vm/oo/Resolve.cpp, for any threads, names and       *)
(* programs: a <clinit> runs once, and nobody uses a class before it is    *)
(* initialised but the thread that initialises it.                         *)
(*                                                                         *)
(* Both speak of classes that are in the middle of something, and who has  *)
(* them in his hands is an activation somewhere in the stack of a thread.  *)
(* So the invariant speaks of all activations, and a step is taken apart   *)
(* into what it does to the stack (move, push or pop one activation) and   *)
(* what it does to the classes (nothing, or to the one on top).            *)
(***************************************************************************)
EXTENDS ClassLoading, SequenceTheorems, TLAPS

-----------------------------------------------------------------------------
(* The inductive invariant.                                                *)

Statuses == {"free", "loaded", "resolved", "verified", "initializing", "initialized", "error"}
Points ==
  {"lookup", "load", "winner", "link", "linkSuper", "linkNoSuper", "got", "check",
   "lock", "parked", "examine", "wait", "super", "superDone", "clinit", "run", "used", "notify",
   "start", "found", "cache", "initDone", "use"}
Frames == [fn : {"find", "init", "use"}, d : Names \cup {NoName}, o : ClassObject \cup {None},
           pc : Points, res : ClassObject \cup {None}, i : Nat]

TypeInv ==
  /\ program \in Programs
  /\ table \in [Names -> ClassObject \cup {None}]
  /\ resolved \in [Names -> ClassObject \cup {None}]
  /\ name \in [ClassObject -> Names \cup {NoName}]
  /\ super \in [ClassObject -> ClassObject \cup {None}]
  /\ status \in [ClassObject -> Statuses]
  /\ initThreadId \in [ClassObject -> Threads \cup {Nobody}]
  /\ runs \in [Names -> {0, 1}]
  /\ stack \in [Threads -> Seq(Frames)]

\* A name is bound to the one ClassObject of that name that is alive; it may stay
\* bound to one whose initialisation failed.
TableInv ==
  /\ \A d \in Names :
       table[d] # None => name[table[d]] = d /\ status[table[d]] # "free"
  /\ \A o \in ClassObject :
       status[o] \notin {"free", "error"} => name[o] \in Names /\ table[name[o]] = o

\* <clinit> has been begun only for a class that is still bound to its name, so
\* that nobody will load the name again.
RunsInv ==
  \A d \in Names :
    runs[d] = 1 => /\ table[d] # None
                   /\ status[table[d]] \in {"initializing", "initialized", "error"}

ResolvedInv == \A d \in Names : resolved[d] # None => status[resolved[d]] = "initialized"

ClassInv == TypeInv /\ TableInv /\ RunsInv /\ ResolvedInv

\* An activation that links its class, and one that initialises it: the class
\* is in its hands.  Early: its <clinit> is still to be run.
Links(f) == f.fn = "find" /\ f.pc \in {"link", "linkSuper", "linkNoSuper"}
Owns(f)  == f.fn = "init" /\ f.pc \in {"super", "superDone", "clinit", "run", "used"}
Early(f) == f.pc \in {"super", "superDone", "clinit"}
Holds(f) == Links(f) \/ Owns(f)

NeedsClass(f) ==
  \/ f.fn = "find" /\ f.pc \in {"link", "linkSuper", "linkNoSuper", "got", "lock", "parked", "check"}
  \/ f.fn = "init"
  \/ f.fn = "use" /\ f.pc \in {"cache", "initDone", "use"}

FrameOK(t, f) ==
  /\ f.fn # "init" => f.d \in Names
  /\ NeedsClass(f) => f.o \in ClassObject \/ aborted
  /\ Links(f) => status[f.o] = "loaded" /\ initThreadId[f.o] = t
  /\ Owns(f)  => /\ status[f.o] = "initializing" /\ initThreadId[f.o] = t
                 /\ Early(f) => runs[name[f.o]] = 0

\* What an activation may rely on to find class o initialised: it is, or an
\* activation further out is initialising it.
OwnsIn(s, k, o) == \E j \in 1..k : Owns(s[j]) /\ s[j].o = o
Ready(t, k, o)  == o \in ClassObject /\ (status[o] = "initialized" \/ OwnsIn(stack[t], k, o))

NeedsSuper(f) == f.fn = "init" /\ f.pc \in {"clinit", "run", "used"} /\ super[f.o] # None
NeedsField(f) == f.fn = "use" /\ f.pc \in {"cache", "use"}
NeedsMet(t, k) ==
  /\ NeedsSuper(stack[t][k]) => Ready(t, k, super[stack[t][k].o])
  /\ NeedsField(stack[t][k]) => Ready(t, k, stack[t][k].o)

\* The activation above one that waits for a class to be initialised is the
\* initialisation of that class; what it has returned is the class made ready.
AwaitsSuper(f) == f.fn = "init" /\ f.pc = "superDone"
AwaitsField(f) == f.fn = "use" /\ f.pc = "initDone"
CallOK(f, g) ==
  /\ AwaitsSuper(f) => g.fn = "init" /\ g.o = super[f.o]
  /\ AwaitsField(f) => g.fn = "init" /\ g.o = f.o
Returned(t) ==
  stack[t] # <<>> /\ Top(t).res # None =>
    /\ AwaitsSuper(Top(t)) => Ready(t, Depth(t), super[Top(t).o])
    /\ AwaitsField(Top(t)) => Ready(t, Depth(t), Top(t).o)

\* No class is in the hands of two activations of a thread.
OneHolder(s) ==
  \A j, k \in 1..Len(s) : Holds(s[j]) /\ Holds(s[k]) /\ s[j].o = s[k].o => j = k

StackOK(t) ==
  /\ \A k \in 1..Depth(t) : FrameOK(t, stack[t][k]) /\ NeedsMet(t, k)
  /\ \A k \in 1..(Depth(t) - 1) : CallOK(stack[t][k], stack[t][k + 1])
  /\ Returned(t)
  /\ OneHolder(stack[t])

\* A class that is being initialised is so by an activation of initThreadId.
OwnerInv ==
  \A o \in ClassObject :
    status[o] = "initializing" =>
      /\ initThreadId[o] \in Threads
      /\ OwnsIn(stack[initThreadId[o]], Depth(initThreadId[o]), o)

LoadingInv == ClassInv /\ OwnerInv /\ \A t \in Threads : StackOK(t)

-----------------------------------------------------------------------------
(* What a step does to the stack of its thread.                            *)

Others(t) == \A u \in Threads \ {t} : stack'[u] = stack[u]

Moved(t, f) ==
  /\ stack' \in [Threads -> Seq(Frames)] /\ Others(t)
  /\ Len(stack'[t]) = Depth(t)
  /\ \A k \in 1..(Depth(t) - 1) : stack'[t][k] = stack[t][k]
  /\ stack'[t][Depth(t)] = f

Pushed(t, f, g) ==
  /\ stack' \in [Threads -> Seq(Frames)] /\ Others(t)
  /\ Len(stack'[t]) = Depth(t) + 1
  /\ \A k \in 1..(Depth(t) - 1) : stack'[t][k] = stack[t][k]
  /\ stack'[t][Depth(t)] = f /\ stack'[t][Depth(t) + 1] = g

Popped(t, res) ==
  /\ stack' \in [Threads -> Seq(Frames)] /\ Others(t)
  /\ Len(stack'[t]) = Depth(t) - 1
  /\ \A k \in 1..(Depth(t) - 2) : stack'[t][k] = stack[t][k]
  /\ Depth(t) > 1 => stack'[t][Depth(t) - 1] = [stack[t][Depth(t) - 1] EXCEPT !.res = res]

LEMMA StackFacts ==
  ASSUME TypeInv, NEW t \in Threads
  PROVE  /\ stack[t] \in Seq(Frames) /\ Depth(t) \in Nat
         /\ stack[t] # <<>> <=> Depth(t) > 0
         /\ \A k \in 1..Depth(t) : stack[t][k] \in Frames
         /\ stack[t] # <<>> => Depth(t) \in 1..Depth(t) /\ Top(t) \in Frames
<1>1. stack[t] \in Seq(Frames)
  BY DEF TypeInv
<1>2. Depth(t) \in Nat /\ (stack[t] # <<>> <=> Depth(t) > 0)
  BY <1>1, EmptySeq, LenProperties DEF Depth
<1>3. \A k \in 1..Depth(t) : stack[t][k] \in Frames
  BY <1>1, ElementOfSeq DEF Depth
<1>4. QED
  BY <1>1, <1>2, <1>3 DEF Top

LEMMA ReplaceTop ==
  ASSUME TypeInv, NEW t \in Threads, stack[t] # <<>>, NEW f \in Frames,
         stack' = [stack EXCEPT ![t] = [stack[t] EXCEPT ![Depth(t)] = f]]
  PROVE  Moved(t, f)
<1> DEFINE s == stack[t]
           n == Depth(t)
           r == [s EXCEPT ![n] = f]
<1>1. s \in Seq(Frames) /\ n \in 1..Len(s) /\ n = Len(s)
  BY StackFacts DEF Depth
<1>2. /\ r \in Seq(Frames) /\ Len(r) = n /\ r[n] = f
      /\ \A k \in 1..(n - 1) : r[k] = s[k]
  BY <1>1, ExceptSeq
<1>3. stack'[t] = r /\ Others(t) /\ stack' \in [Threads -> Seq(Frames)]
  BY <1>2 DEF Others, TypeInv
<1>4. QED
  BY <1>2, <1>3 DEF Moved

LEMMA GotoEffect ==
  ASSUME TypeInv, NEW t \in Threads, stack[t] # <<>>, NEW pc \in Points, Goto(t, pc)
  PROVE  Moved(t, [Top(t) EXCEPT !.pc = pc])
<1>1. [Top(t) EXCEPT !.pc = pc] \in Frames
  BY StackFacts DEF Frames
<1>2. stack' = [stack EXCEPT ![t] = [stack[t] EXCEPT ![Depth(t)] = [Top(t) EXCEPT !.pc = pc]]]
  BY StackFacts DEF Goto, Top, TypeInv
<1>3. QED
  BY <1>1, <1>2, ReplaceTop

LEMMA GotoWithEffect ==
  ASSUME TypeInv, NEW t \in Threads, stack[t] # <<>>, NEW pc \in Points,
         NEW o \in ClassObject \cup {None}, GotoWith(t, o, pc)
  PROVE  Moved(t, [Top(t) EXCEPT !.pc = pc, !.o = o])
<1>1. [Top(t) EXCEPT !.pc = pc, !.o = o] \in Frames
  BY StackFacts DEF Frames
<1>2. stack' = [stack EXCEPT ![t] = [stack[t] EXCEPT ![Depth(t)] = [Top(t) EXCEPT !.pc = pc, !.o = o]]]
  BY StackFacts DEF GotoWith, Top, TypeInv
<1>3. QED
  BY <1>1, <1>2, ReplaceTop

LEMMA CallEffect ==
  ASSUME TypeInv, NEW t \in Threads, stack[t] # <<>>, NEW f \in Frames, NEW g \in Frames,
         CallFrom(t, f, g)
  PROVE  Pushed(t, f, g)
<1> DEFINE s == stack[t]
           n == Depth(t)
           q == [s EXCEPT ![n] = f]
           r == Append(q, g)
<1>1. s \in Seq(Frames) /\ n \in 1..Len(s) /\ n = Len(s)
  BY StackFacts DEF Depth
<1>2. /\ q \in Seq(Frames) /\ Len(q) = n /\ q[n] = f
      /\ \A k \in 1..(n - 1) : q[k] = s[k]
  BY <1>1, ExceptSeq
<1>3. stack' = [stack EXCEPT ![t] = r]
  BY DEF CallFrom, TypeInv
<1> HIDE DEF q
<1>4. /\ r \in Seq(Frames) /\ Len(r) = n + 1 /\ r[n + 1] = g
      /\ \A k \in 1..n : r[k] = q[k]
  BY <1>2, AppendProperties
<1> HIDE DEF r
<1>5. stack'[t] = r /\ Others(t) /\ stack' \in [Threads -> Seq(Frames)]
  BY <1>3, <1>4 DEF Others, TypeInv
<1>6. r[n] = f /\ \A k \in 1..(n - 1) : r[k] = s[k]
  BY <1>1, <1>2, <1>4
<1>7. QED
  BY <1>4, <1>5, <1>6 DEF Pushed

LEMMA ReturnEffect ==
  ASSUME TypeInv, NEW t \in Threads, stack[t] # <<>>, NEW res \in ClassObject \cup {None},
         Return(t, res)
  PROVE  Popped(t, res)
<1> DEFINE s == stack[t]
           n == Depth(t)
           q == SubSeq(s, 1, n - 1)
           f == [s[n - 1] EXCEPT !.res = res]
           r == [q EXCEPT ![n - 1] = f]
<1>1. s \in Seq(Frames) /\ n \in 1..Len(s) /\ n = Len(s)
  BY StackFacts DEF Depth
<1>2. CASE n = 1
  <2>1. stack' = [stack EXCEPT ![t] = <<>>]
    BY <1>2 DEF Return
  <2>2. stack'[t] = <<>> /\ Others(t) /\ stack' \in [Threads -> Seq(Frames)]
    BY <2>1, EmptySeq DEF Others, TypeInv
  <2>3. QED
    BY <1>2, <2>2, EmptySeq DEF Popped
<1>3. CASE n # 1
  <2>0. n - 1 \in Int /\ n - 1 >= 1 /\ \A k \in 1..(n - 1) : s[k] \in Frames
    <3>1. n \in Nat /\ n >= 1 /\ \A k \in 1..n : s[k] \in Frames
      BY <1>1, StackFacts
    <3> HIDE DEF n, s
    <3>2. QED
      BY <1>3, <3>1
  <2>1. /\ q \in Seq(Frames) /\ Len(q) = n - 1 /\ n - 1 \in 1..Len(q)
        /\ \A k \in 1..(n - 1) : q[k] = s[k]
    <3> HIDE DEF s, n
    <3>1. /\ SubSeq(s, 1, n - 1) \in Seq(Frames)
          /\ Len(SubSeq(s, 1, n - 1)) = IF 1 <= n - 1 THEN n - 1 - 1 + 1 ELSE 0
          /\ \A i \in 1..(n - 1 - 1 + 1) : SubSeq(s, 1, n - 1)[i] = s[1 + i - 1]
      BY <2>0, SubSeqProperties
    <3>2. QED
      BY <2>0, <3>1
  <2>2. stack' = [stack EXCEPT ![t] = [q EXCEPT ![n - 1] = [q[n - 1] EXCEPT !.res = res]]]
    <3>1. stack' = [stack EXCEPT ![t] =
                      [SubSeq(@, 1, Depth(t) - 1) EXCEPT ![Depth(t) - 1].res = res]]
      BY <1>3 DEF Return
    <3>2. [SubSeq(stack[t], 1, Depth(t) - 1) EXCEPT ![Depth(t) - 1].res = res]
            = [q EXCEPT ![n - 1] = [q[n - 1] EXCEPT !.res = res]]
      BY <2>1
    <3>3. QED
      BY <3>1, <3>2 DEF TypeInv
  <2>3. stack' = [stack EXCEPT ![t] = r]
    BY <2>1, <2>2
  <2>4. s[n - 1] \in Frames
    BY <2>0
  <2>5. f \in Frames
    BY <2>4 DEF Frames
  <2> HIDE DEF q, f
  <2>6. /\ r \in Seq(Frames) /\ Len(r) = n - 1 /\ r[n - 1] = f
        /\ \A k \in 1..(n - 2) : r[k] = s[k]
    <3> HIDE DEF r, n, s
    <3>1. /\ r \in Seq(Frames) /\ Len(r) = n - 1
          /\ \A k \in 1..(n - 1) : r[k] = IF k = n - 1 THEN f ELSE q[k]
      BY <2>1, <2>5, ExceptSeq DEF r
    <3>2. QED
      BY <1>1, <2>0, <2>1, <3>1
  <2> HIDE DEF r
  <2>7. stack'[t] = r /\ Others(t) /\ stack' \in [Threads -> Seq(Frames)]
    BY <2>3, <2>6 DEF Others, TypeInv
  <2>8. QED
    BY <2>6, <2>7 DEF Popped, f
<1>4. QED
  BY <1>2, <1>3

-----------------------------------------------------------------------------
(* What is left alone stays as the invariant wants it.                     *)

FrameInv == OwnerInv /\ \A t \in Threads : StackOK(t)

\* Nothing happens to a class in the hands of any activation but t's innermost,
\* and no class stops to be initialised.
Undisturbed(t) ==
  /\ \A u \in Threads : \A k \in 1..Depth(u) :
       (u # t \/ k < Depth(t)) /\ Holds(stack[u][k]) =>
         /\ status'[stack[u][k].o] = status[stack[u][k].o]
         /\ initThreadId'[stack[u][k].o] = initThreadId[stack[u][k].o]
         /\ super'[stack[u][k].o] = super[stack[u][k].o]
         /\ Owns(stack[u][k]) => runs'[name'[stack[u][k].o]] = runs[name[stack[u][k].o]]
  /\ \A o \in ClassObject : status[o] = "initialized" => status'[o] = "initialized"

Alike(f, g) == f.fn = g.fn /\ f.pc = g.pc /\ f.d = g.d /\ f.o = g.o

Below(t) ==
  /\ Others(t)
  /\ Len(stack'[t]) \in Nat /\ Len(stack'[t]) >= Depth(t) - 1
  /\ \A k \in 1..(Depth(t) - 1) : Alike(stack'[t][k], stack[t][k])

LEMMA MovedBelow ==
  ASSUME TypeInv, NEW t \in Threads, stack[t] # <<>>, NEW f, Moved(t, f)
  PROVE  Below(t)
BY StackFacts DEF Moved, Below, Alike

LEMMA PushedBelow ==
  ASSUME TypeInv, NEW t \in Threads, stack[t] # <<>>, NEW f, NEW g, Pushed(t, f, g)
  PROVE  Below(t)
BY StackFacts DEF Pushed, Below, Alike

LEMMA PoppedBelow ==
  ASSUME TypeInv, NEW t \in Threads, stack[t] # <<>>, NEW res, Popped(t, res)
  PROVE  Below(t)
<1> DEFINE n == Depth(t)
<1>1. n \in Nat /\ n > 0 /\ \A k \in 1..n : stack[t][k] \in Frames
  BY StackFacts
<1>2. /\ Others(t) /\ Len(stack'[t]) = n - 1
      /\ \A k \in 1..(n - 2) : stack'[t][k] = stack[t][k]
      /\ n > 1 => stack'[t][n - 1] = [stack[t][n - 1] EXCEPT !.res = res]
  BY DEF Popped
<1> HIDE DEF n
<1>3. ASSUME NEW k \in 1..(n - 1) PROVE Alike(stack'[t][k], stack[t][k])
  <2>1. CASE k = n - 1
    <3>1. n > 1 /\ stack[t][k] \in Frames
      BY <1>1, <2>1
    <3>2. stack'[t][k] = [stack[t][k] EXCEPT !.res = res]
      BY <1>2, <2>1, <3>1
    <3>3. QED
      BY <3>1, <3>2 DEF Alike, Frames
  <2>2. CASE k # n - 1
    BY <1>1, <1>2, <2>2 DEF Alike
  <2>3. QED
    BY <2>1, <2>2
<1>4. QED
  BY <1>1, <1>2, <1>3 DEF Below, n

LEMMA AlikeFrames ==
  ASSUME NEW f, NEW g, Alike(f, g)
  PROVE  /\ Links(f) <=> Links(g)
         /\ Owns(f) <=> Owns(g)
         /\ Holds(f) <=> Holds(g)
         /\ Early(f) <=> Early(g)
         /\ NeedsClass(f) <=> NeedsClass(g)
         /\ NeedsField(f) <=> NeedsField(g)
         /\ AwaitsSuper(f) <=> AwaitsSuper(g)
         /\ AwaitsField(f) <=> AwaitsField(g)
BY DEF Alike, Links, Owns, Holds, Early, NeedsClass, NeedsField, AwaitsSuper, AwaitsField

\* An activation that needs its superclass, or waits for it, owns its own class.
LEMMA NeedyOwn ==
  ASSUME NEW f
  PROVE  /\ NeedsSuper(f) => Owns(f)
         /\ AwaitsSuper(f) => Owns(f)
         /\ Owns(f) => Holds(f)
         /\ Links(f) => Holds(f)
         /\ Owns(f) => NeedsClass(f)
         /\ Links(f) => NeedsClass(f)
         /\ AwaitsField(f) => NeedsClass(f)
         /\ NeedsField(f) => NeedsClass(f)
BY DEF NeedsSuper, AwaitsSuper, AwaitsField, NeedsField, Owns, Holds, Links, NeedsClass

LEMMA OwnsKept ==
  ASSUME NEW r, NEW s, NEW k \in Nat, NEW o,
         \A j \in 1..k : Alike(r[j], s[j]), OwnsIn(s, k, o)
  PROVE  OwnsIn(r, k, o)
<1>1. PICK j \in 1..k : Owns(s[j]) /\ s[j].o = o
  BY DEF OwnsIn
<1>2. Owns(r[j]) /\ r[j].o = o
  BY <1>1 DEF Alike, Owns
<1>3. QED
  BY <1>2 DEF OwnsIn

\* An activation below the top, or in another thread, keeps what it had.
LEMMA FrameKept ==
  ASSUME LoadingInv, ~aborted, NEW t \in Threads, Undisturbed(t),
         NEW u \in Threads, NEW k \in 1..Depth(u), u # t \/ k < Depth(t),
         \A j \in 1..k : Alike(stack'[u][j], stack[u][j])
  PROVE  FrameOK(u, stack[u][k])' /\ NeedsMet(u, k)'
<1> DEFINE f == stack[u][k]
<1>0. PICK g : g = stack'[u][k]
  OBVIOUS
<1>1. FrameOK(u, f) /\ NeedsMet(u, k) /\ Depth(u) \in Nat /\ k \in Nat
  BY StackFacts DEF LoadingInv, StackOK, ClassInv
<1>2. Alike(g, f)
  BY <1>0
<1>3. Holds(f) => /\ status'[f.o] = status[f.o] /\ initThreadId'[f.o] = initThreadId[f.o]
                  /\ super'[f.o] = super[f.o]
                  /\ Owns(f) => runs'[name'[f.o]] = runs[name[f.o]]
  BY DEF Undisturbed
<1>4. \A o \in ClassObject : status[o] = "initialized" => status'[o] = "initialized"
  BY DEF Undisturbed
<1>5. /\ g.fn # "init" => g.d \in Names
      /\ NeedsClass(g) => g.o \in ClassObject
      /\ Links(g) => status'[g.o] = "loaded" /\ initThreadId'[g.o] = u
      /\ Owns(g)  => /\ status'[g.o] = "initializing" /\ initThreadId'[g.o] = u
                     /\ Early(g) => runs'[name'[g.o]] = 0
  <2>1. f.fn = g.fn /\ f.d = g.d /\ f.o = g.o
    BY <1>2 DEF Alike
  <2>2. QED
    BY <1>1, <1>2, <1>3, <2>1, AlikeFrames, NeedyOwn DEF FrameOK
<1>6. ASSUME NEW o, Ready(u, k, o) PROVE Ready(u, k, o)'
  <2>1. CASE status[o] = "initialized"
    BY <1>4, <1>6, <2>1 DEF Ready
  <2>2. CASE OwnsIn(stack[u], k, o)
    BY <1>1, <1>6, <2>2, OwnsKept DEF Ready
  <2>3. QED
    BY <1>6, <2>1, <2>2 DEF Ready
<1>7. NeedsSuper(f) => super[f.o] \in ClassObject /\ Ready(u, k, super[f.o])
  <2>1. NeedsSuper(f) => f.o \in ClassObject /\ super[f.o] # None
    BY <1>1, NeedyOwn DEF FrameOK, NeedsSuper
  <2>2. QED
    BY <1>1, <2>1 DEF NeedsMet, LoadingInv, ClassInv, TypeInv
<1>8. NeedsSuper(g)' => NeedsSuper(f) /\ super'[g.o] = super[f.o]
  <2>1. g.fn = f.fn /\ g.pc = f.pc /\ g.o = f.o
    BY <1>2 DEF Alike
  <2>2. NeedsSuper(g)' => Owns(f)
    BY <2>1 DEF NeedsSuper, Owns
  <2>3. QED
    BY <1>3, <2>1, <2>2, NeedyOwn DEF NeedsSuper
<1>9. NeedsSuper(g)' => Ready(u, k, super[g.o])'
  <2>1. PICK s : s = super[f.o]
    OBVIOUS
  <2>2. NeedsSuper(g)' => Ready(u, k, s)' /\ super'[g.o] = s
    BY <1>6, <1>7, <1>8, <2>1
  <2>3. QED
    BY <2>2 DEF Ready
<1>10. NeedsField(g) => Ready(u, k, g.o)'
  <2>1. g.o = f.o /\ (NeedsField(g) => NeedsField(f))
    BY <1>2, AlikeFrames DEF Alike
  <2>2. NeedsField(f) => f.o \in ClassObject /\ Ready(u, k, f.o)
    BY <1>1, NeedyOwn DEF FrameOK, NeedsMet
  <2>3. QED
    BY <1>6, <2>1, <2>2
<1>11. QED
  BY <1>0, <1>5, <1>9, <1>10 DEF FrameOK, NeedsMet

LEMMA ReadyKept ==
  ASSUME LoadingInv, NEW t \in Threads, Undisturbed(t), NEW u \in Threads,
         NEW k \in Nat, NEW o, Ready(u, k, o),
         \A j \in 1..k : Alike(stack'[u][j], stack[u][j])
  PROVE  Ready(u, k, o)'
<1>1. CASE status[o] = "initialized"
  BY <1>1 DEF Ready, Undisturbed
<1>2. CASE OwnsIn(stack[u], k, o)
  BY <1>2, OwnsKept DEF Ready
<1>3. QED
  BY <1>1, <1>2 DEF Ready

\* The stacks of all other threads are as good as before.
LEMMA OtherStacks ==
  ASSUME LoadingInv, ~aborted, NEW t \in Threads, Undisturbed(t), Others(t),
         NEW u \in Threads \ {t}
  PROVE  StackOK(u)'
<1>1. stack'[u] = stack[u] /\ Depth(u)' = Depth(u) /\ Depth(u) \in Nat
  BY StackFacts DEF Others, Depth, LoadingInv, ClassInv
<1>2. StackOK(u)
  BY DEF LoadingInv
<1>3. ASSUME NEW k \in 1..Depth(u) PROVE FrameOK(u, stack[u][k])' /\ NeedsMet(u, k)'
  BY <1>1, FrameKept DEF Alike
<1>4. ASSUME NEW k \in 1..Depth(u), AwaitsSuper(stack[u][k])
      PROVE  super'[stack[u][k].o] = super[stack[u][k].o]
  BY <1>4, NeedyOwn DEF Undisturbed
<1>5. ASSUME NEW k \in 1..(Depth(u) - 1) PROVE CallOK(stack[u][k], stack[u][k + 1])'
  <2>1. k \in 1..Depth(u) /\ CallOK(stack[u][k], stack[u][k + 1])
    BY <1>1, <1>2 DEF StackOK
  <2>2. QED
    BY <1>1, <1>4, <2>1 DEF CallOK
<1>6. ASSUME stack[u] # <<>>, Top(u).res # None
      PROVE  /\ AwaitsSuper(Top(u)) => Ready(u, Depth(u), super[Top(u).o])'
             /\ AwaitsField(Top(u)) => Ready(u, Depth(u), Top(u).o)'
  <2>0. PICK n, f, s : n = Depth(u) /\ f = stack[u][n] /\ s = super[f.o]
    OBVIOUS
  <2>1. n \in 1..Depth(u) /\ f \in Frames /\ f = Top(u) /\ n \in Nat
    BY <1>1, <1>6, <2>0, StackFacts DEF Top, LoadingInv, ClassInv
  <2>2. FrameOK(u, f)
    BY <1>2, <2>0, <2>1 DEF StackOK
  <2>3. Top(u)' = f /\ Depth(u)' = n
    BY <1>1, <2>0, <2>1 DEF Top
  <2>4. ASSUME AwaitsSuper(f) PROVE Ready(u, n, super[f.o])'
    <3>1. super'[f.o] = s
      <4>1. n \in 1..Depth(u) /\ AwaitsSuper(stack[u][n])
        BY <2>0, <2>1, <2>4
      <4>2. super'[stack[u][n].o] = super[stack[u][n].o]
        BY <1>4, <4>1
      <4>3. QED
        BY <2>0, <4>2
    <3>2. Ready(u, n, s)
      BY <1>2, <1>6, <2>0, <2>1, <2>4 DEF StackOK, Returned
    <3>3. Ready(u, n, s)'
      BY <1>1, <2>1, <3>2, ReadyKept DEF Alike
    <3>4. QED
      BY <3>1, <3>3 DEF Ready
  <2>5. ASSUME AwaitsField(f) PROVE Ready(u, n, f.o)'
    <3>1. f.o \in ClassObject
      BY <2>2, <2>5, NeedyOwn DEF FrameOK
    <3>2. Ready(u, n, f.o)
      BY <1>2, <1>6, <2>0, <2>1, <2>5 DEF StackOK, Returned
    <3>3. QED
      BY <1>1, <2>1, <3>1, <3>2, ReadyKept DEF Alike
  <2>6. QED
    BY <2>1, <2>3, <2>4, <2>5 DEF Ready
<1>7. Returned(u)'
  <2>1. (stack[u] # <<>>)' <=> stack[u] # <<>>
    BY <1>1
  <2>2. stack[u] # <<>> => Top(u)' = Top(u)
    BY <1>1 DEF Top
  <2>3. QED
    BY <1>6, <2>1, <2>2 DEF Returned
<1>8. OneHolder(stack[u])'
  BY <1>1, <1>2 DEF StackOK
<1>9. QED
  BY <1>1, <1>3, <1>5, <1>7, <1>8 DEF StackOK

\* The activations below the top of t's own stack too.
LEMMA BelowTop ==
  ASSUME LoadingInv, ~aborted, NEW t \in Threads, Undisturbed(t), Below(t),
         NEW n \in Nat, n = Depth(t)
  PROVE  /\ \A k \in 1..(n - 1) : FrameOK(t, stack[t][k])' /\ NeedsMet(t, k)'
         /\ \A k \in 1..(n - 2) : CallOK(stack[t][k], stack[t][k + 1])'
         /\ \A j, k \in 1..(n - 1) :
              Holds(stack'[t][j]) /\ Holds(stack'[t][k]) /\ stack'[t][j].o = stack'[t][k].o => j = k
<1>1. StackOK(t) /\ \A k \in 1..(n - 1) : Alike(stack'[t][k], stack[t][k])
  BY DEF LoadingInv, Below
<1>2. ASSUME NEW k \in 1..(n - 1) PROVE FrameOK(t, stack[t][k])' /\ NeedsMet(t, k)'
  <2>1. k \in 1..Depth(t) /\ k < Depth(t) /\ \A j \in 1..k : j \in 1..(n - 1)
    OBVIOUS
  <2>2. QED
    BY <1>1, <2>1, FrameKept
<1>3. ASSUME NEW k \in 1..(n - 2) PROVE CallOK(stack[t][k], stack[t][k + 1])'
  <2>1. PICK f, g : f = stack'[t][k] /\ g = stack'[t][k + 1]
    OBVIOUS
  <2>2. k \in 1..(n - 1) /\ k + 1 \in 1..(n - 1) /\ k \in 1..(Depth(t) - 1) /\ k \in 1..Depth(t)
        /\ k < Depth(t)
    OBVIOUS
  <2>3. Alike(f, stack[t][k]) /\ Alike(g, stack[t][k + 1])
    BY <1>1, <2>1, <2>2
  <2>4. CallOK(stack[t][k], stack[t][k + 1])
    BY <1>1, <2>2 DEF StackOK
  <2>5. AwaitsSuper(stack[t][k]) => super'[stack[t][k].o] = super[stack[t][k].o]
    BY <2>2, NeedyOwn DEF Undisturbed
  <2>6. /\ AwaitsSuper(f) => g.fn = "init" /\ g.o = super'[f.o]
        /\ AwaitsField(f) => g.fn = "init" /\ g.o = f.o
    BY <2>3, <2>4, <2>5, AlikeFrames DEF CallOK, Alike
  <2>7. QED
    BY <2>1, <2>6 DEF CallOK
<1>4. ASSUME NEW j \in 1..(n - 1), NEW k \in 1..(n - 1),
             Holds(stack'[t][j]), Holds(stack'[t][k]), stack'[t][j].o = stack'[t][k].o
      PROVE  j = k
  <2>1. j \in 1..Len(stack[t]) /\ k \in 1..Len(stack[t])
    BY DEF Depth
  <2>2. Holds(stack[t][j]) /\ Holds(stack[t][k]) /\ stack[t][j].o = stack[t][k].o
    BY <1>1, <1>4, AlikeFrames DEF Alike
  <2>3. QED
    BY <1>1, <2>1, <2>2 DEF StackOK, OneHolder
<1>5. QED
  BY <1>2, <1>3, <1>4

-----------------------------------------------------------------------------
(* The three kinds of step.                                                *)

\* No other activation of t has class o in its hands.
NotBelow(t, o) == \A k \in 1..(Depth(t) - 1) : Holds(stack[t][k]) => stack[t][k].o # o

\* Class o is ready for the innermost activation, which becomes f.
ReadyFor(t, f, o) ==
  o \in ClassObject /\ \/ status'[o] = "initialized"
                       \/ OwnsIn(stack[t], Depth(t) - 1, o)
                       \/ Owns(f) /\ f.o = o

\* What is being initialised was so before, but for what t now begins, and the
\* innermost activation, which becomes f, does not let go of its class.
OwnersStay(t, f) ==
  \A o \in ClassObject :
    status'[o] = "initializing" =>
      \/ /\ status[o] = "initializing" /\ initThreadId'[o] = initThreadId[o]
         /\ Owns(Top(t)) /\ Top(t).o = o => Owns(f) /\ f.o = o
      \/ initThreadId'[o] = t /\ Owns(f) /\ f.o = o

\* The innermost activation becomes f.
TopBecomes(t, f) ==
  /\ Holds(f) => NotBelow(t, f.o)
  /\ f.fn = "init" /\ f.pc \in {"clinit", "run", "used"} /\ super'[f.o] # None =>
       ReadyFor(t, f, super'[f.o])
  /\ NeedsField(f) => ReadyFor(t, f, f.o)
  /\ Top(t).fn = "init" => f.fn = "init" /\ f.o = Top(t).o
  /\ OwnersStay(t, f)

LEMMA OwnersMoved ==
  ASSUME LoadingInv, NEW t \in Threads, stack[t] # <<>>, NEW n \in Nat, n = Depth(t),
         Below(t), Len(stack'[t]) >= n, NEW f, stack'[t][n] = f, OwnersStay(t, f)
  PROVE  OwnerInv'
<1>1. n > 0 /\ Top(t) = stack[t][n]
  BY StackFacts DEF LoadingInv, ClassInv, Top
<1>2. ASSUME NEW o \in ClassObject, status'[o] = "initializing"
      PROVE  /\ initThreadId'[o] \in Threads
             /\ \E j \in 1..Len(stack'[initThreadId'[o]]) :
                  Owns(stack'[initThreadId'[o]][j]) /\ stack'[initThreadId'[o]][j].o = o
  <2>1. CASE initThreadId'[o] = t /\ Owns(f) /\ f.o = o
    <3>1. n \in 1..Len(stack'[t])
      BY <1>1 DEF Below
    <3>2. QED
      BY <2>1, <3>1
  <2>2. CASE /\ status[o] = "initializing" /\ initThreadId'[o] = initThreadId[o]
             /\ Owns(Top(t)) /\ Top(t).o = o => Owns(f) /\ f.o = o
    <3>1. PICK v : v = initThreadId[o]
      OBVIOUS
    <3>2. v \in Threads /\ OwnsIn(stack[v], Depth(v), o)
      BY <2>2, <3>1 DEF LoadingInv, OwnerInv
    <3>3. PICK j \in 1..Depth(v) : Owns(stack[v][j]) /\ stack[v][j].o = o
      BY <3>2 DEF OwnsIn
    <3>4. CASE v # t
      BY <2>2, <3>1, <3>2, <3>3, <3>4 DEF Below, Others, Depth
    <3>5. CASE v = t /\ j < n
      <4>1. j \in 1..(n - 1) /\ j \in 1..Len(stack'[t])
        BY <3>3, <3>5 DEF Below
      <4>2. Alike(stack'[t][j], stack[t][j])
        BY <4>1 DEF Below
      <4>3. Owns(stack'[t][j]) /\ stack'[t][j].o = o
        BY <3>3, <3>5, <4>2, AlikeFrames DEF Alike
      <4>4. QED
        BY <2>2, <3>1, <3>5, <4>1, <4>3
    <3>6. CASE v = t /\ j = n
      <4>1. n \in 1..Len(stack'[t])
        BY <1>1 DEF Below
      <4>2. Owns(f) /\ f.o = o
        BY <1>1, <2>2, <3>3, <3>6
      <4>3. QED
        BY <2>2, <3>1, <3>6, <4>1, <4>2
    <3>7. QED
      BY <3>3, <3>4, <3>5, <3>6
  <2>3. QED
    BY <1>2, <2>1, <2>2 DEF OwnersStay
<1>3. QED
  BY <1>2 DEF OwnerInv, OwnsIn, Depth

LEMMA TopFrame ==
  ASSUME LoadingInv, ~aborted, NEW t \in Threads, stack[t] # <<>>, NEW n \in Nat, n = Depth(t),
         Undisturbed(t), Below(t), NEW f, stack'[t][n] = f,
         FrameOK(t, f)', TopBecomes(t, f)
  PROVE  /\ FrameOK(t, stack[t][n])' /\ NeedsMet(t, n)'
         /\ n > 1 => CallOK(stack[t][n - 1], stack[t][n])'
         /\ \A j, k \in 1..n :
              Holds(stack'[t][j]) /\ Holds(stack'[t][k]) /\ stack'[t][j].o = stack'[t][k].o => j = k
<1>1. n > 0 /\ Top(t) = stack[t][n] /\ StackOK(t)
  BY StackFacts DEF LoadingInv, ClassInv, Top
<1>2. FrameOK(t, stack[t][n])'
  BY DEF FrameOK
<1>3. ASSUME NEW o, ReadyFor(t, f, o) PROVE Ready(t, n, o)'
  <2>1. CASE status'[o] = "initialized"
    BY <1>3, <2>1 DEF Ready, ReadyFor
  <2>2. CASE OwnsIn(stack[t], n - 1, o)
    <3>1. PICK j \in 1..(n - 1) : Owns(stack[t][j]) /\ stack[t][j].o = o
      BY <2>2 DEF OwnsIn
    <3>2. Alike(stack'[t][j], stack[t][j])
      BY DEF Below
    <3>3. Owns(stack'[t][j]) /\ stack'[t][j].o = o /\ j \in 1..n
      BY <3>1, <3>2, AlikeFrames DEF Alike
    <3>4. QED
      BY <1>3, <3>3 DEF Ready, ReadyFor, OwnsIn
  <2>3. CASE Owns(f) /\ f.o = o
    <3>1. n \in 1..n
      BY <1>1
    <3>2. Owns(stack'[t][n]) /\ stack'[t][n].o = o
      BY <1>1, <2>3
    <3>3. QED
      BY <1>3, <2>3, <3>1 DEF Ready, ReadyFor, OwnsIn
  <2>4. QED
    BY <1>3, <2>1, <2>2, <2>3 DEF ReadyFor
<1>4. NeedsMet(t, n)'
  <2>1. PICK s : s = super'[f.o]
    OBVIOUS
  <2>2. NeedsSuper(f)' => Ready(t, n, s)'
    BY <1>3, <2>1 DEF TopBecomes, NeedsSuper
  <2>3. NeedsField(f) => Ready(t, n, f.o)'
    BY <1>3 DEF TopBecomes
  <2>4. QED
    BY <2>1, <2>2, <2>3 DEF NeedsMet, Ready
<1>5. ASSUME n > 1 PROVE CallOK(stack[t][n - 1], stack[t][n])'
  <2>1. n - 1 \in 1..(n - 1) /\ n - 1 \in 1..(Depth(t) - 1) /\ n - 1 \in 1..Depth(t) /\ n - 1 < Depth(t)
    BY <1>5
  <2>2. PICK g, h : g = stack'[t][n - 1] /\ h = stack[t][n - 1]
    OBVIOUS
  <2>3. Alike(g, h)
    BY <2>1, <2>2 DEF Below
  <2>4. CallOK(h, Top(t))
    <3>1. CallOK(stack[t][n - 1], stack[t][n - 1 + 1])
      BY <1>1, <2>1 DEF StackOK
    <3>2. QED
      BY <1>1, <2>2, <3>1
  <2>5. AwaitsSuper(h) => super'[h.o] = super[h.o]
    BY <2>1, <2>2, NeedyOwn DEF Undisturbed
  <2>6. /\ AwaitsSuper(g) => f.fn = "init" /\ f.o = super'[g.o]
        /\ AwaitsField(g) => f.fn = "init" /\ f.o = g.o
    BY <2>3, <2>4, <2>5, AlikeFrames DEF CallOK, TopBecomes, Alike
  <2>7. QED
    BY <2>2, <2>6 DEF CallOK
<1>6. ASSUME NEW j \in 1..n, NEW k \in 1..n,
             Holds(stack'[t][j]), Holds(stack'[t][k]), stack'[t][j].o = stack'[t][k].o
      PROVE  j = k
  <2>1. ASSUME NEW i \in 1..(n - 1), Holds(stack'[t][i]) PROVE ~(Holds(f) /\ f.o = stack'[t][i].o)
    <3>1. Alike(stack'[t][i], stack[t][i])
      BY DEF Below
    <3>2. Holds(stack[t][i]) /\ stack[t][i].o = stack'[t][i].o
      BY <2>1, <3>1, AlikeFrames DEF Alike
    <3>3. QED
      BY <3>2 DEF TopBecomes, NotBelow
  <2>2. CASE j = n
    BY <1>6, <2>1, <2>2
  <2>3. CASE k = n
    BY <1>6, <2>1, <2>3
  <2>4. CASE j # n /\ k # n
    <3>1. j \in 1..(n - 1) /\ k \in 1..(n - 1)
      BY <2>4
    <3>2. QED
      BY <1>6, <3>1, BelowTop
  <2>5. QED
    BY <2>2, <2>3, <2>4
<1>7. QED
  BY <1>2, <1>4, <1>5, <1>6

LEMMA MoveInv ==
  ASSUME LoadingInv, ~aborted, NEW t \in Threads, stack[t] # <<>>,
         Undisturbed(t), NEW f, Moved(t, f), FrameOK(t, f)', TopBecomes(t, f),
         ~AwaitsSuper(f), ~AwaitsField(f)
  PROVE  FrameInv'
<1>1. PICK n : n = Depth(t)
  OBVIOUS
<1>2. TypeInv /\ n \in Nat /\ n > 0
  BY <1>1, StackFacts DEF LoadingInv, ClassInv
<1>3. Below(t) /\ Others(t) /\ stack'[t][n] = f /\ Len(stack'[t]) = n /\ Depth(t)' = n
  BY <1>1, <1>2, MovedBelow DEF Moved, Depth
<1>4. OwnerInv'
  BY <1>1, <1>2, <1>3, OwnersMoved DEF TopBecomes
<1>5. StackOK(t)'
  <2>1. Top(t)' = f
    BY <1>3 DEF Top
  <2>2. Returned(t)'
    BY <2>1 DEF Returned
  <2>3. OneHolder(stack[t])'
    BY <1>1, <1>2, <1>3, TopFrame DEF OneHolder
  <2>4. ASSUME NEW k \in 1..n PROVE FrameOK(t, stack[t][k])' /\ NeedsMet(t, k)'
    BY <1>1, <1>2, <1>3, BelowTop, TopFrame
  <2>5. ASSUME NEW k \in 1..(n - 1) PROVE CallOK(stack[t][k], stack[t][k + 1])'
    <3>1. CASE k = n - 1
      <4>1. n > 1 /\ k + 1 = n
        BY <1>2, <3>1
      <4>2. CallOK(stack[t][n - 1], stack[t][n])'
        BY <1>1, <1>2, <1>3, <4>1, TopFrame
      <4>3. QED
        BY <3>1, <4>1, <4>2
    <3>2. CASE k # n - 1
      <4>1. k \in 1..(n - 2)
        BY <1>2, <3>2
      <4>2. QED
        BY <1>1, <1>2, <1>3, <4>1, BelowTop
    <3>3. QED
      BY <3>1, <3>2
  <2>6. QED
    BY <1>3, <2>2, <2>3, <2>4, <2>5 DEF StackOK
<1>6. QED
  BY <1>3, <1>4, <1>5, OtherStacks DEF FrameInv

\* A call begins at one of three points.
Entry(f) == \/ f.fn = "find" /\ f.pc = "lookup"
            \/ f.fn = "init" /\ f.pc = "lock"
            \/ f.fn = "use" /\ f.pc = "start"

LEMMA PushInv ==
  ASSUME LoadingInv, ~aborted, NEW t \in Threads, stack[t] # <<>>,
         Undisturbed(t), NEW f, NEW g, Pushed(t, f, g), FrameOK(t, f)', TopBecomes(t, f),
         FrameOK(t, g)', Entry(g), CallOK(f, g)'
  PROVE  FrameInv'
<1>1. PICK n : n = Depth(t)
  OBVIOUS
<1>2. TypeInv /\ n \in Nat /\ n > 0
  BY <1>1, StackFacts DEF LoadingInv, ClassInv
<1>3. /\ Below(t) /\ Others(t) /\ Len(stack'[t]) = n + 1 /\ Depth(t)' = n + 1
      /\ stack'[t][n] = f /\ stack'[t][n + 1] = g
  BY <1>1, <1>2, PushedBelow DEF Pushed, Depth
<1>4. OwnerInv'
  BY <1>1, <1>2, <1>3, OwnersMoved DEF TopBecomes
<1>5. ~Holds(g) /\ ~NeedsSuper(g)' /\ ~NeedsField(g) /\ ~AwaitsSuper(g) /\ ~AwaitsField(g)
  BY DEF Entry, Holds, Links, Owns, NeedsSuper, NeedsField, AwaitsSuper, AwaitsField
<1>6. StackOK(t)'
  <2>1. Top(t)' = g
    BY <1>3 DEF Top
  <2>2. Returned(t)'
    BY <1>5, <2>1 DEF Returned
  <2>3. OneHolder(stack[t])'
    <3>1. ASSUME NEW j \in 1..(n + 1), NEW k \in 1..(n + 1),
                 Holds(stack'[t][j]), Holds(stack'[t][k]), stack'[t][j].o = stack'[t][k].o
          PROVE  j = k
      <4>1. j # n + 1 /\ k # n + 1
        BY <1>3, <1>5, <3>1
      <4>2. j \in 1..n /\ k \in 1..n
        BY <1>2, <4>1
      <4>3. QED
        BY <1>1, <1>2, <1>3, <3>1, <4>2, TopFrame
    <3>2. QED
      BY <1>3, <3>1 DEF OneHolder
  <2>4. ASSUME NEW k \in 1..(n + 1) PROVE FrameOK(t, stack[t][k])' /\ NeedsMet(t, k)'
    <3>1. CASE k = n + 1
      BY <1>3, <1>5, <3>1 DEF FrameOK, NeedsMet, NeedsSuper
    <3>2. CASE k = n
      BY <1>1, <1>2, <1>3, <3>2, TopFrame
    <3>3. CASE k \in 1..(n - 1)
      BY <1>1, <1>2, <1>3, <3>3, BelowTop
    <3>4. QED
      BY <1>2, <3>1, <3>2, <3>3
  <2>5. ASSUME NEW k \in 1..n PROVE CallOK(stack[t][k], stack[t][k + 1])'
    <3>1. CASE k = n
      BY <1>3, <3>1 DEF CallOK
    <3>2. CASE k = n - 1
      <4>1. n > 1 /\ k + 1 = n
        BY <1>2, <3>2
      <4>2. CallOK(stack[t][n - 1], stack[t][n])'
        BY <1>1, <1>2, <1>3, <4>1, TopFrame
      <4>3. QED
        BY <3>2, <4>1, <4>2
    <3>3. CASE k \notin {n - 1, n}
      <4>1. k \in 1..(n - 2)
        BY <1>2, <3>3
      <4>2. QED
        BY <1>1, <1>2, <1>3, <4>1, BelowTop
    <3>4. QED
      BY <3>1, <3>2, <3>3
  <2>6. (1..Depth(t))' = 1..(n + 1) /\ (1..(Depth(t) - 1))' = 1..n
    BY <1>2, <1>3
  <2>7. QED
    BY <2>2, <2>3, <2>4, <2>5, <2>6 DEF StackOK
<1>7. QED
  BY <1>3, <1>4, <1>6, OtherStacks DEF FrameInv

LEMMA PopInv ==
  ASSUME LoadingInv, ~aborted, NEW t \in Threads, stack[t] # <<>>,
         Undisturbed(t), NEW res, Popped(t, res),
         \A o \in ClassObject :
           status'[o] = "initializing" =>
             /\ status[o] = "initializing" /\ initThreadId'[o] = initThreadId[o]
             /\ ~(Owns(Top(t)) /\ Top(t).o = o),
         Top(t).fn = "init" /\ res # None =>
           \/ status'[Top(t).o] = "initialized"
           \/ OwnsIn(stack[t], Depth(t) - 1, Top(t).o)
  PROVE  FrameInv'
<1>1. PICK n, f : n = Depth(t) /\ f = Top(t)
  OBVIOUS
<1>2. TypeInv /\ n \in Nat /\ n > 0 /\ f = stack[t][n] /\ StackOK(t) /\ n \in 1..n
  BY <1>1, StackFacts DEF LoadingInv, ClassInv, Top
<1>3. /\ Below(t) /\ Others(t) /\ Len(stack'[t]) = n - 1 /\ Depth(t)' = n - 1
      /\ n > 1 => stack'[t][n - 1] = [stack[t][n - 1] EXCEPT !.res = res]
  BY <1>1, <1>2, PoppedBelow DEF Popped, Depth
<1>4. OwnerInv'
  <2>1. ASSUME NEW o \in ClassObject, status'[o] = "initializing"
        PROVE  /\ initThreadId'[o] \in Threads
               /\ \E j \in 1..Len(stack'[initThreadId'[o]]) :
                    Owns(stack'[initThreadId'[o]][j]) /\ stack'[initThreadId'[o]][j].o = o
    <3>1. PICK v : v = initThreadId[o]
      OBVIOUS
    <3>2. /\ v \in Threads /\ OwnsIn(stack[v], Depth(v), o)
          /\ initThreadId'[o] = v /\ ~(Owns(f) /\ f.o = o)
      BY <1>1, <2>1, <3>1 DEF LoadingInv, OwnerInv
    <3>3. PICK j \in 1..Depth(v) : Owns(stack[v][j]) /\ stack[v][j].o = o
      BY <3>2 DEF OwnsIn
    <3>4. CASE v # t
      BY <1>3, <3>2, <3>3, <3>4 DEF Others, Depth
    <3>5. CASE v = t
      <4>1. j # n
        BY <1>2, <3>2, <3>3, <3>5
      <4>2. j \in 1..(n - 1)
        BY <1>1, <1>2, <3>3, <3>5, <4>1
      <4>3. Alike(stack'[t][j], stack[t][j])
        BY <1>1, <1>3, <4>2 DEF Below
      <4>4. Owns(stack'[t][j]) /\ stack'[t][j].o = o
        BY <3>3, <3>5, <4>3, AlikeFrames DEF Alike
      <4>5. QED
        BY <1>3, <3>2, <3>5, <4>2, <4>4
    <3>6. QED
      BY <3>4, <3>5
  <2>2. QED
    BY <2>1 DEF OwnerInv, OwnsIn, Depth
<1>5. ASSUME n > 1 PROVE Returned(t)'
  <2>1. PICK m, g, h : m = n - 1 /\ g = stack'[t][m] /\ h = stack[t][m]
    OBVIOUS
  <2>2. /\ m \in Nat /\ m \in 1..(Depth(t) - 1) /\ m \in 1..Depth(t) /\ m < Depth(t)
        /\ m \in 1..(n - 1) /\ m + 1 = n
    BY <1>1, <1>2, <1>5, <2>1
  <2>3. Alike(g, h) /\ h \in Frames /\ g = [h EXCEPT !.res = res]
    <3>1. Alike(stack'[t][m], stack[t][m])
      BY <1>1, <1>3, <2>2 DEF Below
    <3>2. stack[t][m] \in Frames
      BY <1>2, <2>2, StackFacts
    <3>3. QED
      BY <1>3, <1>5, <2>1, <3>1, <3>2
  <2>4. g.res = res
    BY <2>3 DEF Frames
  <2>5. Top(t)' = g
    BY <1>3, <2>1 DEF Top
  <2>6. CallOK(h, f) /\ FrameOK(t, h)
    BY <1>2, <2>1, <2>2 DEF StackOK
  <2>7. ASSUME res # None, NEW o \in ClassObject, f.fn = "init", f.o = o
        PROVE  Ready(t, m, o)'
    <3>1. CASE status'[o] = "initialized"
      BY <3>1 DEF Ready
    <3>2. CASE OwnsIn(stack[t], m, o)
      <4>1. \A j \in 1..m : Alike(stack'[t][j], stack[t][j])
        BY <1>1, <1>3, <2>1 DEF Below
      <4>2. OwnsIn(stack'[t], m, o)
        BY <2>2, <3>2, <4>1, OwnsKept
      <4>3. QED
        BY <4>2 DEF Ready
    <3>3. QED
      BY <1>1, <2>1, <2>7, <3>1, <3>2
  <2>8. FrameOK(t, f) /\ (f.fn = "init" => f.o \in ClassObject)
    BY <1>1, <1>2 DEF StackOK, FrameOK, NeedsClass
  <2>9. ASSUME res # None, AwaitsSuper(g), NEW s, s = super'[g.o] PROVE Ready(t, m, s)'
    <3>1. AwaitsSuper(h) /\ g.o = h.o
      BY <2>3, <2>9, AlikeFrames DEF Alike
    <3>2. super'[h.o] = super[h.o]
      BY <2>1, <2>2, <3>1, NeedyOwn DEF Undisturbed
    <3>3. f.fn = "init" /\ f.o = super[h.o]
      BY <2>6, <3>1 DEF CallOK
    <3>4. QED
      BY <2>7, <2>8, <2>9, <3>1, <3>2, <3>3
  <2>10. ASSUME res # None, AwaitsField(g) PROVE Ready(t, m, g.o)'
    <3>1. AwaitsField(h) /\ g.o = h.o
      BY <2>3, <2>10, AlikeFrames DEF Alike
    <3>2. f.fn = "init" /\ f.o = h.o
      BY <2>6, <3>1 DEF CallOK
    <3>3. QED
      BY <2>7, <2>8, <2>10, <3>1, <3>2
  <2>11. PICK s : s = super'[g.o]
    OBVIOUS
  <2>12. Depth(t)' = m
    BY <1>3, <2>1
  <2>13. /\ res # None /\ AwaitsSuper(g) => Ready(t, Depth(t), super[Top(t).o])'
         /\ res # None /\ AwaitsField(g) => Ready(t, Depth(t), Top(t).o)'
    BY <2>5, <2>9, <2>10, <2>11, <2>12 DEF Ready
  <2>14. QED
    BY <2>4, <2>5, <2>13 DEF Returned
<1>6. StackOK(t)'
  <2>1. Returned(t)'
    <3>1. CASE n = 1
      <4>1. stack'[t] = <<>>
        <5>1. stack'[t] \in Seq(Frames)
          BY DEF Popped
        <5>2. Len(stack'[t]) = 0
          BY <1>3, <3>1
        <5>3. QED
          BY <5>1, <5>2, EmptySeq
      <4>2. QED
        BY <4>1 DEF Returned
    <3>2. QED
      BY <1>2, <1>5, <3>1
  <2>2. OneHolder(stack[t])'
    BY <1>1, <1>2, <1>3, BelowTop DEF OneHolder
  <2>3. ASSUME NEW k \in 1..(n - 1) PROVE FrameOK(t, stack[t][k])' /\ NeedsMet(t, k)'
    BY <1>1, <1>2, <1>3, BelowTop
  <2>4. ASSUME NEW k \in 1..(n - 2) PROVE CallOK(stack[t][k], stack[t][k + 1])'
    BY <1>1, <1>2, <1>3, BelowTop
  <2>5. (1..Depth(t))' = 1..(n - 1) /\ (1..(Depth(t) - 1))' = 1..(n - 2)
    BY <1>2, <1>3
  <2>6. QED
    BY <2>1, <2>2, <2>3, <2>4, <2>5 DEF StackOK
<1>7. QED
  BY <1>3, <1>4, <1>6, OtherStacks DEF FrameInv

-----------------------------------------------------------------------------
(* Steps that change no class.                                             *)

Quiet == UNCHANGED <<program, names, status, initThreadId, runs>>

LEMMA AtFacts ==
  ASSUME LoadingInv, NEW t \in Threads, NEW fn, NEW pc, At(t, fn, pc)
  PROVE  /\ ~aborted /\ stack[t] # <<>> /\ Depth(t) \in 1..Depth(t) /\ Depth(t) \in Nat
         /\ Top(t) = stack[t][Depth(t)] /\ Top(t) \in Frames
         /\ Top(t).fn = fn /\ Top(t).pc = pc
         /\ FrameOK(t, Top(t)) /\ NeedsMet(t, Depth(t)) /\ Returned(t)
<1>1. ~aborted /\ stack[t] # <<>> /\ Top(t).fn = fn /\ Top(t).pc = pc
  BY DEF At
<1>2. /\ Depth(t) \in 1..Depth(t) /\ Depth(t) \in Nat
      /\ Top(t) = stack[t][Depth(t)] /\ Top(t) \in Frames
  BY <1>1, StackFacts DEF LoadingInv, ClassInv, Top
<1>3. StackOK(t)
  BY DEF LoadingInv
<1>4. QED
  BY <1>1, <1>2, <1>3 DEF StackOK

LEMMA FrameEdit ==
  ASSUME NEW f \in Frames, NEW pc \in Points
  PROVE  /\ [f EXCEPT !.pc = pc] \in Frames
         /\ [f EXCEPT !.pc = pc].fn = f.fn /\ [f EXCEPT !.pc = pc].pc = pc
         /\ [f EXCEPT !.pc = pc].d = f.d /\ [f EXCEPT !.pc = pc].o = f.o
BY DEF Frames


LEMMA QuietUndisturbed ==
  ASSUME NEW t, Quiet
  PROVE  Undisturbed(t)
BY DEF Quiet, Undisturbed, names

LEMMA QuietClasses ==
  ASSUME ClassInv, Quiet, stack' \in [Threads -> Seq(Frames)]
  PROVE  ClassInv'
BY DEF Quiet, names, ClassInv, TypeInv, TableInv, RunsInv, ResolvedInv

LEMMA Parts == LoadingInv' <=> ClassInv' /\ FrameInv'
BY DEF LoadingInv, FrameInv

LEMMA StillHolds ==
  ASSUME LoadingInv, NEW t \in Threads, stack[t] # <<>>, Holds(Top(t))
  PROVE  NotBelow(t, Top(t).o)
<1>1. /\ Depth(t) \in Nat /\ Depth(t) \in 1..Depth(t) /\ Top(t) = stack[t][Depth(t)]
      /\ OneHolder(stack[t])
  BY StackFacts DEF LoadingInv, ClassInv, StackOK, Top
<1>2. QED
  BY <1>1 DEF NotBelow, OneHolder, Depth

LEMMA StillReady ==
  ASSUME LoadingInv, NEW t \in Threads, stack[t] # <<>>, Undisturbed(t), NEW o,
         Ready(t, Depth(t), o), NEW f, Owns(Top(t)) => Owns(f) /\ f.o = Top(t).o
  PROVE  ReadyFor(t, f, o)
<1>1. Depth(t) \in Nat /\ Top(t) = stack[t][Depth(t)]
  BY StackFacts DEF LoadingInv, ClassInv, Top
<1>2. CASE status[o] = "initialized"
  BY <1>2 DEF Ready, ReadyFor, Undisturbed
<1>3. CASE OwnsIn(stack[t], Depth(t), o)
  <2>1. PICK j \in 1..Depth(t) : Owns(stack[t][j]) /\ stack[t][j].o = o
    BY <1>3 DEF OwnsIn
  <2>2. CASE j = Depth(t)
    BY <1>1, <2>1, <2>2 DEF Ready, ReadyFor
  <2>3. CASE j \in 1..(Depth(t) - 1)
    BY <2>1, <2>3 DEF Ready, ReadyFor, OwnsIn
  <2>4. QED
    BY <1>1, <2>2, <2>3
<1>4. QED
  BY <1>2, <1>3 DEF Ready

\* An activation that has no class in its hands goes on without one.
LEMMA PlainMove ==
  ASSUME LoadingInv, ~aborted, NEW t \in Threads, stack[t] # <<>>, Quiet,
         NEW f, Moved(t, f), ~Holds(Top(t)), ~Holds(f),
         f.fn = Top(t).fn, f.fn # "use", f.fn = "init" => f.o = Top(t).o,
         f.d = Top(t).d, NeedsClass(f) => f.o \in ClassObject \/ aborted'
  PROVE  LoadingInv'
<1>1. Undisturbed(t) /\ ~Owns(Top(t)) /\ ~Owns(f) /\ ~Links(f)
  BY QuietUndisturbed DEF Holds
<1>2. FrameOK(t, Top(t))
  BY StackFacts DEF LoadingInv, ClassInv, StackOK, Top
<1>3. FrameOK(t, f)'
  BY <1>1, <1>2 DEF FrameOK
<1>4. ~AwaitsSuper(f) /\ ~AwaitsField(f) /\ ~NeedsField(f)
  BY <1>1 DEF AwaitsSuper, AwaitsField, NeedsField, Owns
<1>5. TopBecomes(t, f)
  <2>1. OwnersStay(t, f)
    BY <1>1 DEF OwnersStay, Quiet
  <2>2. QED
    BY <1>1, <1>4, <2>1 DEF TopBecomes, Owns
<1>6. FrameInv'
  BY <1>1, <1>3, <1>4, <1>5, MoveInv
<1>7. ClassInv'
  BY QuietClasses DEF Moved, LoadingInv
<1>8. QED
  BY <1>6, <1>7, Parts

\* One that has no class to initialise in its hands returns.
LEMMA QuietPop ==
  ASSUME LoadingInv, ~aborted, NEW t \in Threads, stack[t] # <<>>, Quiet,
         NEW res, Popped(t, res), ~Owns(Top(t)),
         Top(t).fn = "init" /\ res # None =>
           \/ status[Top(t).o] = "initialized"
           \/ OwnsIn(stack[t], Depth(t) - 1, Top(t).o)
  PROVE  LoadingInv'
<1>1. Undisturbed(t) /\ status' = status /\ initThreadId' = initThreadId
  BY QuietUndisturbed DEF Quiet
<1>2. FrameInv'
  BY <1>1, PopInv
<1>3. ClassInv'
  BY QuietClasses DEF Popped, LoadingInv
<1>4. QED
  BY <1>2, <1>3, Parts

LEMMA QuietStay ==
  ASSUME NEW t \in Threads, NEW f, Quiet, Owns(Top(t)) => Owns(f) /\ f.o = Top(t).o
  PROVE  OwnersStay(t, f)
BY DEF OwnersStay, Quiet

LEMMA QuietPush ==
  ASSUME LoadingInv, ~aborted, NEW t \in Threads, stack[t] # <<>>, Quiet,
         NEW f, NEW g, Pushed(t, f, g), FrameOK(t, f)', TopBecomes(t, f),
         FrameOK(t, g)', Entry(g), CallOK(f, g)'
  PROVE  LoadingInv'
<1>1. FrameInv'
  BY QuietUndisturbed, PushInv
<1>2. ClassInv'
  BY QuietClasses DEF Pushed, LoadingInv
<1>3. QED
  BY <1>1, <1>2, Parts

-----------------------------------------------------------------------------
(* findClassNoInit: the steps that change no class.                        *)

LEMMA LookupClassInv ==
  ASSUME LoadingInv, NEW t \in Threads, LookupClass(t) PROVE LoadingInv'
<1>0. At(t, "find", "lookup")
  BY DEF LookupClass
<1>1. /\ ~aborted /\ stack[t] # <<>> /\ TypeInv /\ Top(t) \in Frames
      /\ Top(t).fn = "find" /\ Top(t).pc = "lookup" /\ Top(t).d \in Names
  BY <1>0, AtFacts DEF LoadingInv, ClassInv, FrameOK
<1>2. PICK o, pc : /\ o = table[Top(t).d] /\ pc = IF o = None THEN "load" ELSE "got"
                   /\ GotoWith(t, o, pc)
  BY DEF LookupClass
<1>3. o \in ClassObject \cup {None} /\ pc \in Points /\ (pc = "got" => o \in ClassObject)
      /\ pc \in {"load", "got"}
  BY <1>1, <1>2 DEF TypeInv, Points
<1>4. PICK f : f = [Top(t) EXCEPT !.pc = pc, !.o = o]
  OBVIOUS
<1>5. Moved(t, f) /\ f.fn = "find" /\ f.pc = pc /\ f.o = o /\ f.d = Top(t).d
  <2>1. Moved(t, f)
    BY <1>1, <1>2, <1>3, <1>4, GotoWithEffect
  <2>2. f.fn = Top(t).fn /\ f.d = Top(t).d
    BY <1>1, <1>4 DEF Frames
  <2>3. f.pc = pc /\ f.o = o
    BY <1>1, <1>4 DEF Frames
  <2>4. QED
    BY <1>1, <2>1, <2>2, <2>3
<1>6. Quiet
  BY DEF LookupClass, classes, bounds, Quiet
<1>7. ~Holds(Top(t)) /\ ~Holds(f)
  BY <1>1, <1>3, <1>5 DEF Holds, Links, Owns
<1>8. NeedsClass(f) => f.o \in ClassObject
  BY <1>3, <1>5 DEF NeedsClass
<1>9. QED
  BY <1>1, <1>5, <1>6, <1>7, <1>8, PlainMove

\* A move by Goto between points of findClassNoInit or dvmInitClass at which no class
\* is in hand.
FreePoints == {"load", "winner", "check", "lock", "parked", "examine", "wait", "got", "notify"}

LEMMA PlainGoto ==
  ASSUME LoadingInv, NEW t \in Threads, NEW fn \in {"find", "init"}, NEW pc0 \in FreePoints,
         At(t, fn, pc0), NEW pc \in FreePoints, Goto(t, pc), Quiet, UNCHANGED aborted,
         fn = "find" /\ pc \in {"check", "lock", "parked", "got"} => Top(t).o \in ClassObject
  PROVE  LoadingInv'
<1>1. /\ ~aborted /\ stack[t] # <<>> /\ TypeInv /\ Top(t) \in Frames
      /\ Top(t).fn = fn /\ Top(t).pc = pc0 /\ FrameOK(t, Top(t))
  BY AtFacts DEF LoadingInv, ClassInv
<1>2. pc \in Points
  BY DEF FreePoints, Points
<1>3. PICK f : f = [Top(t) EXCEPT !.pc = pc]
  OBVIOUS
<1>4. Moved(t, f) /\ f.fn = fn /\ f.pc = pc /\ f.o = Top(t).o /\ f.d = Top(t).d
  BY <1>1, <1>2, <1>3, GotoEffect, FrameEdit
<1>5. ~Holds(Top(t)) /\ ~Holds(f)
  BY <1>1, <1>4 DEF Holds, Links, Owns, FreePoints
<1>6. NeedsClass(f) => f.o \in ClassObject
  BY <1>1, <1>4 DEF NeedsClass, FreePoints, FrameOK
<1>7. QED
  BY <1>1, <1>4, <1>5, <1>6, PlainMove

LEMMA LoadFailsInv ==
  ASSUME LoadingInv, NEW t \in Threads, LoadFails(t) PROVE LoadingInv'
<1>1. At(t, "find", "load") /\ Return(t, None) /\ Quiet
  BY DEF LoadFails, Count, classes, Quiet
<1>2. /\ ~aborted /\ stack[t] # <<>> /\ TypeInv /\ Top(t).fn = "find"
  BY <1>1, AtFacts DEF LoadingInv, ClassInv
<1>3. Popped(t, None) /\ ~Owns(Top(t))
  BY <1>1, <1>2, ReturnEffect DEF Owns
<1>4. QED
  BY <1>1, <1>2, <1>3, QuietPop

LEMMA LoseRaceInv ==
  ASSUME LoadingInv, NEW t \in Threads, LoseRace(t) PROVE LoadingInv'
<1>1. At(t, "find", "load") /\ Goto(t, "winner") /\ Quiet /\ UNCHANGED aborted
  BY DEF LoseRace, classes, bounds, Quiet
<1>2. QED
  BY <1>1, PlainGoto DEF FreePoints

LEMMA LookupWinnerInv ==
  ASSUME LoadingInv, NEW t \in Threads, LookupWinner(t) PROVE LoadingInv'
<1>0. At(t, "find", "winner")
  BY DEF LookupWinner
<1>1. /\ ~aborted /\ stack[t] # <<>> /\ TypeInv /\ Top(t) \in Frames
      /\ Top(t).fn = "find" /\ Top(t).pc = "winner" /\ Top(t).d \in Names
  BY <1>0, AtFacts DEF LoadingInv, ClassInv, FrameOK
<1>2. PICK o : o = table[Top(t).d] /\ GotoWith(t, o, "got") /\ aborted' = (o = None)
  BY DEF LookupWinner
<1>3. o \in ClassObject \cup {None} /\ "got" \in Points
  BY <1>1, <1>2 DEF TypeInv, Points
<1>4. PICK f : f = [Top(t) EXCEPT !.pc = "got", !.o = o]
  OBVIOUS
<1>5. Moved(t, f) /\ f.fn = "find" /\ f.pc = "got" /\ f.o = o /\ f.d = Top(t).d
  <2>1. Moved(t, f)
    BY <1>1, <1>2, <1>3, <1>4, GotoWithEffect
  <2>2. f.fn = Top(t).fn /\ f.d = Top(t).d
    BY <1>1, <1>4 DEF Frames
  <2>3. f.pc = "got" /\ f.o = o
    BY <1>1, <1>4 DEF Frames
  <2>4. QED
    BY <1>1, <2>1, <2>2, <2>3
<1>6. Quiet
  BY DEF LookupWinner, classes, bounds, Quiet
<1>7. ~Holds(Top(t)) /\ ~Holds(f)
  BY <1>1, <1>5 DEF Holds, Links, Owns
<1>8. f.o \in ClassObject \/ aborted'
  BY <1>2, <1>3, <1>5
<1>9. QED
  BY <1>1, <1>5, <1>6, <1>7, <1>8, PlainMove

LEMMA GotClassInv ==
  ASSUME LoadingInv, NEW t \in Threads, GotClass(t) PROVE LoadingInv'
<1>1. PICK pc \in {"check", "lock"} :
        At(t, "find", "got") /\ Goto(t, pc) /\ Quiet /\ UNCHANGED aborted
  BY DEF GotClass, classes, bounds, Quiet
<1>2. Top(t).o \in ClassObject
  BY <1>1, AtFacts DEF FrameOK, NeedsClass
<1>3. QED
  BY <1>1, <1>2, PlainGoto DEF FreePoints

LEMMA AwaitLinkInv ==
  ASSUME LoadingInv, NEW t \in Threads, AwaitLink(t) PROVE LoadingInv'
<1>1. At(t, "find", "lock") /\ Quiet /\ UNCHANGED aborted
  BY DEF AwaitLink, bounds, Quiet
<1>2. /\ ~aborted /\ stack[t] # <<>> /\ TypeInv /\ Top(t).fn = "find" /\ Top(t).o \in ClassObject
  BY <1>1, AtFacts DEF LoadingInv, ClassInv, FrameOK, NeedsClass
<1>3. CASE Return(t, None)
  <2>1. Popped(t, None) /\ ~Owns(Top(t))
    BY <1>2, <1>3, ReturnEffect DEF Owns
  <2>2. QED
    BY <1>1, <1>2, <2>1, QuietPop
<1>4. CASE \E pc \in {"check", "parked"} : Goto(t, pc)
  BY <1>1, <1>2, <1>4, PlainGoto DEF FreePoints
<1>5. QED
  BY <1>3, <1>4 DEF AwaitLink

LEMMA CheckFoundInv ==
  ASSUME LoadingInv, NEW t \in Threads, CheckFound(t) PROVE LoadingInv'
<1>1. At(t, "find", "check") /\ Quiet
  BY DEF CheckFound, classes, bounds, Quiet
<1>2. /\ ~aborted /\ stack[t] # <<>> /\ TypeInv /\ Top(t).fn = "find" /\ Top(t).o \in ClassObject
  BY <1>1, AtFacts DEF LoadingInv, ClassInv, FrameOK, NeedsClass
<1>3. PICK res \in ClassObject \cup {None} : Return(t, res)
  BY <1>2 DEF CheckFound
<1>4. Popped(t, res) /\ ~Owns(Top(t))
  BY <1>2, <1>3, ReturnEffect DEF Owns
<1>5. QED
  BY <1>1, <1>2, <1>4, QuietPop

\* dvmLinkClass finds the superclass with the class in its hands.
LEMMA LinkSuperInv ==
  ASSUME LoadingInv, NEW t \in Threads, LinkSuper(t) PROVE LoadingInv'
<1>1. At(t, "find", "link") /\ Quiet /\ UNCHANGED aborted
  BY DEF LinkSuper, classes, bounds, Quiet
<1>2. /\ ~aborted /\ stack[t] # <<>> /\ TypeInv /\ Top(t) \in Frames
      /\ Top(t).fn = "find" /\ Top(t).pc = "link" /\ FrameOK(t, Top(t))
  BY <1>1, AtFacts DEF LoadingInv, ClassInv
<1>3. /\ Links(Top(t)) /\ ~Owns(Top(t)) /\ Holds(Top(t)) /\ NeedsClass(Top(t))
      /\ Undisturbed(t)
  BY <1>1, <1>2, QuietUndisturbed DEF Links, Owns, Holds, NeedsClass
<1>4. NotBelow(t, Top(t).o)
  BY <1>2, <1>3, StillHolds
<1>5. ASSUME NEW f, f.fn = "find", f.pc \in {"linkSuper", "linkNoSuper"},
             f.o = Top(t).o, f.d = Top(t).d
      PROVE  FrameOK(t, f)' /\ TopBecomes(t, f)
  <2>1. Links(f) /\ ~Owns(f) /\ NeedsClass(f) /\ ~NeedsField(f)
    BY <1>5 DEF Links, Owns, NeedsClass, NeedsField
  <2>2. FrameOK(t, f)'
    BY <1>1, <1>2, <1>3, <1>5, <2>1 DEF FrameOK, Quiet
  <2>3. OwnersStay(t, f)
    BY <1>1, <1>3, QuietStay
  <2>4. QED
    BY <1>2, <1>4, <1>5, <2>1, <2>2, <2>3 DEF TopBecomes
<1>6. CASE Goto(t, "linkNoSuper")
  <2>1. PICK f : f = [Top(t) EXCEPT !.pc = "linkNoSuper"]
    OBVIOUS
  <2>2. "linkNoSuper" \in Points
    BY DEF Points
  <2>3. /\ Moved(t, f) /\ f.fn = "find" /\ f.pc = "linkNoSuper"
        /\ f.o = Top(t).o /\ f.d = Top(t).d
    BY <1>2, <1>6, <2>1, <2>2, GotoEffect, FrameEdit
  <2>4. FrameInv'
    BY <1>2, <1>3, <1>5, <2>3, MoveInv DEF AwaitsSuper, AwaitsField
  <2>5. ClassInv'
    BY <1>1, <2>3, QuietClasses DEF Moved, LoadingInv
  <2>6. QED
    BY <2>4, <2>5, Parts
<1>7. CASE SuperName(Top(t).o) # NoName
           /\ Call(t, "linkSuper", Frame("find", SuperName(Top(t).o), None, "lookup"))
  <2>1. PICK f, g : /\ f = [Top(t) EXCEPT !.pc = "linkSuper"]
                    /\ g = Frame("find", SuperName(Top(t).o), None, "lookup")
    OBVIOUS
  <2>2. "linkSuper" \in Points /\ "lookup" \in Points
    BY DEF Points
  <2>3. SuperName(Top(t).o) \in Names
    <3>1. Top(t).o \in ClassObject /\ status[Top(t).o] = "loaded"
      BY <1>2, <1>3 DEF FrameOK
    <3>2. name[Top(t).o] \in Names
      BY <3>1 DEF LoadingInv, ClassInv, TableInv
    <3>3. program.super \in [Names -> Names \cup {NoName}]
      BY <1>2, ProgramAssumption DEF TypeInv
    <3>4. QED
      BY <1>7, <3>2, <3>3 DEF SuperName
  <2>4. /\ f \in Frames /\ f.fn = "find" /\ f.pc = "linkSuper"
        /\ f.o = Top(t).o /\ f.d = Top(t).d
    BY <1>2, <2>1, <2>2, FrameEdit
  <2>5. g \in Frames /\ g.fn = "find" /\ g.pc = "lookup" /\ g.d \in Names
    BY <2>1, <2>2, <2>3 DEF Frame, Frames
  <2>6. Pushed(t, f, g)
    BY <1>2, <1>7, <2>1, <2>4, <2>5, CallEffect DEF Call
  <2>7. FrameOK(t, g)' /\ Entry(g)
    BY <2>5 DEF FrameOK, NeedsClass, Links, Owns, Entry
  <2>8. CallOK(f, g)'
    BY <2>4 DEF CallOK, AwaitsSuper, AwaitsField
  <2>9. QED
    BY <1>1, <1>2, <1>5, <2>4, <2>6, <2>7, <2>8, QuietPush
<1>8. QED
  BY <1>6, <1>7 DEF LinkSuper

-----------------------------------------------------------------------------
(* dvmInitClass: the steps that change no class.                           *)

LEMMA LockClassInv ==
  ASSUME LoadingInv, NEW t \in Threads, LockClass(t) PROVE LoadingInv'
<1>1. At(t, "init", "lock") /\ Goto(t, "examine") /\ Quiet /\ UNCHANGED aborted
  BY DEF LockClass, bounds, Quiet
<1>2. QED
  BY <1>1, PlainGoto DEF FreePoints

LEMMA WaitForInitInv ==
  ASSUME LoadingInv, NEW t \in Threads, WaitForInit(t) PROVE LoadingInv'
<1>1. At(t, "init", "examine") /\ Goto(t, "wait") /\ Quiet /\ UNCHANGED aborted
  BY DEF WaitForInit, Examine, classes, bounds, Quiet
<1>2. QED
  BY <1>1, PlainGoto DEF FreePoints

LEMMA ParkInv ==
  ASSUME LoadingInv, NEW t \in Threads, Park(t) PROVE LoadingInv'
<1>1. At(t, "init", "wait") /\ Goto(t, "parked") /\ Quiet /\ UNCHANGED aborted
  BY DEF Park, bounds, Quiet
<1>2. QED
  BY <1>1, PlainGoto DEF FreePoints

LEMMA AwakeInv ==
  ASSUME LoadingInv, NEW t \in Threads, Awake(t) PROVE LoadingInv'
<1>1. PICK fn \in {"find", "init"} : At(t, fn, "parked")
  BY DEF Awake
<1>2. Goto(t, "lock") /\ Quiet /\ UNCHANGED aborted
  BY DEF Awake, classes, bounds, Quiet
<1>3. fn = "find" => Top(t).o \in ClassObject
  BY <1>1, AtFacts DEF FrameOK, NeedsClass
<1>4. QED
  BY <1>1, <1>2, <1>3, PlainGoto DEF FreePoints

\* The class is initialised, or an activation further out is doing so.
LEMMA NothingToDoInv ==
  ASSUME LoadingInv, NEW t \in Threads, NothingToDo(t) PROVE LoadingInv'
<1>1. At(t, "init", "examine") /\ Quiet
  BY DEF NothingToDo, Examine, Unlock, bounds, Quiet
<1>2. /\ ~aborted /\ stack[t] # <<>> /\ TypeInv /\ Depth(t) \in Nat
      /\ Top(t) = stack[t][Depth(t)] /\ Top(t).fn = "init" /\ Top(t).pc = "examine"
      /\ Top(t).o \in ClassObject
  BY <1>1, AtFacts DEF LoadingInv, ClassInv, FrameOK, NeedsClass
<1>3. ~Owns(Top(t))
  BY <1>2 DEF Owns
<1>4. PICK res : /\ Return(t, res)
                 /\ res = IF status[Top(t).o] = "error" THEN None ELSE Top(t).o
  BY DEF NothingToDo
<1>5. Popped(t, res)
  <2>1. res \in ClassObject \cup {None}
    BY <1>2, <1>4
  <2>2. QED
    BY <1>2, <1>4, <2>1, ReturnEffect
<1>6. ASSUME res # None
      PROVE  \/ status[Top(t).o] = "initialized"
             \/ OwnsIn(stack[t], Depth(t) - 1, Top(t).o)
  <2>1. CASE status[Top(t).o] = "initialized"
    BY <2>1
  <2>2. CASE status[Top(t).o] = "initializing" /\ initThreadId[Top(t).o] = t
    <3>1. OwnsIn(stack[t], Depth(t), Top(t).o)
      BY <1>2, <2>2 DEF LoadingInv, OwnerInv
    <3>2. PICK j \in 1..Depth(t) : Owns(stack[t][j]) /\ stack[t][j].o = Top(t).o
      BY <3>1 DEF OwnsIn
    <3>3. j # Depth(t)
      BY <1>2, <1>3, <3>2
    <3>4. j \in 1..(Depth(t) - 1)
      BY <1>2, <3>3
    <3>5. QED
      BY <3>2, <3>4 DEF OwnsIn
  <2>3. QED
    BY <1>4, <1>6, <2>1, <2>2 DEF NothingToDo, Examine
<1>7. QED
  BY <1>1, <1>2, <1>3, <1>5, <1>6, QuietPop

LEMMA NotifyErrorInv ==
  ASSUME LoadingInv, NEW t \in Threads, NotifyError(t) PROVE LoadingInv'
<1>1. At(t, "init", "notify") /\ Return(t, None) /\ Quiet
  BY DEF NotifyError, bounds, Quiet
<1>2. /\ ~aborted /\ stack[t] # <<>> /\ TypeInv /\ Top(t).pc = "notify"
  BY <1>1, AtFacts DEF LoadingInv, ClassInv
<1>3. Popped(t, None) /\ ~Owns(Top(t))
  BY <1>1, <1>2, ReturnEffect DEF Owns
<1>4. QED
  BY <1>1, <1>2, <1>3, QuietPop

\* An activation of dvmInitClass goes on with its class in its hands.
LEMMA OwnerStep ==
  ASSUME LoadingInv, NEW t \in Threads, ~aborted, stack[t] # <<>>, Owns(Top(t)),
         FrameOK(t, Top(t)), Quiet, UNCHANGED aborted,
         NEW f, Owns(f), f.o = Top(t).o, Early(f) => Early(Top(t)),
         NeedsSuper(f) => Ready(t, Depth(t), super[f.o])
  PROVE  FrameOK(t, f)' /\ TopBecomes(t, f)
<1>1. Holds(Top(t)) /\ Holds(f) /\ f.fn = "init" /\ ~Links(f) /\ NeedsClass(Top(t))
      /\ Undisturbed(t) /\ ~NeedsField(f)
  BY QuietUndisturbed DEF Holds, Owns, Links, NeedsClass, NeedsField
<1>2. FrameOK(t, f)'
  BY <1>1 DEF FrameOK, Quiet, names
<1>3. NotBelow(t, f.o)
  BY <1>1, StillHolds
<1>4. OwnersStay(t, f)
  BY QuietStay
<1>5. ASSUME f.pc \in {"clinit", "run", "used"}, super'[f.o] # None
      PROVE  ReadyFor(t, f, super'[f.o])
  <2>1. super' = super /\ NeedsSuper(f)
    BY <1>1, <1>5 DEF NeedsSuper, Quiet, names
  <2>2. ReadyFor(t, f, super[f.o])
    BY <1>1, <2>1, StillReady
  <2>3. QED
    BY <2>1, <2>2
<1>6. QED
  BY <1>1, <1>2, <1>3, <1>4, <1>5 DEF TopBecomes

LEMMA InitSuperInv ==
  ASSUME LoadingInv, NEW t \in Threads, InitSuper(t) PROVE LoadingInv'
<1>1. At(t, "init", "super") /\ Quiet /\ UNCHANGED aborted
  BY DEF InitSuper, classes, bounds, Quiet
<1>2. /\ ~aborted /\ stack[t] # <<>> /\ TypeInv /\ Top(t) \in Frames
      /\ Top(t).fn = "init" /\ Top(t).pc = "super" /\ FrameOK(t, Top(t))
      /\ Owns(Top(t)) /\ Early(Top(t)) /\ Top(t).o \in ClassObject
  BY <1>1, AtFacts DEF LoadingInv, ClassInv, FrameOK, NeedsClass, Owns, Early
<1>3. PICK s : s = super[Top(t).o]
  OBVIOUS
<1>4. s \in ClassObject \cup {None}
  BY <1>2, <1>3 DEF TypeInv
<1>5. CASE (s = None \/ SuperReady(s)) /\ Goto(t, "clinit")
  <2>1. PICK f : f = [Top(t) EXCEPT !.pc = "clinit"]
    OBVIOUS
  <2>2. "clinit" \in Points
    BY DEF Points
  <2>3. f.fn = "init" /\ f.pc = "clinit" /\ f.o = Top(t).o
    BY <1>2, <2>1, <2>2, FrameEdit
  <2>4. Moved(t, f)
    BY <1>2, <1>5, <2>1, <2>2, GotoEffect
  <2>5. NeedsSuper(f) => Ready(t, Depth(t), super[f.o])
    BY <1>3, <1>4, <1>5, <2>3 DEF NeedsSuper, Ready, SuperReady
  <2>6. Owns(f)
    BY <2>3 DEF Owns
  <2>7. FrameOK(t, f)' /\ TopBecomes(t, f)
    BY <1>1, <1>2, <2>3, <2>5, <2>6, OwnerStep
  <2>8. FrameInv'
    BY <1>1, <1>2, <2>3, <2>4, <2>7, QuietUndisturbed, MoveInv DEF AwaitsSuper, AwaitsField
  <2>9. ClassInv'
    BY <1>1, <2>4, QuietClasses DEF Moved, LoadingInv
  <2>10. QED
    BY <2>8, <2>9, Parts
<1>6. CASE s # None /\ Call(t, "superDone", Frame("init", name[s], s, "lock"))
  <2>1. PICK f, g : /\ f = [Top(t) EXCEPT !.pc = "superDone"]
                    /\ g = Frame("init", name[s], s, "lock")
    OBVIOUS
  <2>2. "superDone" \in Points /\ "lock" \in Points
    BY DEF Points
  <2>3. f \in Frames /\ f.fn = "init" /\ f.pc = "superDone" /\ f.o = Top(t).o
    BY <1>2, <2>1, <2>2, FrameEdit
  <2>4. s \in ClassObject /\ name[s] \in Names \cup {NoName}
    BY <1>2, <1>4, <1>6 DEF TypeInv
  <2>5. g \in Frames /\ g.fn = "init" /\ g.pc = "lock" /\ g.o = s
    BY <2>1, <2>2, <2>4 DEF Frame, Frames
  <2>6. Pushed(t, f, g)
    BY <1>2, <1>6, <2>1, <2>3, <2>5, CallEffect DEF Call
  <2>7. FrameOK(t, g)' /\ Entry(g)
    BY <2>4, <2>5 DEF FrameOK, Links, Owns, Entry
  <2>8. CallOK(f, g)'
    <3>1. super' = super
      BY <1>1 DEF Quiet, names
    <3>2. QED
      BY <1>3, <2>3, <2>5, <3>1 DEF CallOK, AwaitsField
  <2>9. Owns(f) /\ ~NeedsSuper(f)
    BY <2>3 DEF Owns, NeedsSuper
  <2>10. FrameOK(t, f)' /\ TopBecomes(t, f)
    BY <1>1, <1>2, <2>3, <2>9, OwnerStep
  <2>11. QED
    BY <1>1, <1>2, <2>6, <2>7, <2>8, <2>10, QuietPush
<1>7. QED
  BY <1>3, <1>5, <1>6 DEF InitSuper

LEMMA ClinitUsesInv ==
  ASSUME LoadingInv, NEW t \in Threads, ClinitUses(t) PROVE LoadingInv'
<1>1. InClinit(t) /\ Quiet /\ UNCHANGED aborted
  BY DEF ClinitUses, classes, bounds, Quiet
<1>2. PICK pc \in {"run", "used"} : At(t, "init", pc)
  BY <1>1 DEF InClinit
<1>3. /\ ~aborted /\ stack[t] # <<>> /\ TypeInv /\ Top(t) \in Frames
      /\ Top(t).fn = "init" /\ Top(t).pc \in {"run", "used"} /\ FrameOK(t, Top(t))
      /\ Owns(Top(t)) /\ Top(t).o \in ClassObject /\ status[Top(t).o] = "initializing"
      /\ NeedsMet(t, Depth(t)) /\ Top(t) = stack[t][Depth(t)]
  BY <1>2, AtFacts DEF LoadingInv, ClassInv, FrameOK, NeedsClass, Owns
<1>4. PICK i, f, g : /\ i = Top(t).i + 1 /\ Top(t).i < Len(Uses(t))
                     /\ f = [Top(t) EXCEPT !.pc = "used", !.i = i]
                     /\ g = Frame("use", Uses(t)[i], None, "start")
                     /\ CallFrom(t, f, g)
  BY DEF ClinitUses
<1>5. f \in Frames /\ f.fn = "init" /\ f.pc = "used" /\ f.o = Top(t).o /\ i \in Nat \ {0}
  <2>1. i \in Nat \ {0} /\ "used" \in Points
    BY <1>3, <1>4 DEF Frames, Points
  <2> HIDE DEF Points
  <2>2. QED
    BY <1>3, <1>4, <2>1 DEF Frames
<1>6. Uses(t)[i] \in Names
  <2>1. name[Top(t).o] \in Names
    BY <1>3 DEF LoadingInv, ClassInv, TableInv
  <2>2. program.uses \in [Names -> Seq(Names)]
    BY <1>3, ProgramAssumption DEF TypeInv
  <2>3. Uses(t) \in Seq(Names)
    BY <2>1, <2>2 DEF Uses
  <2>4. Len(Uses(t)) \in Nat /\ i \in 1..Len(Uses(t))
    <3>1. Len(Uses(t)) \in Nat
      BY <2>3
    <3>2. Top(t).i \in Nat
      BY <1>3 DEF Frames
    <3>3. QED
      BY <1>4, <3>1, <3>2
  <2>5. QED
    BY <2>3, <2>4, ElementOfSeq
<1>7. g \in Frames /\ g.fn = "use" /\ g.pc = "start" /\ g.d \in Names
  BY <1>4, <1>6 DEF Frame, Frames, Points
<1>8. Pushed(t, f, g)
  BY <1>3, <1>4, <1>5, <1>7, CallEffect
<1>9. FrameOK(t, g)' /\ Entry(g)
  BY <1>7 DEF FrameOK, NeedsClass, Links, Owns, Entry
<1>10. CallOK(f, g)'
  BY <1>5 DEF CallOK, AwaitsSuper, AwaitsField
<1>11. Owns(f) /\ ~Early(f)
  BY <1>5 DEF Owns, Early
<1>12. NeedsSuper(f) => Ready(t, Depth(t), super[f.o])
  BY <1>3, <1>5 DEF NeedsSuper, NeedsMet
<1>13. FrameOK(t, f)' /\ TopBecomes(t, f)
  BY <1>1, <1>3, <1>5, <1>11, <1>12, OwnerStep
<1>14. QED
  BY <1>1, <1>3, <1>8, <1>9, <1>10, <1>13, QuietPush

-----------------------------------------------------------------------------
(* dvmResolveStaticField.                                                  *)

LEMMA UseStep ==
  ASSUME LoadingInv, NEW t \in Threads, ~aborted, stack[t] # <<>>, Top(t).fn = "use",
         Undisturbed(t), UNCHANGED <<status, initThreadId>>,
         NEW f, f.fn = "use", f.d \in Names, NeedsClass(f) => f.o \in ClassObject,
         NeedsField(f) => Ready(t, Depth(t), f.o)
  PROVE  FrameOK(t, f)' /\ TopBecomes(t, f)
<1>1. ~Links(f) /\ ~Owns(f) /\ ~Holds(f) /\ ~Owns(Top(t))
  BY DEF Links, Owns, Holds
<1>2. FrameOK(t, f)'
  BY <1>1 DEF FrameOK
<1>3. OwnersStay(t, f)
  BY <1>1 DEF OwnersStay
<1>4. NeedsField(f) => ReadyFor(t, f, f.o)
  BY <1>1, StillReady
<1>5. QED
  BY <1>1, <1>2, <1>3, <1>4 DEF TopBecomes

\* What is in the cache is initialised, which is why nothing else is looked at.
LEMMA ResolveStaticFieldInv ==
  ASSUME LoadingInv, NEW t \in Threads, ResolveStaticField(t) PROVE LoadingInv'
<1>1. At(t, "use", "start") /\ Quiet /\ UNCHANGED aborted
  BY DEF ResolveStaticField, classes, bounds, Quiet
<1>2. /\ ~aborted /\ stack[t] # <<>> /\ TypeInv /\ Top(t) \in Frames
      /\ Top(t).fn = "use" /\ Top(t).d \in Names /\ Undisturbed(t)
      /\ UNCHANGED <<status, initThreadId>>
  BY <1>1, AtFacts, QuietUndisturbed DEF LoadingInv, ClassInv, FrameOK, Quiet
<1>3. PICK d, o : d = Top(t).d /\ o = resolved[d]
  OBVIOUS
<1>4. o \in ClassObject \cup {None} /\ (o # None => status[o] = "initialized")
  BY <1>2, <1>3 DEF TypeInv, LoadingInv, ClassInv, ResolvedInv
<1>5. CASE o # None /\ GotoWith(t, o, "use")
  <2>1. PICK f : f = [Top(t) EXCEPT !.pc = "use", !.o = o]
    OBVIOUS
  <2>2. "use" \in Points
    BY DEF Points
  <2>3. f.fn = "use" /\ f.pc = "use" /\ f.d = d /\ f.o = o
    <3>1. f.fn = Top(t).fn /\ f.d = Top(t).d
      BY <1>2, <2>1 DEF Frames
    <3>2. f.pc = "use" /\ f.o = o
      BY <1>2, <2>1 DEF Frames
    <3>3. QED
      BY <1>2, <1>3, <3>1, <3>2
  <2>4. Moved(t, f)
    BY <1>2, <1>4, <1>5, <2>1, <2>2, GotoWithEffect
  <2>5. Ready(t, Depth(t), f.o) /\ f.o \in ClassObject
    BY <1>4, <1>5, <2>3 DEF Ready
  <2>6. FrameOK(t, f)' /\ TopBecomes(t, f)
    BY <1>2, <1>3, <2>3, <2>5, UseStep
  <2>7. FrameInv'
    BY <1>2, <2>3, <2>4, <2>6, MoveInv DEF AwaitsSuper, AwaitsField
  <2>8. ClassInv'
    BY <1>1, <2>4, QuietClasses DEF Moved, LoadingInv
  <2>9. QED
    BY <2>7, <2>8, Parts
<1>6. CASE Call(t, "found", Frame("find", d, None, "lookup"))
  <2>1. PICK f, g : f = [Top(t) EXCEPT !.pc = "found"] /\ g = Frame("find", d, None, "lookup")
    OBVIOUS
  <2>2. "found" \in Points /\ "lookup" \in Points
    BY DEF Points
  <2>3. f \in Frames /\ f.fn = "use" /\ f.pc = "found" /\ f.d = d
    BY <1>2, <1>3, <2>1, <2>2, FrameEdit
  <2>4. g \in Frames /\ g.fn = "find" /\ g.pc = "lookup" /\ g.d \in Names
    BY <1>2, <1>3, <2>1, <2>2 DEF Frame, Frames
  <2>5. Pushed(t, f, g)
    BY <1>2, <1>6, <2>1, <2>3, <2>4, CallEffect DEF Call
  <2>6. FrameOK(t, f)' /\ TopBecomes(t, f)
    BY <1>2, <1>3, <2>3, UseStep DEF NeedsClass, NeedsField
  <2>7. FrameOK(t, g)' /\ Entry(g)
    BY <2>4 DEF FrameOK, NeedsClass, Links, Owns, Entry
  <2>8. CallOK(f, g)'
    BY <2>3 DEF CallOK, AwaitsSuper, AwaitsField
  <2>9. QED
    BY <1>1, <1>2, <2>5, <2>6, <2>7, <2>8, QuietPush
<1>7. QED
  BY <1>3, <1>5, <1>6 DEF ResolveStaticField

LEMMA InitFieldClassInv ==
  ASSUME LoadingInv, NEW t \in Threads, InitFieldClass(t) PROVE LoadingInv'
<1>1. At(t, "use", "found") /\ Quiet /\ UNCHANGED aborted
  BY DEF InitFieldClass, classes, bounds, Quiet
<1>2. /\ ~aborted /\ stack[t] # <<>> /\ TypeInv /\ Top(t) \in Frames
      /\ Top(t).fn = "use" /\ Top(t).d \in Names /\ Undisturbed(t)
      /\ UNCHANGED <<status, initThreadId>>
  BY <1>1, AtFacts, QuietUndisturbed DEF LoadingInv, ClassInv, FrameOK, Quiet
<1>3. PICK o : o = Top(t).res
  OBVIOUS
<1>4. o \in ClassObject \cup {None}
  BY <1>2, <1>3 DEF Frames
<1>5. CASE Return(t, None)
  <2>1. Popped(t, None) /\ ~Owns(Top(t))
    BY <1>2, <1>5, ReturnEffect DEF Owns
  <2>2. QED
    BY <1>1, <1>2, <2>1, QuietPop
<1>6. CASE o # None /\ status[o] = "initialized" /\ GotoWith(t, o, "cache")
  <2>1. PICK f : f = [Top(t) EXCEPT !.pc = "cache", !.o = o]
    OBVIOUS
  <2>2. "cache" \in Points
    BY DEF Points
  <2>3. f.fn = "use" /\ f.pc = "cache" /\ f.d = Top(t).d /\ f.o = o
    <3>1. f.fn = Top(t).fn /\ f.d = Top(t).d
      BY <1>2, <2>1 DEF Frames
    <3>2. f.pc = "cache" /\ f.o = o
      BY <1>2, <2>1 DEF Frames
    <3>3. QED
      BY <1>2, <3>1, <3>2
  <2>4. Moved(t, f)
    BY <1>2, <1>4, <1>6, <2>1, <2>2, GotoWithEffect
  <2>5. Ready(t, Depth(t), f.o) /\ f.o \in ClassObject
    BY <1>4, <1>6, <2>3 DEF Ready
  <2>6. FrameOK(t, f)' /\ TopBecomes(t, f)
    BY <1>2, <2>3, <2>5, UseStep
  <2>7. FrameInv'
    BY <1>2, <2>3, <2>4, <2>6, MoveInv DEF AwaitsSuper, AwaitsField
  <2>8. ClassInv'
    BY <1>1, <2>4, QuietClasses DEF Moved, LoadingInv
  <2>9. QED
    BY <2>7, <2>8, Parts
<1>7. CASE o # None /\ CallFrom(t, [[Top(t) EXCEPT !.o = o] EXCEPT !.pc = "initDone"],
                                   Frame("init", [Top(t) EXCEPT !.o = o].d, o, "lock"))
  <2>1. PICK f, g : /\ f = [[Top(t) EXCEPT !.o = o] EXCEPT !.pc = "initDone"]
                    /\ g = Frame("init", [Top(t) EXCEPT !.o = o].d, o, "lock")
    OBVIOUS
  <2>2. "initDone" \in Points /\ "lock" \in Points
    BY DEF Points
  <2>3. f \in Frames
    BY <1>2, <1>4, <2>1, <2>2 DEF Frames
  <2>4. f.fn = "use" /\ f.d = Top(t).d
    BY <1>2, <2>1 DEF Frames
  <2>5. f.pc = "initDone" /\ f.o = o
    BY <1>2, <2>1 DEF Frames
  <2>6. [Top(t) EXCEPT !.o = o].d = Top(t).d
    BY <1>2 DEF Frames
  <2>7. g \in Frames /\ g.fn = "init" /\ g.pc = "lock" /\ g.o = o
    BY <1>2, <1>4, <2>1, <2>2, <2>6 DEF Frame, Frames
  <2>8. Pushed(t, f, g)
    BY <1>2, <1>7, <2>1, <2>3, <2>7, CallEffect
  <2>9. FrameOK(t, f)' /\ TopBecomes(t, f)
    BY <1>2, <1>4, <1>7, <2>4, <2>5, UseStep DEF NeedsField
  <2>10. FrameOK(t, g)' /\ Entry(g)
    BY <1>4, <1>7, <2>7 DEF FrameOK, Links, Owns, Entry
  <2>11. CallOK(f, g)'
    BY <2>4, <2>5, <2>7 DEF CallOK, AwaitsSuper
  <2>12. QED
    BY <1>1, <1>2, <2>8, <2>9, <2>10, <2>11, QuietPush
<1>8. QED
  BY <1>3, <1>5, <1>6, <1>7 DEF InitFieldClass

LEMMA ResolveFailsInv ==
  ASSUME LoadingInv, NEW t \in Threads, ResolveFails(t) PROVE LoadingInv'
<1>1. At(t, "use", "initDone") /\ Return(t, None) /\ Quiet
  BY DEF ResolveFails, classes, bounds, Quiet
<1>2. /\ ~aborted /\ stack[t] # <<>> /\ TypeInv /\ Top(t).fn = "use"
  BY <1>1, AtFacts DEF LoadingInv, ClassInv
<1>3. Popped(t, None) /\ ~Owns(Top(t))
  BY <1>1, <1>2, ReturnEffect DEF Owns
<1>4. QED
  BY <1>1, <1>2, <1>3, QuietPop

LEMMA UseFieldInv ==
  ASSUME LoadingInv, NEW t \in Threads, UseField(t) PROVE LoadingInv'
<1>1. At(t, "use", "use") /\ Return(t, Top(t).o) /\ Quiet
  BY DEF UseField, classes, bounds, Quiet
<1>2. /\ ~aborted /\ stack[t] # <<>> /\ TypeInv /\ Top(t).fn = "use" /\ Top(t).o \in ClassObject
  BY <1>1, AtFacts DEF LoadingInv, ClassInv, FrameOK, NeedsClass
<1>3. Popped(t, Top(t).o) /\ ~Owns(Top(t))
  BY <1>1, <1>2, ReturnEffect DEF Owns
<1>4. QED
  BY <1>1, <1>2, <1>3, QuietPop

\* Only an initialised class gets into the cache.
LEMMA SetResolvedFieldInv ==
  ASSUME LoadingInv, NEW t \in Threads, SetResolvedField(t) PROVE LoadingInv'
<1>1. /\ UNCHANGED <<program, table, name, super, status, initThreadId, runs, aborted>>
      /\ Goto(t, "use")
      /\ resolved' = IF Cacheable(Top(t).o) THEN [resolved EXCEPT ![Top(t).d] = Top(t).o] ELSE resolved
  BY DEF SetResolvedField, bounds
<1>2. PICK pc \in {"cache", "initDone"} : At(t, "use", pc) /\ (pc = "initDone" => Top(t).res # None)
  BY DEF SetResolvedField
<1>3. /\ ~aborted /\ stack[t] # <<>> /\ TypeInv /\ Top(t) \in Frames /\ Returned(t)
      /\ Top(t).fn = "use" /\ Top(t).pc = pc /\ Top(t).d \in Names /\ Top(t).o \in ClassObject
      /\ NeedsMet(t, Depth(t)) /\ Top(t) = stack[t][Depth(t)]
  BY <1>2, AtFacts DEF LoadingInv, ClassInv, FrameOK, NeedsClass
<1>4. Undisturbed(t) /\ UNCHANGED <<status, initThreadId>>
  BY <1>1 DEF Undisturbed
<1>5. Ready(t, Depth(t), Top(t).o)
  <2>1. CASE pc = "cache"
    BY <1>3, <2>1 DEF NeedsMet, NeedsField
  <2>2. CASE pc = "initDone"
    BY <1>2, <1>3, <2>2 DEF Returned, AwaitsField
  <2>3. QED
    BY <2>1, <2>2
<1>6. PICK f : f = [Top(t) EXCEPT !.pc = "use"]
  OBVIOUS
<1>7. "use" \in Points
  BY DEF Points
<1>8. f.fn = "use" /\ f.pc = "use" /\ f.d = Top(t).d /\ f.o = Top(t).o
  BY <1>3, <1>6, <1>7, FrameEdit
<1>9. Moved(t, f)
  BY <1>1, <1>3, <1>6, <1>7, GotoEffect
<1>10. FrameOK(t, f)' /\ TopBecomes(t, f)
  BY <1>3, <1>4, <1>5, <1>8, UseStep
<1>11. FrameInv'
  BY <1>3, <1>4, <1>8, <1>9, <1>10, MoveInv DEF AwaitsSuper, AwaitsField
<1>12. ClassInv'
  <2>1. stack' \in [Threads -> Seq(Frames)]
    BY <1>9 DEF Moved
  <2>2. ClassInv
    BY DEF LoadingInv
  <2>3. TypeInv'
    BY <1>1, <1>3, <2>1 DEF TypeInv
  <2>4. TableInv' /\ RunsInv'
    BY <1>1, <2>2 DEF ClassInv, TableInv, RunsInv
  <2>5. ResolvedInv'
    <3>1. ASSUME NEW d \in Names, resolved'[d] # None PROVE status'[resolved'[d]] = "initialized"
      BY <1>1, <1>3, <2>2, <3>1 DEF ClassInv, ResolvedInv, Cacheable, TypeInv
    <3>2. QED
      BY <3>1 DEF ResolvedInv
  <2>6. QED
    BY <2>3, <2>4, <2>5 DEF ClassInv
<1>13. QED
  BY <1>11, <1>12, Parts

LEMMA BeginInv ==
  ASSUME LoadingInv, NEW t \in Threads, Begin(t) PROVE LoadingInv'
<1>1. stack[t] = <<>> /\ ~aborted /\ Quiet /\ UNCHANGED aborted
  BY DEF Begin, classes, Quiet
<1>2. PICK d \in Names : stack' = [stack EXCEPT ![t] = <<Frame("use", d, None, "start")>>]
  BY DEF Begin
<1>3. PICK g : g = Frame("use", d, None, "start")
  OBVIOUS
<1>4. g \in Frames /\ g.fn = "use" /\ g.pc = "start" /\ g.d \in Names /\ g.res = None
  BY <1>3 DEF Frame, Frames, Points
<1>5. TypeInv /\ Undisturbed(t) /\ Depth(t) = 0
  BY <1>1, QuietUndisturbed DEF LoadingInv, ClassInv, Depth
<1>6. /\ stack' \in [Threads -> Seq(Frames)] /\ Others(t)
      /\ stack'[t] = <<g>> /\ Len(stack'[t]) = 1 /\ stack'[t][1] = g
  BY <1>2, <1>3, <1>4, <1>5 DEF TypeInv, Others
<1>7. StackOK(t)'
  <2>1. Depth(t)' = 1 /\ Top(t)' = g
    BY <1>6 DEF Depth, Top
  <2>2. ~Links(g) /\ ~Owns(g) /\ ~NeedsClass(g) /\ ~NeedsSuper(g)' /\ ~NeedsField(g)
    BY <1>4 DEF Links, Owns, NeedsClass, NeedsSuper, NeedsField
  <2>3. FrameOK(t, stack[t][1])' /\ NeedsMet(t, 1)'
    BY <1>4, <1>6, <2>2 DEF FrameOK, NeedsMet, NeedsSuper
  <2>4. Returned(t)'
    BY <1>4, <2>1 DEF Returned
  <2>5. OneHolder(stack[t])'
    BY <1>6 DEF OneHolder
  <2>6. QED
    BY <2>1, <2>3, <2>4, <2>5 DEF StackOK
<1>8. OwnerInv'
  <2>1. status' = status /\ initThreadId' = initThreadId
    BY <1>1 DEF Quiet
  <2>2. ASSUME NEW o \in ClassObject, status[o] = "initializing"
        PROVE  /\ initThreadId[o] \in Threads
               /\ \E j \in 1..Len(stack'[initThreadId[o]]) :
                    Owns(stack'[initThreadId[o]][j]) /\ stack'[initThreadId[o]][j].o = o
    <3>1. PICK v : v = initThreadId[o]
      OBVIOUS
    <3>2. v \in Threads /\ OwnsIn(stack[v], Depth(v), o)
      BY <2>2, <3>1 DEF LoadingInv, OwnerInv
    <3>3. v # t
      BY <1>5, <3>2 DEF OwnsIn
    <3>4. QED
      BY <1>6, <3>1, <3>2, <3>3 DEF Others, OwnsIn, Depth
  <2>3. QED
    BY <2>1, <2>2 DEF OwnerInv, OwnsIn, Depth
<1>9. ClassInv'
  BY <1>1, <1>6, QuietClasses DEF LoadingInv
<1>10. QED
  BY <1>1, <1>5, <1>6, <1>7, <1>8, <1>9, OtherStacks, Parts DEF FrameInv

-----------------------------------------------------------------------------
(* Steps that change a class.                                              *)

\* Whoever has a class in his hands shows in its status.
LEMMA NoHolder ==
  ASSUME LoadingInv, ~aborted, NEW t \in Threads, NEW o, status[o] \notin {"loaded", "initializing"}
  PROVE  \A k \in 1..Depth(t) : Holds(stack[t][k]) => stack[t][k].o # o
<1>1. ASSUME NEW k \in 1..Depth(t), Holds(stack[t][k]) PROVE stack[t][k].o # o
  <2>1. FrameOK(t, stack[t][k])
    BY DEF LoadingInv, StackOK
  <2>2. QED
    BY <1>1, <2>1 DEF FrameOK, Holds
<1>2. QED
  BY <1>1

\* A class may change that is in nobody's hands, or in those of t's innermost
\* activation.
LEMMA OneClass ==
  ASSUME LoadingInv, ~aborted, NEW t \in Threads, NEW o \in ClassObject,
         \A p \in ClassObject \ {o} : /\ status'[p] = status[p] /\ name'[p] = name[p]
                                      /\ initThreadId'[p] = initThreadId[p] /\ super'[p] = super[p],
         runs' = runs, status[o] # "initialized",
         \/ status[o] \notin {"loaded", "initializing"}
         \/ stack[t] # <<>> /\ Holds(Top(t)) /\ Top(t).o = o
  PROVE  Undisturbed(t)
<1>1. ASSUME NEW u \in Threads, NEW k \in 1..Depth(u), u # t \/ k < Depth(t), Holds(stack[u][k])
      PROVE  stack[u][k].o \in ClassObject \ {o}
  <2>1. FrameOK(u, stack[u][k]) /\ NeedsClass(stack[u][k])
    BY <1>1, NeedyOwn DEF LoadingInv, StackOK, Holds
  <2>2. stack[u][k].o \in ClassObject
    BY <2>1 DEF FrameOK
  <2>3. CASE status[o] \notin {"loaded", "initializing"}
    BY <1>1, <2>2, <2>3, NoHolder
  <2>4. CASE stack[t] # <<>> /\ Holds(Top(t)) /\ Top(t).o = o
    <3>1. ASSUME stack[u][k].o = o PROVE FALSE
      <4>1. /\ Depth(t) \in Nat /\ Depth(t) \in 1..Depth(t) /\ Top(t) = stack[t][Depth(t)]
            /\ StackOK(t)
        BY <2>4, StackFacts DEF LoadingInv, ClassInv, Top
      <4>2. initThreadId[o] = t
        BY <2>4, <4>1 DEF StackOK, FrameOK, Holds
      <4>3. initThreadId[o] = u
        BY <1>1, <2>1, <3>1 DEF FrameOK, Holds
      <4>4. k < Depth(t) /\ u = t
        BY <1>1, <4>2, <4>3
      <4>5. NotBelow(t, o)
        BY <2>4, StillHolds
      <4>6. k \in 1..(Depth(t) - 1)
        BY <4>1, <4>4
      <4>7. QED
        BY <1>1, <3>1, <4>4, <4>5, <4>6 DEF NotBelow
    <3>2. QED
      BY <2>2, <3>1
  <2>5. QED
    BY <2>3, <2>4
<1>2. \A p \in ClassObject : status[p] = "initialized" => status'[p] = "initialized"
  OBVIOUS
<1>3. QED
  BY <1>1, <1>2 DEF Undisturbed

\* The life of a ClassObject between its publication and its end.
LEMMA StatusChange ==
  ASSUME ClassInv, NEW o \in ClassObject, NEW s \in Statuses \ {"free"},
         status' = [status EXCEPT ![o] = s],
         UNCHANGED <<program, table, name, resolved, runs>>,
         super' \in [ClassObject -> ClassObject \cup {None}],
         initThreadId' \in [ClassObject -> Threads \cup {Nobody}],
         stack' \in [Threads -> Seq(Frames)],
         status[o] \notin {"free", "error", "initialized"},
         status[o] = "initializing" => s \in {"initialized", "error"}
  PROVE  ClassInv'
<1>1. TypeInv
  BY DEF ClassInv
<1>2. TypeInv'
  BY <1>1 DEF TypeInv
<1>3. \A p \in ClassObject : status'[p] = IF p = o THEN s ELSE status[p]
  BY <1>1 DEF TypeInv
<1>4. TableInv'
  <2>1. \A d \in Names :
          table[d] # None => name[table[d]] = d /\ status'[table[d]] # "free"
    BY <1>1, <1>3 DEF ClassInv, TableInv, TypeInv
  <2>2. \A p \in ClassObject :
          status'[p] \notin {"free", "error"} => name[p] \in Names /\ table[name[p]] = p
    BY <1>3 DEF ClassInv, TableInv
  <2>3. QED
    BY <2>1, <2>2 DEF TableInv
<1>5. RunsInv'
  BY <1>1, <1>3 DEF ClassInv, RunsInv, TypeInv
<1>6. ResolvedInv'
  BY <1>1, <1>3 DEF ClassInv, ResolvedInv, TypeInv
<1>7. QED
  BY <1>2, <1>4, <1>5, <1>6 DEF ClassInv

LEMMA VerifyClassInv ==
  ASSUME LoadingInv, NEW t \in Threads, VerifyClass(t) PROVE LoadingInv'
<1>0. At(t, "init", "examine")
  BY DEF VerifyClass, Examine
<1>1. /\ ~aborted /\ stack[t] # <<>> /\ TypeInv /\ Top(t) \in Frames /\ Depth(t) \in Nat
      /\ Top(t).fn = "init" /\ Top(t).pc = "examine" /\ FrameOK(t, Top(t))
      /\ Top(t).o \in ClassObject /\ Top(t) = stack[t][Depth(t)]
  BY <1>0, AtFacts DEF LoadingInv, ClassInv, FrameOK, NeedsClass
<1>2. PICK o, f : o = Top(t).o /\ f = Top(t)
  OBVIOUS
<1>3. /\ status[o] = "resolved" /\ status' = [status EXCEPT ![o] = "verified"]
      /\ UNCHANGED <<program, table, name, super, resolved, initThreadId, runs, stack, aborted>>
  BY <1>2 DEF VerifyClass, Examine, names, bounds
<1>4. \A p \in ClassObject : status'[p] = IF p = o THEN "verified" ELSE status[p]
  BY <1>1, <1>3 DEF TypeInv
<1>5. Undisturbed(t)
  BY <1>1, <1>2, <1>3, <1>4, OneClass
<1>6. Moved(t, f)
  BY <1>1, <1>2, <1>3 DEF Moved, Others, TypeInv, Depth
<1>7. ~Links(f) /\ ~Owns(f) /\ ~NeedsField(f) /\ ~AwaitsSuper(f) /\ ~AwaitsField(f)
  BY <1>1, <1>2 DEF Links, Owns, NeedsField, AwaitsSuper, AwaitsField
<1>8. FrameOK(t, f)'
  BY <1>1, <1>2, <1>7 DEF FrameOK
<1>9. OwnersStay(t, f)
  BY <1>2, <1>3, <1>4, <1>7 DEF OwnersStay
<1>10. TopBecomes(t, f)
  BY <1>1, <1>2, <1>7, <1>9 DEF TopBecomes, Holds
<1>11. FrameInv'
  BY <1>1, <1>5, <1>6, <1>7, <1>8, <1>10, MoveInv
<1>12. ClassInv'
  <2>1. ClassInv
    BY DEF LoadingInv
  <2>2. "verified" \in Statuses \ {"free"} /\ o \in ClassObject
    BY <1>1, <1>2 DEF Statuses
  <2>3. /\ super' \in [ClassObject -> ClassObject \cup {None}]
        /\ initThreadId' \in [ClassObject -> Threads \cup {Nobody}]
        /\ stack' \in [Threads -> Seq(Frames)]
    BY <1>1, <1>3 DEF TypeInv
  <2>4. QED
    BY <1>3, <2>1, <2>2, <2>3, StatusChange
<1>13. QED
  BY <1>11, <1>12, Parts

LEMMA RejectClassInv ==
  ASSUME LoadingInv, NEW t \in Threads, RejectClass(t) PROVE LoadingInv'
<1>0. At(t, "init", "examine")
  BY DEF RejectClass, Examine
<1>1. /\ ~aborted /\ stack[t] # <<>> /\ TypeInv
      /\ Top(t).fn = "init" /\ Top(t).pc = "examine" /\ Top(t).o \in ClassObject
  BY <1>0, AtFacts DEF LoadingInv, ClassInv, FrameOK, NeedsClass
<1>2. PICK o : o = Top(t).o
  OBVIOUS
<1>3. /\ status[o] \in {"resolved", "verified"} /\ status' = [status EXCEPT ![o] = "error"]
      /\ UNCHANGED <<program, table, name, super, resolved, initThreadId, runs>>
      /\ Return(t, None)
  BY <1>2 DEF RejectClass, Examine, names, Unlock
<1>4. \A p \in ClassObject : status'[p] = IF p = o THEN "error" ELSE status[p]
  BY <1>1, <1>3 DEF TypeInv
<1>5. Undisturbed(t)
  BY <1>1, <1>2, <1>3, <1>4, OneClass
<1>6. Popped(t, None) /\ ~Owns(Top(t))
  BY <1>1, <1>3, ReturnEffect DEF Owns
<1>7. FrameInv'
  BY <1>1, <1>3, <1>4, <1>5, <1>6, PopInv
<1>8. ClassInv'
  <2>1. ClassInv
    BY DEF LoadingInv
  <2>2. "error" \in Statuses \ {"free"} /\ o \in ClassObject
    BY <1>1, <1>2 DEF Statuses
  <2>3. /\ super' \in [ClassObject -> ClassObject \cup {None}]
        /\ initThreadId' \in [ClassObject -> Threads \cup {Nobody}]
        /\ stack' \in [Threads -> Seq(Frames)]
    BY <1>1, <1>3, <1>6 DEF TypeInv, Popped
  <2>4. QED
    BY <1>3, <2>1, <2>2, <2>3, StatusChange
<1>9. QED
  BY <1>7, <1>8, Parts

\* The thread takes the class into its hands, and so becomes its initThreadId.
LEMMA BeginInitInv ==
  ASSUME LoadingInv, NEW t \in Threads, BeginInit(t) PROVE LoadingInv'
<1>0. At(t, "init", "examine")
  BY DEF BeginInit, Examine
<1>1. /\ ~aborted /\ stack[t] # <<>> /\ TypeInv /\ Top(t) \in Frames /\ Depth(t) \in Nat
      /\ Top(t).fn = "init" /\ Top(t).pc = "examine" /\ Top(t).o \in ClassObject
  BY <1>0, AtFacts DEF LoadingInv, ClassInv, FrameOK, NeedsClass
<1>2. PICK o : o = Top(t).o
  OBVIOUS
<1>3. /\ status[o] = "verified" /\ status' = [status EXCEPT ![o] = "initializing"]
      /\ initThreadId' = [initThreadId EXCEPT ![o] = t]
      /\ UNCHANGED <<program, table, name, super, resolved, runs, aborted>>
      /\ Goto(t, "super")
  BY <1>2 DEF BeginInit, Examine, names, bounds
<1>4. /\ \A p \in ClassObject : status'[p] = IF p = o THEN "initializing" ELSE status[p]
      /\ \A p \in ClassObject : initThreadId'[p] = IF p = o THEN t ELSE initThreadId[p]
  BY <1>1, <1>3 DEF TypeInv
<1>5. Undisturbed(t)
  BY <1>1, <1>2, <1>3, <1>4, OneClass
<1>6. PICK f : f = [Top(t) EXCEPT !.pc = "super"]
  OBVIOUS
<1>7. "super" \in Points
  BY DEF Points
<1>8. f.fn = "init" /\ f.pc = "super" /\ f.o = o
  BY <1>1, <1>2, <1>6, <1>7, FrameEdit
<1>9. Moved(t, f)
  BY <1>1, <1>3, <1>6, <1>7, GotoEffect
<1>10. Owns(f) /\ ~Links(f) /\ ~NeedsField(f) /\ ~AwaitsSuper(f) /\ ~AwaitsField(f) /\ ~Owns(Top(t))
  BY <1>1, <1>8 DEF Owns, Links, NeedsField, AwaitsSuper, AwaitsField
<1>11. runs[name[o]] = 0
  <2>1. name[o] \in Names /\ table[name[o]] = o
    BY <1>1, <1>2, <1>3 DEF LoadingInv, ClassInv, TableInv
  <2>2. runs[name[o]] # 1
    BY <1>3, <2>1 DEF LoadingInv, ClassInv, RunsInv
  <2>3. QED
    BY <1>1, <2>1, <2>2 DEF TypeInv
<1>12. FrameOK(t, f)'
  BY <1>1, <1>2, <1>3, <1>4, <1>8, <1>10, <1>11 DEF FrameOK
<1>13. NotBelow(t, o)
  BY <1>1, <1>3, NoHolder DEF NotBelow
<1>14. OwnersStay(t, f)
  BY <1>4, <1>8, <1>10 DEF OwnersStay
<1>15. TopBecomes(t, f)
  BY <1>1, <1>2, <1>8, <1>10, <1>13, <1>14 DEF TopBecomes
<1>16. FrameInv'
  BY <1>1, <1>5, <1>9, <1>10, <1>12, <1>15, MoveInv
<1>17. ClassInv'
  <2>1. ClassInv
    BY DEF LoadingInv
  <2>2. "initializing" \in Statuses \ {"free"} /\ o \in ClassObject
    BY <1>1, <1>2 DEF Statuses
  <2>3. /\ super' \in [ClassObject -> ClassObject \cup {None}]
        /\ initThreadId' \in [ClassObject -> Threads \cup {Nobody}]
        /\ stack' \in [Threads -> Seq(Frames)]
    BY <1>1, <1>3, <1>9 DEF TypeInv, Moved
  <2>4. QED
    BY <1>3, <2>1, <2>2, <2>3, StatusChange
<1>18. QED
  BY <1>16, <1>17, Parts

LEMMA SuperFailedInv ==
  ASSUME LoadingInv, NEW t \in Threads, SuperFailed(t) PROVE LoadingInv'
<1>0. At(t, "init", "superDone")
  BY DEF SuperFailed
<1>1. /\ ~aborted /\ stack[t] # <<>> /\ TypeInv /\ Top(t) \in Frames /\ FrameOK(t, Top(t))
      /\ Top(t).fn = "init" /\ Top(t).pc = "superDone" /\ Top(t).o \in ClassObject
      /\ Owns(Top(t)) /\ Holds(Top(t))
  BY <1>0, AtFacts DEF LoadingInv, ClassInv, FrameOK, NeedsClass, Owns, Holds
<1>2. PICK o : o = Top(t).o
  OBVIOUS
<1>3. /\ status[o] = "initializing" /\ status' = [status EXCEPT ![o] = "error"]
      /\ UNCHANGED <<program, table, name, super, resolved, initThreadId, runs, aborted>>
      /\ Goto(t, "notify")
  BY <1>1, <1>2 DEF SuperFailed, FrameOK, names, bounds
<1>4. \A p \in ClassObject : status'[p] = IF p = o THEN "error" ELSE status[p]
  BY <1>1, <1>3 DEF TypeInv
<1>5. Undisturbed(t)
  BY <1>1, <1>2, <1>3, <1>4, OneClass
<1>6. PICK f : f = [Top(t) EXCEPT !.pc = "notify"]
  OBVIOUS
<1>7. "notify" \in Points
  BY DEF Points
<1>8. f.fn = "init" /\ f.pc = "notify" /\ f.o = o
  BY <1>1, <1>2, <1>6, <1>7, FrameEdit
<1>9. Moved(t, f)
  BY <1>1, <1>3, <1>6, <1>7, GotoEffect
<1>10. ~Owns(f) /\ ~Links(f) /\ ~NeedsField(f) /\ ~AwaitsSuper(f) /\ ~AwaitsField(f)
  BY <1>8 DEF Owns, Links, NeedsField, AwaitsSuper, AwaitsField
<1>11. FrameOK(t, f)'
  BY <1>1, <1>2, <1>8, <1>10 DEF FrameOK
<1>12. OwnersStay(t, f)
  BY <1>2, <1>3, <1>4 DEF OwnersStay
<1>13. TopBecomes(t, f)
  BY <1>1, <1>2, <1>8, <1>10, <1>12 DEF TopBecomes, Holds
<1>14. FrameInv'
  BY <1>1, <1>5, <1>9, <1>10, <1>11, <1>13, MoveInv
<1>15. ClassInv'
  <2>1. ClassInv
    BY DEF LoadingInv
  <2>2. "error" \in Statuses \ {"free"} /\ o \in ClassObject
    BY <1>1, <1>2 DEF Statuses
  <2>3. /\ super' \in [ClassObject -> ClassObject \cup {None}]
        /\ initThreadId' \in [ClassObject -> Threads \cup {Nobody}]
        /\ stack' \in [Threads -> Seq(Frames)]
    BY <1>1, <1>3, <1>9 DEF TypeInv, Moved
  <2>4. QED
    BY <1>3, <2>1, <2>2, <2>3, StatusChange
<1>16. QED
  BY <1>14, <1>15, Parts

\* <clinit> begins; it was not begun before, and the class bound to the name is
\* in the hands of this activation alone.
LEMMA BeginClinitInv ==
  ASSUME LoadingInv, NEW t \in Threads, BeginClinit(t) PROVE LoadingInv'
<1>0. PICK pc \in {"clinit", "superDone"} :
        At(t, "init", pc) /\ (pc = "superDone" => Top(t).res # None)
  BY DEF BeginClinit
<1>1. /\ ~aborted /\ stack[t] # <<>> /\ TypeInv /\ Top(t) \in Frames /\ FrameOK(t, Top(t))
      /\ Top(t).fn = "init" /\ Top(t).pc = pc /\ Top(t).o \in ClassObject
      /\ Owns(Top(t)) /\ Early(Top(t)) /\ Holds(Top(t)) /\ NeedsClass(Top(t))
      /\ Returned(t) /\ NeedsMet(t, Depth(t)) /\ Top(t) = stack[t][Depth(t)] /\ Depth(t) \in Nat
  BY <1>0, AtFacts DEF LoadingInv, ClassInv, FrameOK, NeedsClass, Owns, Holds, Early
<1>2. PICK o : o = Top(t).o
  OBVIOUS
<1>3. /\ UNCHANGED <<program, table, name, super, resolved, status, initThreadId, aborted>>
      /\ runs' = [runs EXCEPT ![name[o]] = @ + 1]
      /\ Goto(t, "run")
  BY <1>2 DEF BeginClinit, classes, names, bounds
<1>4. /\ status[o] = "initializing" /\ initThreadId[o] = t /\ runs[name[o]] = 0
      /\ name[o] \in Names /\ table[name[o]] = o
  BY <1>1, <1>2 DEF FrameOK, LoadingInv, ClassInv, TableInv
<1>5. \A d \in Names : runs'[d] = IF d = name[o] THEN 1 ELSE runs[d]
  BY <1>1, <1>3, <1>4 DEF TypeInv
<1>6. Undisturbed(t)
  <2>1. ASSUME NEW u \in Threads, NEW k \in 1..Depth(u), u # t \/ k < Depth(t), Owns(stack[u][k])
        PROVE  runs'[name[stack[u][k].o]] = runs[name[stack[u][k].o]]
    <3>1. PICK p : p = stack[u][k].o
      OBVIOUS
    <3>2. /\ p \in ClassObject /\ status[p] = "initializing" /\ initThreadId[p] = u
      BY <1>1, <2>1, <3>1, NeedyOwn DEF LoadingInv, StackOK, FrameOK
    <3>3. p # o
      <4>1. ASSUME p = o PROVE FALSE
        <5>1. u = t /\ k \in 1..(Depth(t) - 1)
          BY <1>1, <1>4, <2>1, <3>2, <4>1
        <5>2. NotBelow(t, o)
          BY <1>1, <1>2, StillHolds
        <5>3. QED
          BY <2>1, <3>1, <4>1, <5>1, <5>2 DEF NotBelow, Holds
      <4>2. QED
        BY <4>1
    <3>4. name[p] \in Names /\ table[name[p]] = p
      BY <3>2 DEF LoadingInv, ClassInv, TableInv
    <3>5. name[p] # name[o]
      BY <1>4, <3>3, <3>4
    <3>6. QED
      BY <1>5, <3>1, <3>4, <3>5
  <2>2. QED
    BY <1>3, <2>1 DEF Undisturbed
<1>7. PICK f : f = [Top(t) EXCEPT !.pc = "run"]
  OBVIOUS
<1>8. "run" \in Points
  BY DEF Points
<1>9. f.fn = "init" /\ f.pc = "run" /\ f.o = o
  BY <1>1, <1>2, <1>7, <1>8, FrameEdit
<1>10. Moved(t, f)
  BY <1>1, <1>3, <1>7, <1>8, GotoEffect
<1>11. /\ Owns(f) /\ ~Early(f) /\ ~Links(f) /\ ~NeedsField(f) /\ ~AwaitsSuper(f)
       /\ ~AwaitsField(f)
  BY <1>9 DEF Owns, Early, Links, NeedsField, AwaitsSuper, AwaitsField
<1>12. FrameOK(t, f)'
  BY <1>1, <1>2, <1>3, <1>4, <1>9, <1>11 DEF FrameOK
<1>13. NotBelow(t, f.o)
  BY <1>1, <1>2, <1>9, StillHolds
<1>14. OwnersStay(t, f)
  BY <1>2, <1>3, <1>9, <1>11 DEF OwnersStay
<1>15. ASSUME super[o] # None PROVE ReadyFor(t, f, super[o])
  <2>1. Ready(t, Depth(t), super[o])
    <3>1. CASE pc = "clinit"
      BY <1>1, <1>2, <1>15, <3>1 DEF NeedsMet, NeedsSuper
    <3>2. CASE pc = "superDone"
      BY <1>0, <1>1, <1>2, <3>2 DEF Returned, AwaitsSuper
    <3>3. QED
      BY <3>1, <3>2
  <2>2. QED
    BY <1>1, <1>2, <1>6, <1>9, <1>11, <2>1, StillReady
<1>16. TopBecomes(t, f)
  BY <1>1, <1>2, <1>3, <1>9, <1>11, <1>13, <1>14, <1>15 DEF TopBecomes
<1>17. FrameInv'
  BY <1>1, <1>6, <1>10, <1>11, <1>12, <1>16, MoveInv
<1>18. ClassInv'
  <2>1. stack' \in [Threads -> Seq(Frames)]
    BY <1>10 DEF Moved
  <2>2. runs' \in [Names -> {0, 1}]
    BY <1>1, <1>3, <1>4 DEF TypeInv
  <2>3. TypeInv'
    BY <1>1, <1>3, <2>1, <2>2 DEF TypeInv
  <2>4. TableInv' /\ ResolvedInv'
    BY <1>3 DEF LoadingInv, ClassInv, TableInv, ResolvedInv
  <2>5. RunsInv'
    <3>1. o # None
      BY <1>1, <1>2 DEF ClassObject, None
    <3>2. QED
      BY <1>3, <1>4, <1>5, <3>1 DEF LoadingInv, ClassInv, RunsInv
  <2>6. QED
    BY <2>3, <2>4, <2>5 DEF ClassInv
<1>19. QED
  BY <1>17, <1>18, Parts

\* The class leaves the hands of the thread, initialised or not.
LEMMA EndClinitInv ==
  ASSUME LoadingInv, NEW t \in Threads, EndClinit(t) PROVE LoadingInv'
<1>0. PICK pc \in {"run", "used"} : At(t, "init", pc)
  BY DEF EndClinit, ClinitThrew, InClinit
<1>1. /\ ~aborted /\ stack[t] # <<>> /\ TypeInv /\ FrameOK(t, Top(t))
      /\ Top(t).fn = "init" /\ Top(t).o \in ClassObject
      /\ Owns(Top(t)) /\ Holds(Top(t))
  BY <1>0, AtFacts DEF LoadingInv, ClassInv, FrameOK, NeedsClass, Owns, Holds
<1>2. PICK o : o = Top(t).o
  OBVIOUS
<1>3. PICK s, res :
        /\ s \in {"error", "initialized"} /\ res = (IF s = "error" THEN None ELSE o)
        /\ status' = [status EXCEPT ![o] = s]
        /\ UNCHANGED <<program, table, name, super, resolved, initThreadId, runs>>
        /\ Return(t, res)
  BY <1>2 DEF EndClinit, names
<1>4. status[o] = "initializing"
  BY <1>1, <1>2 DEF FrameOK
<1>5. \A p \in ClassObject : status'[p] = IF p = o THEN s ELSE status[p]
  BY <1>1, <1>3 DEF TypeInv
<1>6. Undisturbed(t)
  BY <1>1, <1>2, <1>3, <1>4, <1>5, OneClass
<1>7. Popped(t, res)
  <2>1. res \in ClassObject \cup {None}
    BY <1>1, <1>2, <1>3
  <2>2. QED
    BY <1>1, <1>3, <2>1, ReturnEffect
<1>8. res # None => status'[o] = "initialized"
  BY <1>1, <1>2, <1>3, <1>5
<1>9. \A p \in ClassObject :
        status'[p] = "initializing" =>
          /\ status[p] = "initializing" /\ initThreadId'[p] = initThreadId[p]
          /\ ~(Owns(Top(t)) /\ Top(t).o = p)
  BY <1>2, <1>3, <1>5
<1>10. FrameInv'
  BY <1>1, <1>2, <1>6, <1>7, <1>8, <1>9, PopInv
<1>11. ClassInv'
  <2>1. ClassInv
    BY DEF LoadingInv
  <2>2. s \in Statuses \ {"free"} /\ o \in ClassObject
    BY <1>1, <1>2, <1>3 DEF Statuses
  <2>3. /\ super' \in [ClassObject -> ClassObject \cup {None}]
        /\ initThreadId' \in [ClassObject -> Threads \cup {Nobody}]
        /\ stack' \in [Threads -> Seq(Frames)]
    BY <1>1, <1>3, <1>7 DEF TypeInv, Popped
  <2>4. QED
    BY <1>3, <1>4, <2>1, <2>2, <2>3, StatusChange
<1>12. QED
  BY <1>10, <1>11, Parts

\* dvmLinkClass has succeeded: the class leaves the hands of the loader.
LEMMA LinkedInv ==
  ASSUME LoadingInv, NEW t \in Threads, Linked(t) PROVE LoadingInv'
<1>0. PICK pc \in {"linkNoSuper", "linkSuper"} : At(t, "find", pc)
  BY DEF Linked, SuperFound
<1>1. /\ ~aborted /\ stack[t] # <<>> /\ TypeInv /\ FrameOK(t, Top(t)) /\ Top(t) \in Frames
      /\ Top(t).fn = "find" /\ Top(t).o \in ClassObject
      /\ Links(Top(t)) /\ Holds(Top(t)) /\ ~Owns(Top(t))
  BY <1>0, AtFacts DEF LoadingInv, ClassInv, FrameOK, NeedsClass, Links, Owns, Holds
<1>2. PICK o : o = Top(t).o
  OBVIOUS
<1>3. PICK s \in {"verified", "resolved"} :
        /\ status' = [status EXCEPT ![o] = s]
        /\ super' = [super EXCEPT ![o] = Top(t).res]
        /\ UNCHANGED <<program, table, name, resolved, initThreadId, runs>>
        /\ Return(t, o)
  BY <1>2 DEF Linked, bounds
<1>4. status[o] = "loaded" /\ Top(t).res \in ClassObject \cup {None}
  BY <1>1, <1>2 DEF FrameOK, Frames
<1>5. /\ \A p \in ClassObject : status'[p] = IF p = o THEN s ELSE status[p]
      /\ \A p \in ClassObject \ {o} : super'[p] = super[p]
  BY <1>1, <1>3 DEF TypeInv
<1>6. Undisturbed(t)
  BY <1>1, <1>2, <1>3, <1>4, <1>5, OneClass
<1>7. Popped(t, o)
  BY <1>1, <1>2, <1>3, ReturnEffect
<1>8. FrameInv'
  BY <1>1, <1>3, <1>5, <1>6, <1>7, PopInv
<1>9. ClassInv'
  <2>1. ClassInv
    BY DEF LoadingInv
  <2>2. s \in Statuses \ {"free"} /\ o \in ClassObject
    BY <1>1, <1>2 DEF Statuses
  <2>3. /\ super' \in [ClassObject -> ClassObject \cup {None}]
        /\ initThreadId' \in [ClassObject -> Threads \cup {Nobody}]
        /\ stack' \in [Threads -> Seq(Frames)]
    BY <1>1, <1>3, <1>4, <1>7 DEF TypeInv, Popped
  <2>4. QED
    BY <1>3, <1>4, <2>1, <2>2, <2>3, StatusChange
<1>10. QED
  BY <1>8, <1>9, Parts

\* The class has failed to link and leaves the table, so that its name may be loaded
\* again; its <clinit> was not begun.
LEMMA LinkFailsInv ==
  ASSUME LoadingInv, NEW t \in Threads, LinkFails(t) PROVE LoadingInv'
<1>0. PICK pc \in {"linkNoSuper", "linkSuper"} : At(t, "find", pc)
  BY DEF LinkFails, SuperFound
<1>1. /\ ~aborted /\ stack[t] # <<>> /\ TypeInv /\ FrameOK(t, Top(t))
      /\ Top(t).fn = "find" /\ Top(t).o \in ClassObject
      /\ Links(Top(t)) /\ Holds(Top(t)) /\ ~Owns(Top(t))
  BY <1>0, AtFacts DEF LoadingInv, ClassInv, FrameOK, NeedsClass, Links, Owns, Holds
<1>2. PICK o : o = Top(t).o
  OBVIOUS
<1>3. /\ table' = [table EXCEPT ![name[o]] = None]
      /\ status' = [status EXCEPT ![o] = "error"]
      /\ initThreadId' = [initThreadId EXCEPT ![o] = Nobody]
      /\ UNCHANGED <<program, name, super, resolved, runs>>
      /\ Return(t, None)
  BY <1>2 DEF LinkFails
<1>4. /\ status[o] = "loaded" /\ name[o] \in Names /\ table[name[o]] = o /\ o # None
  BY <1>1, <1>2 DEF FrameOK, LoadingInv, ClassInv, TableInv, ClassObject, None
<1>5. /\ \A p \in ClassObject : status'[p] = IF p = o THEN "error" ELSE status[p]
      /\ \A p \in ClassObject \ {o} : initThreadId'[p] = initThreadId[p]
      /\ \A d \in Names : table'[d] = IF d = name[o] THEN None ELSE table[d]
  BY <1>1, <1>3, <1>4 DEF TypeInv
<1>6. Undisturbed(t)
  BY <1>1, <1>2, <1>3, <1>4, <1>5, OneClass
<1>7. Popped(t, None)
  BY <1>1, <1>2, <1>3, ReturnEffect
<1>8. \A p \in ClassObject :
        status'[p] = "initializing" =>
          /\ status[p] = "initializing" /\ initThreadId'[p] = initThreadId[p]
          /\ ~(Owns(Top(t)) /\ Top(t).o = p)
  BY <1>1, <1>5
<1>9. FrameInv'
  BY <1>1, <1>6, <1>7, <1>8, PopInv
<1>10. TypeInv'
  BY <1>1, <1>3, <1>7 DEF TypeInv, Popped, Statuses
<1>11. TableInv'
  <2>1. ASSUME NEW d \in Names, table'[d] # None
        PROVE  name[table'[d]] = d /\ status'[table'[d]] # "free"
    <3>1. table'[d] = table[d] /\ table[d] \in ClassObject
      BY <1>1, <1>5, <2>1 DEF TypeInv
    <3>2. QED
      BY <1>5, <2>1, <3>1 DEF LoadingInv, ClassInv, TableInv
  <2>2. ASSUME NEW p \in ClassObject, status'[p] \notin {"free", "error"}
        PROVE  name[p] \in Names /\ table'[name[p]] = p
    <3>1. p # o /\ status'[p] = status[p]
      BY <1>5, <2>2
    <3>2. name[p] \in Names /\ table[name[p]] = p
      BY <2>2, <3>1 DEF LoadingInv, ClassInv, TableInv
    <3>3. name[p] # name[o]
      BY <1>4, <3>1, <3>2
    <3>4. QED
      BY <1>5, <3>2, <3>3
  <2>3. QED
    BY <1>3, <2>1, <2>2 DEF TableInv
<1>12. RunsInv'
  <2>1. ASSUME NEW d \in Names, runs[d] = 1
        PROVE  table'[d] # None /\ status'[table'[d]] \in {"initializing", "initialized", "error"}
    <3>1. table[d] # None /\ status[table[d]] \in {"initializing", "initialized", "error"}
      BY <2>1 DEF LoadingInv, ClassInv, RunsInv
    <3>2. d # name[o] /\ table[d] \in ClassObject
      BY <1>1, <1>4, <3>1 DEF TypeInv
    <3>3. table[d] # o
      BY <1>4, <3>1
    <3>4. QED
      BY <1>5, <3>1, <3>2, <3>3
  <2>2. QED
    BY <1>3, <2>1 DEF RunsInv
<1>13. ResolvedInv'
  BY <1>1, <1>3, <1>4, <1>5 DEF LoadingInv, ClassInv, ResolvedInv, TypeInv
<1>14. QED
  BY <1>9, <1>10, <1>11, <1>12, <1>13, Parts DEF ClassInv

\* dvmAddClassToHash binds the name to a new class, in the hands of its loader.
LEMMA AddClassToHashInv ==
  ASSUME LoadingInv, NEW t \in Threads, AddClassToHash(t) PROVE LoadingInv'
<1>0. At(t, "find", "load")
  BY DEF AddClassToHash
<1>1. /\ ~aborted /\ stack[t] # <<>> /\ TypeInv /\ Top(t) \in Frames
      /\ Top(t).fn = "find" /\ Top(t).pc = "load" /\ Top(t).d \in Names
  BY <1>0, AtFacts DEF LoadingInv, ClassInv, FrameOK
<1>2. PICK d, o : d = Top(t).d /\ o = NewClassObject
  OBVIOUS
<1>3. o \in ClassObject /\ status[o] = "free"
  BY <1>2 DEF AddClassToHash, NewClassObject
<1>4. /\ table' = [table EXCEPT ![d] = o]
      /\ name' = [name EXCEPT ![o] = d]
      /\ status' = [status EXCEPT ![o] = "loaded"]
      /\ initThreadId' = [initThreadId EXCEPT ![o] = t]
      /\ UNCHANGED <<program, super, resolved, runs, aborted>>
      /\ GotoWith(t, o, "link")
      /\ table[d] = None
  BY <1>2 DEF AddClassToHash, bounds, NameTaken
<1>5. /\ \A p \in ClassObject : status'[p] = IF p = o THEN "loaded" ELSE status[p]
      /\ \A p \in ClassObject : initThreadId'[p] = IF p = o THEN t ELSE initThreadId[p]
      /\ \A p \in ClassObject : name'[p] = IF p = o THEN d ELSE name[p]
      /\ \A e \in Names : table'[e] = IF e = d THEN o ELSE table[e]
      /\ d \in Names
  BY <1>1, <1>2, <1>3, <1>4 DEF TypeInv
<1>6. Undisturbed(t)
  BY <1>1, <1>3, <1>4, <1>5, OneClass
<1>7. PICK f : f = [Top(t) EXCEPT !.pc = "link", !.o = o]
  OBVIOUS
<1>8. "link" \in Points
  BY DEF Points
<1>9. f.fn = "find" /\ f.pc = "link" /\ f.d = d /\ f.o = o
  <2>1. f.fn = Top(t).fn /\ f.d = Top(t).d
    BY <1>1, <1>7 DEF Frames
  <2>2. f.pc = "link" /\ f.o = o
    BY <1>1, <1>7 DEF Frames
  <2>3. QED
    BY <1>1, <1>2, <2>1, <2>2
<1>10. Moved(t, f)
  BY <1>1, <1>3, <1>4, <1>7, <1>8, GotoWithEffect
<1>11. /\ Links(f) /\ ~Owns(f) /\ ~NeedsField(f) /\ ~AwaitsSuper(f) /\ ~AwaitsField(f)
       /\ ~Owns(Top(t))
  BY <1>1, <1>9 DEF Links, Owns, NeedsField, AwaitsSuper, AwaitsField
<1>12. FrameOK(t, f)'
  BY <1>3, <1>5, <1>9, <1>11 DEF FrameOK
<1>13. NotBelow(t, o)
  <2>1. Depth(t) \in Nat
    BY <1>0, AtFacts
  <2>2. QED
    BY <1>1, <1>3, <2>1, NoHolder DEF NotBelow
<1>14. OwnersStay(t, f)
  BY <1>5, <1>11 DEF OwnersStay
<1>15. TopBecomes(t, f)
  BY <1>1, <1>9, <1>11, <1>13, <1>14 DEF TopBecomes
<1>16. FrameInv'
  BY <1>1, <1>6, <1>10, <1>11, <1>12, <1>15, MoveInv
<1>17. TypeInv'
  <2>1. stack' \in [Threads -> Seq(Frames)]
    BY <1>10 DEF Moved
  <2>2. QED
    BY <1>1, <1>3, <1>4, <1>5, <2>1 DEF TypeInv, Statuses
<1>18. TableInv'
  <2>1. ASSUME NEW e \in Names, table'[e] # None
        PROVE  name'[table'[e]] = e /\ status'[table'[e]] # "free"
    <3>1. CASE e = d
      BY <1>3, <1>5, <3>1
    <3>2. CASE e # d
      <4>1. table'[e] = table[e] /\ table[e] \in ClassObject /\ table[e] # None
        BY <1>1, <1>5, <2>1, <3>2 DEF TypeInv
      <4>2. name[table[e]] = e /\ status[table[e]] # "free"
        BY <4>1 DEF LoadingInv, ClassInv, TableInv
      <4>3. QED
        BY <1>3, <1>5, <4>1, <4>2
    <3>3. QED
      BY <3>1, <3>2
  <2>2. ASSUME NEW p \in ClassObject, status'[p] \notin {"free", "error"}
        PROVE  name'[p] \in Names /\ table'[name'[p]] = p
    <3>1. CASE p = o
      BY <1>5, <3>1
    <3>2. CASE p # o
      <4>1. name[p] \in Names /\ table[name[p]] = p
        BY <1>5, <2>2, <3>2 DEF LoadingInv, ClassInv, TableInv
      <4>2. p # None
        BY DEF ClassObject, None
      <4>3. name[p] # d
        BY <1>4, <4>1, <4>2
      <4>4. QED
        BY <1>5, <3>2, <4>1, <4>3
    <3>3. QED
      BY <3>1, <3>2
  <2>3. QED
    BY <2>1, <2>2 DEF TableInv
<1>19. RunsInv'
  <2>1. ASSUME NEW e \in Names, runs[e] = 1
        PROVE  table'[e] # None /\ status'[table'[e]] \in {"initializing", "initialized", "error"}
    <3>1. table[e] # None /\ status[table[e]] \in {"initializing", "initialized", "error"}
      BY <2>1 DEF LoadingInv, ClassInv, RunsInv
    <3>2. e # d /\ table[e] \in ClassObject /\ table[e] # o
      BY <1>1, <1>3, <1>4, <3>1 DEF TypeInv
    <3>3. QED
      BY <1>5, <3>1, <3>2
  <2>2. QED
    BY <1>4, <2>1 DEF RunsInv
<1>20. ResolvedInv'
  BY <1>1, <1>3, <1>4, <1>5 DEF LoadingInv, ClassInv, ResolvedInv, TypeInv
<1>21. QED
  BY <1>16, <1>17, <1>18, <1>19, <1>20, Parts DEF ClassInv

-----------------------------------------------------------------------------
(* The theorems.                                                           *)

LEMMA LoadingFrame ==
  ASSUME LoadingInv,
         UNCHANGED <<program, table, name, super, resolved, status, initThreadId, runs, stack, aborted>>
  PROVE  LoadingInv'
<1>1. ClassInv'
  BY DEF LoadingInv, ClassInv, TypeInv, TableInv, RunsInv, ResolvedInv
<1>2. OwnerInv'
  BY DEF LoadingInv, OwnerInv, Depth
<1>3. ASSUME NEW t \in Threads PROVE StackOK(t)'
  <2>1. StackOK(t)
    BY DEF LoadingInv
  <2>2. QED
    BY <2>1 DEF StackOK, FrameOK, NeedsMet, NeedsSuper, Ready, CallOK, Returned, Depth, Top
<1>4. QED
  BY <1>1, <1>2, <1>3 DEF LoadingInv

LEMMA LoadingInit == Init => LoadingInv
<1> SUFFICES ASSUME Init PROVE LoadingInv
  OBVIOUS
<1>1. ClassInv
  BY DEF Init, ClassInv, TypeInv, TableInv, RunsInv, ResolvedInv, Statuses
<1>2. OwnerInv
  BY DEF Init, OwnerInv
<1>3. ASSUME NEW t \in Threads PROVE StackOK(t)
  <2>1. stack[t] = <<>> /\ Depth(t) = 0
    BY DEF Init, Depth
  <2>2. QED
    BY <2>1 DEF StackOK, Returned, OneHolder
<1>4. QED
  BY <1>1, <1>2, <1>3 DEF LoadingInv

LEMMA LoadingNext == LoadingInv /\ [Next]_vars => LoadingInv'
<1> SUFFICES ASSUME LoadingInv, [Next]_vars PROVE LoadingInv'
  OBVIOUS
<1>1. CASE UNCHANGED vars
  BY <1>1, LoadingFrame DEF vars, classes, names, bounds
<1>2. ASSUME NEW t \in Threads, Interrupt(t) PROVE LoadingInv'
  BY <1>2, LoadingFrame DEF Interrupt, names
<1>3. ASSUME NEW t \in Threads, Find(t) PROVE LoadingInv'
  BY <1>3, LookupClassInv, LoadFailsInv, AddClassToHashInv, LoseRaceInv, LookupWinnerInv,
     LinkSuperInv, LinkedInv, LinkFailsInv, GotClassInv, AwaitLinkInv, CheckFoundInv DEF Find
<1>4. ASSUME NEW t \in Threads, InitClass(t) PROVE LoadingInv'
  BY <1>4, LockClassInv, VerifyClassInv, RejectClassInv, NothingToDoInv, WaitForInitInv,
     ParkInv, AwakeInv, BeginInitInv, InitSuperInv, SuperFailedInv, NotifyErrorInv,
     BeginClinitInv, ClinitUsesInv, EndClinitInv DEF InitClass
<1>5. ASSUME NEW t \in Threads, Resolve(t) PROVE LoadingInv'
  BY <1>5, ResolveStaticFieldInv, InitFieldClassInv, SetResolvedFieldInv, ResolveFailsInv,
     UseFieldInv DEF Resolve
<1>6. QED
  BY <1>1, <1>2, <1>3, <1>4, <1>5, BeginInv DEF Next, Continue

\* The inductive invariant of loading, linking and initialisation, which is about
\* every activation of findClassNoInit, dvmInitClass and dvmResolveStaticField.
THEOREM LoadingInvariance == Spec => []LoadingInv
<1>1. QED
  BY LoadingInit, LoadingNext, PTL DEF Spec

\* However many threads ask dvmInitClass for a class, load it at the same time or
\* come upon it half initialised, its <clinit> is run once: not even a class that
\* failed to link and is loaded again under its name has run it before.
THEOREM ClinitRunsOnce == Spec => []ClinitOnce
<1>1. LoadingInv => ClinitOnce
  BY DEF LoadingInv, ClassInv, TypeInv, ClinitOnce
<1>2. QED
  BY <1>1, LoadingInvariance, PTL

\* dvmResolveStaticField gives a thread a field, and dvmInitClass runs a <clinit>
\* under its superclass, only when the class is initialised or this thread is
\* initialising it, though the class is looked at without its lock.
THEOREM InitialisedBeforeUse == Spec => []InitBeforeUse
<1>1. ASSUME LoadingInv PROVE InitBeforeUse
  <2>1. ASSUME NEW t \in Threads, NEW o, ~aborted, stack[t] # <<>>, Ready(t, Depth(t), o)
        PROVE  Usable(t, o)
    <3>1. CASE status[o] = "initialized"
      BY <3>1 DEF Usable
    <3>2. CASE OwnsIn(stack[t], Depth(t), o)
      <4>1. PICK j \in 1..Depth(t) : Owns(stack[t][j]) /\ stack[t][j].o = o
        BY <3>2 DEF OwnsIn
      <4>2. FrameOK(t, stack[t][j])
        BY <1>1 DEF LoadingInv, StackOK
      <4>3. QED
        BY <4>1, <4>2 DEF FrameOK, Usable
    <3>3. QED
      BY <2>1, <3>1, <3>2 DEF Ready
  <2>2. ASSUME NEW t \in Threads, At(t, "use", "use") PROVE Usable(t, Top(t).o)
    <3>1. /\ ~aborted /\ stack[t] # <<>> /\ Top(t).fn = "use" /\ Top(t).pc = "use"
          /\ NeedsMet(t, Depth(t)) /\ Top(t) = stack[t][Depth(t)]
      BY <1>1, <2>2, AtFacts
    <3>2. Ready(t, Depth(t), Top(t).o)
      BY <3>1 DEF NeedsMet, NeedsField
    <3>3. QED
      BY <2>1, <3>1, <3>2
  <2>3. ASSUME NEW t \in Threads, NEW pc \in {"run", "used"}, At(t, "init", pc),
               super[Top(t).o] # None
        PROVE  Usable(t, super[Top(t).o])
    <3>1. /\ ~aborted /\ stack[t] # <<>> /\ Top(t).fn = "init" /\ Top(t).pc = pc
          /\ NeedsMet(t, Depth(t)) /\ Top(t) = stack[t][Depth(t)]
      BY <1>1, <2>3, AtFacts
    <3>2. Ready(t, Depth(t), super[Top(t).o])
      BY <2>3, <3>1 DEF NeedsMet, NeedsSuper
    <3>3. QED
      BY <2>1, <3>1, <3>2
  <2>4. QED
    BY <2>2, <2>3 DEF InitBeforeUse
<1>2. QED
  BY <1>1, LoadingInvariance, PTL
=============================================================================
