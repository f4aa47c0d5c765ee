-------------------------- MODULE ObjectLock_proofs --------------------------
(***************************************************************************)
(* Proofs about the locks of vm/Sync.cpp, for any number of threads and    *)
(* objects and any width of the count field.  IndInv is inductive.  It     *)
(* says who holds a Monitor's mutex at which control point, that a thin    *)
(* lock has no Monitor in use, that a full count field is about to be      *)
(* inflated by its owner, and that the depth kept in the lock word, in the *)
(* Monitor or by a waiting thread is the depth the application is at.      *)
(* Every step keeps the types (TypeStep) and the rest (InvStep); for the   *)
(* rest a step either only moves its thread (ControlStep) or works on one  *)
(* object whose lock nobody else holds (FrameStep).                        *)
(*                                                                         *)
(* WaitInv is inductive on top of IndInv, for wait, notify and interrupt.  *)
(* It says that the fields of a thread that other threads look at agree    *)
(* with its control point, that a wait set holds each of its waiters once, *)
(* and that the peer a notifier has taken from it cannot leave its wait    *)
(* before it is signalled, because the notifier owns the monitor.  From    *)
(* both follows that vm/Sync.cpp implements AbstractMonitor.               *)
(***************************************************************************)
EXTENDS ObjectLock, SequenceTheorems, WellFoundedInduction, TLAPS

-----------------------------------------------------------------------------
(* Types.                                                                  *)

\* The control points, spelled out: the provers need not expand PCs again.
LEMMA PCsMembers ==
  /\ {"idle", "poll", "lock", "cas", "spin", "spincas", "inflate", "lockmon", "own"} \subseteq PCs
  /\ {"unlockmutex", "waitinflate", "waitmon", "waitmutex", "waitrelease"} \subseteq PCs
  /\ {"condwait", "waiting", "relock", "waitdone", "waitreturn"} \subseteq PCs
  /\ {"notify", "notifyAll", "signal", "signalAll"} \subseteq PCs
  BY DEF PCs, LockPC, UnlockPC, WaitPC, ParkedPC, NotifyPC

\* The element waitSetRemove chooses exists: a first occurrence in the list.
LEMMA FirstOccurrence ==
  ASSUME NEW s, Len(s) \in Nat, NEW t, \E i \in 1 .. Len(s) : s[i] = t
  PROVE  \E i \in 1 .. Len(s) : s[i] = t /\ \A j \in 1 .. (i - 1) : s[j] # t
<1> DEFINE T == {i \in 1 .. Len(s) : s[i] = t}
<1>1. T \subseteq Nat /\ T # {}
  OBVIOUS
<1>2. PICK i \in T : \A j \in T : ~ (<<j, i>> \in OpToRel(<, Nat))
  BY <1>1, NatLessThanWellFounded, WFMin
<1>3. \A j \in T : ~ (j < i)
  BY <1>1, <1>2 DEF OpToRel
<1>4. QED
  BY <1>3

\* waitSetRemove returns a list of threads.
LEMMA RemoveType ==
  ASSUME NEW S, NEW s \in Seq(S), NEW t
  PROVE  waitSetRemove(s, t) \in Seq(S)
<1>1. CASE \E i \in 1 .. Len(s) : s[i] = t
  <2> DEFINE k == CHOOSE i \in 1 .. Len(s) :
                    s[i] = t /\ \A j \in 1 .. (i - 1) : s[j] # t
  <2>1. k \in 1 .. Len(s)
    <3>1. \E i \in 1 .. Len(s) : s[i] = t /\ \A j \in 1 .. (i - 1) : s[j] # t
      BY <1>1, FirstOccurrence, Len(s) \in Nat
    <3>2. QED
      BY <3>1
  <2>2. SubSeq(s, 1, k - 1) \in Seq(S) /\ SubSeq(s, k + 1, Len(s)) \in Seq(S)
    <3> HIDE DEF k
    <3>1. k \in Int /\ k - 1 \in Int /\ k + 1 \in Int /\ Len(s) \in Int
      BY <2>1
    <3>2. /\ \A i \in 1 .. (k - 1) : s[i] \in S
          /\ \A i \in (k + 1) .. Len(s) : s[i] \in S
      BY <2>1
    <3>3. QED
      BY <3>1, <3>2, SubSeqProperties
  <2>3. QED
    <3> HIDE DEF k
    <3>1. SubSeq(s, 1, k - 1) \o SubSeq(s, k + 1, Len(s)) \in Seq(S)
      BY <2>2, ConcatProperties
    <3>2. QED
      BY <1>1, <3>1 DEF waitSetRemove, k
<1>2. CASE ~ \E i \in 1 .. Len(s) : s[i] = t
  BY <1>2 DEF waitSetRemove
<1>3. QED
  BY <1>1, <1>2

\* The types of what Call and Return change.
ControlTypeOK ==
  /\ pc \in [Threads -> PCs]
  /\ obj \in [Threads -> Objects \cup {NoObject}]
  /\ exception \in [Threads -> Exceptions]

\* Moving to a control point keeps the type of pc.
LEMMA GotoType ==
  ASSUME TypeOK, NEW t \in Threads, NEW l \in PCs, Goto(t, l)
  PROVE  pc' \in [Threads -> PCs]
  BY DEF Goto, TypeOK

\* The end of a call keeps the types of pc, obj and exception,
LEMMA ReturnType ==
  ASSUME TypeOK, NEW t \in Threads, NEW e \in Exceptions, Return(t, e)
  PROVE  ControlTypeOK'
  BY PCsMembers DEF Return, Goto, TypeOK, ControlTypeOK

\* and so does its beginning.
LEMMA CallType ==
  ASSUME TypeOK, NEW t \in Threads, NEW o \in Objects \cup {NoObject}, NEW l \in PCs,
         Call(t, o, l)
  PROVE  ControlTypeOK'
  BY DEF Call, Goto, TypeOK, ControlTypeOK, Exceptions

\* A refused call keeps every type.
LEMMA RefuseType ==
  ASSUME TypeOK, NEW t \in Threads, NEW e \in Exceptions, Refuse(t, e)
  PROVE  TypeOK'
  BY DEF Refuse, TypeOK, monVars, condVars, waitVars

\* Counting an enter in the history keeps its type,
LEMMA AcquiredType ==
  ASSUME TypeOK, NEW t \in Threads, NEW o \in Objects, Acquired(t, o)
  PROVE  held' \in [Threads -> [Objects -> Nat]]
  BY DEF Acquired, TypeOK

\* and so does counting an exit by the owner, who has entered at least once.
LEMMA ReleasedType ==
  ASSUME TypeOK, DepthInv, NEW t \in Threads, NEW o \in Objects, lockOwner(o) = t,
         Released(t, o)
  PROVE  held' \in [Threads -> [Objects -> Nat]]
<1>1. held[t][o] - 1 \in Nat
  <2>1. Depth(o) \in Nat
    BY DEF TypeOK, Depth, LockWord
  <2>2. held[t][o] = Depth(o) + 1
    BY DEF DepthInv, DepthOK
  <2>3. QED
    BY <2>1, <2>2
<1>2. QED
  BY <1>1 DEF Released, TypeOK

\* The lock words of vm/Sync.h.
LEMMA WordTypes ==
  /\ Unowned \in LockWord
  /\ FatWord \in LockWord
  /\ \A t \in Threads : Thin(t, 0) \in LockWord
  BY CountMaskAssumption DEF Unowned, FatWord, Thin, LockWord

\* A thread in a call, except Thread.interrupted(), works on an object.
LEMMA ObjInCall ==
  ASSUME PcInv, NEW t \in Threads, pc[t] \notin {"idle", "poll"}
  PROVE  obj[t] \in Objects
  BY DEF PcInv, PcOK

\* Every step keeps the types.  The count field needs CountInv, the history
\* variable needs DepthInv, and a call in progress has an object by PcInv.
LEMMA TypeStep ==
  ASSUME IndInv, NEW t \in Threads,
         Step(t) \/ Start(t) \/ ThreadInterrupt(t)
  PROVE  TypeOK'
<1> USE NoThreadAssumption, NoObjectAssumption, CountMaskAssumption, ChoicesAssumption
    DEF IndInv
<1>1. ASSUME NEW o \in Objects, LockObject(t, o) PROVE TypeOK'
  BY <1>1, PCsMembers, CallType DEF LockObject, monVars, condVars, waitVars, TypeOK,
     ControlTypeOK, Exceptions
<1>2. ASSUME RecurseThin(t) PROVE TypeOK'
  <2>1. obj[t] \in Objects
    BY <1>2, ObjInCall DEF RecurseThin
  <2>2. lock[obj[t]].count < CountMask
    BY <1>2, <2>1 DEF RecurseThin, OwnsThin, CountInv, CountOK, TypeOK, LockWord
  <2>3. lock' \in [Objects -> LockWord]
    <3>1. [lock[obj[t]] EXCEPT !.count = @ + 1] \in LockWord
      <4>1. lock[obj[t]] \in LockWord
        BY <2>1 DEF TypeOK
      <4>2. lock[obj[t]].count + 1 \in 0 .. CountMask
        BY <2>2, <4>1 DEF LockWord
      <4>3. QED
        BY <4>1, <4>2 DEF LockWord
    <3>2. lock' = [lock EXCEPT ![obj[t]] = [lock[obj[t]] EXCEPT !.count = @ + 1]]
      BY <1>2 DEF RecurseThin
    <3>3. QED
      BY <2>1, <3>1, <3>2 DEF TypeOK
  <2>4. held' \in [Threads -> [Objects -> Nat]]
    BY <1>2, <2>1, AcquiredType DEF RecurseThin
  <2>5. ControlTypeOK'
    BY <1>2, PCsMembers, GotoType, ReturnType DEF RecurseThin, TypeOK, ControlTypeOK, Exceptions
  <2>6. QED
    BY <1>2, <2>3, <2>4, <2>5 DEF RecurseThin, TypeOK, ControlTypeOK, monVars, condVars, waitVars
<1>3. ASSUME ReadLockWord(t) PROVE TypeOK'
  BY <1>3, PCsMembers, GotoType, ObjInCall DEF ReadLockWord, Thin, Unowned, monVars,
     condVars, waitVars, TypeOK, ControlTypeOK, Exceptions
<1>4. ASSUME CasLock(t) PROVE TypeOK'
  <2>1. obj[t] \in Objects
    BY <1>4, ObjInCall DEF CasLock
  <2>2. lock' \in [Objects -> LockWord] /\ held' \in [Threads -> [Objects -> Nat]]
    <3>1. Thin(t, 0) \in LockWord
      BY WordTypes
    <3>2. lock' = lock \/ lock' = [lock EXCEPT ![obj[t]] = Thin(t, 0)]
      BY <1>4 DEF CasLock
    <3>3. held' = held \/ Acquired(t, obj[t])
      BY <1>4 DEF CasLock
    <3>4. lock' \in [Objects -> LockWord]
      BY <2>1, <3>1, <3>2 DEF TypeOK
    <3>5. held' \in [Threads -> [Objects -> Nat]]
      BY <2>1, <3>3, AcquiredType DEF TypeOK
    <3>6. QED
      BY <3>4, <3>5
  <2>3. ControlTypeOK'
    BY <1>4, PCsMembers, GotoType, ReturnType DEF CasLock, TypeOK, ControlTypeOK, Exceptions
  <2>4. QED
    BY <1>4, <2>2, <2>3 DEF CasLock, TypeOK, ControlTypeOK, monVars, condVars, waitVars
<1>5. ASSUME SpinRead(t) PROVE TypeOK'
  BY <1>5, PCsMembers, GotoType, ObjInCall DEF SpinRead, Thin, Unowned, monVars,
     condVars, waitVars, TypeOK, ControlTypeOK, Exceptions
<1>6. ASSUME SpinCas(t) PROVE TypeOK'
  <2>1. obj[t] \in Objects
    BY <1>6, ObjInCall DEF SpinCas
  <2>2. lock' \in [Objects -> LockWord] /\ held' \in [Threads -> [Objects -> Nat]]
    <3>1. Thin(t, 0) \in LockWord
      BY WordTypes
    <3>2. lock' = lock \/ lock' = [lock EXCEPT ![obj[t]] = Thin(t, 0)]
      BY <1>6 DEF SpinCas
    <3>3. held' = held \/ Acquired(t, obj[t])
      BY <1>6 DEF SpinCas
    <3>4. lock' \in [Objects -> LockWord]
      BY <2>1, <3>1, <3>2 DEF TypeOK
    <3>5. held' \in [Threads -> [Objects -> Nat]]
      BY <2>1, <3>3, AcquiredType DEF TypeOK
    <3>6. QED
      BY <3>4, <3>5
  <2>3. pc' \in [Threads -> PCs]
    BY <1>6, PCsMembers, GotoType DEF SpinCas
  <2>4. QED
    BY <1>6, <2>2, <2>3 DEF SpinCas, TypeOK, monVars, condVars, waitVars
<1>7. ASSUME InflateMonitor(t) PROVE TypeOK'
  <2>1. obj[t] \in Objects
    BY <1>7, ObjInCall DEF InflateMonitor
  <2>2. lockCount' \in [Objects -> Nat] /\ waitSet' \in [Objects -> Seq(Threads)]
    BY <1>7, <2>1 DEF InflateMonitor, TypeOK, LockWord
  <2>3. /\ owner' \in [Objects -> Threads \cup {NoThread}]
        /\ monLock' \in [Objects -> Threads \cup {NoThread}]
        /\ lock' \in [Objects -> LockWord]
    BY <1>7, <2>1, WordTypes DEF InflateMonitor, TypeOK
  <2>4. ControlTypeOK'
    BY <1>7, PCsMembers, GotoType, ReturnType DEF InflateMonitor, TypeOK, ControlTypeOK, Exceptions
  <2>5. QED
    BY <1>7, <2>2, <2>3, <2>4 DEF InflateMonitor, TypeOK, ControlTypeOK, condVars, waitVars
<1>8. ASSUME RecurseFat(t) PROVE TypeOK'
  <2>1. obj[t] \in Objects
    BY <1>8, ObjInCall DEF RecurseFat
  <2>2. ControlTypeOK' /\ held' \in [Threads -> [Objects -> Nat]]
    BY <1>8, <2>1, AcquiredType, ReturnType DEF RecurseFat, Exceptions
  <2>3. lockCount' \in [Objects -> Nat]
    BY <1>8, <2>1 DEF RecurseFat, TypeOK
  <2>5. QED
    BY <1>8, <2>2, <2>3 DEF RecurseFat, TypeOK, ControlTypeOK, condVars, waitVars
<1>9. ASSUME AcquireMonLock(t) PROVE TypeOK'
  BY <1>9, PCsMembers, GotoType, ObjInCall DEF AcquireMonLock, condVars, waitVars,
     TypeOK, ControlTypeOK, Exceptions
<1>10. ASSUME SetOwner(t) PROVE TypeOK'
  BY <1>10, PCsMembers, ReturnType, AcquiredType, ObjInCall DEF SetOwner, condVars,
     waitVars, TypeOK, ControlTypeOK, Exceptions
<1>11. ASSUME NEW o \in Objects, UnlockThin(t, o) PROVE TypeOK'
  <2>1. held' \in [Threads -> [Objects -> Nat]]
    BY <1>11, ReleasedType DEF UnlockThin, OwnsThin, lockOwner
  <2>2. lock' \in [Objects -> LockWord]
    BY <1>11, WordTypes DEF UnlockThin, TypeOK, LockWord, Thin, Unowned
  <2>3. exception' \in [Threads -> Exceptions]
    BY <1>11 DEF UnlockThin, TypeOK, Exceptions
  <2>4. QED
    BY <1>11, <2>1, <2>2, <2>3 DEF UnlockThin, TypeOK, monVars, condVars, waitVars
<1>12. ASSUME NEW o \in Objects, UnlockFat(t, o) PROVE TypeOK'
  <2>1. held' \in [Threads -> [Objects -> Nat]]
    BY <1>12, ReleasedType DEF UnlockFat, lockOwner
  <2>2. CASE lockCount[o] = 0
    <3>1. ControlTypeOK'
      BY <1>12, <2>2, CallType, PCsMembers DEF UnlockFat
    <3>2. QED
      BY <1>12, <2>1, <2>2, <3>1 DEF UnlockFat, TypeOK, ControlTypeOK, condVars, waitVars
  <2>3. CASE lockCount[o] # 0
    <3>1. lockCount' \in [Objects -> Nat]
      <4>1. lockCount[o] - 1 \in Nat
        BY <2>3 DEF TypeOK
      <4>2. QED
        BY <1>12, <2>3, <4>1 DEF UnlockFat, TypeOK
    <3>2. QED
      BY <1>12, <2>1, <2>3, <3>1 DEF UnlockFat, TypeOK, condVars, waitVars, Exceptions
  <2>4. QED
    BY <2>2, <2>3
<1>13. ASSUME UnlockMonLock(t) PROVE TypeOK'
  BY <1>13, PCsMembers, ReturnType, ObjInCall DEF UnlockMonLock, condVars, waitVars,
     TypeOK, ControlTypeOK, Exceptions
<1>14. ASSUME NEW o \in Objects, UnlockUnowned(t, o) PROVE TypeOK'
  BY <1>14, PCsMembers, RefuseType DEF UnlockUnowned, monVars, condVars, waitVars,
     lockOwner, TypeOK, ControlTypeOK, Exceptions
<1>15. ASSUME NEW o \in Objects, ObjectWait(t, o) PROVE TypeOK'
  BY <1>15, PCsMembers, CallType, RefuseType DEF ObjectWait, OwnsThin, monVars,
     condVars, waitVars, TypeOK, ControlTypeOK, Exceptions
<1>16. ASSUME WaitRefused(t) PROVE TypeOK'
  BY <1>16, PCsMembers, ReturnType, ObjInCall DEF WaitRefused, monVars, condVars,
     waitVars, TypeOK, ControlTypeOK, Exceptions
<1>17. ASSUME WaitPark(t) PROVE TypeOK'
  <2>1. obj[t] \in Objects
    BY <1>17, ObjInCall DEF WaitPark
  <2>2. waitSet' \in [Objects -> Seq(Threads)]
    BY <1>17, <2>1 DEF WaitPark, TypeOK
  <2>3. /\ timed' \in [Threads -> BOOLEAN]
        /\ shouldThrow' \in [Threads -> BOOLEAN]
    BY <1>17, <2>1 DEF WaitPark, TypeOK
  <2>4. /\ prevLockCount' \in [Threads -> Nat]
        /\ lockCount' \in [Objects -> Nat]
        /\ owner' \in [Objects -> Threads \cup {NoThread}]
    BY <1>17, <2>1 DEF WaitPark, TypeOK
  <2>5. pc' \in [Threads -> PCs]
    BY <1>17, PCsMembers, GotoType DEF WaitPark
  <2>6. QED
    BY <1>17, <2>2, <2>3, <2>4, <2>5 DEF WaitPark, TypeOK, condVars
<1>18. ASSUME WaitEnter(t) PROVE TypeOK'
  <2>1. obj[t] \in Objects
    BY <1>18, ObjInCall DEF WaitEnter
  <2>2. pc' \in [Threads -> PCs]
    BY <1>18, PCsMembers, GotoType DEF WaitEnter
  <2>3. QED
    <3>1. /\ sawInterrupt' \in [Threads -> BOOLEAN]
          /\ waitMonitor' \in [Threads -> Objects \cup {NoObject}]
          /\ waitMutex' \in [Threads -> Threads \cup {NoThread}]
      <4>1. CASE interrupted[t]
        BY <1>18, <4>1 DEF WaitEnter, TypeOK
      <4>2. CASE ~interrupted[t]
        <5>1. waitMonitor' = [waitMonitor EXCEPT ![t] = obj[t]]
          BY <1>18, <4>2 DEF WaitEnter
        <5>2. waitMutex' = [waitMutex EXCEPT ![t] = t] /\ UNCHANGED sawInterrupt
          BY <1>18, <4>2 DEF WaitEnter
        <5>3. QED
          BY <2>1, <5>1, <5>2 DEF TypeOK
      <4>3. QED
        BY <4>1, <4>2
    <3>2. QED
      BY <1>18, <2>2, <3>1 DEF WaitEnter, TypeOK, monVars
<1>19. ASSUME WaitRelease(t) PROVE TypeOK'
  BY <1>19, PCsMembers, GotoType, ObjInCall DEF WaitRelease, condVars, waitVars,
     TypeOK, ControlTypeOK, Exceptions
<1>20. ASSUME CondWait(t) PROVE TypeOK'
  BY <1>20, PCsMembers, GotoType, ObjInCall DEF CondWait, monVars, waitVars, TypeOK,
     ControlTypeOK, Exceptions
<1>21. ASSUME CondReturn(t) PROVE TypeOK'
  BY <1>21, PCsMembers, GotoType, ObjInCall DEF CondReturn, monVars, TypeOK,
     ControlTypeOK, Exceptions
<1>22. ASSUME Relock(t) PROVE TypeOK'
  BY <1>22, PCsMembers, GotoType, ObjInCall DEF Relock, condVars, waitVars, TypeOK,
     ControlTypeOK, Exceptions
<1>23. ASSUME WaitDone(t) PROVE TypeOK'
  BY <1>23, PCsMembers, RemoveType, GotoType, ObjInCall DEF WaitDone, condVars,
     waitVars, TypeOK, ControlTypeOK, Exceptions
<1>24. ASSUME WaitReturn(t) PROVE TypeOK'
  BY <1>24, PCsMembers, ReturnType, ObjInCall DEF WaitReturn, monVars, TypeOK,
     ControlTypeOK, Exceptions
<1>25. ASSUME NEW o \in Objects, ObjectNotify(t, o) PROVE TypeOK'
  BY <1>25, PCsMembers, CallType, RefuseType DEF ObjectNotify, OwnsThin, monVars,
     condVars, waitVars, TypeOK, ControlTypeOK, Exceptions
<1>26. ASSUME NotifyEnd(t) PROVE TypeOK'
  BY <1>26, PCsMembers, ReturnType, ObjInCall DEF NotifyEnd, monVars, condVars,
     waitVars, TypeOK, ControlTypeOK, Exceptions
<1>27. ASSUME NotifyPop(t) PROVE TypeOK'
  <2>1. obj[t] \in Objects
    BY <1>27, ObjInCall DEF NotifyPop
  <2>2. waitSet' \in [Objects -> Seq(Threads)] /\ peer' \in [Threads -> Threads \cup {NoThread}]
    BY <1>27, <2>1 DEF NotifyPop, TypeOK
  <2>3. pc' \in [Threads -> PCs]
    BY <1>27, PCsMembers, GotoType DEF NotifyPop
  <2>4. QED
    BY <1>27, <2>2, <2>3 DEF NotifyPop, TypeOK, condVars, waitVars
<1>28. ASSUME NotifySignal(t) PROVE TypeOK'
  BY <1>28, PCsMembers, GotoType, ReturnType, ObjInCall DEF NotifySignal, monVars,
     waitVars, CondSignal, TypeOK, ControlTypeOK, Exceptions
<1>29. ASSUME ThreadInterrupt(t) PROVE TypeOK'
  BY <1>29, PCsMembers, ObjInCall DEF ThreadInterrupt, monVars, waitVars,
     CondSignal, TypeOK, ControlTypeOK, Exceptions
<1>30. ASSUME PollRead(t) PROVE TypeOK'
  BY <1>30, PCsMembers, CallType, ObjInCall DEF PollRead, monVars, condVars, TypeOK,
     ControlTypeOK, Exceptions
<1>31. ASSUME PollClear(t) PROVE TypeOK'
  BY <1>31, PCsMembers, ReturnType, ObjInCall DEF PollClear, monVars, TypeOK,
     ControlTypeOK, Exceptions
<1>32. QED
  BY <1>1, <1>2, <1>3, <1>4, <1>5, <1>6, <1>7, <1>8, <1>9, <1>10, <1>11, <1>12,
     <1>13, <1>14, <1>15, <1>16, <1>17, <1>18, <1>19, <1>20, <1>21, <1>22, <1>23,
     <1>24, <1>25, <1>26, <1>27, <1>28, <1>29, <1>30, <1>31 DEF Step, Start,
     LockStep, WaitStep, NotifyStep, UnlockObject

-----------------------------------------------------------------------------
(* Steps that move one thread inside its call.                             *)

\* What the steps have in common that only move t from one control point of its
\* call to another: no lock, Monitor or depth changes.
ControlMove(t) ==
  /\ UNCHANGED <<lock, owner, lockCount, monLock, held>>
  /\ \A u \in Threads \ {t} : /\ pc'[u] = pc[u]
                              /\ obj'[u] = obj[u]
                              /\ prevLockCount'[u] = prevLockCount[u]
  /\ pc[t] = "inflate" => pc'[t] = "inflate" /\ obj'[t] = obj[t]
  /\ pc[t] \in ParkedPC => /\ pc'[t] \in ParkedPC
                           /\ obj'[t] = obj[t]
                           /\ prevLockCount'[t] = prevLockCount[t]
  /\ pc[t] \notin ParkedPC => pc'[t] \notin ParkedPC
  /\ pc'[t] \notin {"idle", "poll"} => obj'[t] \in Objects
  /\ pc'[t] \in FatPC => lock[obj'[t]].fat
  /\ pc'[t] \in MutexPC => pc[t] \in MutexPC /\ obj'[t] = obj[t]
  /\ pc'[t] \in {"inflate", "waitinflate"} => OwnsThin(t, obj'[t])

\* Such a step keeps the invariant.
LEMMA ControlStep ==
  ASSUME IndInv, NEW t \in Threads, ControlMove(t)
  PROVE  (WordInv /\ PcInv /\ CountInv /\ DepthInv)'
<1> USE DEF IndInv
<1>1. WordInv'
  BY DEF WordInv, WordOK, ControlMove
<1>2. PcInv'
  BY DEF PcInv, PcOK, OwnsThin, ControlMove
<1>3. CountInv'
  <2>1. SUFFICES ASSUME NEW o \in Objects, lock'[o].count = CountMask
                 PROVE  pc'[lock'[o].owner] = "inflate" /\ obj'[lock'[o].owner] = o
    BY DEF CountInv, CountOK
  <2>2. lock[o].count = CountMask /\ lock'[o].owner = lock[o].owner
    BY <2>1 DEF ControlMove
  <2>3. lock[o].owner \in Threads
    BY <2>2, CountMaskAssumption DEF WordInv, WordOK, TypeOK, LockWord
  <2>4. pc[lock[o].owner] = "inflate" /\ obj[lock[o].owner] = o
    BY <2>2 DEF CountInv, CountOK
  <2>5. QED
    BY <2>2, <2>3, <2>4 DEF ControlMove
<1>4. DepthInv'
  BY DEF DepthInv, DepthOK, lockOwner, Depth, ControlMove
<1>5. QED
  BY <1>1, <1>2, <1>3, <1>4

-----------------------------------------------------------------------------
(* Steps that lock, unlock or inflate one object.                          *)

\* What the other steps have in common: t works on o alone, whose lock is held by t
\* or by nobody before and after the step.
StepOn(t, o) ==
  /\ \A p \in Objects \ {o} : /\ lock'[p] = lock[p]
                              /\ owner'[p] = owner[p]
                              /\ lockCount'[p] = lockCount[p]
                              /\ monLock'[p] = monLock[p]
  /\ \A u \in Threads \ {t} : /\ pc'[u] = pc[u]
                              /\ obj'[u] = obj[u]
                              /\ prevLockCount'[u] = prevLockCount[u]
  /\ \A u \in Threads : \A p \in Objects :
       (u # t \/ p # o) => held'[u][p] = held[u][p]
  /\ pc[t] \notin {"idle", "poll"} => obj[t] = o
  /\ pc'[t] \notin {"idle", "poll"} => obj'[t] = o
  /\ lock[o].fat => lock'[o].fat
  /\ lockOwner(o) \in {t, NoThread}
  /\ lockOwner(o)' \in {t, NoThread}
  /\ monLock[o] \in {t, NoThread}

\* Such a step keeps the invariant if it does so at its own object and thread:
\* nobody else has a control point that depends on an object t may lock.
LEMMA FrameStep ==
  ASSUME IndInv, NEW t \in Threads, NEW o \in Objects, StepOn(t, o),
         WordOK(o)', PcOK(t)', CountOK(o)', DepthOK(t, o)'
  PROVE  (WordInv /\ PcInv /\ CountInv /\ DepthInv)'
<1> USE NoThreadAssumption, CountMaskAssumption DEF IndInv
<1>1. WordInv'
  BY DEF WordInv, WordOK, StepOn
<1>2. PcInv'
  <2>1. SUFFICES ASSUME NEW u \in Threads \ {t} PROVE PcOK(u)'
    BY DEF PcInv
  <2>2. pc'[u] = pc[u] /\ obj'[u] = obj[u] /\ PcOK(u)
    BY DEF StepOn, PcInv
  <2>3. CASE obj[u] = o
    <3>1. pc[u] \in FatPC => lock[o].fat /\ lock'[o].fat
      BY <2>2, <2>3 DEF StepOn, PcOK
    <3>2. pc[u] \notin MutexPC /\ pc[u] \notin {"inflate", "waitinflate"}
      BY <2>2, <2>3 DEF StepOn, PcOK, OwnsThin, lockOwner
    <3>3. QED
      BY <2>2, <2>3, <3>1, <3>2 DEF PcOK
  <2>4. CASE obj[u] # o
    <3>1. pc[u] \in FatPC \cup MutexPC \cup {"inflate", "waitinflate"} => obj[u] \in Objects \ {o}
      BY <2>2, <2>4 DEF PcOK, FatPC, MutexPC, ParkedPC
    <3>2. QED
      BY <2>2, <3>1 DEF StepOn, PcOK, OwnsThin
  <2>5. QED
    BY <2>3, <2>4
<1>3. CountInv'
  <2>1. SUFFICES ASSUME NEW p \in Objects \ {o}, lock'[p].count = CountMask
                 PROVE  pc'[lock'[p].owner] = "inflate" /\ obj'[lock'[p].owner] = p
    BY DEF CountInv, CountOK
  <2>2. lock'[p] = lock[p]
    BY DEF StepOn
  <2>3. lock[p].owner \in Threads
    BY <2>1, <2>2 DEF WordInv, WordOK, TypeOK, LockWord
  <2>4. pc[lock[p].owner] = "inflate" /\ obj[lock[p].owner] = p
    BY <2>1, <2>2 DEF CountInv, CountOK
  <2>5. lock[p].owner # t
    BY <2>4 DEF StepOn
  <2>6. QED
    BY <2>2, <2>3, <2>4, <2>5 DEF StepOn
<1>4. DepthInv'
  <2>1. SUFFICES ASSUME NEW u \in Threads, NEW p \in Objects, u # t \/ p # o
                 PROVE  DepthOK(u, p)'
    BY DEF DepthInv
  <2>2. DepthOK(u, p) /\ held'[u][p] = held[u][p]
    BY <2>1 DEF DepthInv, StepOn
  <2>3. CASE p # o
    <3>1. lockOwner(p)' = lockOwner(p) /\ Depth(p)' = Depth(p)
      BY <2>3 DEF StepOn, lockOwner, Depth
    <3>2. CASE u = t
      <4>1. /\ ~(pc[u] \in ParkedPC /\ obj[u] = p)
            /\ ~(pc'[u] \in ParkedPC /\ obj'[u] = p)
        BY <2>3, <3>2 DEF StepOn, ParkedPC
      <4>2. QED
        BY <2>2, <3>1, <4>1 DEF DepthOK
    <3>3. CASE u # t
      BY <2>2, <3>1, <3>3 DEF StepOn, DepthOK
    <3>4. QED
      BY <3>2, <3>3
  <2>4. CASE p = o
    <3>1. u # t /\ lockOwner(p) # u /\ lockOwner(p)' # u
      BY <2>1, <2>4 DEF StepOn
    <3>2. QED
      BY <2>2, <3>1 DEF StepOn, DepthOK
  <2>5. QED
    BY <2>3, <2>4
<1>5. QED
  BY <1>1, <1>2, <1>3, <1>4

-----------------------------------------------------------------------------
(* The invariant.                                                          *)

\* Every step keeps the parts of the invariant other than the types.
LEMMA InvStep ==
  ASSUME IndInv, NEW t \in Threads, Step(t) \/ Start(t) \/ ThreadInterrupt(t)
  PROVE  (WordInv /\ PcInv /\ CountInv /\ DepthInv)'
<1> USE NoThreadAssumption, NoObjectAssumption, CountMaskAssumption DEF IndInv
<1> DEFINE Goal == (WordInv /\ PcInv /\ CountInv /\ DepthInv)'
<1>1. ASSUME NEW o \in Objects, LockObject(t, o) PROVE Goal
  <2>1. ControlMove(t)
    BY <1>1 DEF LockObject, Call, Goto, monVars, condVars, waitVars, ControlMove,
       PcInv, PcOK, ParkedPC, FatPC, MutexPC, TypeOK
  <2>2. QED
    BY <2>1, ControlStep
<1>2. ASSUME NEW o \in Objects, obj[t] = o, RecurseThin(t) PROVE Goal
  <2>1. PcOK(t) /\ WordOK(o) /\ CountOK(o) /\ DepthOK(t, o)
    BY DEF WordInv, PcInv, CountInv, DepthInv
  <2>2. StepOn(t, o)
    BY <1>2, <2>1 DEF RecurseThin, Return, Goto, Acquired, OwnsThin, monVars,
       condVars, waitVars, lockOwner, StepOn, TypeOK, PcOK, WordOK, ParkedPC, FatPC,
       MutexPC
  <2>3. WordOK(o)'
    BY <1>2, <2>1 DEF RecurseThin, Return, Goto, Acquired, OwnsThin, monVars,
       condVars, waitVars, TypeOK, LockWord, PcOK, WordOK, ParkedPC, FatPC, MutexPC
  <2>4. PcOK(t)'
    BY <1>2, <2>1 DEF RecurseThin, Return, Goto, Acquired, OwnsThin, monVars,
       condVars, waitVars, TypeOK, PcOK, WordOK, ParkedPC, FatPC, MutexPC
  <2>5. CountOK(o)'
    BY <1>2, <2>1 DEF RecurseThin, Return, Goto, Acquired, OwnsThin, monVars,
       condVars, waitVars, TypeOK, LockWord, PcOK, WordOK, CountOK, ParkedPC, FatPC,
       MutexPC
  <2>6. DepthOK(t, o)'
    BY <1>2, <2>1 DEF RecurseThin, Return, Goto, Acquired, OwnsThin, monVars,
       condVars, waitVars, lockOwner, TypeOK, LockWord, PcOK, WordOK, DepthOK,
       Depth, ParkedPC, FatPC, MutexPC
  <2>7. QED
    BY <2>2, <2>3, <2>4, <2>5, <2>6, FrameStep
<1>3. ASSUME ReadLockWord(t) PROVE Goal
  <2>1. ControlMove(t)
    <3>1. obj[t] \in Objects /\ pc[t] = "lock"
      BY <1>3, ObjInCall DEF ReadLockWord
    <3>2. \/ pc' = [pc EXCEPT ![t] = "cas"]
          \/ pc' = [pc EXCEPT ![t] = "spin"]
          \/ pc' = [pc EXCEPT ![t] = "lockmon"] /\ lock[obj[t]].fat
      BY <1>3 DEF ReadLockWord, Goto
    <3>3. UNCHANGED <<lock, owner, lockCount, monLock, held, obj, prevLockCount>>
      BY <1>3 DEF ReadLockWord, monVars, waitVars
    <3>4. QED
      BY <3>1, <3>2, <3>3 DEF ControlMove, ParkedPC, FatPC, MutexPC, TypeOK
  <2>2. QED
    BY <2>1, ControlStep
<1>4. ASSUME NEW o \in Objects, obj[t] = o, CasLock(t) PROVE Goal
  <2>1. CASE lock[o] # Unowned
    <3>1. ControlMove(t)
      BY <1>4, <2>1 DEF CasLock, Return, Goto, Acquired, Thin, Unowned, monVars,
         condVars, waitVars, ControlMove, PcInv, PcOK, ParkedPC, FatPC, MutexPC,
         TypeOK
    <3>2. QED
      BY <3>1, ControlStep
  <2>2. CASE lock[o] = Unowned
    <3>1. PcOK(t) /\ WordOK(o) /\ CountOK(o) /\ DepthOK(t, o)
      BY DEF WordInv, PcInv, CountInv, DepthInv
    <3>2. StepOn(t, o)
      BY <1>4, <2>2, <3>1 DEF CasLock, Return, Goto, Acquired, Thin, Unowned,
         monVars, condVars, waitVars, lockOwner, StepOn, TypeOK, PcOK, OwnsThin,
         WordOK, ParkedPC, FatPC, MutexPC
    <3>3. WordOK(o)'
      BY <1>4, <2>2, <3>1 DEF CasLock, Return, Goto, Acquired, Thin, Unowned,
         monVars, condVars, waitVars, OwnsThin, TypeOK, LockWord, PcOK, WordOK,
         ParkedPC, FatPC, MutexPC
    <3>4. PcOK(t)'
      BY <1>4, <2>2, <3>1 DEF CasLock, Return, Goto, Acquired, Thin, Unowned,
         monVars, condVars, waitVars, OwnsThin, TypeOK, PcOK, WordOK, ParkedPC,
         FatPC, MutexPC
    <3>5. CountOK(o)'
      BY <1>4, <2>2, <3>1 DEF CasLock, Return, Goto, Acquired, Thin, Unowned,
         monVars, condVars, waitVars, OwnsThin, TypeOK, LockWord, PcOK, WordOK,
         CountOK, ParkedPC, FatPC, MutexPC
    <3>6. DepthOK(t, o)'
      BY <1>4, <2>2, <3>1 DEF CasLock, Return, Goto, Acquired, Thin, Unowned,
         monVars, condVars, waitVars, OwnsThin, lockOwner, TypeOK, LockWord, PcOK,
         WordOK, DepthOK, Depth, ParkedPC, FatPC, MutexPC
    <3>7. QED
      BY <3>2, <3>3, <3>4, <3>5, <3>6, FrameStep
  <2>3. QED
    BY <2>1, <2>2
<1>5. ASSUME SpinRead(t) PROVE Goal
  <2>1. ControlMove(t)
    <3>1. obj[t] \in Objects /\ pc[t] = "spin"
      BY <1>5, ObjInCall DEF SpinRead
    <3>2. pc' = [pc EXCEPT ![t] = "spincas"] \/ pc' = [pc EXCEPT ![t] = "lock"]
      BY <1>5 DEF SpinRead, Goto
    <3>3. UNCHANGED <<lock, owner, lockCount, monLock, held, obj, prevLockCount>>
      BY <1>5 DEF SpinRead, monVars, waitVars
    <3>4. QED
      BY <3>1, <3>2, <3>3 DEF ControlMove, ParkedPC, FatPC, MutexPC, TypeOK
  <2>2. QED
    BY <2>1, ControlStep
<1>6. ASSUME NEW o \in Objects, obj[t] = o, SpinCas(t) PROVE Goal
  <2>1. CASE lock[o] # Unowned
    <3>1. ControlMove(t)
      BY <1>6, <2>1 DEF SpinCas, Goto, Acquired, Thin, Unowned, monVars, condVars,
         waitVars, ControlMove, PcInv, PcOK, ParkedPC, FatPC, MutexPC, TypeOK
    <3>2. QED
      BY <3>1, ControlStep
  <2>2. CASE lock[o] = Unowned
    <3>1. PcOK(t) /\ WordOK(o) /\ CountOK(o) /\ DepthOK(t, o)
      BY DEF WordInv, PcInv, CountInv, DepthInv
    <3>2. StepOn(t, o)
      BY <1>6, <2>2, <3>1 DEF SpinCas, Goto, Acquired, Thin, Unowned, monVars,
         condVars, waitVars, lockOwner, StepOn, TypeOK, PcOK, OwnsThin, WordOK,
         ParkedPC, FatPC, MutexPC
    <3>3. WordOK(o)'
      BY <1>6, <2>2, <3>1 DEF SpinCas, Goto, Acquired, Thin, Unowned, monVars,
         condVars, waitVars, OwnsThin, TypeOK, LockWord, PcOK, WordOK, ParkedPC,
         FatPC, MutexPC
    <3>4. PcOK(t)'
      BY <1>6, <2>2, <3>1 DEF SpinCas, Goto, Acquired, Thin, Unowned, monVars,
         condVars, waitVars, OwnsThin, TypeOK, PcOK, WordOK, ParkedPC, FatPC,
         MutexPC
    <3>5. CountOK(o)'
      BY <1>6, <2>2, <3>1 DEF SpinCas, Goto, Acquired, Thin, Unowned, monVars,
         condVars, waitVars, OwnsThin, TypeOK, LockWord, PcOK, WordOK, CountOK,
         ParkedPC, FatPC, MutexPC
    <3>6. DepthOK(t, o)'
      BY <1>6, <2>2, <3>1 DEF SpinCas, Goto, Acquired, Thin, Unowned, monVars,
         condVars, waitVars, OwnsThin, lockOwner, TypeOK, LockWord, PcOK, WordOK,
         DepthOK, Depth, ParkedPC, FatPC, MutexPC
    <3>7. QED
      BY <3>2, <3>3, <3>4, <3>5, <3>6, FrameStep
  <2>3. QED
    BY <2>1, <2>2
<1>7. ASSUME NEW o \in Objects, obj[t] = o, InflateMonitor(t) PROVE Goal
  <2>1. PcOK(t) /\ WordOK(o) /\ CountOK(o) /\ DepthOK(t, o)
    BY DEF WordInv, PcInv, CountInv, DepthInv
  <2>2. StepOn(t, o)
    BY <1>7, <2>1 DEF InflateMonitor, Return, Goto, FatWord, condVars, waitVars,
       lockOwner, StepOn, TypeOK, PcOK, OwnsThin, WordOK, ParkedPC, FatPC, MutexPC
  <2>3. WordOK(o)'
    BY <1>7, <2>1 DEF InflateMonitor, Return, Goto, FatWord, condVars, waitVars,
       OwnsThin, TypeOK, LockWord, PcOK, WordOK, ParkedPC, FatPC, MutexPC
  <2>4. PcOK(t)'
    BY <1>7, <2>1 DEF InflateMonitor, Return, Goto, FatWord, condVars, waitVars,
       OwnsThin, TypeOK, PcOK, WordOK, ParkedPC, FatPC, MutexPC
  <2>5. CountOK(o)'
    BY <1>7, <2>1 DEF InflateMonitor, Return, Goto, FatWord, condVars, waitVars,
       OwnsThin, TypeOK, LockWord, PcOK, WordOK, CountOK, ParkedPC, FatPC, MutexPC
  <2>6. DepthOK(t, o)'
    BY <1>7, <2>1 DEF InflateMonitor, Return, Goto, FatWord, condVars, waitVars,
       OwnsThin, lockOwner, TypeOK, LockWord, PcOK, WordOK, DepthOK, Depth,
       ParkedPC, FatPC, MutexPC
  <2>7. QED
    BY <2>2, <2>3, <2>4, <2>5, <2>6, FrameStep
<1>8. ASSUME NEW o \in Objects, obj[t] = o, RecurseFat(t) PROVE Goal
  <2>1. PcOK(t) /\ WordOK(o) /\ CountOK(o) /\ DepthOK(t, o)
    BY DEF WordInv, PcInv, CountInv, DepthInv
  <2>2. StepOn(t, o)
    BY <1>8, <2>1 DEF RecurseFat, Return, Goto, Acquired, condVars, waitVars,
       lockOwner, StepOn, TypeOK, PcOK, OwnsThin, WordOK, ParkedPC, FatPC, MutexPC
  <2>3. WordOK(o)'
    BY <1>8, <2>1 DEF RecurseFat, Return, Goto, Acquired, condVars, waitVars,
       OwnsThin, TypeOK, LockWord, PcOK, WordOK, ParkedPC, FatPC, MutexPC
  <2>4. PcOK(t)'
    BY <1>8, <2>1 DEF RecurseFat, Return, Goto, Acquired, condVars, waitVars,
       OwnsThin, TypeOK, PcOK, WordOK, ParkedPC, FatPC, MutexPC
  <2>5. CountOK(o)'
    BY <1>8, <2>1 DEF RecurseFat, Return, Goto, Acquired, condVars, waitVars,
       OwnsThin, TypeOK, LockWord, PcOK, WordOK, CountOK, ParkedPC, FatPC, MutexPC
  <2>6. DepthOK(t, o)'
    BY <1>8, <2>1 DEF RecurseFat, Return, Goto, Acquired, condVars, waitVars,
       OwnsThin, lockOwner, TypeOK, LockWord, PcOK, WordOK, DepthOK, Depth,
       ParkedPC, FatPC, MutexPC
  <2>7. QED
    BY <2>2, <2>3, <2>4, <2>5, <2>6, FrameStep
<1>9. ASSUME NEW o \in Objects, obj[t] = o, AcquireMonLock(t) PROVE Goal
  <2>1. PcOK(t) /\ WordOK(o) /\ CountOK(o) /\ DepthOK(t, o)
    BY DEF WordInv, PcInv, CountInv, DepthInv
  <2>2. StepOn(t, o)
    BY <1>9, <2>1 DEF AcquireMonLock, Goto, condVars, waitVars, lockOwner, StepOn,
       TypeOK, PcOK, OwnsThin, WordOK, ParkedPC, FatPC, MutexPC
  <2>3. WordOK(o)'
    BY <1>9, <2>1 DEF AcquireMonLock, Goto, condVars, waitVars, OwnsThin, TypeOK,
       LockWord, PcOK, WordOK, ParkedPC, FatPC, MutexPC
  <2>4. PcOK(t)'
    BY <1>9, <2>1 DEF AcquireMonLock, Goto, condVars, waitVars, OwnsThin, TypeOK,
       PcOK, WordOK, ParkedPC, FatPC, MutexPC
  <2>5. CountOK(o)'
    BY <1>9, <2>1 DEF AcquireMonLock, Goto, condVars, waitVars, OwnsThin, TypeOK,
       LockWord, PcOK, WordOK, CountOK, ParkedPC, FatPC, MutexPC
  <2>6. DepthOK(t, o)'
    BY <1>9, <2>1 DEF AcquireMonLock, Goto, condVars, waitVars, OwnsThin, lockOwner,
       TypeOK, LockWord, PcOK, WordOK, DepthOK, Depth, ParkedPC, FatPC, MutexPC
  <2>7. QED
    BY <2>2, <2>3, <2>4, <2>5, <2>6, FrameStep
<1>10. ASSUME NEW o \in Objects, obj[t] = o, SetOwner(t) PROVE Goal
  <2>1. PcOK(t) /\ WordOK(o) /\ CountOK(o) /\ DepthOK(t, o)
    BY DEF WordInv, PcInv, CountInv, DepthInv
  <2>2. StepOn(t, o)
    BY <1>10, <2>1 DEF SetOwner, Return, Goto, Acquired, condVars, waitVars,
       lockOwner, StepOn, TypeOK, PcOK, OwnsThin, WordOK, ParkedPC, FatPC, MutexPC
  <2>3. WordOK(o)'
    BY <1>10, <2>1 DEF SetOwner, Return, Goto, Acquired, condVars, waitVars,
       OwnsThin, TypeOK, LockWord, PcOK, WordOK, ParkedPC, FatPC, MutexPC
  <2>4. PcOK(t)'
    BY <1>10, <2>1 DEF SetOwner, Return, Goto, Acquired, condVars, waitVars,
       OwnsThin, TypeOK, PcOK, WordOK, ParkedPC, FatPC, MutexPC
  <2>5. CountOK(o)'
    BY <1>10, <2>1 DEF SetOwner, Return, Goto, Acquired, condVars, waitVars,
       OwnsThin, TypeOK, LockWord, PcOK, WordOK, CountOK, ParkedPC, FatPC, MutexPC
  <2>6. DepthOK(t, o)'
    BY <1>10, <2>1 DEF SetOwner, Return, Goto, Acquired, condVars, waitVars,
       OwnsThin, lockOwner, TypeOK, LockWord, PcOK, WordOK, DepthOK, Depth,
       ParkedPC, FatPC, MutexPC
  <2>7. QED
    BY <2>2, <2>3, <2>4, <2>5, <2>6, FrameStep
<1>11. ASSUME NEW o \in Objects, UnlockThin(t, o) PROVE Goal
  <2>1. PcOK(t) /\ WordOK(o) /\ CountOK(o) /\ DepthOK(t, o)
    BY DEF WordInv, PcInv, CountInv, DepthInv
  <2>2. StepOn(t, o)
    BY <1>11, <2>1 DEF UnlockThin, Released, OwnsThin, Thin, Unowned, monVars,
       condVars, waitVars, lockOwner, StepOn, TypeOK, PcOK, WordOK, ParkedPC, FatPC,
       MutexPC
  <2>3. WordOK(o)'
    BY <1>11, <2>1 DEF UnlockThin, Released, OwnsThin, Thin, Unowned, monVars,
       condVars, waitVars, TypeOK, LockWord, PcOK, WordOK, ParkedPC, FatPC, MutexPC
  <2>4. PcOK(t)'
    BY <1>11, <2>1 DEF UnlockThin, Released, OwnsThin, Thin, Unowned, monVars,
       condVars, waitVars, TypeOK, PcOK, WordOK, ParkedPC, FatPC, MutexPC
  <2>5. CountOK(o)'
    BY <1>11, <2>1 DEF UnlockThin, Released, OwnsThin, Thin, Unowned, monVars,
       condVars, waitVars, TypeOK, LockWord, PcOK, WordOK, CountOK, ParkedPC, FatPC,
       MutexPC
  <2>6. DepthOK(t, o)'
    BY <1>11, <2>1 DEF UnlockThin, Released, OwnsThin, Thin, Unowned, monVars,
       condVars, waitVars, lockOwner, TypeOK, LockWord, PcOK, WordOK, DepthOK,
       Depth, ParkedPC, FatPC, MutexPC
  <2>7. QED
    BY <2>2, <2>3, <2>4, <2>5, <2>6, FrameStep
<1>12. ASSUME NEW o \in Objects, UnlockFat(t, o) PROVE Goal
  <2>1. PcOK(t) /\ WordOK(o) /\ CountOK(o) /\ DepthOK(t, o)
    BY DEF WordInv, PcInv, CountInv, DepthInv
  <2>2. StepOn(t, o)
    BY <1>12, <2>1 DEF UnlockFat, Call, Goto, Released, condVars, waitVars,
       lockOwner, StepOn, TypeOK, PcOK, OwnsThin, WordOK, ParkedPC, FatPC, MutexPC
  <2>3. WordOK(o)'
    BY <1>12, <2>1 DEF UnlockFat, Call, Goto, Released, condVars, waitVars,
       OwnsThin, TypeOK, LockWord, PcOK, WordOK, ParkedPC, FatPC, MutexPC
  <2>4. PcOK(t)'
    BY <1>12, <2>1 DEF UnlockFat, Call, Goto, Released, condVars, waitVars,
       OwnsThin, TypeOK, PcOK, WordOK, ParkedPC, FatPC, MutexPC
  <2>5. CountOK(o)'
    BY <1>12, <2>1 DEF UnlockFat, Call, Goto, Released, condVars, waitVars,
       OwnsThin, TypeOK, LockWord, PcOK, WordOK, CountOK, ParkedPC, FatPC, MutexPC
  <2>6. DepthOK(t, o)'
    <3>1. /\ held[t][o] = lockCount[o] + 1 /\ pc[t] = "idle" /\ lockCount[o] \in Nat
          /\ held'[t][o] = held[t][o] - 1 /\ lock'[o].fat
      BY <1>12, <2>1 DEF UnlockFat, Call, Released, lockOwner, Depth, DepthOK, TypeOK
    <3>2. CASE lockCount[o] = 0
      <4>1. owner'[o] = NoThread /\ pc'[t] = "unlockmutex"
        BY <1>12, <3>2 DEF UnlockFat, Call, Goto, TypeOK
      <4>2. QED
        BY <3>1, <3>2, <4>1 DEF DepthOK, lockOwner, ParkedPC
    <3>3. CASE lockCount[o] # 0
      <4>1. owner'[o] = t /\ lockCount'[o] = lockCount[o] - 1
        BY <1>12, <3>3 DEF UnlockFat, TypeOK
      <4>2. QED
        BY <3>1, <4>1 DEF DepthOK, Depth, lockOwner
    <3>4. QED
      BY <3>2, <3>3
  <2>7. QED
    BY <2>2, <2>3, <2>4, <2>5, <2>6, FrameStep
<1>13. ASSUME NEW o \in Objects, obj[t] = o, UnlockMonLock(t) PROVE Goal
  <2>1. PcOK(t) /\ WordOK(o) /\ CountOK(o) /\ DepthOK(t, o)
    BY DEF WordInv, PcInv, CountInv, DepthInv
  <2>2. StepOn(t, o)
    BY <1>13, <2>1 DEF UnlockMonLock, Return, Goto, condVars, waitVars, lockOwner,
       StepOn, TypeOK, PcOK, OwnsThin, WordOK, ParkedPC, FatPC, MutexPC
  <2>3. WordOK(o)'
    BY <1>13, <2>1 DEF UnlockMonLock, Return, Goto, condVars, waitVars, OwnsThin,
       TypeOK, LockWord, PcOK, WordOK, ParkedPC, FatPC, MutexPC
  <2>4. PcOK(t)'
    BY <1>13, <2>1 DEF UnlockMonLock, Return, Goto, condVars, waitVars, OwnsThin,
       TypeOK, PcOK, WordOK, ParkedPC, FatPC, MutexPC
  <2>5. CountOK(o)'
    BY <1>13, <2>1 DEF UnlockMonLock, Return, Goto, condVars, waitVars, OwnsThin,
       TypeOK, LockWord, PcOK, WordOK, CountOK, ParkedPC, FatPC, MutexPC
  <2>6. DepthOK(t, o)'
    BY <1>13, <2>1 DEF UnlockMonLock, Return, Goto, condVars, waitVars, OwnsThin,
       lockOwner, TypeOK, LockWord, PcOK, WordOK, DepthOK, Depth, ParkedPC, FatPC,
       MutexPC
  <2>7. QED
    BY <2>2, <2>3, <2>4, <2>5, <2>6, FrameStep
<1>14. ASSUME NEW o \in Objects, UnlockUnowned(t, o) PROVE Goal
  <2>1. ControlMove(t)
    BY <1>14 DEF UnlockUnowned, Refuse, monVars, condVars, waitVars, lockOwner,
       ControlMove, PcInv, PcOK, ParkedPC, FatPC, MutexPC, TypeOK
  <2>2. QED
    BY <2>1, ControlStep
<1>15. ASSUME NEW o \in Objects, ObjectWait(t, o) PROVE Goal
  <2>1. ControlMove(t)
    BY <1>15 DEF ObjectWait, Call, Refuse, Goto, OwnsThin, monVars, condVars,
       waitVars, ControlMove, PcInv, PcOK, ParkedPC, FatPC, MutexPC, TypeOK
  <2>2. QED
    BY <2>1, ControlStep
<1>16. ASSUME WaitRefused(t) PROVE Goal
  <2>1. ControlMove(t)
    BY <1>16 DEF WaitRefused, Return, Goto, monVars, condVars, waitVars,
       ControlMove, PcInv, PcOK, ParkedPC, FatPC, MutexPC, TypeOK
  <2>2. QED
    BY <2>1, ControlStep
<1>17. ASSUME NEW o \in Objects, obj[t] = o, WaitPark(t) PROVE Goal
  <2>1. PcOK(t) /\ WordOK(o) /\ CountOK(o) /\ DepthOK(t, o)
    BY DEF WordInv, PcInv, CountInv, DepthInv
  <2>2. StepOn(t, o)
    BY <1>17, <2>1 DEF WaitPark, Goto, condVars, lockOwner, StepOn, TypeOK, PcOK,
       OwnsThin, WordOK, ParkedPC, FatPC, MutexPC
  <2>3. WordOK(o)'
    BY <1>17, <2>1 DEF WaitPark, Goto, condVars, OwnsThin, TypeOK, LockWord, PcOK,
       WordOK, ParkedPC, FatPC, MutexPC
  <2>4. PcOK(t)'
    BY <1>17, <2>1 DEF WaitPark, Goto, condVars, OwnsThin, TypeOK, PcOK, WordOK,
       ParkedPC, FatPC, MutexPC
  <2>5. CountOK(o)'
    BY <1>17, <2>1 DEF WaitPark, Goto, condVars, OwnsThin, TypeOK, LockWord, PcOK,
       WordOK, CountOK, ParkedPC, FatPC, MutexPC
  <2>6. DepthOK(t, o)'
    BY <1>17, <2>1 DEF WaitPark, Goto, condVars, OwnsThin, lockOwner, TypeOK,
       LockWord, PcOK, WordOK, DepthOK, Depth, ParkedPC, FatPC, MutexPC
  <2>7. QED
    BY <2>2, <2>3, <2>4, <2>5, <2>6, FrameStep
<1>18. ASSUME WaitEnter(t) PROVE Goal
  <2>1. ControlMove(t)
    <3>1. obj[t] \in Objects /\ lock[obj[t]].fat /\ pc[t] = "waitmutex"
      BY <1>18 DEF WaitEnter, PcInv, PcOK, FatPC, ParkedPC
    <3>2. pc' = [pc EXCEPT ![t] = "waitdone"] \/ pc' = [pc EXCEPT ![t] = "waitrelease"]
      BY <1>18 DEF WaitEnter, Goto
    <3>3. UNCHANGED <<lock, owner, lockCount, monLock, held, obj, prevLockCount>>
      BY <1>18 DEF WaitEnter, monVars
    <3>4. QED
      BY <3>1, <3>2, <3>3 DEF ControlMove, ParkedPC, FatPC, MutexPC, TypeOK
  <2>2. QED
    BY <2>1, ControlStep
<1>19. ASSUME NEW o \in Objects, obj[t] = o, WaitRelease(t) PROVE Goal
  <2>1. PcOK(t) /\ WordOK(o) /\ CountOK(o) /\ DepthOK(t, o)
    BY DEF WordInv, PcInv, CountInv, DepthInv
  <2>2. StepOn(t, o)
    BY <1>19, <2>1 DEF WaitRelease, Goto, condVars, waitVars, lockOwner, StepOn,
       TypeOK, PcOK, OwnsThin, WordOK, ParkedPC, FatPC, MutexPC
  <2>3. WordOK(o)'
    BY <1>19, <2>1 DEF WaitRelease, Goto, condVars, waitVars, OwnsThin, TypeOK,
       LockWord, PcOK, WordOK, ParkedPC, FatPC, MutexPC
  <2>4. PcOK(t)'
    BY <1>19, <2>1 DEF WaitRelease, Goto, condVars, waitVars, OwnsThin, TypeOK,
       PcOK, WordOK, ParkedPC, FatPC, MutexPC
  <2>5. CountOK(o)'
    BY <1>19, <2>1 DEF WaitRelease, Goto, condVars, waitVars, OwnsThin, TypeOK,
       LockWord, PcOK, WordOK, CountOK, ParkedPC, FatPC, MutexPC
  <2>6. DepthOK(t, o)'
    BY <1>19, <2>1 DEF WaitRelease, Goto, condVars, waitVars, OwnsThin, lockOwner,
       TypeOK, LockWord, PcOK, WordOK, DepthOK, Depth, ParkedPC, FatPC, MutexPC
  <2>7. QED
    BY <2>2, <2>3, <2>4, <2>5, <2>6, FrameStep
<1>20. ASSUME CondWait(t) PROVE Goal
  <2>1. ControlMove(t)
    BY <1>20 DEF CondWait, Goto, monVars, waitVars, ControlMove, PcInv, PcOK,
       ParkedPC, FatPC, MutexPC, TypeOK
  <2>2. QED
    BY <2>1, ControlStep
<1>21. ASSUME CondReturn(t) PROVE Goal
  <2>1. ControlMove(t)
    BY <1>21 DEF CondReturn, Goto, monVars, ControlMove, PcInv, PcOK, ParkedPC,
       FatPC, MutexPC, TypeOK
  <2>2. QED
    BY <2>1, ControlStep
<1>22. ASSUME NEW o \in Objects, obj[t] = o, Relock(t) PROVE Goal
  <2>1. PcOK(t) /\ WordOK(o) /\ CountOK(o) /\ DepthOK(t, o)
    BY DEF WordInv, PcInv, CountInv, DepthInv
  <2>2. StepOn(t, o)
    BY <1>22, <2>1 DEF Relock, Goto, condVars, waitVars, lockOwner, StepOn, TypeOK,
       PcOK, OwnsThin, WordOK, ParkedPC, FatPC, MutexPC
  <2>3. WordOK(o)'
    BY <1>22, <2>1 DEF Relock, Goto, condVars, waitVars, OwnsThin, TypeOK, LockWord,
       PcOK, WordOK, ParkedPC, FatPC, MutexPC
  <2>4. PcOK(t)'
    BY <1>22, <2>1 DEF Relock, Goto, condVars, waitVars, OwnsThin, TypeOK, PcOK,
       WordOK, ParkedPC, FatPC, MutexPC
  <2>5. CountOK(o)'
    BY <1>22, <2>1 DEF Relock, Goto, condVars, waitVars, OwnsThin, TypeOK, LockWord,
       PcOK, WordOK, CountOK, ParkedPC, FatPC, MutexPC
  <2>6. DepthOK(t, o)'
    BY <1>22, <2>1 DEF Relock, Goto, condVars, waitVars, OwnsThin, lockOwner,
       TypeOK, LockWord, PcOK, WordOK, DepthOK, Depth, ParkedPC, FatPC, MutexPC
  <2>7. QED
    BY <2>2, <2>3, <2>4, <2>5, <2>6, FrameStep
<1>23. ASSUME NEW o \in Objects, obj[t] = o, WaitDone(t) PROVE Goal
  <2>1. PcOK(t) /\ WordOK(o) /\ CountOK(o) /\ DepthOK(t, o)
    BY DEF WordInv, PcInv, CountInv, DepthInv
  <2>2. StepOn(t, o)
    BY <1>23, <2>1 DEF WaitDone, Goto, condVars, waitVars, lockOwner, StepOn,
       TypeOK, PcOK, OwnsThin, WordOK, ParkedPC, FatPC, MutexPC
  <2>3. WordOK(o)'
    BY <1>23, <2>1 DEF WaitDone, Goto, condVars, waitVars, OwnsThin, TypeOK,
       LockWord, PcOK, WordOK, ParkedPC, FatPC, MutexPC
  <2>4. PcOK(t)'
    BY <1>23, <2>1 DEF WaitDone, Goto, condVars, waitVars, OwnsThin, TypeOK, PcOK,
       WordOK, ParkedPC, FatPC, MutexPC
  <2>5. CountOK(o)'
    BY <1>23, <2>1 DEF WaitDone, Goto, condVars, waitVars, OwnsThin, TypeOK,
       LockWord, PcOK, WordOK, CountOK, ParkedPC, FatPC, MutexPC
  <2>6. DepthOK(t, o)'
    BY <1>23, <2>1 DEF WaitDone, Goto, condVars, waitVars, OwnsThin, lockOwner,
       TypeOK, LockWord, PcOK, WordOK, DepthOK, Depth, ParkedPC, FatPC, MutexPC
  <2>7. QED
    BY <2>2, <2>3, <2>4, <2>5, <2>6, FrameStep
<1>24. ASSUME WaitReturn(t) PROVE Goal
  <2>1. ControlMove(t)
    BY <1>24 DEF WaitReturn, Return, Goto, monVars, ControlMove, PcInv, PcOK,
       ParkedPC, FatPC, MutexPC, TypeOK
  <2>2. QED
    BY <2>1, ControlStep
<1>25. ASSUME NEW o \in Objects, ObjectNotify(t, o) PROVE Goal
  <2>1. ControlMove(t)
    BY <1>25 DEF ObjectNotify, Call, Refuse, Goto, OwnsThin, monVars, condVars,
       waitVars, ControlMove, PcInv, PcOK, ParkedPC, FatPC, MutexPC, TypeOK
  <2>2. QED
    BY <2>1, ControlStep
<1>26. ASSUME NotifyEnd(t) PROVE Goal
  <2>1. ControlMove(t)
    BY <1>26 DEF NotifyEnd, Return, Goto, monVars, condVars, waitVars, ControlMove,
       PcInv, PcOK, ParkedPC, FatPC, MutexPC, TypeOK
  <2>2. QED
    BY <2>1, ControlStep
<1>27. ASSUME NotifyPop(t) PROVE Goal
  <2>1. ControlMove(t)
    BY <1>27 DEF NotifyPop, Goto, condVars, waitVars, ControlMove, PcInv, PcOK,
       ParkedPC, FatPC, MutexPC, TypeOK
  <2>2. QED
    BY <2>1, ControlStep
<1>28. ASSUME NotifySignal(t) PROVE Goal
  <2>1. ControlMove(t)
    BY <1>28 DEF NotifySignal, Return, Goto, monVars, waitVars, CondSignal,
       ControlMove, PcInv, PcOK, ParkedPC, FatPC, MutexPC, TypeOK
  <2>2. QED
    BY <2>1, ControlStep
<1>29. ASSUME ThreadInterrupt(t) PROVE Goal
  <2>1. ControlMove(t)
    BY <1>29 DEF ThreadInterrupt, monVars, waitVars, CondSignal, ControlMove, PcInv,
       PcOK, ParkedPC, FatPC, MutexPC, TypeOK
  <2>2. QED
    BY <2>1, ControlStep
<1>30. ASSUME PollRead(t) PROVE Goal
  <2>1. ControlMove(t)
    BY <1>30 DEF PollRead, Call, Goto, monVars, condVars, ControlMove, PcInv, PcOK,
       ParkedPC, FatPC, MutexPC, TypeOK
  <2>2. QED
    BY <2>1, ControlStep
<1>31. ASSUME PollClear(t) PROVE Goal
  <2>1. ControlMove(t)
    BY <1>31 DEF PollClear, Return, Goto, monVars, ControlMove, PcInv, PcOK,
       ParkedPC, FatPC, MutexPC, TypeOK
  <2>2. QED
    BY <2>1, ControlStep
<1>32. PcInv
  OBVIOUS
<1>33. QED
  BY <1>1, <1>2, <1>3, <1>4, <1>5, <1>6, <1>7, <1>8, <1>9, <1>10, <1>11, <1>12,
     <1>13, <1>14, <1>15, <1>16, <1>17, <1>18, <1>19, <1>20, <1>21, <1>22, <1>23,
     <1>24, <1>25, <1>26, <1>27, <1>28, <1>29, <1>30, <1>31, <1>32, ObjInCall DEF
     Step, Start, LockStep, WaitStep, NotifyStep, UnlockObject, RecurseThin,
     CasLock, SpinCas, InflateMonitor, RecurseFat, AcquireMonLock, SetOwner,
     UnlockMonLock, WaitPark, WaitRelease, Relock, WaitDone

\* The VM starts in the invariant,
LEMMA InitInv == ASSUME Init PROVE IndInv
<1> USE NoThreadAssumption, NoObjectAssumption, CountMaskAssumption, ChoicesAssumption
<1>1. TypeOK
  BY WordTypes, PCsMembers DEF Init, TypeOK, Exceptions
<1>2. WordInv /\ CountInv
  BY DEF Init, WordInv, WordOK, CountInv, CountOK, FatWord, Unowned, Thin
<1>3. PcInv
  BY DEF Init, PcInv, PcOK, FatPC, MutexPC, ParkedPC
<1>4. DepthInv
  BY DEF Init, DepthInv, DepthOK, lockOwner, Depth, FatWord, Unowned, Thin, ParkedPC
<1>5. QED
  BY <1>1, <1>2, <1>3, <1>4 DEF IndInv

\* and no step leaves it.
LEMMA NextInv == ASSUME IndInv, [Next]_vars PROVE IndInv'
<1>1. ASSUME NEW t \in Threads, Step(t) \/ Start(t) \/ ThreadInterrupt(t) PROVE IndInv'
  BY <1>1, TypeStep, InvStep DEF IndInv
<1>2. CASE UNCHANGED vars
  BY <1>2 DEF vars, IndInv, TypeOK, WordInv, WordOK, PcInv, PcOK, CountInv, CountOK,
     DepthInv, DepthOK, OwnsThin, lockOwner, Depth
<1>3. QED
  BY <1>1, <1>2 DEF Next

\* The inductive invariant of Sync.cpp's lock words, monitors and calls.
THEOREM Invariance == Spec => []IndInv
<1>1. QED
  BY InitInv, NextInv, PTL DEF Spec

\* Every reachable state is well typed; for the lock word this says that the
\* recursion count never overflows its field, whatever LW_LOCK_COUNT_MASK is.
THEOREM TypeCorrect == Spec => []TypeOK
<1>1. IndInv => TypeOK
  BY DEF IndInv
<1>2. QED
  BY <1>1, Invariance, PTL

\* A thread inside an object is the owner its lock word or Monitor names, at the
\* depth that is counted there: dvmUnlockObject never refuses it.
THEOREM DepthIsPreserved == Spec => []DepthPreserved
<1>1. ASSUME IndInv PROVE DepthPreserved
  <2>1. SUFFICES ASSUME NEW o \in Objects, NEW t \in Threads, Inside(t, o)
                 PROVE  lockOwner(o) = t /\ held[t][o] = Depth(o) + 1
    BY DEF DepthPreserved
  <2>2. DepthOK(t, o) /\ held[t][o] > 0
    BY <1>1, <2>1 DEF IndInv, DepthInv, Inside
  <2>3. lockOwner(o) = t
    BY <2>1, <2>2 DEF Inside, DepthOK
  <2>4. QED
    BY <2>2, <2>3 DEF DepthOK
<1>2. QED
  BY <1>1, Invariance, PTL

\* Mutual exclusion of the regions dvmLockObject and dvmUnlockObject enclose, for
\* any number of threads and objects, thin, fat, and while a lock is inflated.
THEOREM Exclusion == Spec => []MutualExclusion
<1>1. DepthPreserved => MutualExclusion
  BY DEF DepthPreserved, MutualExclusion
<1>2. QED
  BY <1>1, DepthIsPreserved, PTL

\* Whoever takes a Monitor's mutex finds it without owner and depth: the assertion
\* mon->lockCount == 0 of lockMonitor cannot fail.
THEOREM FreeIsClear == Spec => []FreeMeansClear
<1>1. ASSUME IndInv PROVE FreeMeansClear
  <2>1. SUFFICES ASSUME NEW o \in Objects,
                        \/ monLock[o] = NoThread
                        \/ \E t \in Threads : pc[t] = "own" /\ obj[t] = o
                 PROVE  owner[o] = NoThread /\ lockCount[o] = 0
    BY DEF FreeMeansClear
  <2>2. WordOK(o)
    BY <1>1 DEF IndInv, WordInv
  <2>3. owner[o] = NoThread
    BY <1>1, <2>1, <2>2 DEF IndInv, WordOK, PcInv, PcOK, MutexPC
  <2>4. QED
    BY <2>2, <2>3 DEF WordOK
<1>2. QED
  BY <1>1, Invariance, PTL

-----------------------------------------------------------------------------
(* Lists without repetition.                                               *)

In(s, u)     == \E i \in 1 .. Len(s) : s[i] = u
NoRepeats(s) == \A i, j \in 1 .. Len(s) : s[i] = s[j] => i = j

\* waitSetAppend: the thread is in the list, once if it was not in it before.
LEMMA AppendMembers ==
  ASSUME NEW s \in Seq(Threads), NEW t \in Threads
  PROVE  /\ \A u : In(Append(s, t), u) <=> In(s, u) \/ u = t
         /\ NoRepeats(s) /\ ~In(s, t) => NoRepeats(Append(s, t))
<1> DEFINE r == Append(s, t)
<1>1. /\ Len(r) = Len(s) + 1 /\ Len(s) \in Nat
      /\ \A i \in 1 .. Len(s) : r[i] = s[i]
      /\ r[Len(s) + 1] = t
  BY AppendProperties
<1> HIDE DEF r
<1>2. \A u : In(r, u) <=> In(s, u) \/ u = t
  BY <1>1 DEF In
<1>3. NoRepeats(s) /\ ~In(s, t) => NoRepeats(r)
  BY <1>1 DEF In, NoRepeats
<1>4. QED
  BY <1>2, <1>3 DEF r

\* What notify takes from the front of the list is the only thing that leaves it.
LEMMA TailMembers ==
  ASSUME NEW s \in Seq(Threads), s # <<>>
  PROVE  /\ Head(s) \in Threads /\ In(s, Head(s))
         /\ \A u : In(Tail(s), u) => In(s, u)
         /\ \A u : In(s, u) /\ u # Head(s) => In(Tail(s), u)
         /\ NoRepeats(s) => NoRepeats(Tail(s))
<1> DEFINE r == Tail(s)
           h == Head(s)
<1>1. /\ Len(r) = Len(s) - 1 /\ Len(s) \in Nat \ {0}
      /\ \A i \in 1 .. Len(r) : r[i] = s[i + 1]
      /\ h = s[1] /\ h \in Threads
  BY HeadTailProperties, EmptySeq
<1> HIDE DEF r, h
<1>2. In(s, h)
  BY <1>1 DEF In
<1>3. \A u : In(r, u) => In(s, u)
  BY <1>1 DEF In
<1>4. ASSUME NEW u, In(s, u), u # h PROVE In(r, u)
  <2>1. PICK i \in 1 .. Len(s) : s[i] = u
    BY <1>4 DEF In
  <2>2. i # 1
    BY <1>1, <1>4, <2>1
  <2>3. i - 1 \in 1 .. Len(r) /\ r[i - 1] = u
    <3>1. i - 1 \in 1 .. Len(r)
      BY <1>1, <2>2
    <3>2. r[i - 1] = s[(i - 1) + 1] /\ (i - 1) + 1 = i
      BY <1>1, <3>1
    <3>3. QED
      BY <2>1, <3>1, <3>2
  <2>4. QED
    BY <2>3 DEF In
<1>5. NoRepeats(s) => NoRepeats(r)
  <2>1. SUFFICES ASSUME NoRepeats(s), NEW i \in 1 .. Len(r), NEW j \in 1 .. Len(r), r[i] = r[j]
                 PROVE  i = j
    BY DEF NoRepeats
  <2>2. i + 1 \in 1 .. Len(s) /\ j + 1 \in 1 .. Len(s) /\ s[i + 1] = s[j + 1]
    BY <1>1, <2>1
  <2>3. i + 1 = j + 1
    BY <2>1, <2>2 DEF NoRepeats
  <2>4. QED
    BY <2>3
<1>6. QED
  BY <1>1, <1>2, <1>3, <1>4, <1>5 DEF r, h

\* waitSetRemove takes the thread out of a list that has it at most once, and
\* nothing else, wherever in the list the thread is.
LEMMA RemoveMembers ==
  ASSUME NEW s \in Seq(Threads), NEW t, NoRepeats(s)
  PROVE  /\ \A u : In(waitSetRemove(s, t), u) <=> In(s, u) /\ u # t
         /\ NoRepeats(waitSetRemove(s, t))
<1>1. CASE ~In(s, t)
  <2>1. waitSetRemove(s, t) = s
    BY <1>1 DEF waitSetRemove, In
  <2>2. QED
    BY <1>1, <2>1
<1>2. CASE In(s, t)
  <2> DEFINE k == CHOOSE i \in 1 .. Len(s) :
                    s[i] = t /\ \A j \in 1 .. (i - 1) : s[j] # t
             a == SubSeq(s, 1, k - 1)
             b == SubSeq(s, k + 1, Len(s))
             r == a \o b
  <2>1. waitSetRemove(s, t) = r
    BY <1>2 DEF waitSetRemove, In
  <2>2. Len(s) \in Nat /\ \A i \in 1 .. Len(s) : s[i] \in Threads
    BY LenProperties, ElementOfSeq
  <2>3. k \in 1 .. Len(s) /\ s[k] = t
    <3>1. \E i \in 1 .. Len(s) : s[i] = t /\ \A j \in 1 .. (i - 1) : s[j] # t
      BY <1>2, <2>2, FirstOccurrence DEF In
    <3>2. QED
      BY <3>1
  <2> HIDE DEF k
  <2>4. k \in Nat /\ k - 1 \in Int /\ k + 1 \in Int /\ Len(s) \in Int
    BY <2>2, <2>3
  <2>5. /\ a \in Seq(Threads) /\ Len(a) = k - 1
        /\ \A i \in 1 .. (k - 1) : a[i] = s[i]
    <3>1. \A i \in 1 .. (k - 1) : s[i] \in Threads
      BY <2>2, <2>3
    <3>2. /\ a \in Seq(Threads)
          /\ Len(a) = IF 1 <= k - 1 THEN (k - 1) - 1 + 1 ELSE 0
          /\ \A i \in 1 .. (k - 1) - 1 + 1 : a[i] = s[1 + i - 1]
      BY <2>4, <3>1, SubSeqProperties
    <3>3. Len(a) = k - 1 /\ (k - 1) - 1 + 1 = k - 1
      BY <2>3, <2>4, <3>2
    <3>4. \A i \in 1 .. (k - 1) : a[i] = s[i]
      <4>1. \A i \in 1 .. (k - 1) : 1 + i - 1 = i
        BY <2>4
      <4> HIDE DEF a
      <4>2. QED
        BY <3>2, <3>3, <4>1
    <3>5. QED
      BY <3>2, <3>3, <3>4
  <2>6. /\ b \in Seq(Threads) /\ Len(b) = Len(s) - k
        /\ \A i \in 1 .. (Len(s) - k) : b[i] = s[k + i]
    <3>1. \A i \in (k + 1) .. Len(s) : s[i] \in Threads
      BY <2>2, <2>3
    <3>2. /\ b \in Seq(Threads)
          /\ Len(b) = IF k + 1 <= Len(s) THEN Len(s) - (k + 1) + 1 ELSE 0
          /\ \A i \in 1 .. Len(s) - (k + 1) + 1 : b[i] = s[(k + 1) + i - 1]
      BY <2>4, <3>1, SubSeqProperties
    <3>3. Len(b) = Len(s) - k /\ Len(s) - (k + 1) + 1 = Len(s) - k
      BY <2>2, <2>3, <2>4, <3>2
    <3>4. \A i \in 1 .. (Len(s) - k) : b[i] = s[k + i]
      <4>1. \A i \in 1 .. (Len(s) - k) : (k + 1) + i - 1 = k + i
        BY <2>4
      <4> HIDE DEF b
      <4>2. QED
        BY <3>2, <3>3, <4>1
    <3>5. QED
      BY <3>2, <3>3, <3>4
  <2> HIDE DEF a, b
  <2>7. /\ Len(r) = Len(s) - 1
        /\ \A i \in 1 .. (Len(s) - 1) : r[i] = IF i < k THEN s[i] ELSE s[i + 1]
    <3>1. /\ Len(r) = Len(a) + Len(b)
          /\ \A i \in 1 .. (Len(a) + Len(b)) :
               r[i] = IF i <= Len(a) THEN a[i] ELSE b[i - Len(a)]
      BY <2>5, <2>6, ConcatProperties
    <3>2. Len(a) + Len(b) = Len(s) - 1
      BY <2>2, <2>3, <2>4, <2>5, <2>6
    <3> HIDE DEF r
    <3>3. ASSUME NEW i \in 1 .. (Len(s) - 1)
          PROVE  r[i] = IF i < k THEN s[i] ELSE s[i + 1]
      <4>1. r[i] = IF i <= k - 1 THEN a[i] ELSE b[i - (k - 1)]
        BY <2>5, <3>1, <3>2
      <4>2. CASE i < k
        <5>1. i <= k - 1 /\ i \in 1 .. (k - 1)
          BY <2>4, <4>2
        <5>2. QED
          BY <2>5, <4>1, <4>2, <5>1
      <4>3. CASE ~(i < k)
        <5>1. ~(i <= k - 1) /\ i - (k - 1) \in 1 .. (Len(s) - k) /\ k + (i - (k - 1)) = i + 1
          BY <2>2, <2>4, <4>3
        <5>2. QED
          BY <2>6, <4>1, <4>3, <5>1
      <4>4. QED
        BY <4>2, <4>3
    <3>4. QED
      BY <3>1, <3>2, <3>3
  <2> HIDE DEF r
  <2>8. ASSUME NEW u, In(r, u) PROVE In(s, u) /\ u # t
    <3>1. PICK i \in 1 .. (Len(s) - 1) : r[i] = u
      BY <2>7, <2>8 DEF In
    <3>2. \E j \in 1 .. Len(s) : s[j] = u /\ j # k
      <4>1. CASE i < k
        <5>1. i \in 1 .. Len(s) /\ i # k /\ s[i] = u
          BY <2>2, <2>4, <2>7, <3>1, <4>1
        <5>2. QED
          BY <5>1
      <4>2. CASE ~(i < k)
        <5>1. i + 1 \in 1 .. Len(s) /\ i + 1 # k /\ s[i + 1] = u
          BY <2>2, <2>4, <2>7, <3>1, <4>2
        <5>2. QED
          BY <5>1
      <4>3. QED
        BY <4>1, <4>2
    <3>3. QED
      BY <2>3, <3>2 DEF In, NoRepeats
  <2>9. ASSUME NEW u, In(s, u), u # t PROVE In(r, u)
    <3>1. PICK i \in 1 .. Len(s) : s[i] = u
      BY <2>9 DEF In
    <3>2. i # k
      BY <2>3, <2>9, <3>1
    <3>3. CASE i < k
      <4>1. i \in 1 .. (Len(s) - 1) /\ r[i] = u
        <5>1. i \in 1 .. (Len(s) - 1)
          BY <2>2, <2>3, <2>4, <3>3
        <5>2. QED
          BY <2>7, <3>1, <3>3, <5>1
      <4>2. QED
        BY <2>7, <4>1 DEF In
    <3>4. CASE ~(i < k)
      <4>1. i - 1 \in 1 .. (Len(s) - 1) /\ ~(i - 1 < k) /\ (i - 1) + 1 = i
        BY <2>2, <2>3, <2>4, <3>2, <3>4
      <4>2. r[i - 1] = u
        BY <2>7, <3>1, <4>1
      <4>3. QED
        BY <2>7, <4>1, <4>2 DEF In
    <3>5. QED
      BY <3>3, <3>4
  <2>10. NoRepeats(r)
    <3>1. SUFFICES ASSUME NEW i \in 1 .. (Len(s) - 1), NEW j \in 1 .. (Len(s) - 1), r[i] = r[j]
                   PROVE  i = j
      BY <2>7 DEF NoRepeats
    <3> DEFINE at(n) == IF n < k THEN n ELSE n + 1
    <3>2. /\ at(i) \in 1 .. Len(s) /\ at(j) \in 1 .. Len(s)
          /\ r[i] = s[at(i)] /\ r[j] = s[at(j)]
      BY <2>2, <2>4, <2>7
    <3>3. at(i) = at(j)
      <4> HIDE DEF at
      <4>1. QED
        BY <3>1, <3>2 DEF NoRepeats
    <3>4. QED
      BY <2>2, <2>4, <3>3
  <2>11. QED
    BY <2>1, <2>8, <2>9, <2>10
<1>3. QED
  BY <1>1, <1>2

-----------------------------------------------------------------------------
(* The inductive invariant.                                                *)

SignalPC == {"signal", "signalAll"}

\* waitMonitor is set, and waitMutex held, from WaitEnter to the sleep; a signal is
\* only kept for a sleeper, which no interrupt overtakes; whether an interrupt was
\* seen is known between the sleep and the end of the wait.
CondOK(t) ==
  /\ waitMonitor[t] =
       IF pc[t] \in {"waitrelease", "condwait", "waiting"} THEN obj[t] ELSE NoObject
  /\ waitMutex[t] = IF pc[t] \in {"waitrelease", "condwait"} THEN t ELSE NoThread
  /\ signalled[t] => pc[t] = "waiting"
  /\ interrupted[t] => ~Asleep(t)
  /\ sawInterrupt[t] => pc[t] \in {"relock", "waitdone", "waitreturn", "poll"}

CondInv == \A t \in Threads : CondOK(t)

\* A wait set has its waiters once, and a thread joins it before it can sleep.
ListOK(o) ==
  /\ NoRepeats(waitSet[o])
  /\ \A u \in Threads : In(waitSet[o], u) => pc[u] \in ParkedPC /\ obj[u] = o

ListInv == \A o \in Objects : ListOK(o)
JoinInv == \A t \in Threads : pc[t] = "waitmutex" => In(waitSet[obj[t]], t)

\* A notifier owns the monitor, so the peer it has chosen is still in its wait.
PeerOK(t) ==
  pc[t] \in SignalPC => /\ peer[t] \in Threads
                        /\ owner[obj[t]] = t
                        /\ pc[peer[t]] \in ParkedPC
                        /\ obj[peer[t]] = obj[t]

PeerInv == \A t \in Threads : PeerOK(t)

\* A sleeper without a signal is listed or chosen.
WakeOK(u) ==
  Asleep(u) =>
    \/ In(waitSet[obj[u]], u)
    \/ \E t \in Threads : pc[t] \in SignalPC /\ peer[t] = u

WakeInv == \A u \in Threads : WakeOK(u)

WaitInv == CondInv /\ ListInv /\ JoinInv /\ PeerInv /\ WakeInv

\* An object whose lock has an owner is not about to change hands: of the control
\* points at which a thread sets Monitor.owner, only the owner's are left.
LEMMA OwnedStays ==
  ASSUME IndInv, NEW o \in Objects, owner[o] \in Threads
  PROVE  /\ lock[o].fat
         /\ monLock[o] = owner[o]
         /\ \A t \in Threads : obj[t] = o => pc[t] \notin MutexPC
         /\ \A t \in Threads : obj[t] = o => pc[t] \notin {"inflate", "waitinflate"}
<1> USE NoThreadAssumption DEF IndInv
<1>1. WordOK(o) /\ \A t \in Threads : PcOK(t)
  BY DEF WordInv, PcInv
<1>2. lock[o].fat /\ monLock[o] = owner[o]
  BY <1>1 DEF WordOK
<1>3. \A t \in Threads : obj[t] = o => pc[t] \notin MutexPC
  BY <1>1 DEF PcOK
<1>4. \A t \in Threads : obj[t] = o => pc[t] \notin {"inflate", "waitinflate"}
  BY <1>1, <1>2 DEF PcOK, OwnsThin
<1>5. QED
  BY <1>2, <1>3, <1>4

\* The wait set of a thin lock is empty, so inflateMonitor forgets nobody.
LEMMA ThinListEmpty ==
  ASSUME IndInv, ListInv, NEW o \in Objects, ~lock[o].fat
  PROVE  waitSet[o] = <<>>
<1>1. waitSet[o] \in Seq(Threads)
  BY DEF IndInv, TypeOK
<1>2. SUFFICES ASSUME waitSet[o] # <<>> PROVE FALSE
  OBVIOUS
<1>3. Head(waitSet[o]) \in Threads /\ In(waitSet[o], Head(waitSet[o]))
  BY <1>1, <1>2, TailMembers
<1>4. pc[Head(waitSet[o])] \in ParkedPC /\ obj[Head(waitSet[o])] = o
  BY <1>3 DEF ListInv, ListOK
<1>5. PcOK(Head(waitSet[o]))
  BY <1>3 DEF IndInv, PcInv
<1>6. QED
  BY <1>4, <1>5 DEF PcOK, FatPC

-----------------------------------------------------------------------------
(* Steps outside the wait and the signal.                                  *)

\* What the steps of dvmLockObject and dvmUnlockObject, the refused calls and the
\* beginnings of the others have in common.
OutsidePC == PCs \ (ParkedPC \cup SignalPC \cup {"waitreturn", "poll"})

Outside(t) ==
  /\ UNCHANGED <<waitMonitor, waitMutex, signalled, interrupted, sawInterrupt,
                 waitSet, peer, timed>>
  /\ \A u \in Threads \ {t} : pc'[u] = pc[u] /\ obj'[u] = obj[u]
  /\ pc[t] \in OutsidePC /\ pc'[t] \in OutsidePC
  /\ \A o \in Objects : owner[o] \in Threads /\ owner[o] # t => owner'[o] = owner[o]

\* They leave the waiters and the notifiers of every object alone.
LEMMA OutsideStep ==
  ASSUME IndInv, WaitInv, NEW t \in Threads, Outside(t)
  PROVE  WaitInv'
<1> USE DEF WaitInv, Outside, OutsidePC
<1>0. pc \in [Threads -> PCs] /\ \A u \in Threads : pc[u] \in SignalPC => obj[u] \in Objects
  BY ObjInCall DEF IndInv, TypeOK, SignalPC
<1>1. CondInv'
  <2>1. SUFFICES ASSUME NEW u \in Threads PROVE CondOK(u)'
    BY DEF CondInv
  <2>2. CondOK(u)
    BY DEF CondInv
  <2>3. QED
    BY <2>2 DEF CondOK, Asleep, ParkedPC
<1>2. ListInv'
  BY DEF ListInv, ListOK
<1>3. JoinInv'
  BY DEF JoinInv, ParkedPC
<1>4. PeerInv'
  <2>1. SUFFICES ASSUME NEW u \in Threads, pc'[u] \in SignalPC PROVE PeerOK(u)'
    BY DEF PeerInv, PeerOK
  <2>2. u # t /\ pc[u] \in SignalPC /\ PeerOK(u) /\ obj[u] \in Objects
    BY <1>0, <2>1 DEF PeerInv
  <2>3. owner'[obj[u]] = u
    BY <2>2 DEF PeerOK
  <2>4. peer[u] # t
    BY <2>2 DEF PeerOK
  <2>5. QED
    BY <2>2, <2>3, <2>4 DEF PeerOK
<1>5. WakeInv'
  <2>1. SUFFICES ASSUME NEW u \in Threads, Asleep(u)' PROVE WakeOK(u)'
    BY DEF WakeInv, WakeOK
  <2>2. u # t /\ Asleep(u) /\ WakeOK(u)
    BY <2>1 DEF WakeInv, Asleep, ParkedPC
  <2>3. QED
    BY <2>2 DEF WakeOK
<1>6. QED
  BY <1>1, <1>2, <1>3, <1>4, <1>5

\* The control points of such steps, spelled out.
LEMMA OutsideMembers ==
  /\ {"idle", "lock", "cas", "spin", "spincas", "inflate", "lockmon", "own"} \subseteq OutsidePC
  /\ {"unlockmutex", "waitinflate", "waitmon", "notify", "notifyAll"} \subseteq OutsidePC
  BY PCsMembers DEF OutsidePC, ParkedPC, SignalPC

\* The actions that are such steps.
OutsideAction(t) ==
  \/ RecurseThin(t) \/ ReadLockWord(t) \/ CasLock(t) \/ SpinRead(t) \/ SpinCas(t)
  \/ InflateMonitor(t) \/ RecurseFat(t) \/ AcquireMonLock(t) \/ SetOwner(t)
  \/ UnlockMonLock(t) \/ WaitRefused(t) \/ NotifyEnd(t)
  \/ \E o \in Objects : \/ LockObject(t, o) \/ UnlockObject(t, o)
                        \/ ObjectWait(t, o) \/ ObjectNotify(t, o)

LEMMA OutsideActions ==
  ASSUME IndInv, ListInv, NEW t \in Threads, OutsideAction(t)
  PROVE  Outside(t)
<1> USE OutsideMembers, NoThreadAssumption DEF Outside, monVars, condVars, waitVars, Goto,
    Return, Call, Refuse
<1>0. /\ pc \in [Threads -> PCs] /\ obj \in [Threads -> Objects \cup {NoObject}]
      /\ owner \in [Objects -> Threads \cup {NoThread}]
      /\ waitSet \in [Objects -> Seq(Threads)]
  BY DEF IndInv, TypeOK
<1>1. CASE RecurseThin(t)
  BY <1>0, <1>1 DEF RecurseThin
<1>2. CASE ReadLockWord(t)
  BY <1>0, <1>2 DEF ReadLockWord
<1>3. CASE CasLock(t)
  BY <1>0, <1>3 DEF CasLock
<1>4. CASE SpinRead(t)
  BY <1>0, <1>4 DEF SpinRead
<1>5. CASE SpinCas(t)
  BY <1>0, <1>5 DEF SpinCas
<1>6. CASE RecurseFat(t)
  BY <1>0, <1>6 DEF RecurseFat
<1>7. CASE AcquireMonLock(t)
  BY <1>0, <1>7 DEF AcquireMonLock
<1>8. CASE UnlockMonLock(t)
  BY <1>0, <1>8 DEF UnlockMonLock
<1>9. CASE WaitRefused(t)
  BY <1>0, <1>9 DEF WaitRefused
<1>10. CASE NotifyEnd(t)
  BY <1>0, <1>10 DEF NotifyEnd
<1>11. CASE InflateMonitor(t)
  <2>1. obj[t] \in Objects /\ OwnsThin(t, obj[t])
    BY <1>11, ObjInCall DEF InflateMonitor, IndInv, PcInv, PcOK
  <2>2. waitSet[obj[t]] = <<>> /\ owner[obj[t]] \notin Threads
    BY <2>1, ThinListEmpty, OwnedStays DEF OwnsThin
  <2>3. waitSet' = waitSet
    BY <1>0, <1>11, <2>2 DEF InflateMonitor
  <2>4. \A o \in Objects : owner[o] \in Threads => owner'[o] = owner[o]
    BY <1>0, <1>11, <2>2 DEF InflateMonitor
  <2>5. QED
    BY <1>0, <1>11, <2>3, <2>4 DEF InflateMonitor
<1>12. CASE SetOwner(t)
  <2>1. owner[obj[t]] = NoThread
    BY <1>12 DEF SetOwner, IndInv, PcInv, PcOK, MutexPC
  <2>2. \A o \in Objects : owner[o] \in Threads => owner'[o] = owner[o]
    BY <1>0, <1>12, <2>1 DEF SetOwner
  <2>3. QED
    BY <1>0, <1>12, <2>2 DEF SetOwner
<1>13. ASSUME NEW o \in Objects, LockObject(t, o) PROVE Outside(t)
  BY <1>0, <1>13 DEF LockObject
<1>14. ASSUME NEW o \in Objects, UnlockObject(t, o) PROVE Outside(t)
  BY <1>0, <1>14 DEF UnlockObject, UnlockThin, UnlockFat, UnlockUnowned
<1>15. ASSUME NEW o \in Objects, ObjectWait(t, o) PROVE Outside(t)
  BY <1>0, <1>15 DEF ObjectWait
<1>16. ASSUME NEW o \in Objects, ObjectNotify(t, o) PROVE Outside(t)
  BY <1>0, <1>16 DEF ObjectNotify
<1>17. QED
  BY <1>1, <1>2, <1>3, <1>4, <1>5, <1>6, <1>7, <1>8, <1>9, <1>10, <1>11, <1>12, <1>13, <1>14,
     <1>15, <1>16 DEF OutsideAction

-----------------------------------------------------------------------------
(* Steps of the wait and the signal.                                       *)

\* What WaitInv relies on in IndInv: the types, and that a call has an object.
WaitTypes ==
  /\ pc \in [Threads -> PCs] /\ obj \in [Threads -> Objects \cup {NoObject}]
  /\ owner \in [Objects -> Threads \cup {NoThread}]
  /\ waitSet \in [Objects -> Seq(Threads)]
  /\ waitMonitor \in [Threads -> Objects \cup {NoObject}]
  /\ waitMutex \in [Threads -> Threads \cup {NoThread}]
  /\ signalled \in [Threads -> BOOLEAN] /\ interrupted \in [Threads -> BOOLEAN]
  /\ sawInterrupt \in [Threads -> BOOLEAN] /\ peer \in [Threads -> Threads \cup {NoThread}]
  /\ timed \in [Threads -> BOOLEAN]
  /\ \A u \in Threads : pc[u] \notin {"idle", "poll"} => obj[u] \in Objects

\* A call has an object, and whoever has a Monitor's mutex without being its owner
\* finds that nobody else is.
LEMMA WaitFacts ==
  ASSUME IndInv
  PROVE  /\ WaitTypes
         /\ \A u \in Threads : pc[u] \in MutexPC => owner[obj[u]] = NoThread
  BY ObjInCall DEF IndInv, TypeOK, WaitTypes, PcInv, PcOK

\* WaitInv, clause by clause.
LEMMA WaitClauses ==
  ASSUME WaitInv
  PROVE  /\ \A u \in Threads : CondOK(u) /\ PeerOK(u) /\ WakeOK(u)
         /\ \A u \in Threads : pc[u] = "waitmutex" => In(waitSet[obj[u]], u)
         /\ \A o \in Objects : ListOK(o)
  BY DEF WaitInv, CondInv, PeerInv, WakeInv, JoinInv, ListInv

\* A step that moves only t, and not to or from a signal, and that leaves the
\* lists, the peers and the owners of the other notifiers' monitors alone.
LEMMA OthersWake ==
  ASSUME WaitInv, WaitTypes, NEW t \in Threads, NEW u \in Threads, Asleep(u), Asleep(u)',
         obj'[u] = obj[u],
         In(waitSet[obj[u]], u) => In(waitSet'[obj[u]], u),
         \A v \in Threads : pc[v] \in SignalPC => pc'[v] \in SignalPC /\ peer'[v] = peer[v]
  PROVE  WakeOK(u)'
<1>1. WakeOK(u)
  BY WaitClauses
<1>2. QED
  BY <1>1 DEF WakeOK

\* WaitPark puts the thread into the list before it gives the monitor up.
LEMMA ParkStep ==
  ASSUME IndInv, WaitInv, NEW t \in Threads, NEW o \in Objects, obj[t] = o, WaitPark(t)
  PROVE  WaitInv'
<1> DEFINE s == waitSet[o]
<1> USE NoThreadAssumption
<1>0. WaitTypes
  BY WaitFacts
<1>1. /\ pc[t] = "waitmon" /\ pc' = [pc EXCEPT ![t] = "waitmutex"] /\ owner[o] = t
      /\ owner' = [owner EXCEPT ![o] = NoThread]
      /\ waitSet' = [waitSet EXCEPT ![o] = Append(@, t)]
      /\ UNCHANGED <<waitMonitor, waitMutex, signalled, interrupted, sawInterrupt, obj, peer>>
  BY DEF WaitPark, Goto, condVars
<1>2. s \in Seq(Threads) /\ ListOK(o) /\ ~In(s, t)
  BY <1>0, <1>1, WaitClauses DEF WaitTypes, ListOK, ParkedPC
<1>3. waitSet'[o] = Append(s, t) /\ \A p \in Objects \ {o} : waitSet'[p] = waitSet[p]
  BY <1>0, <1>1 DEF WaitTypes
<1>4. /\ \A u : In(waitSet'[o], u) <=> In(s, u) \/ u = t
      /\ NoRepeats(waitSet'[o])
  <2>1. /\ \A u : In(Append(s, t), u) <=> In(s, u) \/ u = t
        /\ NoRepeats(Append(s, t))
    BY <1>2, AppendMembers DEF ListOK
  <2>2. QED
    BY <1>3, <2>1
<1>5. \A u \in Threads : \A p \in Objects : In(waitSet[p], u) => In(waitSet'[p], u)
  BY <1>3, <1>4
<1>6. pc'[t] = "waitmutex" /\ \A u \in Threads \ {t} : pc'[u] = pc[u]
  BY <1>0, <1>1 DEF WaitTypes
<1> HIDE DEF s
<1>7. ASSUME NEW u \in Threads PROVE CondOK(u)'
  BY <1>1, <1>6, WaitClauses DEF CondOK, Asleep
<1>8. ASSUME NEW p \in Objects PROVE ListOK(p)'
  <2>1. ListOK(p)
    BY WaitClauses
  <2>2. \A u \in Threads : pc[u] \in ParkedPC => pc'[u] \in ParkedPC
    BY <1>6 DEF ParkedPC
  <2>3. CASE p = o
    BY <1>1, <1>4, <1>6, <2>1, <2>2, <2>3 DEF ListOK, s, ParkedPC
  <2>4. CASE p # o
    BY <1>1, <1>3, <2>1, <2>2, <2>4 DEF ListOK
  <2>5. QED
    BY <2>3, <2>4
<1>9. JoinInv'
  <2>1. SUFFICES ASSUME NEW u \in Threads, pc'[u] = "waitmutex" PROVE In(waitSet'[obj'[u]], u)
    BY DEF JoinInv
  <2>2. CASE u = t
    BY <1>1, <1>4, <2>2
  <2>3. CASE u # t
    <3>1. pc[u] = "waitmutex" /\ In(waitSet[obj[u]], u) /\ obj[u] \in Objects
      BY <1>0, <1>6, <2>1, <2>3, WaitClauses DEF WaitTypes
    <3>2. QED
      BY <1>1, <1>5, <3>1
  <2>4. QED
    BY <2>2, <2>3
<1>10. ASSUME NEW u \in Threads PROVE PeerOK(u)'
  <2>1. SUFFICES ASSUME pc'[u] \in SignalPC PROVE PeerOK(u)'
    BY DEF PeerOK
  <2>2. u # t /\ pc[u] \in SignalPC /\ PeerOK(u) /\ obj[u] \in Objects
    BY <1>0, <1>6, <2>1, WaitClauses DEF SignalPC, WaitTypes
  <2>3. obj[u] # o /\ peer[u] # t
    BY <1>1, <2>2 DEF PeerOK
  <2>4. owner'[obj[u]] = u
    BY <1>0, <1>1, <2>2, <2>3 DEF PeerOK, WaitTypes
  <2>5. QED
    BY <1>1, <1>6, <2>2, <2>3, <2>4 DEF PeerOK
<1>11. ASSUME NEW u \in Threads PROVE WakeOK(u)'
  <2>1. SUFFICES ASSUME Asleep(u)' PROVE WakeOK(u)'
    BY DEF WakeOK
  <2>2. Asleep(u) /\ obj[u] \in Objects
    BY <1>0, <1>1, <1>6, <2>1 DEF Asleep, WaitTypes
  <2>3. \A v \in Threads : pc[v] \in SignalPC => pc'[v] \in SignalPC /\ peer'[v] = peer[v]
    BY <1>1, <1>6 DEF SignalPC
  <2>4. QED
    BY <1>0, <1>1, <1>5, <2>1, <2>2, <2>3, OthersWake
<1>12. QED
  BY <1>7, <1>8, <1>9, <1>10, <1>11 DEF WaitInv, CondInv, ListInv, PeerInv, WakeInv

\* WaitDone takes the thread, and only the thread, out of the list, whether a
\* notifier has done so before or not.
LEMMA DoneStep ==
  ASSUME IndInv, WaitInv, NEW t \in Threads, NEW o \in Objects, obj[t] = o, WaitDone(t)
  PROVE  WaitInv'
<1> DEFINE s == waitSet[o]
<1> USE NoThreadAssumption
<1>0. WaitTypes /\ owner[o] = NoThread
  BY WaitFacts DEF WaitDone, MutexPC
<1>1. /\ pc[t] = "waitdone" /\ pc' = [pc EXCEPT ![t] = "waitreturn"]
      /\ owner' = [owner EXCEPT ![o] = t]
      /\ waitSet' = [waitSet EXCEPT ![o] = waitSetRemove(@, t)]
      /\ UNCHANGED <<waitMonitor, waitMutex, signalled, interrupted, sawInterrupt, obj, peer>>
  BY DEF WaitDone, Goto, condVars, waitVars
<1>2. s \in Seq(Threads) /\ ListOK(o)
  BY <1>0, WaitClauses DEF WaitTypes
<1>3. waitSet'[o] = waitSetRemove(s, t) /\ \A p \in Objects \ {o} : waitSet'[p] = waitSet[p]
  BY <1>0, <1>1 DEF WaitTypes
<1>4. /\ \A u : In(waitSet'[o], u) <=> In(s, u) /\ u # t
      /\ NoRepeats(waitSet'[o])
  <2>1. /\ \A u : In(waitSetRemove(s, t), u) <=> In(s, u) /\ u # t
        /\ NoRepeats(waitSetRemove(s, t))
    BY <1>2, RemoveMembers DEF ListOK
  <2>2. QED
    BY <1>3, <2>1
<1>5. \A u \in Threads \ {t} : \A p \in Objects : In(waitSet[p], u) <=> In(waitSet'[p], u)
  BY <1>3, <1>4
<1>6. pc'[t] = "waitreturn" /\ \A u \in Threads \ {t} : pc'[u] = pc[u]
  BY <1>0, <1>1 DEF WaitTypes
<1> HIDE DEF s
<1>7. ASSUME NEW u \in Threads PROVE CondOK(u)'
  BY <1>1, <1>6, WaitClauses DEF CondOK, Asleep
<1>8. ASSUME NEW p \in Objects PROVE ListOK(p)'
  <2>1. ListOK(p)
    BY WaitClauses
  <2>2. CASE p = o
    BY <1>1, <1>4, <1>6, <2>1, <2>2 DEF ListOK, s
  <2>3. CASE p # o
    <3>1. ~In(waitSet'[p], t)
      BY <1>3, <2>1, <2>3 DEF ListOK
    <3>2. QED
      BY <1>1, <1>3, <1>6, <2>1, <2>3, <3>1 DEF ListOK
  <2>4. QED
    BY <2>2, <2>3
<1>9. JoinInv'
  <2>1. SUFFICES ASSUME NEW u \in Threads, pc'[u] = "waitmutex" PROVE In(waitSet'[obj'[u]], u)
    BY DEF JoinInv
  <2>2. u # t /\ pc[u] = "waitmutex" /\ In(waitSet[obj[u]], u) /\ obj[u] \in Objects
    BY <1>0, <1>6, <2>1, WaitClauses DEF WaitTypes
  <2>3. QED
    BY <1>1, <1>5, <2>2
<1>10. ASSUME NEW u \in Threads PROVE PeerOK(u)'
  <2>1. SUFFICES ASSUME pc'[u] \in SignalPC PROVE PeerOK(u)'
    BY DEF PeerOK
  <2>2. u # t /\ pc[u] \in SignalPC /\ PeerOK(u) /\ obj[u] \in Objects
    BY <1>0, <1>6, <2>1, WaitClauses DEF SignalPC, WaitTypes
  <2>3. obj[u] # o
    BY <1>0, <2>2 DEF PeerOK
  <2>4. peer[u] # t
    BY <2>2, <2>3 DEF PeerOK
  <2>5. owner'[obj[u]] = u
    BY <1>0, <1>1, <2>2, <2>3 DEF PeerOK, WaitTypes
  <2>6. QED
    BY <1>1, <1>6, <2>2, <2>4, <2>5 DEF PeerOK
<1>11. ASSUME NEW u \in Threads PROVE WakeOK(u)'
  <2>1. SUFFICES ASSUME Asleep(u)' PROVE WakeOK(u)'
    BY DEF WakeOK
  <2>2. u # t /\ Asleep(u) /\ obj[u] \in Objects
    BY <1>0, <1>1, <1>6, <2>1 DEF Asleep, WaitTypes
  <2>3. \A v \in Threads : pc[v] \in SignalPC => pc'[v] \in SignalPC /\ peer'[v] = peer[v]
    BY <1>1, <1>6 DEF SignalPC
  <2>4. QED
    BY <1>0, <1>1, <1>5, <2>1, <2>2, <2>3, OthersWake
<1>12. QED
  BY <1>7, <1>8, <1>9, <1>10, <1>11 DEF WaitInv, CondInv, ListInv, PeerInv, WakeInv

\* NotifyPop takes a thread from the list into its own hands, and what it takes is
\* past its WaitEnter: who has just joined still has the mutex the notifier owns.
LEMMA PopStep ==
  ASSUME IndInv, WaitInv, NEW t \in Threads, NEW o \in Objects, obj[t] = o,
         NEW h, h = Head(waitSet[o]), NotifyPop(t)
  PROVE  WaitInv'
<1> DEFINE s == waitSet[o]
<1> USE NoThreadAssumption
<1>0. WaitTypes /\ \A u \in Threads : pc[u] \in MutexPC => owner[obj[u]] = NoThread
  BY WaitFacts
<1>1. /\ pc[t] \in {"notify", "notifyAll"} /\ owner[o] = t /\ s # <<>>
      /\ pc' = [pc EXCEPT ![t] = IF pc[t] = "notify" THEN "signal" ELSE "signalAll"]
      /\ peer' = [peer EXCEPT ![t] = h]
      /\ waitSet' = [waitSet EXCEPT ![o] = Tail(@)]
      /\ UNCHANGED <<waitMonitor, waitMutex, signalled, interrupted, sawInterrupt, obj, owner>>
  BY DEF NotifyPop, Goto, condVars, waitVars
<1>2. s \in Seq(Threads) /\ ListOK(o)
  BY <1>0, WaitClauses DEF WaitTypes
<1>3. waitSet'[o] = Tail(s) /\ \A p \in Objects \ {o} : waitSet'[p] = waitSet[p]
  BY <1>0, <1>1 DEF WaitTypes
<1>4. /\ h \in Threads /\ In(s, h)
      /\ \A u : In(waitSet'[o], u) => In(s, u)
      /\ \A u : In(s, u) /\ u # h => In(waitSet'[o], u)
      /\ NoRepeats(waitSet'[o])
  <2>1. /\ h \in Threads /\ In(s, h)
        /\ \A u : In(Tail(s), u) => In(s, u)
        /\ \A u : In(s, u) /\ u # h => In(Tail(s), u)
        /\ NoRepeats(Tail(s))
    BY <1>1, <1>2, TailMembers DEF ListOK
  <2>2. QED
    BY <1>3, <2>1
<1>5. \A u \in Threads \ {h} : \A p \in Objects : In(waitSet[p], u) => In(waitSet'[p], u)
  BY <1>3, <1>4
<1>6. pc'[t] \in SignalPC /\ \A u \in Threads \ {t} : pc'[u] = pc[u]
  BY <1>0, <1>1 DEF WaitTypes, SignalPC
<1>7. pc[h] \in ParkedPC /\ obj[h] = o /\ h # t /\ pc[h] # "waitmutex"
  <2>1. pc[h] \in ParkedPC /\ obj[h] = o
    BY <1>2, <1>4 DEF ListOK
  <2>2. pc[h] \notin MutexPC
    BY <1>0, <1>1, <1>4, <2>1
  <2>3. QED
    BY <1>1, <2>1, <2>2 DEF MutexPC, ParkedPC
<1>8. peer'[t] = h /\ \A u \in Threads \ {t} : peer'[u] = peer[u]
  BY <1>0, <1>1 DEF WaitTypes
<1> HIDE DEF s
<1>9. ASSUME NEW u \in Threads PROVE CondOK(u)'
  BY <1>1, <1>6, WaitClauses DEF CondOK, Asleep, SignalPC
<1>10. ASSUME NEW p \in Objects PROVE ListOK(p)'
  <2>1. ListOK(p)
    BY WaitClauses
  <2>2. \A u \in Threads : pc[u] \in ParkedPC => pc'[u] = pc[u]
    BY <1>1, <1>6 DEF ParkedPC
  <2>3. CASE p = o
    BY <1>1, <1>4, <2>1, <2>2, <2>3 DEF ListOK, s
  <2>4. CASE p # o
    BY <1>1, <1>3, <2>1, <2>2, <2>4 DEF ListOK
  <2>5. QED
    BY <2>3, <2>4
<1>11. JoinInv'
  <2>1. SUFFICES ASSUME NEW u \in Threads, pc'[u] = "waitmutex" PROVE In(waitSet'[obj'[u]], u)
    BY DEF JoinInv
  <2>2. u # t /\ pc[u] = "waitmutex" /\ In(waitSet[obj[u]], u) /\ obj[u] \in Objects
    BY <1>0, <1>6, <2>1, WaitClauses DEF WaitTypes, SignalPC
  <2>3. QED
    BY <1>1, <1>5, <1>7, <2>2
<1>12. ASSUME NEW u \in Threads PROVE PeerOK(u)'
  <2>1. CASE u = t
    BY <1>1, <1>4, <1>6, <1>7, <1>8, <2>1 DEF PeerOK
  <2>2. CASE u # t
    <3>1. PeerOK(u)
      BY WaitClauses
    <3>2. \A v \in Threads : pc[v] \in ParkedPC => pc'[v] = pc[v]
      BY <1>1, <1>6 DEF ParkedPC
    <3>3. QED
      BY <1>1, <1>6, <1>8, <2>2, <3>1, <3>2 DEF PeerOK
  <2>3. QED
    BY <2>1, <2>2
<1>13. ASSUME NEW u \in Threads PROVE WakeOK(u)'
  <2>1. CASE u = h
    BY <1>6, <1>8, <2>1 DEF WakeOK
  <2>2. CASE u # h
    <3>1. SUFFICES ASSUME Asleep(u)' PROVE WakeOK(u)'
      BY DEF WakeOK
    <3>2. Asleep(u) /\ obj[u] \in Objects
      BY <1>0, <1>1, <1>6, <3>1 DEF Asleep, WaitTypes, SignalPC
    <3>3. \A v \in Threads : pc[v] \in SignalPC => pc'[v] \in SignalPC /\ peer'[v] = peer[v]
      BY <1>1, <1>6, <1>8 DEF SignalPC
    <3>4. QED
      BY <1>0, <1>1, <1>5, <2>2, <3>1, <3>2, <3>3, OthersWake
  <2>3. QED
    BY <2>1, <2>2
<1>14. QED
  BY <1>9, <1>10, <1>11, <1>12, <1>13 DEF WaitInv, CondInv, ListInv, PeerInv, WakeInv

\* NotifySignal reaches its peer in its sleep or past it, since the mutex of the
\* peer is free.
LEMMA SignalStep ==
  ASSUME IndInv, WaitInv, NEW t \in Threads, NEW w, w = peer[t], NotifySignal(t)
  PROVE  WaitInv'
<1> USE NoThreadAssumption, NoObjectAssumption
<1>0. WaitTypes
  BY WaitFacts
<1>1. /\ pc[t] \in SignalPC /\ waitMutex[w] = NoThread
      /\ pc' = [pc EXCEPT ![t] = pc'[t]] /\ pc'[t] \in {"idle", "notify", "notifyAll"}
      /\ peer' = [peer EXCEPT ![t] = NoThread]
      /\ \A u \in Threads \ {t} : obj'[u] = obj[u]
      /\ UNCHANGED <<waitSet, owner, waitMonitor, waitMutex, interrupted, sawInterrupt>>
  <2>1. /\ pc[t] \in SignalPC /\ waitMutex[w] = NoThread
        /\ peer' = [peer EXCEPT ![t] = NoThread]
        /\ UNCHANGED <<waitSet, owner, waitMonitor, waitMutex, interrupted, sawInterrupt>>
    BY DEF NotifySignal, monVars, waitVars, SignalPC
  <2>2. /\ \/ pc' = [pc EXCEPT ![t] = "idle"]
           \/ pc' = [pc EXCEPT ![t] = "notify"]
           \/ pc' = [pc EXCEPT ![t] = "notifyAll"]
        /\ obj' = obj \/ obj' = [obj EXCEPT ![t] = NoObject]
    BY DEF NotifySignal, Goto, Return
  <2>3. pc' = [pc EXCEPT ![t] = pc'[t]] /\ pc'[t] \in {"idle", "notify", "notifyAll"}
    BY <1>0, <2>2 DEF WaitTypes
  <2>4. \A u \in Threads \ {t} : obj'[u] = obj[u]
    BY <1>0, <2>2 DEF WaitTypes
  <2>5. QED
    BY <2>1, <2>3, <2>4
<1>2. \A u \in Threads \ {t} : pc'[u] = pc[u] /\ peer'[u] = peer[u]
  BY <1>0, <1>1 DEF WaitTypes
<1>3. w \in Threads /\ pc[w] \in ParkedPC /\ w # t
  BY <1>1, WaitClauses DEF PeerOK, ParkedPC, SignalPC
<1>4. /\ \A u \in Threads \ {w} : signalled'[u] = signalled[u]
      /\ signalled'[w] <=> signalled[w] \/ (waitMonitor[w] # NoObject /\ pc[w] = "waiting")
  BY <1>0, <1>3 DEF NotifySignal, CondSignal, WaitTypes
<1>5. ~Asleep(w)' /\ (signalled'[w] => pc[w] = "waiting")
  <2>1. CondOK(w) /\ obj[w] \in Objects
    BY <1>0, <1>3, WaitClauses DEF WaitTypes, ParkedPC
  <2>2. pc[w] \notin {"waitrelease", "condwait"}
    BY <1>1, <1>3, <2>1 DEF CondOK
  <2>3. pc[w] = "waiting" => signalled'[w]
    BY <1>4, <2>1 DEF CondOK
  <2>4. pc'[w] = pc[w]
    BY <1>2, <1>3
  <2>5. ~Asleep(w)'
    BY <2>2, <2>3, <2>4 DEF Asleep
  <2>6. QED
    BY <1>4, <2>1, <2>5 DEF CondOK
<1>6. ASSUME NEW u \in Threads PROVE CondOK(u)'
  <2>1. CondOK(u)
    BY WaitClauses
  <2>2. CASE u = w
    BY <1>1, <1>2, <1>3, <1>5, <2>1, <2>2 DEF CondOK
  <2>3. CASE u # w /\ u # t
    BY <1>1, <1>2, <1>4, <2>1, <2>3 DEF CondOK, Asleep
  <2>4. CASE u = t
    BY <1>1, <1>3, <1>4, <2>1, <2>4 DEF CondOK, Asleep, SignalPC
  <2>5. QED
    BY <2>2, <2>3, <2>4
<1>7. ASSUME NEW p \in Objects PROVE ListOK(p)'
  <2>1. ListOK(p) /\ pc[t] \notin ParkedPC
    BY <1>1, WaitClauses DEF SignalPC, ParkedPC
  <2>2. QED
    BY <1>1, <1>2, <2>1 DEF ListOK
<1>8. JoinInv'
  BY <1>1, <1>2, WaitClauses DEF JoinInv
<1>9. ASSUME NEW u \in Threads PROVE PeerOK(u)'
  <2>1. SUFFICES ASSUME pc'[u] \in SignalPC PROVE PeerOK(u)'
    BY DEF PeerOK
  <2>2. u # t /\ pc[u] \in SignalPC /\ PeerOK(u)
    BY <1>1, <1>2, <2>1, WaitClauses DEF SignalPC
  <2>3. peer[u] # t
    BY <1>1, <2>2 DEF PeerOK, SignalPC, ParkedPC
  <2>4. QED
    BY <1>1, <1>2, <2>2, <2>3 DEF PeerOK
<1>10. ASSUME NEW u \in Threads PROVE WakeOK(u)'
  <2>1. SUFFICES ASSUME Asleep(u)' PROVE WakeOK(u)'
    BY DEF WakeOK
  <2>2. u # w
    BY <1>5, <2>1
  <2>3. u # t /\ Asleep(u)
    BY <1>1, <1>2, <1>4, <2>1, <2>2 DEF Asleep
  <2>4. WakeOK(u)
    BY WaitClauses
  <2>5. QED
    BY <1>1, <1>2, <2>2, <2>3, <2>4 DEF WakeOK
<1>11. QED
  BY <1>6, <1>7, <1>8, <1>9, <1>10 DEF WaitInv, CondInv, ListInv, PeerInv, WakeInv

\* dvmThreadInterrupt finds the thread in its sleep, and signals, or awake, and then
\* the thread looks at the flag before it sleeps.
LEMMA InterruptStepInv ==
  ASSUME IndInv, WaitInv, NEW t \in Threads, ThreadInterrupt(t)
  PROVE  WaitInv'
<1> USE NoThreadAssumption, NoObjectAssumption
<1>0. WaitTypes
  BY WaitFacts
<1>1. /\ waitMutex[t] = NoThread
      /\ interrupted' = [interrupted EXCEPT ![t] = TRUE]
      /\ UNCHANGED <<waitSet, owner, waitMonitor, waitMutex, sawInterrupt, pc, obj, peer>>
  BY DEF ThreadInterrupt, monVars, waitVars
<1>2. /\ \A u \in Threads \ {t} : signalled'[u] = signalled[u]
      /\ signalled'[t] <=> signalled[t] \/ (waitMonitor[t] # NoObject /\ pc[t] = "waiting")
  <2>1. CASE waitMonitor[t] # NoObject
    <3>1. signalled' = [signalled EXCEPT ![t] = @ \/ pc[t] = "waiting"]
      BY <2>1 DEF ThreadInterrupt, CondSignal
    <3>2. QED
      BY <1>0, <2>1, <3>1 DEF WaitTypes
  <2>2. CASE waitMonitor[t] = NoObject
    BY <2>2 DEF ThreadInterrupt
  <2>3. QED
    BY <2>1, <2>2
<1>3. ~Asleep(t)' /\ (signalled'[t] => pc[t] = "waiting")
  <2>1. CondOK(t)
    BY WaitClauses
  <2>2. pc[t] \notin {"waitrelease", "condwait"}
    BY <1>1, <2>1 DEF CondOK
  <2>3. pc[t] = "waiting" => signalled'[t]
    BY <1>0, <1>2, <2>1 DEF CondOK, WaitTypes
  <2>4. ~Asleep(t)'
    BY <1>1, <2>2, <2>3 DEF Asleep
  <2>5. QED
    BY <1>2, <2>1, <2>4 DEF CondOK
<1>4. ASSUME NEW u \in Threads PROVE CondOK(u)'
  <2>1. CondOK(u)
    BY WaitClauses
  <2>2. CASE u = t
    BY <1>1, <1>3, <2>1, <2>2 DEF CondOK
  <2>3. CASE u # t
    BY <1>0, <1>1, <1>2, <2>1, <2>3 DEF CondOK, Asleep, WaitTypes
  <2>4. QED
    BY <2>2, <2>3
<1>5. ListInv' /\ JoinInv' /\ PeerInv'
  BY <1>1, WaitClauses DEF ListInv, ListOK, JoinInv, PeerInv, PeerOK
<1>6. ASSUME NEW u \in Threads PROVE WakeOK(u)'
  <2>1. WakeOK(u) /\ (Asleep(u)' => Asleep(u))
    BY <1>1, <1>2, <1>3, WaitClauses DEF Asleep
  <2>2. QED
    BY <1>1, <2>1 DEF WakeOK
<1>7. QED
  BY <1>4, <1>5, <1>6 DEF WaitInv, CondInv, WakeInv

\* The control points of a wait that t goes through on its own do not concern
\* anybody's list or peer.
LEMMA OwnStep ==
  ASSUME IndInv, WaitInv, NEW t \in Threads,
         \/ WaitEnter(t) \/ WaitRelease(t) \/ CondWait(t) \/ CondReturn(t) \/ Relock(t)
         \/ WaitReturn(t) \/ PollRead(t) \/ PollClear(t)
  PROVE  WaitInv'
<1> USE NoThreadAssumption, NoObjectAssumption DEF monVars, condVars, waitVars, Goto,
    Return, Call, SignalPC, ParkedPC, WaitInv, CondInv, ListInv, JoinInv, PeerInv, WakeInv,
    CondOK, ListOK, PeerOK, WakeOK, Asleep, WaitTypes
<1>0. WaitTypes
  BY WaitFacts
<1>1. CASE WaitEnter(t)
  <2>1. CondInv'
    BY <1>0, <1>1 DEF WaitEnter, MutexPC
  <2>2. ListInv'
    BY <1>0, <1>1 DEF WaitEnter, MutexPC
  <2>3. JoinInv'
    BY <1>0, <1>1 DEF WaitEnter, MutexPC
  <2>4. PeerInv'
    <3>1. /\ UNCHANGED <<owner, obj, peer>>
          /\ \A u \in Threads : pc'[u] \in SignalPC => pc[u] \in SignalPC
          /\ \A u \in Threads : pc[u] \in ParkedPC => pc'[u] \in ParkedPC
      BY <1>0, <1>1 DEF WaitEnter
    <3>2. QED
      BY <3>1 DEF PeerInv, PeerOK
  <2>5. WakeInv'
    BY <1>0, <1>1 DEF WaitEnter, MutexPC
  <2>6. QED
    BY <2>1, <2>2, <2>3, <2>4, <2>5
<1>2. CASE WaitRelease(t)
  <2>1. CondInv'
    BY <1>0, <1>2 DEF WaitRelease
  <2>2. ListInv'
    BY <1>0, <1>2 DEF WaitRelease
  <2>3. JoinInv'
    BY <1>0, <1>2 DEF WaitRelease
  <2>4. PeerInv'
    BY <1>0, <1>2 DEF WaitRelease
  <2>5. WakeInv'
    <3>1. SUFFICES ASSUME NEW u \in Threads, Asleep(u)' PROVE WakeOK(u)'
      BY DEF WakeInv, WakeOK
    <3>2. Asleep(u) /\ obj'[u] = obj[u]
      BY <1>0, <1>2, <3>1 DEF WaitRelease
    <3>3. /\ UNCHANGED <<waitSet, peer>>
          /\ \A v \in Threads : pc[v] \in SignalPC => pc'[v] = pc[v]
      BY <1>0, <1>2 DEF WaitRelease
    <3>4. WakeOK(u)
      BY DEF WakeInv
    <3>5. QED
      BY <3>2, <3>3, <3>4 DEF WakeOK
  <2>6. QED
    BY <2>1, <2>2, <2>3, <2>4, <2>5
<1>3. CASE CondWait(t)
  <2>1. CondInv'
    BY <1>0, <1>3 DEF CondWait
  <2>2. ListInv'
    BY <1>0, <1>3 DEF CondWait
  <2>3. JoinInv'
    BY <1>0, <1>3 DEF CondWait
  <2>4. PeerInv'
    BY <1>0, <1>3 DEF CondWait
  <2>5. WakeInv'
    <3>1. SUFFICES ASSUME NEW u \in Threads, Asleep(u)' PROVE WakeOK(u)'
      BY DEF WakeInv, WakeOK
    <3>2. Asleep(u) /\ obj'[u] = obj[u]
      BY <1>0, <1>3, <3>1 DEF CondWait
    <3>3. /\ UNCHANGED <<waitSet, peer>>
          /\ \A v \in Threads : pc[v] \in SignalPC => pc'[v] = pc[v]
      BY <1>0, <1>3 DEF CondWait
    <3>4. WakeOK(u)
      BY DEF WakeInv
    <3>5. QED
      BY <3>2, <3>3, <3>4 DEF WakeOK
  <2>6. QED
    BY <2>1, <2>2, <2>3, <2>4, <2>5
<1>4. CASE CondReturn(t)
  <2>1. CondInv'
    BY <1>0, <1>4 DEF CondReturn
  <2>2. ListInv'
    BY <1>0, <1>4 DEF CondReturn
  <2>3. JoinInv'
    BY <1>0, <1>4 DEF CondReturn
  <2>4. PeerInv'
    BY <1>0, <1>4 DEF CondReturn
  <2>5. WakeInv'
    <3>1. SUFFICES ASSUME NEW u \in Threads, Asleep(u)' PROVE WakeOK(u)'
      BY DEF WakeInv, WakeOK
    <3>2. Asleep(u) /\ obj'[u] = obj[u]
      BY <1>0, <1>4, <3>1 DEF CondReturn
    <3>3. /\ UNCHANGED <<waitSet, peer>>
          /\ \A v \in Threads : pc[v] \in SignalPC => pc'[v] = pc[v]
      BY <1>0, <1>4 DEF CondReturn
    <3>4. WakeOK(u)
      BY DEF WakeInv
    <3>5. QED
      BY <3>2, <3>3, <3>4 DEF WakeOK
  <2>6. QED
    BY <2>1, <2>2, <2>3, <2>4, <2>5
<1>5. CASE Relock(t)
  <2>1. CondInv'
    BY <1>0, <1>5 DEF Relock
  <2>2. ListInv'
    BY <1>0, <1>5 DEF Relock
  <2>3. JoinInv'
    BY <1>0, <1>5 DEF Relock
  <2>4. PeerInv'
    BY <1>0, <1>5 DEF Relock
  <2>5. WakeInv'
    <3>1. SUFFICES ASSUME NEW u \in Threads, Asleep(u)' PROVE WakeOK(u)'
      BY DEF WakeInv, WakeOK
    <3>2. Asleep(u) /\ obj'[u] = obj[u]
      BY <1>0, <1>5, <3>1 DEF Relock
    <3>3. /\ UNCHANGED <<waitSet, peer>>
          /\ \A v \in Threads : pc[v] \in SignalPC => pc'[v] = pc[v]
      BY <1>0, <1>5 DEF Relock
    <3>4. WakeOK(u)
      BY DEF WakeInv
    <3>5. QED
      BY <3>2, <3>3, <3>4 DEF WakeOK
  <2>6. QED
    BY <2>1, <2>2, <2>3, <2>4, <2>5
<1>6. CASE WaitReturn(t)
  <2>1. CondInv'
    BY <1>0, <1>6 DEF WaitReturn
  <2>2. ListInv'
    BY <1>0, <1>6 DEF WaitReturn
  <2>3. JoinInv'
    BY <1>0, <1>6 DEF WaitReturn
  <2>4. PeerInv'
    BY <1>0, <1>6 DEF WaitReturn
  <2>5. WakeInv'
    <3>1. SUFFICES ASSUME NEW u \in Threads, Asleep(u)' PROVE WakeOK(u)'
      BY DEF WakeInv, WakeOK
    <3>2. Asleep(u) /\ obj'[u] = obj[u]
      BY <1>0, <1>6, <3>1 DEF WaitReturn
    <3>3. /\ UNCHANGED <<waitSet, peer>>
          /\ \A v \in Threads : pc[v] \in SignalPC => pc'[v] = pc[v]
      BY <1>0, <1>6 DEF WaitReturn
    <3>4. WakeOK(u)
      BY DEF WakeInv
    <3>5. QED
      BY <3>2, <3>3, <3>4 DEF WakeOK
  <2>6. QED
    BY <2>1, <2>2, <2>3, <2>4, <2>5
<1>7. CASE PollRead(t)
  <2>1. CondInv'
    BY <1>0, <1>7 DEF PollRead
  <2>2. ListInv'
    BY <1>0, <1>7 DEF PollRead
  <2>3. JoinInv'
    BY <1>0, <1>7 DEF PollRead
  <2>4. PeerInv'
    BY <1>0, <1>7 DEF PollRead
  <2>5. WakeInv'
    <3>1. SUFFICES ASSUME NEW u \in Threads, Asleep(u)' PROVE WakeOK(u)'
      BY DEF WakeInv, WakeOK
    <3>2. Asleep(u) /\ obj'[u] = obj[u]
      BY <1>0, <1>7, <3>1 DEF PollRead
    <3>3. /\ UNCHANGED <<waitSet, peer>>
          /\ \A v \in Threads : pc[v] \in SignalPC => pc'[v] = pc[v]
      BY <1>0, <1>7 DEF PollRead
    <3>4. WakeOK(u)
      BY DEF WakeInv
    <3>5. QED
      BY <3>2, <3>3, <3>4 DEF WakeOK
  <2>6. QED
    BY <2>1, <2>2, <2>3, <2>4, <2>5
<1>8. CASE PollClear(t)
  <2>1. CondInv'
    BY <1>0, <1>8 DEF PollClear
  <2>2. ListInv'
    BY <1>0, <1>8 DEF PollClear
  <2>3. JoinInv'
    BY <1>0, <1>8 DEF PollClear
  <2>4. PeerInv'
    BY <1>0, <1>8 DEF PollClear
  <2>5. WakeInv'
    <3>1. SUFFICES ASSUME NEW u \in Threads, Asleep(u)' PROVE WakeOK(u)'
      BY DEF WakeInv, WakeOK
    <3>2. Asleep(u) /\ obj'[u] = obj[u]
      BY <1>0, <1>8, <3>1 DEF PollClear
    <3>3. /\ UNCHANGED <<waitSet, peer>>
          /\ \A v \in Threads : pc[v] \in SignalPC => pc'[v] = pc[v]
      BY <1>0, <1>8 DEF PollClear
    <3>4. WakeOK(u)
      BY DEF WakeInv
    <3>5. QED
      BY <3>2, <3>3, <3>4 DEF WakeOK
  <2>6. QED
    BY <2>1, <2>2, <2>3, <2>4, <2>5
<1>9. QED
  BY <1>1, <1>2, <1>3, <1>4, <1>5, <1>6, <1>7, <1>8

\* No step disturbs the waiters, the notifiers or the interrupts.
LEMMA WaitStepInv ==
  ASSUME IndInv, WaitInv, NEW t \in Threads, Step(t) \/ Start(t) \/ ThreadInterrupt(t)
  PROVE  WaitInv'
<1>1. CASE OutsideAction(t)
  BY <1>1, OutsideActions, OutsideStep DEF WaitInv
<1>2. CASE WaitPark(t) \/ WaitDone(t) \/ NotifyPop(t)
  <2>1. obj[t] \in Objects
    BY <1>2, WaitFacts DEF WaitTypes, WaitPark, WaitDone, NotifyPop
  <2>2. QED
    BY <1>2, <2>1, ParkStep, DoneStep, PopStep
<1>3. CASE NotifySignal(t)
  BY <1>3, SignalStep
<1>4. CASE ThreadInterrupt(t)
  BY <1>4, InterruptStepInv
<1>5. CASE \/ WaitEnter(t) \/ WaitRelease(t) \/ CondWait(t) \/ CondReturn(t) \/ Relock(t)
           \/ WaitReturn(t) \/ PollRead(t) \/ PollClear(t)
  BY <1>5, OwnStep
<1>6. QED
  BY <1>1, <1>2, <1>3, <1>4, <1>5 DEF Step, Start, LockStep, WaitStep, NotifyStep, OutsideAction

\* The VM starts with nobody waiting.
LEMMA WaitInit == ASSUME Init PROVE WaitInv
<1> USE DEF Init, WaitInv
<1>1. CondInv /\ PeerInv /\ JoinInv /\ WakeInv
  BY DEF CondInv, CondOK, PeerInv, PeerOK, JoinInv, WakeInv, WakeOK, Asleep, SignalPC
<1>2. ASSUME NEW o \in Objects PROVE ListOK(o)
  <2>1. Len(waitSet[o]) = 0
    BY EmptySeq
  <2>2. QED
    BY <2>1 DEF ListOK, NoRepeats, In
<1>3. QED
  BY <1>1, <1>2 DEF ListInv

LEMMA WaitNext == ASSUME IndInv, WaitInv, [Next]_vars PROVE WaitInv'
<1>1. ASSUME NEW t \in Threads, Step(t) \/ Start(t) \/ ThreadInterrupt(t) PROVE WaitInv'
  BY <1>1, WaitStepInv
<1>2. CASE UNCHANGED vars
  BY <1>2 DEF vars, WaitInv, CondInv, CondOK, ListInv, ListOK, JoinInv, PeerInv, PeerOK,
     WakeInv, WakeOK, Asleep
<1>3. QED
  BY <1>1, <1>2 DEF Next

\* The inductive invariant of Object.wait, notify and interrupt.
THEOREM WaitInvariance == Spec => [](IndInv /\ WaitInv)
<1>1. Init => IndInv /\ WaitInv
  BY InitInv, WaitInit
<1>2. IndInv /\ WaitInv /\ [Next]_vars => (IndInv /\ WaitInv)'
  BY NextInv, WaitNext
<1>3. QED
  BY <1>1, <1>2, PTL DEF Spec

-----------------------------------------------------------------------------
(* What it is for.                                                         *)

\* A Monitor's wait set, a list through the one field waitNext of each thread, holds
\* threads that are in their wait on its object, each once, whatever waits, timeouts,
\* notifies and interrupts have come together.
THEOREM WaitSetsAreSound == Spec => []WaitSetIntegrity
<1>1. IndInv /\ WaitInv => WaitSetIntegrity
  <2>1. SUFFICES ASSUME IndInv, WaitInv, NEW o \in Objects
                 PROVE  /\ \A i \in 1 .. Len(waitSet[o]) :
                             pc[waitSet[o][i]] \in ParkedPC /\ obj[waitSet[o][i]] = o
                        /\ NoRepeats(waitSet[o])
    BY DEF WaitSetIntegrity, NoRepeats
  <2>2. ListOK(o) /\ waitSet[o] \in Seq(Threads)
    BY <2>1, WaitClauses, WaitFacts DEF WaitTypes
  <2>3. ASSUME NEW i \in 1 .. Len(waitSet[o])
        PROVE  pc[waitSet[o][i]] \in ParkedPC /\ obj[waitSet[o][i]] = o
    <3>1. waitSet[o][i] \in Threads /\ In(waitSet[o], waitSet[o][i])
      BY <2>2, ElementOfSeq DEF In
    <3>2. QED
      BY <2>2, <3>1 DEF ListOK
  <2>4. QED
    BY <2>2, <2>3 DEF ListOK
<1>2. QED
  BY <1>1, WaitInvariance, PTL

\* No wakeup is lost between the wait set and the signal: who sleeps unsignalled is
\* listed, or the notifier that took it from the list is about to signal it.
THEOREM NoLostWakeup == Spec => []SleeperCanBeWoken
<1>1. IndInv /\ WaitInv => SleeperCanBeWoken
  <2>1. SUFFICES ASSUME IndInv, WaitInv, NEW u \in Threads, Asleep(u), ~Listed(u, obj[u])
                 PROVE  \E t \in Threads : /\ pc[t] \in {"signal", "signalAll"}
                                           /\ peer[t] = u
                                           /\ obj[t] = obj[u]
    BY DEF SleeperCanBeWoken
  <2>2. WakeOK(u) /\ ~In(waitSet[obj[u]], u)
    BY <2>1, WaitClauses DEF Listed, In
  <2>3. PICK t \in Threads : pc[t] \in SignalPC /\ peer[t] = u
    BY <2>1, <2>2 DEF WakeOK
  <2>4. PeerOK(t)
    BY <2>1, WaitClauses
  <2>5. QED
    BY <2>3, <2>4 DEF PeerOK, SignalPC
<1>2. QED
  BY <1>1, WaitInvariance, PTL

\* Thread.interrupt never leaves its thread asleep in Object.wait, though the flag
\* and the signal are two accesses and the sleep comes after the test of the flag.
THEOREM InterruptsWake == Spec => []InterruptWakes
<1>1. WaitInv => InterruptWakes
  BY WaitClauses DEF InterruptWakes, CondOK
<1>2. QED
  BY <1>1, WaitInvariance, PTL

-----------------------------------------------------------------------------
(* Interrupts are reported.                                                *)

\* Thread.interrupted() is not used, and every wait may throw: where one is not so,
\* an interrupt can go unreported (java_lang_VMThread.cpp reads and clears the flag in
\* two steps, and waitMonitor drops an interrupt it must not throw).
ReportAssumption == ~PollsInterrupted /\ FALSE \notin ThrowChoices

\* A thread that has read its arguments in waitMonitor has found that it may throw.
ThrowOK(t) ==
  /\ pc[t] # "poll"
  /\ pc[t] \in ParkedPC \cup {"waitreturn"} => shouldThrow[t]

ThrowInv == \A t \in Threads : ThrowOK(t)

\* Only waitMonitor chooses what it is told, and keeps it to its end.
LEMMA ThrowStep ==
  ASSUME ReportAssumption, IndInv, WaitInv, ThrowInv,
         NEW t \in Threads, Step(t) \/ Start(t) \/ ThreadInterrupt(t)
  PROVE  ThrowInv'
<1>0. WaitTypes /\ shouldThrow \in [Threads -> BOOLEAN] /\ \A u \in Threads : ThrowOK(u)
  BY WaitFacts DEF ThrowInv, IndInv, TypeOK
<1>1. CASE OutsideAction(t)
  <2>1. Outside(t)
    BY <1>1, OutsideActions DEF WaitInv
  <2>2. shouldThrow' = shouldThrow
    BY <1>1 DEF OutsideAction, RecurseThin, ReadLockWord, CasLock, SpinRead, SpinCas,
       InflateMonitor, RecurseFat, AcquireMonLock, SetOwner, UnlockMonLock, WaitRefused,
       NotifyEnd, LockObject, UnlockObject, UnlockThin, UnlockFat, UnlockUnowned,
       ObjectWait, ObjectNotify, Refuse, waitVars
  <2>3. QED
    BY <1>0, <2>1, <2>2 DEF ThrowInv, ThrowOK, Outside, OutsidePC
<1>2. CASE WaitPark(t)
  <2>1. pc' = [pc EXCEPT ![t] = "waitmutex"] /\ shouldThrow' = [shouldThrow EXCEPT ![t] = TRUE]
    <3>1. PICK b \in ThrowChoices : shouldThrow' = [shouldThrow EXCEPT ![t] = b]
      BY <1>2 DEF WaitPark
    <3>2. b = TRUE
      BY <3>1, ChoicesAssumption DEF ReportAssumption
    <3>3. QED
      BY <1>2, <3>1, <3>2 DEF WaitPark, Goto
  <2>2. QED
    BY <1>0, <2>1 DEF ThrowInv, ThrowOK, WaitTypes
<1>3. CASE \/ WaitEnter(t) \/ WaitRelease(t) \/ CondWait(t) \/ CondReturn(t) \/ Relock(t)
           \/ WaitDone(t)
  <2>1. /\ pc[t] \in ParkedPC /\ shouldThrow' = shouldThrow
        /\ \E l \in ParkedPC \cup {"waitreturn"} : pc' = [pc EXCEPT ![t] = l]
    BY <1>3 DEF WaitEnter, WaitRelease, CondWait, CondReturn, Relock, WaitDone, Goto, waitVars,
       ParkedPC
  <2>2. QED
    BY <1>0, <2>1 DEF ThrowInv, ThrowOK, WaitTypes, ParkedPC
<1>4. CASE WaitReturn(t)
  <2>1. pc' = [pc EXCEPT ![t] = "idle"] /\ shouldThrow' = [shouldThrow EXCEPT ![t] = FALSE]
    BY <1>4 DEF WaitReturn, Return, Goto
  <2>2. QED
    BY <1>0, <2>1 DEF ThrowInv, ThrowOK, WaitTypes, ParkedPC
<1>5. CASE NotifyPop(t) \/ NotifySignal(t) \/ ThreadInterrupt(t)
  <2>1. /\ shouldThrow' = shouldThrow
        /\ \/ pc' = pc
           \/ \E l \in {"signal", "signalAll", "idle", "notify", "notifyAll"} :
                pc' = [pc EXCEPT ![t] = l]
    BY <1>5 DEF NotifyPop, NotifySignal, ThreadInterrupt, Goto, Return, waitVars
  <2>2. QED
    BY <1>0, <2>1 DEF ThrowInv, ThrowOK, WaitTypes, ParkedPC
<1>6. CASE PollRead(t) \/ PollClear(t)
  BY <1>0, <1>6 DEF PollRead, PollClear, ReportAssumption, ThrowOK
<1>7. QED
  BY <1>1, <1>2, <1>3, <1>4, <1>5, <1>6
     DEF Step, Start, LockStep, WaitStep, NotifyStep, OutsideAction

\* Of all steps only the end of a wait takes a pending interrupt away, and throws.
LEMMA ReportStep ==
  ASSUME IndInv, WaitInv, ThrowInv,
         NEW t \in Threads, Step(t) \/ Start(t) \/ ThreadInterrupt(t)
  PROVE  InterruptStep
<1>0. WaitTypes /\ CondOK(t) /\ ThrowOK(t) /\ exception \in [Threads -> Exceptions]
  BY WaitFacts, WaitClauses DEF ThrowInv, IndInv, TypeOK
<1>1. SUFFICES ASSUME NEW u \in Threads, PendingInterrupt(u), ~PendingInterrupt(u)'
               PROVE  exception'[u] = "Interrupted"
  BY DEF InterruptStep
<1>2. CASE UNCHANGED <<interrupted, sawInterrupt>>
  BY <1>1, <1>2 DEF PendingInterrupt
<1>3. CASE OutsideAction(t)
  BY <1>2, <1>3, OutsideActions DEF Outside, WaitInv
<1>4. CASE WaitPark(t) \/ WaitRelease(t) \/ CondWait(t) \/ Relock(t) \/ WaitDone(t)
           \/ NotifyPop(t) \/ NotifySignal(t)
  BY <1>2, <1>4 DEF WaitPark, WaitRelease, CondWait, Relock, WaitDone, NotifyPop, NotifySignal,
     condVars, waitVars
<1>5. CASE WaitEnter(t) \/ ThreadInterrupt(t)
  <2>1. /\ interrupted' = interrupted \/ interrupted' = [interrupted EXCEPT ![t] = TRUE]
        /\ sawInterrupt' = sawInterrupt \/ sawInterrupt' = [sawInterrupt EXCEPT ![t] = TRUE]
    BY <1>5 DEF WaitEnter, ThreadInterrupt, waitVars
  <2>2. QED
    BY <1>0, <1>1, <2>1 DEF PendingInterrupt, WaitTypes
<1>6. CASE CondReturn(t)
  <2>1. /\ pc[t] = "waiting"
        /\ sawInterrupt' = [sawInterrupt EXCEPT ![t] = interrupted[t]]
        /\ interrupted' = [interrupted EXCEPT ![t] = FALSE]
    BY <1>6 DEF CondReturn
  <2>2. QED
    BY <1>0, <1>1, <2>1 DEF PendingInterrupt, WaitTypes, CondOK
<1>7. CASE WaitReturn(t)
  <2>1. /\ pc[t] = "waitreturn"
        /\ interrupted' = [interrupted EXCEPT ![t] = @ /\ ~sawInterrupt[t]]
        /\ sawInterrupt' = [sawInterrupt EXCEPT ![t] = FALSE]
        /\ exception' = [exception EXCEPT ![t] =
                           IF sawInterrupt[t] /\ shouldThrow[t] THEN "Interrupted" ELSE "none"]
    BY <1>7 DEF WaitReturn, Return
  <2>2. u = t /\ sawInterrupt[t]
    BY <1>0, <1>1, <2>1 DEF PendingInterrupt, WaitTypes
  <2>3. shouldThrow[t]
    BY <1>0, <2>1 DEF ThrowOK
  <2>4. QED
    BY <1>0, <2>1, <2>2, <2>3
<1>8. CASE PollRead(t)
  <2>1. /\ pc[t] = "idle" /\ interrupted' = interrupted
        /\ sawInterrupt' = [sawInterrupt EXCEPT ![t] = interrupted[t]]
    BY <1>8 DEF PollRead, Call, condVars
  <2>2. QED
    BY <1>0, <1>1, <2>1 DEF PendingInterrupt, WaitTypes, CondOK
<1>9. CASE PollClear(t)
  BY <1>0, <1>9 DEF PollClear, ThrowOK
<1>10. QED
  BY <1>3, <1>4, <1>5, <1>6, <1>7, <1>8, <1>9
     DEF Step, Start, LockStep, WaitStep, NotifyStep, OutsideAction

\* An interrupt posted to a thread stays posted until Object.wait throws
\* InterruptedException for it, however it comes together with signals and timeouts.
THEOREM InterruptsAreReported == ASSUME ReportAssumption PROVE Spec => InterruptReported
<1>1. Init => ThrowInv
  BY DEF Init, ThrowInv, ThrowOK, ParkedPC
<1>2. IndInv /\ WaitInv /\ ThrowInv /\ [Next]_vars => ThrowInv'
  <2>1. CASE UNCHANGED vars
    BY <2>1 DEF vars, ThrowInv, ThrowOK
  <2>2. QED
    BY <2>1, ThrowStep DEF Next
<1>3. IndInv /\ WaitInv /\ ThrowInv /\ [Next]_vars => [InterruptStep]_vars
  BY ReportStep DEF Next
<1>4. QED
  BY <1>1, <1>2, <1>3, WaitInvariance, PTL DEF Spec, InterruptReported

-----------------------------------------------------------------------------
(* The monitor of AbstractMonitor.                                         *)

\* The refinement mapping, variable by variable.
ParkedOn == [t \in Threads |-> IF IsParked(t) THEN obj[t] ELSE NoObject]
Waking   == [t \in Threads |->
               IsParked(t) /\ (signalled[t] \/ pc[t] \in {"relock", "waitdone"})]
Limited  == [t \in Threads |-> IsParked(t) /\ timed[t]]
Pending  == [t \in Threads |-> PendingInterrupt(t)]

\* Inside and Empty of AbstractMonitor are what they are in ObjectLock.
LEMMA InsideMaps ==
  ASSUME NEW t \in Threads, NEW o \in Objects
  PROVE  Abstract!Inside(t, o) <=> Inside(t, o)
<1>1. (IF IsParked(t) THEN obj[t] ELSE NoObject) # o <=> ~(pc[t] \in ParkedPC /\ obj[t] = o)
  BY NoObjectAssumption DEF IsParked
<1>2. QED
  BY <1>1 DEF Abstract!Inside, Inside

LEMMA EmptyMaps ==
  ASSUME NEW o \in Objects
  PROVE  Abstract!Empty(o) <=> \A t \in Threads : ~Inside(t, o)
  BY InsideMaps DEF Abstract!Empty

\* The actions of AbstractMonitor, as changes of the mapped variables.
LEMMA MapEnter ==
  ASSUME NEW t \in Threads, NEW o \in Objects, ParkedOn[t] = NoObject,
         Inside(t, o) \/ \A u \in Threads : ~Inside(u, o),
         Acquired(t, o), UNCHANGED <<ParkedOn, Waking, Limited, Pending>>
  PROVE  Abstract!Next
<1>1. Abstract!Enter(t, o)
  BY InsideMaps, EmptyMaps DEF Abstract!Enter, Acquired, ParkedOn, Waking, Limited, Pending
<1>2. QED
  BY <1>1 DEF Abstract!Next

LEMMA MapExit ==
  ASSUME NEW t \in Threads, NEW o \in Objects, ParkedOn[t] = NoObject, Inside(t, o),
         Released(t, o), UNCHANGED <<ParkedOn, Waking, Limited, Pending>>
  PROVE  Abstract!Next
<1>1. Abstract!Exit(t, o)
  BY InsideMaps DEF Abstract!Exit, Released, ParkedOn, Waking, Limited, Pending
<1>2. QED
  BY <1>1 DEF Abstract!Next

LEMMA MapWait ==
  ASSUME NEW t \in Threads, NEW o \in Objects, ParkedOn[t] = NoObject, Inside(t, o),
         ParkedOn' = [ParkedOn EXCEPT ![t] = o],
         NEW b \in BOOLEAN, Limited' = [Limited EXCEPT ![t] = b],
         UNCHANGED <<held, Waking, Pending>>
  PROVE  Abstract!Next
<1>1. Abstract!Wait(t, o)
  BY InsideMaps DEF Abstract!Wait, ParkedOn, Waking, Limited, Pending
<1>2. QED
  BY <1>1 DEF Abstract!Next

\* A parked thread gets a reason to return.
Wakes(u) ==
  /\ ParkedOn[u] # NoObject
  /\ ~Waking[u]
  /\ Waking' = [Waking EXCEPT ![u] = TRUE]

LEMMA MapNotify ==
  ASSUME NEW t \in Threads, NEW u \in Threads, NEW o \in Objects, ParkedOn[u] = o, Inside(t, o),
         Wakes(u), UNCHANGED <<held, ParkedOn, Limited, Pending>>
  PROVE  Abstract!Next
<1>1. Abstract!Inside(t, ParkedOn[u])
  BY InsideMaps
<1>2. Abstract!WakeUp(u)
  BY DEF Abstract!WakeUp, Wakes, ParkedOn, Waking
<1>3. Abstract!Notify(t, u)
  BY <1>1, <1>2 DEF Abstract!Notify, ParkedOn, Limited, Pending
<1>4. QED
  BY <1>3 DEF Abstract!Next

LEMMA MapTimeOut ==
  ASSUME NEW t \in Threads, Limited[t] \/ SpuriousWakeups,
         Wakes(t), UNCHANGED <<held, ParkedOn, Limited, Pending>>
  PROVE  Abstract!Next
<1>1. Abstract!WakeUp(t)
  BY DEF Abstract!WakeUp, Wakes, ParkedOn, Waking
<1>2. Abstract!TimeOut(t)
  BY <1>1 DEF Abstract!TimeOut, ParkedOn, Limited, Pending
<1>3. QED
  BY <1>2 DEF Abstract!Next

LEMMA MapInterrupt ==
  ASSUME NEW t \in Threads, Pending' = [Pending EXCEPT ![t] = TRUE],
         Wakes(t) \/ UNCHANGED Waking, UNCHANGED <<held, ParkedOn, Limited>>
  PROVE  Abstract!Next
<1>1. Abstract!Interrupt(t)
  BY DEF Abstract!Interrupt, Abstract!WakeUp, Wakes, ParkedOn, Waking, Limited, Pending
<1>2. QED
  BY <1>1 DEF Abstract!Next

LEMMA MapNotice ==
  ASSUME NEW t \in Threads, Pending[t], Wakes(t),
         UNCHANGED <<held, ParkedOn, Limited, Pending>>
  PROVE  Abstract!Next
<1>1. Abstract!WakeUp(t)
  BY DEF Abstract!WakeUp, Wakes, ParkedOn, Waking
<1>2. Abstract!NoticeInterrupt(t)
  BY <1>1 DEF Abstract!NoticeInterrupt, ParkedOn, Limited, Pending
<1>3. QED
  BY <1>2 DEF Abstract!Next

LEMMA MapResume ==
  ASSUME NEW t \in Threads, NEW o \in Objects, ParkedOn[t] = o, Waking[t],
         \A u \in Threads : ~Inside(u, o),
         ParkedOn' = [ParkedOn EXCEPT ![t] = NoObject],
         Waking' = [Waking EXCEPT ![t] = FALSE],
         Limited' = [Limited EXCEPT ![t] = FALSE],
         UNCHANGED <<held, Pending>>
  PROVE  Abstract!Next
<1>1. Abstract!Empty(ParkedOn[t])
  BY EmptyMaps
<1>2. Abstract!Resume(t)
  BY <1>1 DEF Abstract!Resume, ParkedOn, Waking, Limited, Pending
<1>3. QED
  BY <1>2 DEF Abstract!Next

LEMMA MapReport ==
  ASSUME NEW t \in Threads, ParkedOn[t] = NoObject, Pending[t],
         Pending' = [Pending EXCEPT ![t] = FALSE],
         UNCHANGED <<held, ParkedOn, Waking, Limited>>
  PROVE  Abstract!Next
<1>1. Abstract!Report(t)
  BY DEF Abstract!Report, ParkedOn, Waking, Limited, Pending
<1>2. QED
  BY <1>1 DEF Abstract!Next

\* Everything else stutters.
LEMMA MapStutter ==
  ASSUME UNCHANGED <<held, ParkedOn, Waking, Limited, Pending>>
  PROVE  UNCHANGED Abstract!avars
  BY DEF Abstract!avars, ParkedOn, Waking, Limited, Pending

\* The VM starts as the abstract monitor does.
LEMMA MapInit == ASSUME Init PROVE Abstract!Init
<1>1. /\ ParkedOn = [t \in Threads |-> NoObject]
      /\ Waking = [t \in Threads |-> FALSE]
      /\ Limited = [t \in Threads |-> FALSE]
      /\ Pending = [t \in Threads |-> FALSE]
  BY DEF Init, ParkedOn, Waking, Limited, Pending, IsParked, ParkedPC, PendingInterrupt
<1>2. QED
  BY <1>1 DEF Abstract!Init, Init, ParkedOn, Waking, Limited, Pending

\* Outside the wait and the signal a step changes depth only, if anything.
LEMMA OutsideMaps ==
  ASSUME IndInv, NEW t \in Threads, Outside(t)
  PROVE  UNCHANGED <<ParkedOn, Waking, Limited, Pending>> /\ ParkedOn[t] = NoObject
<1> USE DEF Outside
<1>0. pc[t] \notin ParkedPC /\ pc'[t] \notin ParkedPC
  BY DEF OutsidePC
<1>1. \A u \in Threads : /\ IsParked(u)' <=> IsParked(u)
                         /\ IsParked(u) => pc'[u] = pc[u] /\ obj'[u] = obj[u]
  BY <1>0 DEF IsParked
<1>2. UNCHANGED ParkedOn /\ ParkedOn[t] = NoObject
  BY <1>0, <1>1 DEF ParkedOn, IsParked
<1>3. UNCHANGED Waking
  BY <1>1 DEF Waking
<1>4. UNCHANGED Limited
  BY <1>1 DEF Limited
<1>5. UNCHANGED Pending
  BY DEF Pending, PendingInterrupt
<1>6. QED
  BY <1>2, <1>3, <1>4, <1>5

\* Whoever enters an object that nobody else owns finds it empty or is inside.
LEMMA EnterMaps ==
  ASSUME IndInv, NEW t \in Threads, NEW o \in Objects, Outside(t), Acquired(t, o),
         lockOwner(o) \in {t, NoThread}
  PROVE  Abstract!Next
<1>1. \A u \in Threads : DepthOK(u, o) /\ Depth(o) \in Nat
  BY DEF IndInv, DepthInv, TypeOK, Depth, LockWord
<1>2. CASE lockOwner(o) = t
  <2>1. Inside(t, o)
    BY <1>1, <1>2 DEF DepthOK, Inside, Outside, OutsidePC
  <2>2. QED
    BY <2>1, OutsideMaps, MapEnter
<1>3. CASE lockOwner(o) = NoThread
  <2>1. ASSUME NEW u \in Threads PROVE ~Inside(u, o)
    <3>1. DepthOK(u, o) /\ lockOwner(o) # u
      BY <1>1, <1>3, NoThreadAssumption
    <3>2. QED
      BY <3>1 DEF DepthOK, Inside
  <2>2. QED
    BY <2>1, OutsideMaps, MapEnter
<1>4. QED
  BY <1>2, <1>3

\* Whoever leaves an object is inside.
LEMMA ExitMaps ==
  ASSUME IndInv, NEW t \in Threads, NEW o \in Objects, Outside(t), Released(t, o),
         lockOwner(o) = t
  PROVE  Abstract!Next
<1>1. DepthOK(t, o) /\ Depth(o) \in Nat
  BY DEF IndInv, DepthInv, TypeOK, Depth, LockWord
<1>2. Inside(t, o)
  BY <1>1 DEF DepthOK, Inside, Outside, OutsidePC
<1>3. QED
  BY <1>2, OutsideMaps, MapExit

\* Of the steps outside the wait and the signal, six enter or leave and the rest
\* do neither.
LEMMA OutsideRefines ==
  ASSUME IndInv, ListInv, NEW t \in Threads, OutsideAction(t)
  PROVE  Abstract!Next \/ UNCHANGED Abstract!avars
<1> USE NoThreadAssumption
<1>0. Outside(t)
  BY OutsideActions
<1>1. CASE UNCHANGED held
  BY <1>0, <1>1, OutsideMaps, MapStutter
<1>2. CASE RecurseThin(t) \/ CasLock(t) \/ SpinCas(t) \/ RecurseFat(t) \/ SetOwner(t)
  <2>1. obj[t] \in Objects
    BY <1>2, ObjInCall DEF IndInv, RecurseThin, CasLock, SpinCas, RecurseFat, SetOwner
  <2>2. WordOK(obj[t]) /\ PcOK(t)
    BY <2>1 DEF IndInv, WordInv, PcInv
  <2>3. UNCHANGED held \/ (Acquired(t, obj[t]) /\ lockOwner(obj[t]) \in {t, NoThread})
    BY <1>2, <2>2 DEF RecurseThin, CasLock, SpinCas, RecurseFat, SetOwner, lockOwner, OwnsThin,
       Unowned, Thin, PcOK, WordOK, MutexPC, FatPC
  <2>4. QED
    BY <1>0, <1>1, <2>1, <2>3, EnterMaps
<1>3. ASSUME NEW o \in Objects, UnlockThin(t, o) \/ UnlockFat(t, o)
      PROVE  Abstract!Next
  <2>1. Released(t, o) /\ lockOwner(o) = t
    BY <1>3 DEF UnlockThin, UnlockFat, lockOwner, OwnsThin
  <2>2. QED
    BY <1>0, <2>1, ExitMaps
<1>4. CASE \/ ReadLockWord(t) \/ SpinRead(t) \/ InflateMonitor(t) \/ AcquireMonLock(t)
           \/ UnlockMonLock(t) \/ WaitRefused(t) \/ NotifyEnd(t)
           \/ \E o \in Objects : \/ LockObject(t, o) \/ UnlockUnowned(t, o)
                                 \/ ObjectWait(t, o) \/ ObjectNotify(t, o)
  <2>1. UNCHANGED held
    BY <1>4 DEF ReadLockWord, SpinRead, InflateMonitor, AcquireMonLock, UnlockMonLock,
       WaitRefused, NotifyEnd, LockObject, UnlockUnowned, ObjectWait, ObjectNotify, Refuse
  <2>2. QED
    BY <1>1, <2>1
<1>5. QED
  BY <1>2, <1>3, <1>4 DEF OutsideAction, UnlockObject

\* A step from one control point of the wait to another.
ParkedMove(t) ==
  /\ UNCHANGED <<obj, timed, held>>
  /\ pc[t] \in ParkedPC /\ pc'[t] \in ParkedPC
  /\ \A u \in Threads \ {t} : pc'[u] = pc[u] /\ signalled'[u] = signalled[u]

WakesAt(t) == signalled[t] \/ pc[t] \in {"relock", "waitdone"}

\* What it can change of the abstract monitor is whether the thread is waking.
LEMMA ParkedMaps ==
  ASSUME NEW t \in Threads, obj[t] \in Objects, ParkedMove(t)
  PROVE  /\ UNCHANGED <<ParkedOn, Limited>>
         /\ ParkedOn[t] # NoObject
         /\ Waking[t] <=> WakesAt(t)
         /\ Limited[t] <=> timed[t]
         /\ (WakesAt(t)' <=> WakesAt(t)) => UNCHANGED Waking
         /\ WakesAt(t)' => Waking' = [Waking EXCEPT ![t] = TRUE]
<1> USE DEF ParkedMove, IsParked, WakesAt
<1>1. UNCHANGED ParkedOn /\ ParkedOn[t] # NoObject
  BY NoObjectAssumption DEF ParkedOn
<1>2. UNCHANGED Limited /\ (Limited[t] <=> timed[t])
  BY DEF Limited
<1>3. (WakesAt(t)' <=> WakesAt(t)) => UNCHANGED Waking
  BY DEF Waking
<1>4. WakesAt(t)' => Waking' = [Waking EXCEPT ![t] = TRUE]
  BY DEF Waking
<1>5. Waking[t] <=> WakesAt(t)
  BY DEF Waking
<1>6. QED
  BY <1>1, <1>2, <1>3, <1>4, <1>5

\* Only steps that touch the two flags change what is pending.
LEMMA PendingKept ==
  ASSUME \A u \in Threads : PendingInterrupt(u)' <=> PendingInterrupt(u)
  PROVE  UNCHANGED Pending
  BY DEF Pending, PendingInterrupt

\* A waiter's own steps: it leaves the monitor, notices why it returns, and comes
\* back to find the monitor empty.
LEMMA WaitRefines ==
  ASSUME IndInv, WaitInv, NEW t \in Threads, NEW o, o = obj[t],
         WaitStep(t)
  PROVE  Abstract!Next \/ UNCHANGED Abstract!avars
<1> USE NoThreadAssumption, NoObjectAssumption
<1>0. WaitTypes /\ CondOK(t) /\ \A u \in Threads : pc[u] \in MutexPC => owner[obj[u]] = NoThread
  BY WaitFacts, WaitClauses
<1>1. CASE WaitRefused(t)
  BY <1>1, OutsideRefines DEF OutsideAction, WaitInv
<1>2. CASE WaitPark(t)
  <2>1. /\ pc[t] = "waitmon" /\ pc' = [pc EXCEPT ![t] = "waitmutex"] /\ owner[o] = t
        /\ UNCHANGED <<signalled, interrupted, sawInterrupt, obj, held>>
    BY <1>2 DEF WaitPark, Goto, condVars
  <2>2. PICK b \in BOOLEAN : timed' = [timed EXCEPT ![t] = b]
    BY <1>2 DEF WaitPark
  <2>3. o \in Objects /\ Inside(t, o) /\ ParkedOn[t] = NoObject
    <3>1. o \in Objects
      BY <1>0, <2>1 DEF WaitTypes
    <3>2. lockOwner(o) = t
      BY <2>1, <3>1, OwnedStays DEF lockOwner
    <3>3. DepthOK(t, o) /\ Depth(o) \in Nat
      BY <3>1 DEF IndInv, DepthInv, TypeOK, Depth, LockWord
    <3>4. QED
      BY <2>1, <3>1, <3>2, <3>3 DEF DepthOK, Inside, ParkedOn, IsParked, ParkedPC
  <2>4. \A u \in Threads \ {t} : pc'[u] = pc[u] /\ timed'[u] = timed[u]
    BY <1>0, <2>1, <2>2 DEF WaitTypes
  <2>5. pc'[t] = "waitmutex" /\ timed'[t] = b /\ ~signalled[t]
    BY <1>0, <2>1, <2>2 DEF WaitTypes, CondOK
  <2>6. ParkedOn' = [ParkedOn EXCEPT ![t] = o]
    BY <2>1, <2>4, <2>5 DEF ParkedOn, IsParked, ParkedPC
  <2>7. Limited' = [Limited EXCEPT ![t] = b]
    BY <2>1, <2>4, <2>5 DEF Limited, IsParked, ParkedPC
  <2>8. UNCHANGED Waking
    BY <2>1, <2>4, <2>5 DEF Waking, IsParked, ParkedPC
  <2>9. UNCHANGED Pending
    BY <2>1 DEF Pending, PendingInterrupt
  <2>10. QED
    BY <2>1, <2>3, <2>6, <2>7, <2>8, <2>9, MapWait
<1>3. CASE WaitEnter(t)
  <2>1. /\ pc[t] = "waitmutex"
        /\ pc' = [pc EXCEPT ![t] = IF interrupted[t] THEN "waitdone" ELSE "waitrelease"]
        /\ UNCHANGED <<signalled, interrupted, obj, timed, held>>
        /\ sawInterrupt' = IF interrupted[t] THEN [sawInterrupt EXCEPT ![t] = TRUE]
                           ELSE sawInterrupt
    BY <1>3 DEF WaitEnter, Goto
  <2>2. ParkedMove(t) /\ o \in Objects
    BY <1>0, <2>1 DEF ParkedMove, WaitTypes, ParkedPC
  <2>3. UNCHANGED Pending
    <3>1. \A u \in Threads : PendingInterrupt(u)' <=> PendingInterrupt(u)
      BY <1>0, <2>1 DEF PendingInterrupt, WaitTypes
    <3>2. QED
      BY <3>1, PendingKept
  <2>4. ~WakesAt(t)
    BY <1>0, <2>1 DEF WakesAt, CondOK
  <2>5. CASE interrupted[t]
    <3>1. WakesAt(t)' /\ Pending[t]
      BY <1>0, <2>1, <2>5 DEF WakesAt, WaitTypes, Pending, PendingInterrupt
    <3>2. Wakes(t) /\ UNCHANGED <<held, ParkedOn, Limited>>
      BY <2>1, <2>2, <2>4, <3>1, ParkedMaps DEF Wakes
    <3>3. QED
      BY <2>3, <3>1, <3>2, MapNotice
  <2>6. CASE ~interrupted[t]
    <3>1. ~WakesAt(t)'
      BY <1>0, <2>1, <2>4, <2>6 DEF WakesAt, WaitTypes
    <3>2. QED
      BY <2>1, <2>2, <2>3, <2>4, <3>1, ParkedMaps, MapStutter
  <2>7. QED
    BY <2>5, <2>6
<1>4. CASE WaitRelease(t) \/ CondWait(t) \/ Relock(t)
  <2>1. /\ \/ pc[t] = "waitrelease" /\ pc' = [pc EXCEPT ![t] = "condwait"]
           \/ pc[t] = "condwait" /\ pc' = [pc EXCEPT ![t] = "waiting"]
           \/ pc[t] = "relock" /\ pc' = [pc EXCEPT ![t] = "waitdone"]
        /\ UNCHANGED <<signalled, interrupted, sawInterrupt, obj, timed, held>>
    BY <1>4 DEF WaitRelease, CondWait, Relock, Goto, condVars, waitVars
  <2>2. ParkedMove(t) /\ o \in Objects
    BY <1>0, <2>1 DEF ParkedMove, WaitTypes, ParkedPC
  <2>3. WakesAt(t)' <=> WakesAt(t)
    BY <1>0, <2>1 DEF WakesAt, WaitTypes
  <2>4. UNCHANGED Pending
    BY <2>1, PendingKept DEF PendingInterrupt
  <2>5. QED
    BY <2>1, <2>2, <2>3, <2>4, ParkedMaps, MapStutter
<1>5. CASE CondReturn(t)
  <2>1. /\ pc[t] = "waiting" /\ pc' = [pc EXCEPT ![t] = "relock"]
        /\ signalled[t] \/ timed[t] \/ SpuriousWakeups
        /\ signalled' = [signalled EXCEPT ![t] = FALSE]
        /\ sawInterrupt' = [sawInterrupt EXCEPT ![t] = interrupted[t]]
        /\ interrupted' = [interrupted EXCEPT ![t] = FALSE]
        /\ UNCHANGED <<obj, timed, held>>
    BY <1>5 DEF CondReturn, Goto
  <2>2. ParkedMove(t) /\ o \in Objects
    BY <1>0, <2>1 DEF ParkedMove, WaitTypes, ParkedPC
  <2>3. UNCHANGED Pending
    <3>1. \A u \in Threads : PendingInterrupt(u)' <=> PendingInterrupt(u)
      BY <1>0, <2>1 DEF PendingInterrupt, WaitTypes, CondOK
    <3>2. QED
      BY <3>1, PendingKept
  <2>4. WakesAt(t)'
    BY <1>0, <2>1 DEF WakesAt, WaitTypes
  <2>5. CASE WakesAt(t)
    BY <2>1, <2>2, <2>3, <2>4, <2>5, ParkedMaps, MapStutter
  <2>6. CASE ~WakesAt(t)
    <3>1. timed[t] \/ SpuriousWakeups
      BY <2>1, <2>6 DEF WakesAt
    <3>2. Wakes(t) /\ UNCHANGED <<held, ParkedOn, Limited>> /\ (Limited[t] \/ SpuriousWakeups)
      BY <2>1, <2>2, <2>4, <2>6, <3>1, ParkedMaps DEF Wakes
    <3>3. QED
      BY <2>3, <3>2, MapTimeOut
  <2>7. QED
    BY <2>5, <2>6
<1>6. CASE WaitDone(t)
  <2>1. /\ pc[t] = "waitdone" /\ pc' = [pc EXCEPT ![t] = "waitreturn"] /\ o \in Objects
        /\ UNCHANGED <<signalled, interrupted, sawInterrupt, obj, timed, held>>
    BY <1>0, <1>6 DEF WaitDone, Goto, condVars, waitVars, WaitTypes
  <2>2. pc'[t] = "waitreturn" /\ \A u \in Threads \ {t} : pc'[u] = pc[u]
    BY <1>0, <2>1 DEF WaitTypes
  <2>3. \A u \in Threads : ~Inside(u, o)
    <3>1. lockOwner(o) = NoThread
      <4>1. owner[o] = NoThread
        BY <1>0, <2>1 DEF MutexPC
      <4>2. lock[o].fat
        BY <2>1 DEF IndInv, PcInv, PcOK, FatPC, ParkedPC
      <4>3. QED
        BY <4>1, <4>2 DEF lockOwner
    <3>2. ASSUME NEW u \in Threads PROVE ~Inside(u, o)
      <4>1. DepthOK(u, o) /\ lockOwner(o) # u
        BY <2>1, <3>1 DEF IndInv, DepthInv
      <4>2. QED
        BY <4>1 DEF DepthOK, Inside
    <3>3. QED
      BY <3>2
  <2>4. ParkedOn[t] = o /\ Waking[t]
    BY <2>1 DEF ParkedOn, Waking, IsParked, ParkedPC
  <2>5. ParkedOn' = [ParkedOn EXCEPT ![t] = NoObject]
    BY <2>1, <2>2 DEF ParkedOn, IsParked, ParkedPC
  <2>6. Waking' = [Waking EXCEPT ![t] = FALSE]
    BY <2>1, <2>2 DEF Waking, IsParked, ParkedPC
  <2>7. Limited' = [Limited EXCEPT ![t] = FALSE]
    BY <2>1, <2>2 DEF Limited, IsParked, ParkedPC
  <2>8. UNCHANGED Pending
    BY <2>1, PendingKept DEF PendingInterrupt
  <2>9. QED
    BY <2>1, <2>3, <2>4, <2>5, <2>6, <2>7, <2>8, MapResume
<1>7. CASE WaitReturn(t)
  <2>1. /\ pc[t] = "waitreturn" /\ pc' = [pc EXCEPT ![t] = "idle"]
        /\ interrupted' = [interrupted EXCEPT ![t] = @ /\ ~sawInterrupt[t]]
        /\ sawInterrupt' = [sawInterrupt EXCEPT ![t] = FALSE]
        /\ timed' = [timed EXCEPT ![t] = FALSE]
        /\ obj' = [obj EXCEPT ![t] = NoObject]
        /\ UNCHANGED <<signalled, held>>
    BY <1>7 DEF WaitReturn, Return, Goto
  <2>2. /\ pc'[t] \notin ParkedPC /\ pc[t] \notin ParkedPC
        /\ \A u \in Threads \ {t} : pc'[u] = pc[u] /\ obj'[u] = obj[u] /\ timed'[u] = timed[u]
    BY <1>0, <2>1 DEF WaitTypes, ParkedPC
  <2>3. UNCHANGED <<ParkedOn, Waking, Limited>> /\ ParkedOn[t] = NoObject
    <3>1. UNCHANGED ParkedOn /\ ParkedOn[t] = NoObject
      BY <2>2 DEF ParkedOn, IsParked
    <3>2. UNCHANGED Waking
      BY <2>1, <2>2 DEF Waking, IsParked
    <3>3. UNCHANGED Limited
      BY <2>2 DEF Limited, IsParked
    <3>4. QED
      BY <3>1, <3>2, <3>3
  <2>4. CASE sawInterrupt[t]
    <3>1. /\ \A u \in Threads \ {t} : PendingInterrupt(u)' <=> PendingInterrupt(u)
          /\ PendingInterrupt(t) /\ ~PendingInterrupt(t)'
      BY <1>0, <2>1, <2>4 DEF PendingInterrupt, WaitTypes
    <3>2. Pending[t] /\ Pending' = [Pending EXCEPT ![t] = FALSE]
      BY <3>1 DEF Pending, PendingInterrupt
    <3>3. QED
      BY <2>1, <2>3, <3>2, MapReport
  <2>5. CASE ~sawInterrupt[t]
    <3>1. \A u \in Threads : PendingInterrupt(u)' <=> PendingInterrupt(u)
      BY <1>0, <2>1, <2>5 DEF PendingInterrupt, WaitTypes
    <3>2. QED
      BY <2>1, <2>3, <3>1, PendingKept, MapStutter
  <2>6. QED
    BY <2>4, <2>5
<1>8. QED
  BY <1>1, <1>2, <1>3, <1>4, <1>5, <1>6, <1>7 DEF WaitStep

\* A notifier inside the monitor wakes the peer it has taken, which is parked there.
LEMMA SignalRefines ==
  ASSUME IndInv, WaitInv, NEW t \in Threads, NEW o, o = obj[t], NEW w, w = peer[t],
         NotifySignal(t)
  PROVE  Abstract!Next \/ UNCHANGED Abstract!avars
<1> USE NoThreadAssumption, NoObjectAssumption
<1>0. WaitTypes
  BY WaitFacts
<1>1. /\ pc[t] \in SignalPC /\ o \in Objects
      /\ w \in Threads /\ pc[w] \in ParkedPC /\ obj[w] = o /\ owner[o] = t /\ w # t
  BY <1>0, WaitClauses DEF NotifySignal, WaitTypes, SignalPC, PeerOK, ParkedPC
<1>2. CondOK(w) /\ CondOK(t)
  BY <1>1, WaitClauses
<1>3. /\ UNCHANGED <<held, timed, interrupted, sawInterrupt>>
      /\ pc'[t] \notin ParkedPC /\ pc[t] \notin ParkedPC
      /\ \A u \in Threads \ {t} : pc'[u] = pc[u] /\ obj'[u] = obj[u]
  <2>1. UNCHANGED <<held, timed, interrupted, sawInterrupt>>
    BY DEF NotifySignal, waitVars
  <2>2. /\ \/ pc' = [pc EXCEPT ![t] = "idle"]
           \/ pc' = [pc EXCEPT ![t] = "notify"]
           \/ pc' = [pc EXCEPT ![t] = "notifyAll"]
        /\ obj' = obj \/ obj' = [obj EXCEPT ![t] = NoObject]
    BY DEF NotifySignal, Goto, Return
  <2>3. /\ pc'[t] \notin ParkedPC
        /\ \A u \in Threads \ {t} : pc'[u] = pc[u] /\ obj'[u] = obj[u]
    BY <1>0, <2>2 DEF WaitTypes, ParkedPC
  <2>4. QED
    BY <1>1, <2>1, <2>3 DEF SignalPC, ParkedPC
<1>4. /\ \A u \in Threads \ {w} : signalled'[u] = signalled[u]
      /\ signalled'[w] <=> signalled[w] \/ (waitMonitor[w] # NoObject /\ pc[w] = "waiting")
  BY <1>0, <1>1 DEF NotifySignal, CondSignal, WaitTypes
<1>5. UNCHANGED <<ParkedOn, Limited, Pending>>
  <2>1. UNCHANGED ParkedOn
    BY <1>3 DEF ParkedOn, IsParked
  <2>2. UNCHANGED Limited
    BY <1>3 DEF Limited, IsParked
  <2>3. UNCHANGED Pending
    BY <1>3, PendingKept DEF PendingInterrupt
  <2>4. QED
    BY <2>1, <2>2, <2>3
<1>6. CASE signalled'[w] <=> signalled[w]
  <2>1. UNCHANGED Waking
    BY <1>3, <1>4, <1>6 DEF Waking, IsParked
  <2>2. QED
    BY <1>3, <1>5, <2>1, MapStutter
<1>7. CASE signalled'[w] /\ ~signalled[w]
  <2>1. pc[w] = "waiting" /\ pc'[w] = "waiting"
    BY <1>1, <1>3, <1>4, <1>7
  <2>2. ParkedOn[w] = o
    BY <1>1 DEF ParkedOn, IsParked
  <2>3. ~Waking[w]
    BY <1>1, <1>7, <2>1 DEF Waking
  <2>4. Waking' = [Waking EXCEPT ![w] = TRUE]
    BY <1>1, <1>3, <1>4, <1>7, <2>1 DEF Waking, IsParked
  <2>5. Inside(t, o)
    <3>1. lockOwner(o) = t
      BY <1>1, OwnedStays DEF lockOwner
    <3>2. DepthOK(t, o) /\ Depth(o) \in Nat
      BY <1>1 DEF IndInv, DepthInv, TypeOK, Depth, LockWord
    <3>3. QED
      BY <1>3, <3>1, <3>2 DEF DepthOK, Inside
  <2>6. QED
    BY <1>1, <1>3, <1>5, <2>2, <2>3, <2>4, <2>5, MapNotify DEF Wakes
<1>8. QED
  BY <1>4, <1>6, <1>7

\* An interrupt is posted, and wakes its thread at once if that sleeps.
LEMMA InterruptRefines ==
  ASSUME IndInv, WaitInv, NEW t \in Threads, ThreadInterrupt(t)
  PROVE  Abstract!Next
<1>0. WaitTypes /\ CondOK(t)
  BY WaitFacts, WaitClauses
<1>1. /\ interrupted' = [interrupted EXCEPT ![t] = TRUE]
      /\ UNCHANGED <<held, timed, sawInterrupt, pc, obj>>
  BY DEF ThreadInterrupt, waitVars
<1>2. /\ \A u \in Threads \ {t} : signalled'[u] = signalled[u]
      /\ signalled[t] => signalled'[t]
      /\ signalled'[t] => signalled[t] \/ pc[t] = "waiting"
  <2>1. signalled' = signalled \/ signalled' = [signalled EXCEPT ![t] = @ \/ pc[t] = "waiting"]
    BY DEF ThreadInterrupt, CondSignal
  <2>2. QED
    BY <1>0, <2>1 DEF WaitTypes
<1>3. UNCHANGED <<ParkedOn, Limited>>
  BY <1>1 DEF ParkedOn, Limited, IsParked
<1>4. Pending' = [Pending EXCEPT ![t] = TRUE]
  BY <1>0, <1>1 DEF Pending, PendingInterrupt, WaitTypes
<1>5. Wakes(t) \/ UNCHANGED Waking
  <2>1. CASE signalled'[t] <=> signalled[t]
    BY <1>1, <1>2, <2>1 DEF Waking, IsParked
  <2>2. CASE signalled'[t] /\ ~signalled[t]
    <3>1. pc[t] = "waiting" /\ obj[t] \in Objects
      BY <1>0, <1>2, <2>2 DEF WaitTypes
    <3>2. ParkedOn[t] # NoObject
      BY <3>1, NoObjectAssumption DEF ParkedOn, IsParked, ParkedPC
    <3>3. ~Waking[t]
      BY <2>2, <3>1 DEF Waking
    <3>4. Waking' = [Waking EXCEPT ![t] = TRUE]
      BY <1>1, <1>2, <2>2, <3>1 DEF Waking, IsParked, ParkedPC
    <3>5. QED
      BY <3>2, <3>3, <3>4 DEF Wakes
  <2>3. QED
    BY <1>2, <2>1, <2>2
<1>6. QED
  BY <1>1, <1>3, <1>4, <1>5, MapInterrupt

\* Taking a thread from the list changes nothing yet; Thread.interrupted() reports
\* what is pending when it clears the flag.
LEMMA OthersRefine ==
  ASSUME IndInv, WaitInv, NEW t \in Threads, NotifyPop(t) \/ PollRead(t) \/ PollClear(t)
  PROVE  Abstract!Next \/ UNCHANGED Abstract!avars
<1>0. WaitTypes /\ CondOK(t)
  BY WaitFacts, WaitClauses
<1>1. /\ UNCHANGED <<held, timed, signalled>>
      /\ pc[t] \notin ParkedPC /\ pc'[t] \notin ParkedPC
      /\ \A u \in Threads \ {t} : pc'[u] = pc[u] /\ obj'[u] = obj[u]
  <2>1. UNCHANGED <<held, timed, signalled>>
    BY DEF NotifyPop, PollRead, PollClear, condVars, waitVars
  <2>2. /\ pc[t] \in {"notify", "notifyAll", "idle", "poll"}
        /\ \E l \in {"signal", "signalAll", "poll", "idle"} : pc' = [pc EXCEPT ![t] = l]
    BY DEF NotifyPop, PollRead, PollClear, Goto, Return, Call
  <2>3. obj' = obj \/ obj' = [obj EXCEPT ![t] = NoObject]
    BY DEF NotifyPop, PollRead, PollClear, Return, Call
  <2>4. QED
    BY <1>0, <2>1, <2>2, <2>3 DEF WaitTypes, ParkedPC
<1>2. UNCHANGED <<ParkedOn, Waking, Limited>> /\ ParkedOn[t] = NoObject
  <2>1. UNCHANGED ParkedOn /\ ParkedOn[t] = NoObject
    BY <1>1 DEF ParkedOn, IsParked
  <2>2. UNCHANGED Waking
    BY <1>1 DEF Waking, IsParked
  <2>3. UNCHANGED Limited
    BY <1>1 DEF Limited, IsParked
  <2>4. QED
    BY <2>1, <2>2, <2>3
<1>3. CASE \A u \in Threads : PendingInterrupt(u)' <=> PendingInterrupt(u)
  BY <1>1, <1>2, <1>3, PendingKept, MapStutter
<1>4. CASE NotifyPop(t) \/ PollRead(t)
  <2>1. interrupted' = interrupted
    BY <1>4 DEF NotifyPop, PollRead, condVars
  <2>2. \/ sawInterrupt' = sawInterrupt
        \/ pc[t] = "idle" /\ sawInterrupt' = [sawInterrupt EXCEPT ![t] = interrupted[t]]
    BY <1>4 DEF NotifyPop, PollRead, Call, waitVars
  <2>3. CASE sawInterrupt' = sawInterrupt
    <3>1. \A u \in Threads : PendingInterrupt(u)' <=> PendingInterrupt(u)
      BY <2>1, <2>3 DEF PendingInterrupt
    <3>2. QED
      BY <1>3, <3>1
  <2>4. CASE pc[t] = "idle" /\ sawInterrupt' = [sawInterrupt EXCEPT ![t] = interrupted[t]]
    <3>1. ~sawInterrupt[t]
      BY <1>0, <2>4 DEF CondOK
    <3>2. sawInterrupt'[t] = interrupted[t] /\ \A u \in Threads \ {t} : sawInterrupt'[u] = sawInterrupt[u]
      BY <1>0, <2>4 DEF WaitTypes
    <3>3. \A u \in Threads : PendingInterrupt(u)' <=> PendingInterrupt(u)
      BY <2>1, <3>1, <3>2 DEF PendingInterrupt
    <3>4. QED
      BY <1>3, <3>3
  <2>5. QED
    BY <2>2, <2>3, <2>4
<1>5. CASE PollClear(t)
  <2>1. /\ interrupted' = [interrupted EXCEPT ![t] = FALSE]
        /\ sawInterrupt' = [sawInterrupt EXCEPT ![t] = FALSE]
    BY <1>5 DEF PollClear
  <2>2. /\ \A u \in Threads \ {t} : PendingInterrupt(u)' <=> PendingInterrupt(u)
        /\ ~PendingInterrupt(t)'
    BY <1>0, <2>1 DEF PendingInterrupt, WaitTypes
  <2>3. CASE PendingInterrupt(t)
    <3>1. Pending[t] /\ Pending' = [Pending EXCEPT ![t] = FALSE]
      BY <2>2, <2>3 DEF Pending, PendingInterrupt
    <3>2. QED
      BY <1>1, <1>2, <3>1, MapReport
  <2>4. CASE ~PendingInterrupt(t)
    BY <1>3, <2>2, <2>4
  <2>5. QED
    BY <2>3, <2>4
<1>6. QED
  BY <1>4, <1>5

\* Every step of vm/Sync.cpp is a step of the abstract monitor or none.
LEMMA StepRefines ==
  ASSUME IndInv, WaitInv, [Next]_vars
  PROVE  [Abstract!Next]_Abstract!avars
<1>1. ASSUME NEW t \in Threads, Step(t) \/ Start(t) \/ ThreadInterrupt(t)
      PROVE  Abstract!Next \/ UNCHANGED Abstract!avars
  <2>1. CASE OutsideAction(t)
    BY <2>1, OutsideRefines DEF WaitInv
  <2>2. CASE WaitStep(t)
    BY <2>2, WaitRefines
  <2>3. CASE NotifySignal(t)
    BY <2>3, SignalRefines
  <2>4. CASE ThreadInterrupt(t)
    BY <2>4, InterruptRefines
  <2>5. CASE NotifyPop(t) \/ PollRead(t) \/ PollClear(t)
    BY <2>5, OthersRefine
  <2>6. QED
    BY <1>1, <2>1, <2>2, <2>3, <2>4, <2>5
       DEF Step, Start, LockStep, NotifyStep, OutsideAction
<1>2. CASE UNCHANGED vars
  <2>1. UNCHANGED <<held, ParkedOn, Waking, Limited, Pending>>
    BY <1>2 DEF vars, ParkedOn, Waking, Limited, Pending, IsParked, PendingInterrupt
  <2>2. QED
    BY <2>1, MapStutter
<1>3. QED
  BY <1>1, <1>2 DEF Next

\* The locks of vm/Sync.cpp, with their lock words, inflation, mutexes, condition
\* variables and flags, are monitors as Java promises them, for any number of
\* threads and objects: every enter and exit, and every way into and out of
\* Object.wait, is one AbstractMonitor allows.
THEOREM ImplementsMonitor == Spec => RefinesMonitor
<1>1. Init => Abstract!Init
  BY MapInit
<1>2. IndInv /\ WaitInv /\ [Next]_vars => [Abstract!Next]_Abstract!avars
  BY StepRefines
<1>3. QED
  BY <1>1, <1>2, WaitInvariance, PTL DEF Spec, RefinesMonitor, Abstract!Spec
=============================================================================
