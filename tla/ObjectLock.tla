----------------------------- MODULE ObjectLock -----------------------------
(***************************************************************************)
(* vm/Sync.cpp: the lock word of every object, thin while there is neither *)
(* contention nor a waiter, fat (a pointer to a Monitor) from then on, and *)
(* the wait set, condition variable and interrupt flag behind              *)
(* Object.wait, notify, notifyAll and Thread.interrupt.                    *)
(*                                                                         *)
(* A thread is at a control point pc[t] of the call it is making; "idle"   *)
(* is the application.  One action is one access to state other threads    *)
(* can change, plus the local code up to the next one.  pthread mutexes    *)
(* are holders (monLock, waitMutex), a condition variable is the flag      *)
(* signalled of its only waiter.  An object has at most one Monitor, so    *)
(* the pointer in a fat lock word is the object's own name.                *)
(***************************************************************************)
EXTENDS Integers, Sequences

CONSTANTS
  Threads,          \* Thread structures
  Objects,          \* objects that are locked
  NoThread,         \* thread id 0, a NULL Thread*
  NoObject,         \* a NULL Monitor* or Object*
  CountMask,        \* LW_LOCK_COUNT_MASK, 0x1fff in vm/Sync.h
  BornFat,          \* objects whose Monitor exists from the start: threadSleepMon
  MaxDepth,         \* bound: how deep the application nests monitor enters
  ThrowChoices,     \* values callers of dvmObjectWait give interruptShouldThrow
  SpuriousWakeups,  \* may pthread_cond_wait return without a signal?
  PollsInterrupted  \* does the application call Thread.interrupted()?

ASSUME NoThreadAssumption == NoThread \notin Threads
ASSUME NoObjectAssumption == NoObject \notin Objects
ASSUME CountMaskAssumption == CountMask \in Nat \ {0}
ASSUME ChoicesAssumption ==
  /\ BornFat \subseteq Objects
  /\ MaxDepth \in Nat
  /\ ThrowChoices \subseteq BOOLEAN
  /\ {SpuriousWakeups, PollsInterrupted} \subseteq BOOLEAN

VARIABLES
  lock,          \* Object.lock: shape, owner and recursion count
  owner,         \* Monitor.owner
  lockCount,     \* Monitor.lockCount
  waitSet,       \* Monitor.waitSet, linked through Thread.waitNext
  monLock,       \* holder of the pthread mutex Monitor.lock
  waitMonitor,   \* Thread.waitMonitor
  waitMutex,     \* holder of the pthread mutex Thread.waitMutex
  signalled,     \* Thread.waitCond was signalled while its thread slept on it
  interrupted,   \* Thread.interrupted
  pc,            \* control point of the thread
  obj,           \* argument of the call in progress
  peer,          \* local `thread` of notifyMonitor and notifyAllMonitor
  prevLockCount, \* local of waitMonitor
  timed,         \* local of waitMonitor
  shouldThrow,   \* argument interruptShouldThrow of dvmObjectWait
  sawInterrupt,  \* local `wasInterrupted` of waitMonitor, `interrupted` of VMThread
  exception,     \* what the last call of the thread left pending
  held           \* history: enters minus exits of the thread on the object

monVars   == <<owner, lockCount, waitSet, monLock>>
condVars  == <<waitMonitor, waitMutex, signalled, interrupted>>
waitVars  == <<prevLockCount, timed, shouldThrow, sawInterrupt>>
vars == <<lock, owner, lockCount, waitSet, monLock, waitMonitor, waitMutex,
          signalled, interrupted, pc, obj, peer, prevLockCount, timed,
          shouldThrow, sawInterrupt, exception, held>>

-----------------------------------------------------------------------------
(* Types, lock words and control points.                                   *)

LockWord == [fat : BOOLEAN, owner : Threads \cup {NoThread}, count : 0 .. CountMask]

Thin(t, n) == [fat |-> FALSE, owner |-> t, count |-> n]
Unowned    == Thin(NoThread, 0)
FatWord    == [fat |-> TRUE, owner |-> NoThread, count |-> 0]

LockPC   == {"lock", "cas", "spin", "spincas", "inflate", "lockmon", "own"}
UnlockPC == {"unlockmutex"}
ParkedPC == {"waitmutex", "waitrelease", "condwait", "waiting", "relock", "waitdone"}
WaitPC   == {"waitinflate", "waitmon", "waitreturn"} \cup ParkedPC
NotifyPC == {"notify", "signal", "notifyAll", "signalAll"}
PCs      == {"idle", "poll"} \cup LockPC \cup UnlockPC \cup WaitPC \cup NotifyPC

Exceptions == {"none", "IllegalMonitorState", "IllegalArgument", "Interrupted"}

\* Types; for the lock word, that the recursion count fits its field.
TypeOK ==
  /\ lock \in [Objects -> LockWord]
  /\ owner \in [Objects -> Threads \cup {NoThread}]
  /\ lockCount \in [Objects -> Nat]
  /\ waitSet \in [Objects -> Seq(Threads)]
  /\ monLock \in [Objects -> Threads \cup {NoThread}]
  /\ waitMonitor \in [Threads -> Objects \cup {NoObject}]
  /\ waitMutex \in [Threads -> Threads \cup {NoThread}]
  /\ signalled \in [Threads -> BOOLEAN]
  /\ interrupted \in [Threads -> BOOLEAN]
  /\ pc \in [Threads -> PCs]
  /\ obj \in [Threads -> Objects \cup {NoObject}]
  /\ peer \in [Threads -> Threads \cup {NoThread}]
  /\ prevLockCount \in [Threads -> Nat]
  /\ timed \in [Threads -> BOOLEAN]
  /\ shouldThrow \in [Threads -> BOOLEAN]
  /\ sawInterrupt \in [Threads -> BOOLEAN]
  /\ exception \in [Threads -> Exceptions]
  /\ held \in [Threads -> [Objects -> Nat]]

Init ==
  /\ lock = [o \in Objects |-> IF o \in BornFat THEN FatWord ELSE Unowned]
  /\ owner = [o \in Objects |-> NoThread]
  /\ lockCount = [o \in Objects |-> 0]
  /\ waitSet = [o \in Objects |-> <<>>]
  /\ monLock = [o \in Objects |-> NoThread]
  /\ waitMonitor = [t \in Threads |-> NoObject]
  /\ waitMutex = [t \in Threads |-> NoThread]
  /\ signalled = [t \in Threads |-> FALSE]
  /\ interrupted = [t \in Threads |-> FALSE]
  /\ pc = [t \in Threads |-> "idle"]
  /\ obj = [t \in Threads |-> NoObject]
  /\ peer = [t \in Threads |-> NoThread]
  /\ prevLockCount = [t \in Threads |-> 0]
  /\ timed = [t \in Threads |-> FALSE]
  /\ shouldThrow = [t \in Threads |-> FALSE]
  /\ sawInterrupt = [t \in Threads |-> FALSE]
  /\ exception = [t \in Threads |-> "none"]
  /\ held = [t \in Threads |-> [o \in Objects |-> 0]]

Goto(t, label) == pc' = [pc EXCEPT ![t] = label]

\* The application makes a call on object o: its first control point is label.
Call(t, o, label) ==
  /\ pc[t] = "idle"
  /\ Goto(t, label)
  /\ obj' = [obj EXCEPT ![t] = o]
  /\ exception' = [exception EXCEPT ![t] = "none"]

\* The call ends, leaving exception e pending (or "none").
Return(t, e) ==
  /\ Goto(t, "idle")
  /\ obj' = [obj EXCEPT ![t] = NoObject]
  /\ exception' = [exception EXCEPT ![t] = e]

\* A call that is refused at once because its caller does not own the monitor.
Refuse(t, e) ==
  /\ pc[t] = "idle"
  /\ exception' = [exception EXCEPT ![t] = e]
  /\ UNCHANGED <<lock, monVars, condVars, waitVars, pc, obj, peer, held>>

OwnsThin(t, o) == ~lock[o].fat /\ lock[o].owner = t

\* lockOwner, dvmHoldsLock: what one read of the lock word (and monitor) says.
lockOwner(o) == IF lock[o].fat THEN owner[o] ELSE lock[o].owner

Acquired(t, o) == held' = [held EXCEPT ![t][o] = @ + 1]
Released(t, o) == held' = [held EXCEPT ![t][o] = @ - 1]

-----------------------------------------------------------------------------
(* dvmLockObject.                                                          *)

LockObject(t, o) ==
  /\ held[t][o] < MaxDepth
  /\ Call(t, o, "lock")
  /\ UNCHANGED <<lock, monVars, condVars, waitVars, peer, held>>

\* Mutant of RecurseThin: the full count is never noticed.
RecurseThinUnbounded(t) ==
  /\ pc[t] = "lock"
  /\ OwnsThin(t, obj[t])
  /\ lock' = [lock EXCEPT ![obj[t]].count = @ + 1]
  /\ Acquired(t, obj[t])
  /\ Return(t, "none")
  /\ UNCHANGED <<monVars, condVars, waitVars, peer>>

\* Only the owner writes a thin-owned word, so its read and write are one step.
RecurseThin(t) ==
  LET o == obj[t] IN
  /\ pc[t] = "lock"
  /\ OwnsThin(t, o)
  /\ lock' = [lock EXCEPT ![o].count = @ + 1]
  /\ Acquired(t, o)
  /\ IF lock'[o].count = CountMask
     THEN Goto(t, "inflate") /\ UNCHANGED <<obj, exception>>
     ELSE Return(t, "none")
  /\ UNCHANGED <<monVars, condVars, waitVars, peer>>

\* The word is unowned, owned by another thread, or fat.
ReadLockWord(t) ==
  LET word == lock[obj[t]] IN
  /\ pc[t] = "lock"
  /\ \/ word = Unowned /\ Goto(t, "cas")
     \/ ~word.fat /\ word.owner \notin {NoThread, t} /\ Goto(t, "spin")
     \/ word.fat /\ Goto(t, "lockmon")
  /\ UNCHANGED <<lock, monVars, condVars, waitVars, obj, peer, exception, held>>

\* Mutant of CasLock: a plain store in place of the compare-and-swap.
CasLockBlindly(t) ==
  /\ pc[t] = "cas"
  /\ lock' = [lock EXCEPT ![obj[t]] = Thin(t, 0)]
  /\ Acquired(t, obj[t])
  /\ Return(t, "none")
  /\ UNCHANGED <<monVars, condVars, waitVars, peer>>

\* A failed compare-and-swap goes back to the label retry.
CasLock(t) ==
  LET o == obj[t] IN
  /\ pc[t] = "cas"
  /\ IF lock[o] = Unowned
     THEN /\ lock' = [lock EXCEPT ![o] = Thin(t, 0)]
          /\ Acquired(t, o)
          /\ Return(t, "none")
     ELSE Goto(t, "lock") /\ UNCHANGED <<lock, obj, exception, held>>
  /\ UNCHANGED <<monVars, condVars, waitVars, peer>>

\* Mutant of SpinRead: the loop does not look for a lock that became fat.
SpinReadThinOnly(t) ==
  /\ pc[t] = "spin"
  /\ lock[obj[t]] = Unowned
  /\ Goto(t, "spincas")
  /\ UNCHANGED <<lock, monVars, condVars, waitVars, obj, peer, exception, held>>

\* The spin loop: try when the word is free, retry from the top when it is fat.
SpinRead(t) ==
  LET word == lock[obj[t]] IN
  /\ pc[t] = "spin"
  /\ \/ word = Unowned /\ Goto(t, "spincas")
     \/ word.fat /\ Goto(t, "lock")
  /\ UNCHANGED <<lock, monVars, condVars, waitVars, obj, peer, exception, held>>

\* A contended thin lock is fattened by the thread that wins it.
SpinCas(t) ==
  LET o == obj[t] IN
  /\ pc[t] = "spincas"
  /\ IF lock[o] = Unowned
     THEN /\ lock' = [lock EXCEPT ![o] = Thin(t, 0)]
          /\ Acquired(t, o)
          /\ Goto(t, "inflate")
     ELSE Goto(t, "spin") /\ UNCHANGED <<lock, held>>
  /\ UNCHANGED <<monVars, condVars, waitVars, obj, peer, exception>>

\* Mutant of InflateMonitor: the new Monitor starts at depth 0.
InflateAtZero(t) ==
  LET o == obj[t] IN
  /\ pc[t] \in {"inflate", "waitinflate"}
  /\ monLock' = [monLock EXCEPT ![o] = t]
  /\ owner' = [owner EXCEPT ![o] = t]
  /\ lock' = [lock EXCEPT ![o] = FatWord]
  /\ IF pc[t] = "inflate"
     THEN Return(t, "none")
     ELSE Goto(t, "waitmon") /\ UNCHANGED <<obj, exception>>
  /\ UNCHANGED <<lockCount, waitSet, condVars, waitVars, peer, held>>

\* inflateMonitor: the Monitor is private, and locked, until it is published.
InflateMonitor(t) ==
  LET o == obj[t] IN
  /\ pc[t] \in {"inflate", "waitinflate"}
  /\ monLock' = [monLock EXCEPT ![o] = t]
  /\ owner' = [owner EXCEPT ![o] = t]
  /\ lockCount' = [lockCount EXCEPT ![o] = lock[o].count]
  /\ waitSet' = [waitSet EXCEPT ![o] = <<>>]
  /\ lock' = [lock EXCEPT ![o] = FatWord]
  /\ IF pc[t] = "inflate"
     THEN Return(t, "none")
     ELSE Goto(t, "waitmon") /\ UNCHANGED <<obj, exception>>
  /\ UNCHANGED <<condVars, waitVars, peer, held>>

-----------------------------------------------------------------------------
(* lockMonitor.                                                            *)

RecurseFat(t) ==
  LET o == obj[t] IN
  /\ pc[t] = "lockmon"
  /\ owner[o] = t
  /\ lockCount' = [lockCount EXCEPT ![o] = @ + 1]
  /\ Acquired(t, o)
  /\ Return(t, "none")
  /\ UNCHANGED <<lock, owner, waitSet, monLock, condVars, waitVars, peer>>

\* dvmTryLockMutex, or dvmLockMutex in status THREAD_MONITOR.
AcquireMonLock(t) ==
  LET o == obj[t] IN
  /\ pc[t] = "lockmon"
  /\ owner[o] # t
  /\ monLock[o] = NoThread
  /\ monLock' = [monLock EXCEPT ![o] = t]
  /\ Goto(t, "own")
  /\ UNCHANGED <<lock, owner, lockCount, waitSet, condVars, waitVars, obj, peer,
                 exception, held>>

SetOwner(t) ==
  LET o == obj[t] IN
  /\ pc[t] = "own"
  /\ owner' = [owner EXCEPT ![o] = t]
  /\ Acquired(t, o)
  /\ Return(t, "none")
  /\ UNCHANGED <<lock, lockCount, waitSet, monLock, condVars, waitVars, peer>>

-----------------------------------------------------------------------------
(* dvmUnlockObject and unlockMonitor.                                      *)

UnlockThin(t, o) ==
  /\ pc[t] = "idle"
  /\ OwnsThin(t, o)
  /\ lock' = [lock EXCEPT ![o] =
                IF @.count = 0 THEN Unowned ELSE Thin(t, @.count - 1)]
  /\ Released(t, o)
  /\ exception' = [exception EXCEPT ![t] = "none"]
  /\ UNCHANGED <<monVars, condVars, waitVars, pc, obj, peer>>

\* Mutant of UnlockFat: Monitor.owner is not reset by the last exit.
UnlockFatKeepsOwner(t, o) ==
  /\ lock[o].fat
  /\ owner[o] = t
  /\ lockCount[o] = 0
  /\ Call(t, o, "unlockmutex")
  /\ Released(t, o)
  /\ UNCHANGED <<lock, monVars, condVars, waitVars, peer>>

UnlockFat(t, o) ==
  /\ lock[o].fat
  /\ owner[o] = t
  /\ IF lockCount[o] = 0
     THEN /\ owner' = [owner EXCEPT ![o] = NoThread]
          /\ Call(t, o, "unlockmutex")
          /\ UNCHANGED lockCount
     ELSE /\ pc[t] = "idle"
          /\ lockCount' = [lockCount EXCEPT ![o] = @ - 1]
          /\ exception' = [exception EXCEPT ![t] = "none"]
          /\ UNCHANGED <<owner, pc, obj>>
  /\ Released(t, o)
  /\ UNCHANGED <<lock, waitSet, monLock, condVars, waitVars, peer>>

UnlockMonLock(t) ==
  /\ pc[t] = "unlockmutex"
  /\ monLock' = [monLock EXCEPT ![obj[t]] = NoThread]
  /\ Return(t, "none")
  /\ UNCHANGED <<lock, owner, lockCount, waitSet, condVars, waitVars, peer, held>>

UnlockUnowned(t, o) == lockOwner(o) # t /\ Refuse(t, "IllegalMonitorState")

UnlockObject(t, o) == UnlockThin(t, o) \/ UnlockFat(t, o) \/ UnlockUnowned(t, o)

-----------------------------------------------------------------------------
(* dvmObjectWait and waitMonitor.  The arguments are chosen where waitMonitor *)
(* first looks at them.                                                     *)

\* Mutant of waitSetRemove: the thread stays in the list it has left.
waitSetKeep(s, t) == s

\* waitSetRemove: the list without the first occurrence of the thread.
waitSetRemove(s, t) ==
  IF \E i \in 1 .. Len(s) : s[i] = t
  THEN LET k == CHOOSE i \in 1 .. Len(s) :
                  s[i] = t /\ \A j \in 1 .. (i - 1) : s[j] # t
       IN SubSeq(s, 1, k - 1) \o SubSeq(s, k + 1, Len(s))
  ELSE s

ObjectWait(t, o) ==
  \/ /\ \/ OwnsThin(t, o) /\ Call(t, o, "waitinflate")
        \/ lock[o].fat /\ Call(t, o, "waitmon")
     /\ UNCHANGED <<lock, monVars, condVars, waitVars, peer, held>>
  \/ /\ ~lock[o].fat
     /\ lock[o].owner # t
     /\ Refuse(t, "IllegalMonitorState")

WaitRefused(t) ==
  /\ pc[t] = "waitmon"
  /\ IF owner[obj[t]] # t
     THEN Return(t, "IllegalMonitorState")
     ELSE Return(t, "IllegalArgument")
  /\ UNCHANGED <<lock, monVars, condVars, waitVars, peer, held>>

\* Join the wait set and let go of the monitor, however deep it is held.
WaitPark(t) ==
  LET o == obj[t] IN
  /\ pc[t] = "waitmon"
  /\ owner[o] = t
  /\ \E b \in BOOLEAN : timed' = [timed EXCEPT ![t] = b]
  /\ \E b \in ThrowChoices : shouldThrow' = [shouldThrow EXCEPT ![t] = b]
  /\ waitSet' = [waitSet EXCEPT ![o] = Append(@, t)]
  /\ prevLockCount' = [prevLockCount EXCEPT ![t] = lockCount[o]]
  /\ lockCount' = [lockCount EXCEPT ![o] = 0]
  /\ owner' = [owner EXCEPT ![o] = NoThread]
  /\ Goto(t, "waitmutex")
  /\ UNCHANGED <<lock, monLock, condVars, sawInterrupt, obj, peer, exception, held>>

\* Holding Monitor.lock, take waitMutex; an earlier interrupt ends the wait here.
WaitEnter(t) ==
  /\ pc[t] = "waitmutex"
  /\ waitMutex[t] = NoThread
  /\ IF interrupted[t]
     THEN /\ sawInterrupt' = [sawInterrupt EXCEPT ![t] = TRUE]
          /\ Goto(t, "waitdone")
          /\ UNCHANGED <<waitMonitor, waitMutex>>
     ELSE /\ waitMonitor' = [waitMonitor EXCEPT ![t] = obj[t]]
          /\ waitMutex' = [waitMutex EXCEPT ![t] = t]
          /\ Goto(t, "waitrelease")
          /\ UNCHANGED sawInterrupt
  /\ UNCHANGED <<lock, monVars, signalled, interrupted, prevLockCount, timed,
                 shouldThrow, obj, peer, exception, held>>

WaitRelease(t) ==
  /\ pc[t] = "waitrelease"
  /\ monLock' = [monLock EXCEPT ![obj[t]] = NoThread]
  /\ Goto(t, "condwait")
  /\ UNCHANGED <<lock, owner, lockCount, waitSet, condVars, waitVars, obj, peer,
                 exception, held>>

\* pthread_cond_wait: give up waitMutex and sleep, in one step.
CondWait(t) ==
  /\ pc[t] = "condwait"
  /\ waitMutex' = [waitMutex EXCEPT ![t] = NoThread]
  /\ Goto(t, "waiting")
  /\ UNCHANGED <<lock, monVars, waitMonitor, signalled, interrupted, waitVars, obj,
                 peer, exception, held>>

\* Mutant of CondReturn: the flag is cleared before it is looked at.
CondReturnClearsFirst(t) ==
  /\ pc[t] = "waiting"
  /\ waitMutex[t] = NoThread
  /\ signalled[t] \/ timed[t] \/ SpuriousWakeups
  /\ sawInterrupt' = [sawInterrupt EXCEPT ![t] = FALSE]
  /\ interrupted' = [interrupted EXCEPT ![t] = FALSE]
  /\ waitMonitor' = [waitMonitor EXCEPT ![t] = NoObject]
  /\ signalled' = [signalled EXCEPT ![t] = FALSE]
  /\ Goto(t, "relock")
  /\ UNCHANGED <<lock, monVars, waitMutex, prevLockCount, timed, shouldThrow, obj,
                 peer, exception, held>>

\* Signal or timeout; what follows, up to the unlock, is under waitMutex.
CondReturn(t) ==
  /\ pc[t] = "waiting"
  /\ waitMutex[t] = NoThread
  /\ signalled[t] \/ timed[t] \/ SpuriousWakeups
  /\ sawInterrupt' = [sawInterrupt EXCEPT ![t] = interrupted[t]]
  /\ interrupted' = [interrupted EXCEPT ![t] = FALSE]
  /\ waitMonitor' = [waitMonitor EXCEPT ![t] = NoObject]
  /\ signalled' = [signalled EXCEPT ![t] = FALSE]
  /\ Goto(t, "relock")
  /\ UNCHANGED <<lock, monVars, waitMutex, prevLockCount, timed, shouldThrow, obj,
                 peer, exception, held>>

\* lockMonitor, by a thread that is not the owner.
Relock(t) ==
  LET o == obj[t] IN
  /\ pc[t] = "relock"
  /\ monLock[o] = NoThread
  /\ monLock' = [monLock EXCEPT ![o] = t]
  /\ Goto(t, "waitdone")
  /\ UNCHANGED <<lock, owner, lockCount, waitSet, condVars, waitVars, obj, peer,
                 exception, held>>

\* The label done: the depth saved by WaitPark comes back.
WaitDone(t) ==
  LET o == obj[t] IN
  /\ pc[t] = "waitdone"
  /\ owner' = [owner EXCEPT ![o] = t]
  /\ lockCount' = [lockCount EXCEPT ![o] = prevLockCount[t]]
  /\ waitSet' = [waitSet EXCEPT ![o] = waitSetRemove(@, t)]
  /\ Goto(t, "waitreturn")
  /\ UNCHANGED <<lock, monLock, condVars, waitVars, obj, peer, exception, held>>

\* An interrupt seen while waiting is thrown, or dropped if shouldThrow is false.
WaitReturn(t) ==
  /\ pc[t] = "waitreturn"
  /\ interrupted' = [interrupted EXCEPT ![t] = @ /\ ~sawInterrupt[t]]
  /\ Return(t, IF sawInterrupt[t] /\ shouldThrow[t] THEN "Interrupted" ELSE "none")
  /\ prevLockCount' = [prevLockCount EXCEPT ![t] = 0]
  /\ timed' = [timed EXCEPT ![t] = FALSE]
  /\ shouldThrow' = [shouldThrow EXCEPT ![t] = FALSE]
  /\ sawInterrupt' = [sawInterrupt EXCEPT ![t] = FALSE]
  /\ UNCHANGED <<lock, monVars, waitMonitor, waitMutex, signalled, peer, held>>

-----------------------------------------------------------------------------
(* dvmObjectNotify and dvmObjectNotifyAll.                                 *)

ObjectNotify(t, o) ==
  \/ /\ OwnsThin(t, o)
     /\ Refuse(t, "none")          \* nobody can be waiting on a thin lock
  \/ /\ ~lock[o].fat
     /\ lock[o].owner # t
     /\ Refuse(t, "IllegalMonitorState")
  \/ /\ lock[o].fat
     /\ Call(t, o, "notify") \/ Call(t, o, "notifyAll")
     /\ UNCHANGED <<lock, monVars, condVars, waitVars, peer, held>>

NotifyEnd(t) ==
  /\ pc[t] \in {"notify", "notifyAll"}
  /\ \/ owner[obj[t]] # t /\ Return(t, "IllegalMonitorState")
     \/ owner[obj[t]] = t /\ waitSet[obj[t]] = <<>> /\ Return(t, "none")
  /\ UNCHANGED <<lock, monVars, condVars, waitVars, peer, held>>

\* Mutant of NotifyPop: no check that the caller owns the monitor.
NotifyPopUnowned(t) ==
  LET o == obj[t] IN
  /\ pc[t] \in {"notify", "notifyAll"}
  /\ waitSet[o] # <<>>
  /\ peer' = [peer EXCEPT ![t] = Head(waitSet[o])]
  /\ waitSet' = [waitSet EXCEPT ![o] = Tail(@)]
  /\ Goto(t, IF pc[t] = "notify" THEN "signal" ELSE "signalAll")
  /\ UNCHANGED <<lock, owner, lockCount, monLock, condVars, waitVars, obj, exception,
                 held>>

NotifyPop(t) ==
  LET o == obj[t] IN
  /\ pc[t] \in {"notify", "notifyAll"}
  /\ owner[o] = t
  /\ waitSet[o] # <<>>
  /\ peer' = [peer EXCEPT ![t] = Head(waitSet[o])]
  /\ waitSet' = [waitSet EXCEPT ![o] = Tail(@)]
  /\ Goto(t, IF pc[t] = "notify" THEN "signal" ELSE "signalAll")
  /\ UNCHANGED <<lock, owner, lockCount, monLock, condVars, waitVars, obj, exception,
                 held>>

\* Mutant of CondSignal: the condition variable is not signalled.
CondSignalDropped(u) == UNCHANGED signalled

\* pthread_cond_signal is lost unless the thread sleeps on its condition.
CondSignal(u) == signalled' = [signalled EXCEPT ![u] = @ \/ pc[u] = "waiting"]

\* Under the peer's waitMutex: notify ends with the first peer still waiting.
NotifySignal(t) ==
  LET u == peer[t] IN
  /\ pc[t] \in {"signal", "signalAll"}
  /\ waitMutex[u] = NoThread
  /\ IF waitMonitor[u] # NoObject THEN CondSignal(u) ELSE UNCHANGED signalled
  /\ IF pc[t] = "signal" /\ waitMonitor[u] # NoObject
     THEN Return(t, "none")
     ELSE /\ Goto(t, IF pc[t] = "signal" THEN "notify" ELSE "notifyAll")
          /\ UNCHANGED <<obj, exception>>
  /\ peer' = [peer EXCEPT ![t] = NoThread]
  /\ UNCHANGED <<lock, monVars, waitMonitor, waitMutex, interrupted, waitVars, held>>

-----------------------------------------------------------------------------
(* Interrupts.                                                             *)

\* dvmThreadInterrupt(t), by any thread; a second interrupt changes nothing.
ThreadInterrupt(t) ==
  /\ waitMutex[t] = NoThread
  /\ ~interrupted[t]
  /\ interrupted' = [interrupted EXCEPT ![t] = TRUE]
  /\ IF waitMonitor[t] # NoObject THEN CondSignal(t) ELSE UNCHANGED signalled
  /\ UNCHANGED <<lock, monVars, waitMonitor, waitMutex, waitVars, pc, obj, peer,
                 exception, held>>

\* Thread.interrupted() reads the flag and then clears it, without waitMutex.
PollRead(t) ==
  /\ PollsInterrupted
  /\ Call(t, NoObject, "poll")
  /\ sawInterrupt' = [sawInterrupt EXCEPT ![t] = interrupted[t]]
  /\ UNCHANGED <<lock, monVars, condVars, prevLockCount, timed, shouldThrow, peer, held>>

PollClear(t) ==
  /\ pc[t] = "poll"
  /\ interrupted' = [interrupted EXCEPT ![t] = FALSE]
  /\ sawInterrupt' = [sawInterrupt EXCEPT ![t] = FALSE]
  /\ Return(t, "none")
  /\ UNCHANGED <<lock, monVars, waitMonitor, waitMutex, signalled, prevLockCount, timed,
                 shouldThrow, peer, held>>

-----------------------------------------------------------------------------
(* Specification.                                                          *)

LockStep(t) ==
  \/ RecurseThin(t) \/ ReadLockWord(t) \/ CasLock(t)
  \/ SpinRead(t) \/ SpinCas(t) \/ InflateMonitor(t)
  \/ RecurseFat(t) \/ AcquireMonLock(t) \/ SetOwner(t)
  \/ UnlockMonLock(t)

WaitStep(t) ==
  \/ WaitRefused(t) \/ WaitPark(t) \/ WaitEnter(t) \/ WaitRelease(t)
  \/ CondWait(t) \/ CondReturn(t) \/ Relock(t) \/ WaitDone(t) \/ WaitReturn(t)

NotifyStep(t) == NotifyEnd(t) \/ NotifyPop(t) \/ NotifySignal(t)

\* What the thread does next inside the call it has made.
Step(t) == LockStep(t) \/ WaitStep(t) \/ NotifyStep(t) \/ PollClear(t)

\* What the application may start when the thread is in no call.
Start(t) ==
  \/ \E o \in Objects : \/ LockObject(t, o) \/ UnlockObject(t, o)
                        \/ ObjectWait(t, o) \/ ObjectNotify(t, o)
  \/ PollRead(t)

Next == \E t \in Threads : Step(t) \/ Start(t) \/ ThreadInterrupt(t)

Spec == Init /\ [][Next]_vars

-----------------------------------------------------------------------------
(* Safety.                                                                 *)

\* t believes it is inside a synchronized region of o and is not waiting on o.
Inside(t, o) == held[t][o] > 0 /\ ~(pc[t] \in ParkedPC /\ obj[t] = o)

\* Mutual exclusion, across the change of a lock from thin to fat: two threads
\* are never both between a completed dvmLockObject and its dvmUnlockObject.
MutualExclusion ==
  \A o \in Objects : \A t, u \in Threads : Inside(t, o) /\ Inside(u, o) => t = u

\* Recursive enters after the first, wherever they are counted.
Depth(o) == IF lock[o].fat THEN lockCount[o] ELSE lock[o].count

\* The recursion depth in the lock word or the Monitor is what the application
\* did, so inflation at the count limit and wait() at any depth lose no level,
\* and dvmUnlockObject refuses nobody who is inside.
DepthPreserved ==
  \A o \in Objects : \A t \in Threads :
    Inside(t, o) =>
      /\ lockOwner(o) = t
      /\ held[t][o] = Depth(o) + 1

\* Whoever takes the pthread mutex of a Monitor finds no owner and no depth, as
\* the assertion at the end of lockMonitor has it.
FreeMeansClear ==
  \A o \in Objects :
    monLock[o] = NoThread \/ (\E t \in Threads : pc[t] = "own" /\ obj[t] = o)
      => owner[o] = NoThread /\ lockCount[o] = 0

Listed(u, o) == \E i \in 1 .. Len(waitSet[o]) : waitSet[o][i] = u

\* The list through waitNext, which a thread has only one of: a thread is in at
\* most one wait set, once, and only from its wait on that object.
WaitSetIntegrity ==
  \A o \in Objects :
    /\ \A i \in 1 .. Len(waitSet[o]) :
         pc[waitSet[o][i]] \in ParkedPC /\ obj[waitSet[o][i]] = o
    /\ \A i, j \in 1 .. Len(waitSet[o]) : waitSet[o][i] = waitSet[o][j] => i = j

Asleep(u) == pc[u] \in {"waitrelease", "condwait", "waiting"} /\ ~signalled[u]

\* No lost wakeup: a thread that sleeps, or is about to, and was not signalled is
\* still in the wait set or in the hands of a notifier inside the monitor.
SleeperCanBeWoken ==
  \A u \in Threads :
    Asleep(u) =>
      \/ Listed(u, obj[u])
      \/ \E t \in Threads : /\ pc[t] \in {"signal", "signalAll"}
                            /\ peer[t] = u
                            /\ obj[t] = obj[u]

\* No interrupt is slept through: it was seen before the sleep or it signals.
InterruptWakes ==
  \A t \in Threads :
    interrupted[t] => ~Asleep(t)

-----------------------------------------------------------------------------
(* The inductive invariant behind MutualExclusion and DepthPreserved.      *)

\* Control points at which a thread has a Monitor's mutex but is not its owner,
\* and those at which the lock it works on is known to be fat.
MutexPC == {"own", "unlockmutex", "waitmutex", "waitrelease", "waitdone"}
FatPC   == {"lockmon", "own", "unlockmutex"} \cup ParkedPC

\* The lock word is in normal form, a thin lock has no Monitor in use, and the
\* owner of a Monitor has its mutex.
WordOK(o) ==
  /\ lock[o].fat => lock[o].owner = NoThread
  /\ lock[o].owner = NoThread => lock[o].count = 0
  /\ ~lock[o].fat => monLock[o] = NoThread
  /\ owner[o] = NoThread => lockCount[o] = 0
  /\ owner[o] # NoThread => monLock[o] = owner[o]

WordInv == \A o \in Objects : WordOK(o)

PcOK(t) ==
  /\ pc[t] \notin {"idle", "poll"} => obj[t] \in Objects
  /\ pc[t] \in FatPC => lock[obj[t]].fat
  /\ pc[t] \in MutexPC => monLock[obj[t]] = t /\ owner[obj[t]] = NoThread
  /\ pc[t] \in {"inflate", "waitinflate"} => OwnsThin(t, obj[t])

PcInv == \A t \in Threads : PcOK(t)

\* A full count field is about to be inflated by the thread that filled it.
CountOK(o) ==
  lock[o].count = CountMask =>
    pc[lock[o].owner] = "inflate" /\ obj[lock[o].owner] = o

CountInv == \A o \in Objects : CountOK(o)

DepthOK(t, o) ==
  held[t][o] = IF lockOwner(o) = t THEN Depth(o) + 1
               ELSE IF pc[t] \in ParkedPC /\ obj[t] = o THEN prevLockCount[t] + 1
               ELSE 0

DepthInv == \A t \in Threads : \A o \in Objects : DepthOK(t, o)

\* Together they are inductive, whatever the constants are: who holds a Monitor's
\* mutex where, that no count field is full unless its owner is about to inflate
\* it, and that no level of recursion is lost when depth moves between the lock
\* word, the Monitor and a waiting thread.
IndInv == TypeOK /\ WordInv /\ PcInv /\ CountInv /\ DepthInv

-----------------------------------------------------------------------------
(* Action properties.                                                      *)

PendingInterrupt(t) == interrupted[t] \/ sawInterrupt[t]

\* An interrupt posted to a thread goes away only by being reported to it: by
\* InterruptedException, or by Thread.interrupted() returning true.
InterruptStep ==
  \A t \in Threads :
    PendingInterrupt(t) /\ ~PendingInterrupt(t)' =>
      exception'[t] = "Interrupted" \/ (pc[t] = "poll" /\ sawInterrupt[t])
InterruptReported == [][InterruptStep]_vars

-----------------------------------------------------------------------------
(* Refinement of the monitor Java promises.                                *)

IsParked(t) == pc[t] \in ParkedPC

Abstract == INSTANCE AbstractMonitor WITH
  depth     <- held,
  parkedOn  <- [t \in Threads |-> IF IsParked(t) THEN obj[t] ELSE NoObject],
  waking    <- [t \in Threads |->
                  IsParked(t) /\ (signalled[t] \/ pc[t] \in {"relock", "waitdone"})],
  limited   <- [t \in Threads |-> IsParked(t) /\ timed[t]],
  interrupt <- [t \in Threads |-> PendingInterrupt(t)]

\* dvmLockObject, dvmUnlockObject, dvmObjectWait, dvmObjectNotify and
\* dvmThreadInterrupt together implement the abstract monitor.
RefinesMonitor == Abstract!Spec
=============================================================================
