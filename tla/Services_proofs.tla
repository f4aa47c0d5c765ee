--------------------------- MODULE Services_proofs ---------------------------
(***************************************************************************)
(* Proofs about three services of the VM that do not know of each other:   *)
(* the instanceof cache, the requests for collections and the compiler of  *)
(* traces.  Each has its own specification, invariant and theorems, for    *)
(* any threads and sizes.                                                  *)
(***************************************************************************)
EXTENDS AtomicCache, HeapRequests, TraceCompiler, TLAPS

-----------------------------------------------------------------------------
(* AtomicCache: lookups are answered right.  The invariant is what the     *)
(* comments in AtomicCache.cpp rely on: one thread at a time updates the   *)
(* entry, the entry is consistent while its number is even, and what a     *)
(* reader has read under an even number that has not changed since is what *)
(* the entry still holds.  The number alone says so: the flag may have     *)
(* been set and cleared in between.                                        *)

Class    == Classes \cup {NoClass}
Pairs    == Class \X Class
Contents == Class \cup Pairs \cup {Unread}
Versions == [number : Nat, locked : BOOLEAN]
Updating == {"locked", "writing", "unlocking"}

CacheTypeOK ==
  /\ version \in Versions /\ first \in [Readers -> Versions]
  /\ entry \in [Fields -> Contents] /\ seen \in [Readers -> [Fields -> Contents]]
  /\ lookup \in [Readers -> {"none", "comparing", "missed", "answered"} \cup Updating]
  /\ keys \in [Readers -> Pairs] /\ answer \in [Readers -> Pairs]
  /\ unwritten \in [Readers -> SUBSET Fields]

\* The flag belongs to one thread, whose step the number tells.
OneUpdate ==
  /\ \A t, u \in Readers : lookup[t] \in Updating /\ lookup[u] \in Updating => t = u
  /\ version.locked => \E t \in Readers : lookup[t] \in Updating
  /\ ~version.locked => Even(version.number)
  /\ \A t \in Readers :
       /\ lookup[t] \in Updating => version.locked /\ Even(first[t].number)
       /\ lookup[t] = "locked" => version.number = first[t].number
       /\ lookup[t] = "writing" => version.number = first[t].number + 1
       /\ lookup[t] = "unlocking" => version.number = first[t].number + 2

\* An even number says that nothing is half written.
Consistent ==
  /\ Even(version.number) => entry["value"] = <<entry["key1"], entry["key2"]>>
  /\ \A t \in Readers : lookup[t] = "writing" =>
       \A f \in Fields \ unwritten[t] : entry[f] = FieldsFor(keys[t])[f]

\* What has been read under it is still there.
SeenIsCurrent ==
  \A t \in Readers :
    /\ first[t].number <= version.number
    /\ lookup[t] # "comparing" => seen[t] = NothingSeen
    /\ Even(first[t].number) /\ first[t].number = version.number =>
         \A f \in Fields : seen[t][f] \in {Unread, entry[f]}

LookupInv == CacheTypeOK /\ OneUpdate /\ Consistent /\ SeenIsCurrent /\ AnswersAreRight

-----------------------------------------------------------------------------
\* Odd and even numbers alternate.
LEMMA Parity == \A n \in Nat : /\ Even(n) => ~Even(n + 1) /\ Even(n + 2)
                               /\ Even(0)
  BY DEF Even

\* The fields of an entry for two keys.
LEMMA FieldsOf ==
  ASSUME NEW k \in Pairs
  PROVE  /\ FieldsFor(k) \in [Fields -> Contents]
         /\ FieldsFor(k)["key1"] = k[1] /\ FieldsFor(k)["key2"] = k[2] /\ FieldsFor(k)["value"] = k
         /\ k = <<k[1], k[2]>>
  BY DEF FieldsFor, Fields, Contents, Pairs

\* Everything is empty.
LEMMA InitLookupInv == CacheInit => LookupInv
<1> SUFFICES ASSUME CacheInit PROVE LookupInv
  OBVIOUS
<1>1. NoKeys \in Pairs /\ NothingSeen \in [Fields -> Contents] /\ NoVersion \in Versions
  BY DEF NoKeys, Pairs, Class, NothingSeen, Contents, NoVersion, Versions
<1>2. CacheTypeOK
  BY <1>1, FieldsOf DEF CacheInit, CacheTypeOK
<1>3. version.number = 0 /\ ~version.locked /\ Even(version.number)
  BY Parity DEF CacheInit, NoVersion
<1>4. OneUpdate /\ AnswersAreRight
  BY <1>3 DEF CacheInit, OneUpdate, AnswersAreRight, Updating
<1>5. Consistent
  BY <1>1, FieldsOf DEF CacheInit, Consistent
<1>6. SeenIsCurrent
  <2>1. \A t \in Readers : first[t].number = 0 /\ seen[t] = NothingSeen
    BY DEF CacheInit, NoVersion
  <2>2. \A f \in Fields : NothingSeen[f] = Unread
    BY DEF NothingSeen
  <2>3. \A t \in Readers : first[t].number <= version.number
    <3>1. 0 <= 0
      OBVIOUS
    <3>2. \A t \in Readers : first[t].number = version.number /\ version.number = 0
      BY <1>3, <2>1
    <3>3. QED
      BY <3>1, <3>2
  <2>4. \A t \in Readers : \A f \in Fields : seen[t][f] = Unread
    BY <2>1, <2>2
  <2>5. QED
    BY <2>1, <2>3, <2>4 DEF SeenIsCurrent
<1>7. QED
  BY <1>2, <1>4, <1>5, <1>6 DEF LookupInv

-----------------------------------------------------------------------------
(* Lookups leave the entry alone.                                          *)

USE DEF LookupInv, CacheTypeOK, OneUpdate, Consistent, SeenIsCurrent, AnswersAreRight, Versions,
        Updating, Turn, Forget

\* Each step of a lookup keeps the invariant.
LEMMA LookupStep ==
  ASSUME LookupInv, NEW t \in Readers, CacheLookup(t)
  PROVE  LookupInv'
<1>1. NoKeys \in Pairs /\ NothingSeen \in [Fields -> Contents] /\ NoVersion \in Versions
  BY DEF NoKeys, Pairs, Class, NothingSeen, Contents, NoVersion, Versions
<1>2. Classes \X Classes \subseteq Pairs
  BY DEF Pairs, Class
<1>3. CASE ReadVersion(t)
  BY <1>2, <1>3 DEF ReadVersion, NothingSeen
<1>4. CASE ReadField(t)
  BY <1>4 DEF ReadField
<1>5. CASE Hit(t)
  <2>1. NoClash(t) => seen[t]["value"] = keys[t]
    <3>1. SUFFICES ASSUME NoClash(t) PROVE seen[t]["value"] = keys[t]
      OBVIOUS
    <3>2. \A f \in Fields : seen[t][f] = entry[f]
      BY <1>5, <3>1 DEF Hit, Matches, NoClash
    <3>3. entry["key1"] = keys[t][1] /\ entry["key2"] = keys[t][2]
      BY <1>5, <3>2, FieldsOf DEF Hit, Matches, Differs, Fields
    <3>4. entry["value"] = keys[t]
      BY <3>1, <3>3, FieldsOf DEF NoClash
    <3>5. QED
      BY <3>2, <3>4 DEF Fields
  <2>2. QED
    BY <1>1, <1>5, <2>1 DEF Hit, NothingSeen
<1>6. CASE Miss(t)
  BY <1>1, <1>6 DEF Miss, NothingSeen
<1>7. CASE Answered(t)
  BY <1>1, <1>7 DEF Answered, NoVersion
<1>8. QED
  BY <1>3, <1>4, <1>5, <1>6, <1>7 DEF CacheLookup

-----------------------------------------------------------------------------
(* Updates exclude each other.                                             *)

\* Each step of an update keeps the invariant.
LEMMA UpdateStep ==
  ASSUME LookupInv, NEW t \in Readers, CacheUpdate(t)
  PROVE  LookupInv'
<1>1. CASE LockEntry(t)
  <2>1. /\ lookup[t] = "missed" /\ version = first[t] /\ ~version.locked
        /\ version' = [version EXCEPT !.locked = TRUE]
        /\ lookup' = [lookup EXCEPT ![t] = "locked"]
        /\ UNCHANGED <<entry, keys, first, seen, unwritten, answer>>
    BY <1>1 DEF LockEntry, MayLock
  <2>2. version'.number = version.number /\ version'.locked /\ version' \in Versions
    BY <2>1
  <2>3. CacheTypeOK'
    BY <2>1, <2>2
  <2>4. OneUpdate'
    <3>1. \A u \in Readers : lookup[u] \notin Updating
      BY <2>1
    <3>2. Even(version.number) /\ first[t].number = version.number
      BY <2>1
    <3>3. QED
      BY <2>1, <2>2, <3>1, <3>2
  <2>5. Consistent'
    BY <2>1, <2>2
  <2>6. SeenIsCurrent'
    BY <2>1, <2>2
  <2>7. AnswersAreRight'
    BY <2>1
  <2>8. QED
    BY <2>3, <2>4, <2>5, <2>6, <2>7
<1>2. CASE Contention(t)
  BY <1>2 DEF Contention
<1>3. CASE StartUpdate(t)
  BY <1>3, Parity DEF StartUpdate
<1>4. CASE WriteField(t)
  <2>1. ~Even(version.number)
    BY <1>4, Parity DEF WriteField
  <2>2. QED
    BY <1>4, <2>1, FieldsOf DEF WriteField
<1>5. CASE EndUpdate(t)
  <2>1. entry["value"] = <<entry["key1"], entry["key2"]>>
    <3>1. \A f \in Fields : entry[f] = FieldsFor(keys[t])[f]
      BY <1>5 DEF EndUpdate
    <3>2. entry["value"] = keys[t] /\ entry["key1"] = keys[t][1] /\ entry["key2"] = keys[t][2]
      BY <3>1, FieldsOf DEF Fields
    <3>3. QED
      BY <3>2, FieldsOf
  <2>2. QED
    BY <1>5, <2>1, Parity DEF EndUpdate
<1>6. CASE UnlockEntry(t)
  <2>1. version.number = first[t].number + 2 /\ version.locked
    BY <1>6 DEF UnlockEntry
  <2>2. version = [number |-> first[t].number + 2, locked |-> TRUE]
    BY <2>1
  <2>3. Even(version.number)
    BY <2>1, <1>6, Parity DEF UnlockEntry
  <2>4. version' = [number |-> version.number, locked |-> FALSE] /\ lookup' = [lookup EXCEPT ![t] = "answered"]
    BY <1>6, <2>2 DEF UnlockEntry
  <2>5. answer[t] = keys[t]
    BY <1>6 DEF UnlockEntry
  <2>6. QED
    BY <1>6, <2>3, <2>4, <2>5 DEF UnlockEntry
<1>7. QED
  BY <1>1, <1>2, <1>3, <1>4, <1>5, <1>6 DEF CacheUpdate

-----------------------------------------------------------------------------
HIDE DEF LookupInv, AnswersAreRight

\* Every step of the specification keeps the invariant.
LEMMA LookupInvStep == LookupInv /\ [CacheNext]_cacheVars => LookupInv'
<1> SUFFICES ASSUME LookupInv, [CacheNext]_cacheVars PROVE LookupInv'
  OBVIOUS
<1>1. CASE UNCHANGED cacheVars
  BY <1>1 DEF cacheVars, LookupInv, AnswersAreRight
<1>2. CASE CacheNext
  BY <1>2, LookupStep, UpdateStep DEF CacheNext
<1>3. QED
  BY <1>1, <1>2

\* Lookups are answered with the value of their keys and updates never abort.
THEOREM LookupsAreRight == CacheSpec => []AnswersAreRight
<1>1. LookupInv => AnswersAreRight
  BY DEF LookupInv
<1>2. QED
  BY <1>1, InitLookupInv, LookupInvStep, PTL DEF CacheSpec

HIDE DEF CacheTypeOK, OneUpdate, Consistent, SeenIsCurrent, Versions, Updating, Turn, Forget

-----------------------------------------------------------------------------
(* HeapRequests: collections exclude each other, nobody is left in         *)
(* gcHeapCond without a collection that will wake him, and the collections *)
(* a request promises have been made.  All three rest on who has the heap  *)
(* lock: gcRunning is only set with it, so that a thread that has it and   *)
(* has found no collection running may rely on that until it starts its    *)
(* own.                                                                    *)

Specs == {"none", "GC_FOR_MALLOC", "GC_BEFORE_OOM", "GC_EXPLICIT", "GC_CONCURRENT", "trim"}
Calls == [request : {"none", "malloc", "huge", "gc"}, spec : Specs, tries : 0..3, made : SUBSET Specs]

\* Where a thread has the heap lock, and where its collection is running.
LockedPoints == {"await", "awake", "attempt", "collect", "stop", "stopping", "mark", "markAll",
                 "resumeAll", "restop", "restopping", "remark", "free", "finish", "trim", "check",
                 "collected"}
Points == LockedPoints \cup {"idle", "lockHeap", "asleep", "oome", "returned", "resume", "relock",
                            "resumeSweep", "sweep", "lockSweep", "lockFinish", "begin", "loop",
                            "parked", "lockDaemon", "gone"}
RunPoints == {"stop", "stopping", "mark", "markAll", "resume", "relock", "restop", "restopping",
              "remark", "resumeSweep", "sweep", "lockSweep", "free", "lockFinish", "finish"}
Holds(t) == wait[t] = "locked" \/ pc[t] \in LockedPoints
Runs(t)  == pc[t] \in RunPoints

HeapTypeOK ==
  /\ pc \in [Threads -> Points] /\ wait \in [Threads -> {"no", "blocked", "locked"}]
  /\ call \in [Threads -> Calls]
  /\ heapWaiters \subseteq Threads /\ gcRunning \in BOOLEAN

\* The lock has the owner that the code believes it has.
Owned == \A t \in Threads : /\ heapLock = t <=> Holds(t)
                            /\ wait[t] # "no" => pc[t] \in LockPoints

\* One collection at a time, as gcRunning says.
OneCollection == /\ gcRunning <=> \E t \in Threads : Runs(t)
                 /\ \A t, u \in Threads : Runs(t) /\ Runs(u) => t = u

\* Who sleeps in gcHeapCond will be woken; a collection that does not release
\* the heap lock, or has not yet, has nobody to wake.
SleepersAwaited == /\ heapWaiters # {} => gcRunning
                   /\ \A t \in Threads : pc[t] \in {"stop", "stopping", "mark", "markAll"}
                                           => heapWaiters = {}

\* How far a thread is with its request.
Collects(t) == Runs(t) \/ pc[t] \in {"collect", "resumeAll"}
Progress(t) ==
  LET c == call[t] IN
  /\ pc[t] \in {"idle", "lockHeap"} => c.tries = 0
  /\ pc[t] \in {"await", "asleep", "awake"} => c.tries \in {0, 1}
  /\ pc[t] \in {"attempt", "oome"} => c.request # "gc"
  /\ pc[t] \in {"trim", "returned"} => c.request = "gc" /\ "GC_EXPLICIT" \in c.made
  /\ pc[t] = "resumeAll" => c.spec \in c.made /\ ~gcRunning
  /\ c.request = "gc" /\ Collects(t) => c.spec = "GC_EXPLICIT"
  /\ c.request = "malloc" /\ c.tries = 3 =>
       /\ Collects(t) => c.spec = "GC_BEFORE_OOM"
       /\ pc[t] \in {"attempt", "oome"} => "GC_BEFORE_OOM" \in c.made
  /\ pc[t] = "oome" => c.tries = 3
  /\ pc[t] = "collect" /\ c.request \in {"malloc", "gc"} => ~gcRunning
  /\ pc[t] = "attempt" /\ c.tries > 0 /\ c.request = "malloc" => ~gcRunning

AllProgress == \A t \in Mutators : Progress(t)

HeapInv == HeapTypeOK /\ Owned /\ OneCollection /\ SleepersAwaited /\ AllProgress

-----------------------------------------------------------------------------
(* The invariant holds initially, and every step of a thread keeps it.     *)

USE HeapAssumption DEF Threads
USE DEF HeapInv, HeapTypeOK, Calls, Specs, Points, LockedPoints, RunPoints, LockPoints, Holds, Runs,
        Owned, OneCollection, SleepersAwaited, AllProgress, Progress, Collects
USE DEF Goto, CollectFor, AfterLock, AfterCollect, Note, NoCall, WokenWaiters, WaitsForGc,
        IsConcurrent, locks, daemon, world, bounds

\* Everybody is outside, the daemon at its beginning.
LEMMA InitHeapInv == HeapInit => HeapInv
<1> SUFFICES ASSUME HeapInit PROVE HeapInv
  OBVIOUS
<1>1. \A t \in Threads : pc[t] \in {"idle", "begin"} /\ wait[t] = "no" /\ call[t] = NoCall
  BY DEF HeapInit
<1>2. HeapTypeOK
  <2>1. NoCall \in Calls
    OBVIOUS
  <2>2. call \in [Threads -> Calls]
    BY <2>1 DEF HeapInit
  <2>3. pc \in [Threads -> Points] /\ wait \in [Threads -> {"no", "blocked", "locked"}]
    BY DEF HeapInit
  <2>4. QED
    BY <2>2, <2>3 DEF HeapInit
<1>3. Owned /\ OneCollection /\ SleepersAwaited
  BY <1>1 DEF HeapInit
<1>4. AllProgress
  BY <1>1
<1>5. QED
  BY <1>2, <1>3, <1>4

\* dvmLockHeap: the lock is free when it is taken.
LEMMA LockingStep ==
  ASSUME HeapInv, NEW t \in Threads, Locking(t)
  PROVE  HeapInv'
<1>1. CASE TryLockHeap(t)
  <2>1. CASE heapLock = NoThread
    <3>1. /\ pc[t] \in LockPoints /\ wait[t] = "no" /\ heapLock' = t /\ Goto(t, AfterLock(t))
          /\ UNCHANGED <<status, wait, gcRunning, heapWaiters, daemon, world, call>>
      BY <1>1, <2>1 DEF TryLockHeap
    <3>2. HeapTypeOK'
      BY <3>1
    <3>3. Owned'
      <4>1. \A u \in Threads : ~Holds(u)
        BY <2>1, <3>1
      <4>2. Holds(t)' /\ \A u \in Threads \ {t} : ~Holds(u)'
        BY <3>1, <4>1
      <4>3. QED
        BY <3>1, <4>2
    <3>4. OneCollection' /\ SleepersAwaited'
      BY <2>1, <3>1
    <3>5. AllProgress'
      BY <2>1, <3>1
    <3>6. QED
      BY <3>2, <3>3, <3>4, <3>5
  <2>2. CASE heapLock # NoThread
    BY <1>1, <2>2 DEF TryLockHeap
  <2>3. QED
    BY <2>1, <2>2
<1>2. CASE LockHeap(t)
  <2>1. /\ wait[t] = "blocked" /\ heapLock = NoThread
        /\ heapLock' = t /\ wait' = [wait EXCEPT ![t] = "locked"]
        /\ UNCHANGED <<status, pc, gcRunning, heapWaiters, daemon, world, call>>
    BY <1>2 DEF LockHeap
  <2>2. HeapTypeOK'
    BY <2>1
  <2>3. Owned'
    <3>1. \A u \in Threads : ~Holds(u)
      BY <2>1
    <3>2. Holds(t)' /\ \A u \in Threads \ {t} : ~Holds(u)'
      BY <2>1, <3>1
    <3>3. QED
      BY <2>1, <3>2
  <2>4. OneCollection' /\ SleepersAwaited' /\ AllProgress'
    BY <2>1
  <2>5. QED
    BY <2>2, <2>3, <2>4
<1>3. CASE LockedHeap(t)
  <2>1. /\ wait[t] = "locked" /\ wait' = [wait EXCEPT ![t] = "no"] /\ Goto(t, AfterLock(t))
        /\ UNCHANGED <<locks, daemon, world, call>>
    BY <1>3 DEF LockedHeap
  <2>2. pc[t] \in LockPoints /\ AfterLock(t) \in LockedPoints
    BY <2>1
  <2>3. HeapTypeOK'
    BY <2>1, <2>2
  <2>4. Owned'
    BY <2>1, <2>2
  <2>5. OneCollection' /\ SleepersAwaited'
    BY <2>1, <2>2
  <2>6. AllProgress'
    BY <2>1, <2>2
  <2>7. QED
    BY <2>3, <2>4, <2>5, <2>6
<1>4. QED
  BY <1>1, <1>2, <1>3 DEF Locking

\* dvmWaitForConcurrentGcToComplete: a collection runs when the lock is given up
\* for the condition, and none when the wait is over.
LEMMA WaitingStep ==
  ASSUME HeapInv, NEW t \in Threads, Waiting(t)
  PROVE  HeapInv'
<1>1. CASE WaitForGc(t)
  BY <1>1 DEF WaitForGc
<1>2. CASE WakeUp(t)
  BY <1>2 DEF WakeUp
<1>3. CASE RunAgain(t)
  BY <1>3 DEF RunAgain
<1>4. CASE GcComplete(t)
  BY <1>4 DEF GcComplete
<1>5. QED
  BY <1>1, <1>2, <1>3, <1>4 DEF Waiting

\* dvmMalloc: only the last two attempts have collected.
LEMMA AllocatingStep ==
  ASSUME HeapInv, NEW t \in Threads, Allocating(t)
  PROVE  HeapInv'
<1>1. CASE Succeed(t)
  BY <1>1 DEF Succeed
<1>2. CASE FirstFailure(t)
  BY <1>2 DEF FirstFailure
<1>3. CASE Oversize(t)
  BY <1>3 DEF Oversize
<1>4. CASE LaterFailure(t)
  BY <1>4 DEF LaterFailure
<1>5. CASE OutOfMemory(t)
  BY <1>5 DEF OutOfMemory
<1>6. QED
  BY <1>1, <1>2, <1>3, <1>4, <1>5 DEF Allocating

\* dvmCollectGarbageInternal: who sets gcRunning has the lock and found it clear.
LEMMA CollectingStep ==
  ASSUME HeapInv, NEW t \in Threads, Collecting(t)
  PROVE  HeapInv'
<1>1. CASE CollectRecursively(t)
  BY <1>1 DEF CollectRecursively
<1>2. CASE Collect(t)
  BY <1>2 DEF Collect
<1>3. CASE RaiseCounts(t)
  BY <1>3 DEF RaiseCounts
<1>4. CASE AllStopped(t)
  BY <1>4 DEF AllStopped
<1>5. CASE UnlockInPause(t)
  BY <1>5 DEF UnlockInPause
<1>6. CASE Resume(t)
  <2>1. HeapTypeOK' /\ Owned'
    BY <1>6 DEF Resume
  <2>2. OneCollection' /\ SleepersAwaited'
    BY <1>6 DEF Resume
  <2>3. ASSUME NEW u \in Mutators PROVE Progress(u)'
    <3>1. CASE u = t
      <4>1. UNCHANGED <<call, gcRunning>>
        BY <1>6 DEF Resume
      <4>2. CASE pc[t] = "resumeAll"
        <5>1. pc'[t] = IF call[t].request = "gc" THEN "trim" ELSE "attempt"
          BY <1>6, <3>1, <4>2 DEF Resume
        <5>2. ~gcRunning'
          BY <4>1, <4>2, <3>1
        <5>3. QED
          BY <3>1, <4>1, <4>2, <5>1, <5>2
      <4>3. CASE pc[t] \in {"resume", "resumeSweep"}
        <5>1. pc'[t] \in {"relock", "sweep"}
          BY <1>6, <4>3 DEF Resume
        <5>2. QED
          BY <3>1, <4>1, <4>3, <5>1
      <4>4. QED
        BY <1>6, <4>2, <4>3 DEF Resume
    <3>2. CASE u # t
      BY <1>6, <3>2 DEF Resume
    <3>3. QED
      BY <3>1, <3>2
  <2>4. QED
    BY <2>1, <2>2, <2>3
<1>7. CASE Sweep(t)
  BY <1>7 DEF Sweep
<1>8. CASE FreeList(t)
  BY <1>8 DEF FreeList
<1>9. CASE FinishConcurrent(t)
  <2>1. HeapTypeOK' /\ Owned'
    <3>1. call[t].made \cup {call[t].spec} \in SUBSET Specs
      OBVIOUS
    <3>2. call' \in [Threads -> Calls]
      BY <1>9, <3>1 DEF FinishConcurrent
    <3>3. pc' \in [Threads -> Points] /\ wait' \in [Threads -> {"no", "blocked", "locked"}]
          /\ heapWaiters' \subseteq Threads /\ gcRunning' \in BOOLEAN
      BY <1>9 DEF FinishConcurrent
    <3>4. Owned'
      BY <1>9 DEF FinishConcurrent
    <3>5. QED
      BY <3>2, <3>3, <3>4
  <2>2. OneCollection' /\ SleepersAwaited'
    BY <1>9 DEF FinishConcurrent
  <2>3. ASSUME NEW u \in Mutators PROVE Progress(u)'
    <3>1. CASE u = t
      BY <1>9, <3>1 DEF FinishConcurrent
    <3>2. CASE u # t
      BY <1>9, <3>2 DEF FinishConcurrent
    <3>3. QED
      BY <3>1, <3>2
  <2>4. QED
    BY <2>1, <2>2, <2>3
<1>10. CASE FinishStopped(t)
  <2>1. HeapTypeOK' /\ Owned'
    <3>1. call[t].made \cup {call[t].spec} \in SUBSET Specs
      OBVIOUS
    <3>2. call' \in [Threads -> Calls]
      BY <1>10, <3>1 DEF FinishStopped
    <3>3. pc' \in [Threads -> Points] /\ wait' \in [Threads -> {"no", "blocked", "locked"}]
          /\ heapWaiters' \subseteq Threads /\ gcRunning' \in BOOLEAN
      BY <1>10 DEF FinishStopped
    <3>4. Owned'
      BY <1>10 DEF FinishStopped
    <3>5. QED
      BY <3>2, <3>3, <3>4
  <2>2. OneCollection' /\ SleepersAwaited'
    BY <1>10 DEF FinishStopped
  <2>3. ASSUME NEW u \in Mutators PROVE Progress(u)'
    <3>1. CASE u = t
      BY <1>10, <3>1 DEF FinishStopped
    <3>2. CASE u # t
      BY <1>10, <3>2 DEF FinishStopped
    <3>3. QED
      BY <3>1, <3>2
  <2>4. QED
    BY <2>1, <2>2, <2>3
<1>11. CASE ExplicitDone(t)
  BY <1>11 DEF ExplicitDone
<1>12. QED
  BY <1>1, <1>2, <1>3, <1>4, <1>5, <1>6, <1>7, <1>8, <1>9, <1>10, <1>11 DEF Collecting

\* The daemon looks at gcRunning with the lock.
LEMMA DaemonSteps ==
  ASSUME HeapInv, DaemonStep
  PROVE  HeapInv'
<1>1. CASE LockGcThread
  BY <1>1 DEF LockGcThread
<1>2. CASE Park
  BY <1>2 DEF Park
<1>3. CASE Unpark
  BY <1>3 DEF Unpark
<1>4. CASE LeaveIt
  BY <1>4 DEF LeaveIt
<1>5. CASE DaemonRuns
  BY <1>5 DEF DaemonRuns
<1>6. CASE DaemonDone
  BY <1>6 DEF DaemonDone
<1>7. CASE DaemonExits
  BY <1>7 DEF DaemonExits
<1>8. QED
  BY <1>1, <1>2, <1>3, <1>4, <1>5, <1>6, <1>7 DEF DaemonStep

\* A call returns without the lock.
LEMMA ReturnStep ==
  ASSUME HeapInv, NEW t \in Threads, Return(t)
  PROVE  HeapInv'
  BY DEF Return

\* And begins without it.
LEMMA RequestStep ==
  ASSUME HeapInv, NEW t \in Mutators, Request(t)
  PROVE  HeapInv'
  BY DEF Request

\* Shutdown and the JIT compiler's stops are no concern of the heap lock's.
LEMMA OtherHeapSteps ==
  ASSUME HeapInv, DaemonShutdown \/ JitStops \/ JitStep \/ UNCHANGED heapVars
  PROVE  HeapInv'
<1>1. UNCHANGED <<heapLock, gcRunning, heapWaiters, pc, wait, call>>
  BY DEF DaemonShutdown, JitStops, JitStep, JitStopped, JitResumes, heapVars
<1>2. QED
  BY <1>1

-----------------------------------------------------------------------------
(* The theorems.                                                           *)

HIDE DEF HeapInv

\* Every step of the specification keeps the invariant.
LEMMA HeapInvStep == HeapInv /\ [HeapNext]_heapVars => HeapInv'
<1> SUFFICES ASSUME HeapInv, [HeapNext]_heapVars PROVE HeapInv'
  OBVIOUS
<1>1. ASSUME NEW t \in Threads, HeapStep(t) PROVE HeapInv'
  <2>1. CASE Locking(t)
    BY <2>1, LockingStep
  <2>2. CASE Waiting(t)
    BY <2>2, WaitingStep
  <2>3. CASE Allocating(t)
    BY <2>3, AllocatingStep
  <2>4. CASE Collecting(t)
    BY <2>4, CollectingStep
  <2>5. CASE Return(t)
    BY <2>5, ReturnStep
  <2>6. QED
    BY <1>1, <2>1, <2>2, <2>3, <2>4, <2>5 DEF HeapStep
<1>2. ASSUME NEW t \in Mutators, Request(t) PROVE HeapInv'
  BY <1>2, RequestStep
<1>3. CASE DaemonStep
  BY <1>3, DaemonSteps
<1>4. CASE DaemonShutdown \/ JitStops \/ JitStep \/ UNCHANGED heapVars
  BY <1>4, OtherHeapSteps
<1>5. QED
  BY <1>1, <1>2, <1>3, <1>4 DEF HeapNext

\* The invariant holds for ever.
THEOREM HeapInvariance == HeapSpec => []HeapInv
  BY InitHeapInv, HeapInvStep, PTL DEF HeapSpec

\* At most one collection runs, whatever is allocated meanwhile, and whoever
\* waits in gcHeapCond waits for one.
THEOREM CollectionsExclude == HeapSpec => [](OneCollection /\ SleepersAwaited)
<1>1. HeapInv => OneCollection /\ SleepersAwaited
  BY DEF HeapInv
<1>2. QED
  BY <1>1, HeapInvariance, PTL

\* No allocation that would fit the heap fails before a collection of its own
\* has cleared the soft references (tryMalloc), and System.gc() has always
\* collected, whoever else was collecting when it was called.
THEOREM RequestsAreHonoured == HeapSpec => []RequestsHonoured
<1>1. HeapInv => RequestsHonoured
  BY DEF HeapInv, RequestsHonoured
<1>2. QED
  BY <1>1, HeapInvariance, PTL

HIDE HeapAssumption DEF Threads
HIDE DEF HeapTypeOK, Calls, Specs, Points, LockedPoints, RunPoints, LockPoints, Holds, Runs,
         Owned, OneCollection, SleepersAwaited, AllProgress, Progress, Collects
HIDE DEF Goto, CollectFor, AfterLock, AfterCollect, Note, NoCall, WokenWaiters, WaitsForGc,
         IsConcurrent, locks, daemon, world, bounds

-----------------------------------------------------------------------------
(* TraceCompiler: no wiped code is ever reached.  A wipe is known by its   *)
(* number only to the history variable; the code has cacheVersion.         *)
(* CacheInv says that the one stands for the other: whatever carries the   *)
(* current version, a work order or code that waits to be installed, dates *)
(* from the current wipe and has its entry in the table, and nothing       *)
(* carries a later one.                                                    *)

Modes == {"interpreting", "selecting", "draining", "translated", "calling", "updating"}
Orders == [pc : TraceHeads, version : Nat]

\* The steps at which there is no work order in hand.
Idle == {"top", "waiting", "done", "gone"}

JitTypeOK ==
  /\ workQueue \in Seq(Orders)
  /\ cacheVersion \in Nat /\ wipes \in Nat /\ methodTraceSupport \in BOOLEAN
  /\ jitTable \in [TraceHeads -> Bare \cup Translations]
  /\ mode \in [Interpreters -> Modes]
  /\ trace \in [Interpreters -> TraceHeads \cup {Nobody}]
  /\ running \in [Interpreters -> Bare \cup Translations]
  /\ order.version \in Nat

\* A work order of the current version has its entry.
Fresh(o) == /\ o.version <= cacheVersion
            /\ o.version = cacheVersion => jitTable[o.pc] # NoEntry

Selectors  == \A m \in Interpreters : mode[m] = "selecting" => trace[m] \in TraceHeads
QueueFresh == \A i \in 1..Len(workQueue) : Fresh(workQueue[i])
OrderFresh == step \notin Idle => order.pc \in TraceHeads /\ Fresh(order)
CodeFresh ==
  step \in {"class pointers", "running", "install"} =>
    /\ result \in Translations
    /\ order.version = cacheVersion => result.wipe = wipes

CacheInv == JitTypeOK /\ TranslationsCurrent /\ Selectors /\ QueueFresh /\ OrderFresh /\ CodeFresh

\* What of the state the invariant is about, without the threads and the
\* compiler's own variables.
code == <<workQueue, cacheVersion, wipes, methodTraceSupport, jitTable>>

\* What is in the queue is a work order.
LEMMA QueueMembers ==
  ASSUME JitTypeOK, NEW i \in 1..Len(workQueue)
  PROVE  workQueue[i].pc \in TraceHeads /\ workQueue[i].version \in Nat
<1>1. workQueue[i] \in Orders
  BY DEF JitTypeOK
<1>2. QED
  BY <1>1 DEF Orders

\* Initially there is nothing.
LEMMA InitCacheInv == JitInit => CacheInv
<1> SUFFICES ASSUME JitInit PROVE CacheInv
  OBVIOUS
<1>1. workQueue \in Seq(Orders) /\ order.version \in Nat
  BY DEF JitInit, NoOrder
<1>2. JitTypeOK
  <2>1. cacheVersion \in Nat /\ wipes \in Nat /\ methodTraceSupport \in BOOLEAN
    BY DEF JitInit
  <2>2. jitTable \in [TraceHeads -> Bare \cup Translations]
    BY DEF JitInit, Bare
  <2>3. mode \in [Interpreters -> Modes] /\ trace \in [Interpreters -> TraceHeads \cup {Nobody}]
    BY DEF JitInit, NoTrace, Modes
  <2>4. running \in [Interpreters -> Bare \cup Translations]
    BY DEF JitInit, Bare
  <2>5. QED
    BY <1>1, <2>1, <2>2, <2>3, <2>4 DEF JitTypeOK
<1>3. TranslationsCurrent
  BY DEF JitInit, TranslationsCurrent, Bare, InTranslation
<1>4. Selectors /\ QueueFresh /\ OrderFresh /\ CodeFresh
  BY DEF JitInit, Selectors, QueueFresh, OrderFresh, CodeFresh, Idle
<1>5. QED
  BY <1>2, <1>3, <1>4 DEF CacheInv

-----------------------------------------------------------------------------
(* Steps that change neither code nor table nor queue.                     *)

\* The compiler's thread goes on, or drops its order.
LEMMA CompilerMoves ==
  ASSUME CacheInv, UNCHANGED <<code, thread>>,
         \/ order' = order /\ result' = result
         \/ order' = NoOrder /\ step' \in Idle,
         step' \notin Idle => step \notin Idle,
         step' \in {"class pointers", "running", "install"}
           => step \in {"class pointers", "running", "install"}
  PROVE  CacheInv'
<1>1. JitTypeOK'
  <2>1. order'.version \in Nat
    <3>1. NoOrder.version \in Nat
      BY DEF NoOrder
    <3>2. QED
      BY <3>1 DEF CacheInv, JitTypeOK
  <2>2. QED
    BY <2>1 DEF CacheInv, JitTypeOK, code, thread
<1>2. OrderFresh'
  BY DEF CacheInv, OrderFresh, Fresh, code
<1>3. TranslationsCurrent'
  BY <1>2 DEF CacheInv, TranslationsCurrent, OrderFresh, Fresh, Idle, InTranslation, StillCurrent,
              code, thread
<1>4. Selectors' /\ QueueFresh'
  BY DEF CacheInv, Selectors, QueueFresh, Fresh, code, thread
<1>5. CodeFresh'
  BY DEF CacheInv, CodeFresh, code, Idle
<1>6. QED
  BY <1>1, <1>2, <1>3, <1>4, <1>5 DEF CacheInv

\* A thread starts no selection and enters no translation.
LEMMA ThreadMoves ==
  ASSUME CacheInv, UNCHANGED <<code, work>>,
         mode' \in [Interpreters -> Modes],
         trace' \in [Interpreters -> TraceHeads \cup {Nobody}],
         running' \in [Interpreters -> Bare \cup Translations],
         \A m \in Interpreters :
           /\ mode'[m] = "selecting" => mode[m] = "selecting" /\ trace'[m] = trace[m]
           /\ InTranslation(m)' => running'[m].wipe = wipes
  PROVE  CacheInv'
<1>1. JitTypeOK'
  BY DEF CacheInv, JitTypeOK, code, work, Orders
<1>2. TranslationsCurrent'
  BY DEF CacheInv, TranslationsCurrent, InTranslation, StillCurrent, code, work
<1>3. Selectors' /\ QueueFresh'
  BY DEF CacheInv, Selectors, QueueFresh, Fresh, code
<1>4. OrderFresh' /\ CodeFresh'
  BY DEF CacheInv, OrderFresh, CodeFresh, Fresh, code, work
<1>5. QED
  BY <1>1, <1>2, <1>3, <1>4 DEF CacheInv

-----------------------------------------------------------------------------
(* Steps of the interpreting threads that do.                              *)

\* The new entry is not the absence of one.
LEMMA SelectStep ==
  ASSUME CacheInv, NEW m \in Interpreters, SelectTrace(m)
  PROVE  CacheInv'
<1>1. PICK p \in TraceHeads : /\ jitTable[p] = NoEntry
                              /\ jitTable' = [jitTable EXCEPT ![p] = NoCode]
                              /\ trace' = [trace EXCEPT ![m] = p]
  BY DEF SelectTrace
<1>2. /\ mode' = [mode EXCEPT ![m] = "selecting"]
      /\ UNCHANGED <<workQueue, cacheVersion, wipes, methodTraceSupport, step, order, result, running>>
  BY DEF SelectTrace, Enter, cache, work
<1>3. JitTypeOK'
  BY <1>1, <1>2 DEF CacheInv, JitTypeOK, Bare, Modes
<1>4. \A q \in TraceHeads : jitTable[q] # NoEntry => jitTable'[q] # NoEntry
  BY <1>1 DEF CacheInv, JitTypeOK
<1>5. \A q \in TraceHeads : jitTable'[q] = NoCode \/ jitTable'[q] = jitTable[q]
  BY <1>1 DEF CacheInv, JitTypeOK
<1>6. jitTable'[p] = NoCode /\ NoCode # NoEntry
  BY <1>1, JitAssumption DEF CacheInv, JitTypeOK
<1>7. Selectors'
  BY <1>1, <1>2 DEF CacheInv, JitTypeOK, Selectors
<1>8. QueueFresh'
  <2>1. \A i \in 1..Len(workQueue) : workQueue[i].pc \in TraceHeads
    BY QueueMembers DEF CacheInv
  <2>2. QED
    BY <1>2, <1>4, <2>1 DEF CacheInv, QueueFresh, Fresh
<1>9. OrderFresh' /\ CodeFresh'
  BY <1>2, <1>4 DEF CacheInv, OrderFresh, CodeFresh, Fresh
<1>10. TranslationsCurrent'
  <2>1. \A q \in TraceHeads : jitTable'[q] \notin Bare => jitTable'[q].wipe = wipes'
    BY <1>2, <1>5 DEF CacheInv, TranslationsCurrent, Bare
  <2>2. \A n \in Interpreters : InTranslation(n)' => running'[n].wipe = wipes'
    BY <1>2 DEF CacheInv, JitTypeOK, TranslationsCurrent, InTranslation
  <2>3. \A n \in Interpreters : mode'[n] = "selecting" => jitTable'[trace'[n]] # NoEntry
    BY <1>1, <1>2, <1>4, <1>6 DEF CacheInv, JitTypeOK, TranslationsCurrent, Selectors
  <2>4. step' = "install" /\ StillCurrent' => jitTable'[order'.pc] # NoEntry
    BY <1>2, <1>9 DEF OrderFresh, Fresh, StillCurrent, Idle
  <2>5. QED
    BY <2>1, <2>2, <2>3, <2>4 DEF TranslationsCurrent
<1>11. QED
  BY <1>3, <1>7, <1>8, <1>9, <1>10 DEF CacheInv

\* Nor is the template's address.
LEMMA EmptyStep ==
  ASSUME CacheInv, NEW m \in Interpreters, EmptyTrace(m)
  PROVE  CacheInv'
<1>1. /\ mode' = [mode EXCEPT ![m] = "interpreting"]
      /\ jitTable' = [jitTable EXCEPT ![trace[m]] = Template]
      /\ trace' = [trace EXCEPT ![m] = Nobody]
      /\ UNCHANGED <<workQueue, cacheVersion, wipes, methodTraceSupport, step, order, result, running>>
  BY DEF EmptyTrace, Enter, cache, work
<1>2. JitTypeOK'
  BY <1>1 DEF CacheInv, JitTypeOK, Bare, Modes
<1>3. \A q \in TraceHeads : jitTable'[q] = Template \/ jitTable'[q] = jitTable[q]
  BY <1>1 DEF CacheInv, JitTypeOK
<1>4. \A q \in TraceHeads : jitTable[q] # NoEntry => jitTable'[q] # NoEntry
  BY <1>3, JitAssumption
<1>5. Selectors'
  BY <1>1 DEF CacheInv, JitTypeOK, Selectors
<1>6. QueueFresh'
  BY <1>1, <1>4 DEF CacheInv, JitTypeOK, QueueFresh, Fresh, Orders
<1>7. OrderFresh' /\ CodeFresh'
  BY <1>1, <1>4 DEF CacheInv, OrderFresh, CodeFresh, Fresh
<1>8. TranslationsCurrent'
  <2>1. \A q \in TraceHeads : jitTable'[q] \notin Bare => jitTable'[q].wipe = wipes'
    BY <1>1, <1>3 DEF CacheInv, TranslationsCurrent, Bare
  <2>2. \A n \in Interpreters : InTranslation(n)' => running'[n].wipe = wipes'
    BY <1>1 DEF CacheInv, JitTypeOK, TranslationsCurrent, InTranslation
  <2>3. \A n \in Interpreters : mode'[n] = "selecting" => jitTable'[trace'[n]] # NoEntry
    BY <1>1, <1>4 DEF CacheInv, JitTypeOK, TranslationsCurrent, Selectors
  <2>4. step' = "install" /\ StillCurrent' => jitTable'[order'.pc] # NoEntry
    BY <1>1, <1>7 DEF OrderFresh, Fresh, StillCurrent, Idle
  <2>5. QED
    BY <2>1, <2>2, <2>3, <2>4 DEF TranslationsCurrent
<1>9. QED
  BY <1>2, <1>5, <1>6, <1>7, <1>8 DEF CacheInv

\* An order is made out for an entry that is there, in the current version.
LEMMA OrderStep ==
  ASSUME CacheInv, NEW m \in Interpreters, OrderTrace(m)
  PROVE  CacheInv'
<1> DEFINE new == [pc |-> trace[m], version |-> cacheVersion]
<1>1. /\ mode[m] = "selecting"
      /\ UNCHANGED <<cacheVersion, wipes, methodTraceSupport, jitTable, order, result, running>>
      /\ trace' = [trace EXCEPT ![m] = Nobody]
  BY DEF OrderTrace, cache
<1>2. \E md \in {"interpreting", "draining"} : mode' = [mode EXCEPT ![m] = md]
  BY DEF OrderTrace, Enter
<1>3. \/ UNCHANGED <<workQueue, step>>
      \/ /\ workQueue' = Append(workQueue, new)
         /\ step' = IF step = "waiting" THEN "top" ELSE step
  BY DEF OrderTrace, Enqueue
<1>4. new \in Orders /\ Fresh(new)
  BY <1>1 DEF CacheInv, JitTypeOK, TranslationsCurrent, Selectors, Orders, Fresh
<1>5. JitTypeOK'
  <2> HIDE DEF new
  <2>0. workQueue \in Seq(Orders)
    BY DEF CacheInv, JitTypeOK
  <2>1. workQueue' \in Seq(Orders)
    BY <1>3, <1>4, <2>0
  <2>2. mode' \in [Interpreters -> Modes]
    BY <1>2 DEF CacheInv, JitTypeOK, Modes
  <2>3. trace' \in [Interpreters -> TraceHeads \cup {Nobody}]
    BY <1>1 DEF CacheInv, JitTypeOK
  <2>4. QED
    BY <1>1, <2>1, <2>2, <2>3 DEF CacheInv, JitTypeOK
<1>6. Selectors'
  BY <1>1, <1>2 DEF CacheInv, JitTypeOK, Selectors
<1>7. QueueFresh'
  <2>1. workQueue \in Seq(Orders) /\ \A i \in 1..Len(workQueue) : Fresh(workQueue[i])
    BY DEF CacheInv, JitTypeOK, QueueFresh
  <2>2. \A i \in 1..Len(workQueue') : Fresh(workQueue'[i])
    <3>1. CASE workQueue' = Append(workQueue, new)
      BY <1>4, <2>1, <3>1
    <3>2. QED
      BY <1>3, <2>1, <3>1
  <2>3. QED
    BY <1>1, <2>2 DEF QueueFresh, Fresh
<1>8. OrderFresh' /\ CodeFresh'
  BY <1>1, <1>3 DEF CacheInv, OrderFresh, CodeFresh, Fresh, Idle
<1>9. TranslationsCurrent'
  <2>1. \A q \in TraceHeads : jitTable'[q] \notin Bare => jitTable'[q].wipe = wipes'
    BY <1>1 DEF CacheInv, TranslationsCurrent
  <2>2. \A n \in Interpreters : InTranslation(n)' => running'[n].wipe = wipes'
    BY <1>1, <1>2 DEF CacheInv, JitTypeOK, TranslationsCurrent, InTranslation
  <2>3. \A n \in Interpreters : mode'[n] = "selecting" => jitTable'[trace'[n]] # NoEntry
    BY <1>1, <1>2 DEF CacheInv, JitTypeOK, TranslationsCurrent
  <2>4. step' = "install" /\ StillCurrent' => jitTable'[order'.pc] # NoEntry
    BY <1>8 DEF OrderFresh, Fresh, StillCurrent, Idle
  <2>5. QED
    BY <2>1, <2>2, <2>3, <2>4 DEF TranslationsCurrent
<1>10. QED
  BY <1>5, <1>6, <1>7, <1>8, <1>9 DEF CacheInv

\* What a thread enters is in the table, and so current.
LEMMA EnterStep ==
  ASSUME CacheInv, NEW m \in Interpreters, EnterTranslation(m)
  PROVE  CacheInv'
<1>1. PICK p \in TraceHeads : jitTable[p] \notin Bare /\ running' = [running EXCEPT ![m] = jitTable[p]]
  BY DEF EnterTranslation
<1>2. /\ mode' = [mode EXCEPT ![m] = "translated"]
      /\ UNCHANGED <<code, work, trace>>
  BY DEF EnterTranslation, Enter, code, cache
<1>3. /\ mode' \in [Interpreters -> Modes]
      /\ trace' \in [Interpreters -> TraceHeads \cup {Nobody}]
      /\ running' \in [Interpreters -> Bare \cup Translations]
  BY <1>1, <1>2 DEF CacheInv, JitTypeOK, Modes
<1>4. \A n \in Interpreters :
        /\ mode'[n] = "selecting" => mode[n] = "selecting" /\ trace'[n] = trace[n]
        /\ InTranslation(n)' => running'[n].wipe = wipes
  BY <1>1, <1>2 DEF CacheInv, JitTypeOK, TranslationsCurrent, InTranslation
<1>5. QED
  BY <1>2, <1>3, <1>4, ThreadMoves

\* Steps that only concern the thread itself.
LEMMA OtherThreadSteps ==
  ASSUME CacheInv, NEW m \in Interpreters, Drained(m) \/ CallFromTranslation(m) \/ LeaveTranslation(m)
  PROVE  CacheInv'
<1>1. UNCHANGED <<code, work, trace>>
  BY DEF Drained, CallFromTranslation, LeaveTranslation, code, cache
<1>2. \/ mode' = [mode EXCEPT ![m] = "interpreting"] /\ UNCHANGED running
      \/ mode' = [mode EXCEPT ![m] = "interpreting"] /\ running' = [running EXCEPT ![m] = NoCode]
      \/ mode[m] = "translated" /\ mode' = [mode EXCEPT ![m] = "calling"] /\ UNCHANGED running
  BY DEF Drained, CallFromTranslation, LeaveTranslation, Enter
<1>3. /\ mode' \in [Interpreters -> Modes]
      /\ trace' \in [Interpreters -> TraceHeads \cup {Nobody}]
      /\ running' \in [Interpreters -> Bare \cup Translations]
  BY <1>1, <1>2 DEF CacheInv, JitTypeOK, Modes, Bare
<1>4. \A n \in Interpreters :
        /\ mode'[n] = "selecting" => mode[n] = "selecting" /\ trace'[n] = trace[n]
        /\ InTranslation(n)' => running'[n].wipe = wipes
  BY <1>1, <1>2 DEF CacheInv, JitTypeOK, TranslationsCurrent, InTranslation
<1>5. QED
  BY <1>1, <1>3, <1>4, ThreadMoves

-----------------------------------------------------------------------------
(* Steps of the compiler's thread that do.                                 *)

\* The order in hand is one that was in the queue.
LEMMA DequeueStep ==
  ASSUME CacheInv, Dequeue
  PROVE  CacheInv'
<1>1. /\ workQueue # <<>> /\ order' = Head(workQueue) /\ workQueue' = Tail(workQueue)
      /\ step' = "check"
      /\ UNCHANGED <<cacheVersion, wipes, methodTraceSupport, jitTable, mode, trace, running>>
  BY DEF Dequeue, To, cache, thread
<1>2. /\ Head(workQueue) \in Orders /\ Fresh(Head(workQueue))
      /\ Tail(workQueue) \in Seq(Orders)
  BY <1>1 DEF CacheInv, JitTypeOK, QueueFresh
<1>3. JitTypeOK'
  BY <1>1, <1>2 DEF CacheInv, JitTypeOK, Orders
<1>4. QueueFresh'
  <2>1. \A i \in 1..Len(workQueue') : Fresh(workQueue'[i])
    BY <1>1 DEF CacheInv, JitTypeOK, QueueFresh
  <2>2. QED
    BY <1>1, <2>1 DEF QueueFresh, Fresh
<1>5. OrderFresh' /\ CodeFresh'
  BY <1>1, <1>2 DEF OrderFresh, CodeFresh, Fresh, Orders
<1>6. Selectors' /\ TranslationsCurrent'
  BY <1>1 DEF CacheInv, Selectors, TranslationsCurrent, InTranslation
<1>7. QED
  BY <1>3, <1>4, <1>5, <1>6 DEF CacheInv

\* Code is emitted for an order of the current version, into the current cache.
LEMMA EmitStep ==
  ASSUME CacheInv, EmitCode
  PROVE  CacheInv'
<1>1. /\ step = "assemble" /\ step' \in {"class pointers", "install"}
      /\ result' = [wipe |-> wipes, traced |-> methodTraceSupport]
      /\ UNCHANGED <<code, order, thread>>
  BY DEF EmitCode, To, code
<1>2. JitTypeOK' /\ Selectors' /\ QueueFresh'
  BY <1>1 DEF CacheInv, JitTypeOK, Selectors, QueueFresh, Fresh, code, thread
<1>3. OrderFresh'
  BY <1>1 DEF CacheInv, OrderFresh, Fresh, Idle, code
<1>4. CodeFresh'
  BY <1>1 DEF CacheInv, JitTypeOK, CodeFresh, Translations, code
<1>5. TranslationsCurrent'
  BY <1>1, <1>3 DEF CacheInv, TranslationsCurrent, OrderFresh, Fresh, Idle, InTranslation, StillCurrent,
                    code, thread
<1>6. QED
  BY <1>2, <1>3, <1>4, <1>5 DEF CacheInv

\* What is installed carries the current version, hence the current wipe.
LEMMA InstallStep ==
  ASSUME CacheInv, InstallCode
  PROVE  CacheInv'
<1>1. /\ step = "install" /\ step' = "done" /\ order' = NoOrder
      /\ UNCHANGED <<workQueue, cacheVersion, wipes, methodTraceSupport, mode, trace, running>>
      /\ jitTable' = IF StillCurrent THEN [jitTable EXCEPT ![order.pc] = result] ELSE jitTable
  BY DEF InstallCode, OrderDone, To, cache, thread
<1>2. StillCurrent => result \in Translations /\ result.wipe = wipes
  BY <1>1 DEF CacheInv, CodeFresh, StillCurrent
<1>3. \A q \in TraceHeads : \/ jitTable'[q] = jitTable[q]
                            \/ jitTable'[q] \in Translations /\ jitTable'[q].wipe = wipes
  BY <1>1, <1>2 DEF CacheInv, JitTypeOK
<1>4. \A q \in TraceHeads : jitTable[q] # NoEntry => jitTable'[q] # NoEntry
  BY <1>3, JitAssumption DEF Bare
<1>5. JitTypeOK'
  <2>1. order'.version \in Nat
    BY <1>1 DEF NoOrder
  <2>2. jitTable' \in [TraceHeads -> Bare \cup Translations]
    BY <1>1, <1>2 DEF CacheInv, JitTypeOK
  <2>3. QED
    BY <1>1, <2>1, <2>2 DEF CacheInv, JitTypeOK
<1>6. QueueFresh'
  <2>1. \A i \in 1..Len(workQueue) : workQueue[i].pc \in TraceHeads
    BY QueueMembers DEF CacheInv
  <2>2. QED
    BY <1>1, <1>4, <2>1 DEF CacheInv, QueueFresh, Fresh
<1>7. Selectors' /\ OrderFresh' /\ CodeFresh'
  BY <1>1 DEF CacheInv, Selectors, OrderFresh, CodeFresh, Idle
<1>8. TranslationsCurrent'
  <2>1. \A q \in TraceHeads : jitTable'[q] \notin Bare => jitTable'[q].wipe = wipes'
    BY <1>1, <1>3 DEF CacheInv, TranslationsCurrent
  <2>2. \A n \in Interpreters : InTranslation(n)' => running'[n].wipe = wipes'
    BY <1>1 DEF CacheInv, TranslationsCurrent, InTranslation
  <2>3. \A n \in Interpreters : mode'[n] = "selecting" => jitTable'[trace'[n]] # NoEntry
    BY <1>1, <1>4 DEF CacheInv, TranslationsCurrent, Selectors
  <2>4. QED
    BY <1>1, <2>1, <2>2, <2>3 DEF TranslationsCurrent
<1>9. QED
  BY <1>5, <1>6, <1>7, <1>8 DEF CacheInv

\* Steps that only concern the compiler's thread itself.
LEMMA OtherCompilerSteps ==
  ASSUME CacheInv,
         \/ AwaitOrders \/ QueueDone \/ CompilerExits \/ CheckSuspendPending \/ ResizeTable \/ Resized
         \/ Discard \/ Compile \/ CacheIsFull \/ CacheChanged \/ StartClassPointers
         \/ InstallClassPointers
  PROVE  CacheInv'
<1>1. UNCHANGED <<code, thread>>
  BY DEF AwaitOrders, QueueDone, CompilerExits, CheckSuspendPending, ResizeTable, Resized, Discard,
         Compile, CacheIsFull, CacheChanged, StartClassPointers, InstallClassPointers, code, cache
<1>2. \/ order' = order /\ result' = result
      \/ order' = NoOrder /\ step' \in Idle
  BY DEF AwaitOrders, QueueDone, CompilerExits, CheckSuspendPending, ResizeTable, Resized, Discard,
         Compile, CacheIsFull, CacheChanged, StartClassPointers, InstallClassPointers, OrderDone, To,
         Idle
<1>3. step' \notin Idle => step \notin Idle
  BY DEF AwaitOrders, QueueDone, CompilerExits, CheckSuspendPending, ResizeTable, Resized, Discard,
         Compile, CacheIsFull, CacheChanged, StartClassPointers, InstallClassPointers, OrderDone, To,
         Idle
<1>4. step' \in {"class pointers", "running", "install"}
        => step \in {"class pointers", "running", "install"}
  BY DEF AwaitOrders, QueueDone, CompilerExits, CheckSuspendPending, ResizeTable, Resized, Discard,
         Compile, CacheIsFull, CacheChanged, StartClassPointers, InstallClassPointers, OrderDone, To
<1>5. QED
  BY <1>1, <1>2, <1>3, <1>4, CompilerMoves

\* Steps of others that touch neither code nor compiler, but may wake it.
LEMMA OtherJitSteps ==
  ASSUME CacheInv,
         \/ WorldStops \/ Collection \/ ResizeFails \/ ForceReset \/ CompilerShutdown
         \/ \E m \in Interpreters : SuspendToFlush(m) \/ DisableTracing(m)
  PROVE  CacheInv'
<1>1. UNCHANGED <<code, thread, order, result>>
  BY DEF WorldStops, Collection, ResizeFails, ForceReset, CompilerShutdown, SuspendToFlush,
         DisableTracing, code, cache, work
<1>2. step' = step \/ (step = "waiting" /\ step' = "top")
  BY DEF WorldStops, Collection, ResizeFails, ForceReset, CompilerShutdown, SuspendToFlush,
         DisableTracing, work
<1>3. QED
  BY <1>1, <1>2, CompilerMoves DEF Idle

-----------------------------------------------------------------------------
(* The version changes.                                                    *)

\* Whatever carries a version carries an earlier one from now on.
LEMMA NewVersion ==
  ASSUME CacheInv, cacheVersion' = cacheVersion + 1, UNCHANGED work,
         workQueue' = workQueue \/ workQueue' = <<>>
  PROVE  /\ QueueFresh' /\ OrderFresh' /\ CodeFresh'
         /\ step' = "install" => ~StillCurrent'
         /\ workQueue' \in Seq(Orders) /\ order'.version \in Nat
<1> cacheVersion \in Nat /\ order.version \in Nat /\ workQueue \in Seq(Orders)
  BY DEF CacheInv, JitTypeOK
<1> step' = step /\ order' = order /\ result' = result
  BY DEF work
<1>1. \A i \in 1..Len(workQueue) : workQueue[i].version \in Nat /\ workQueue[i].version <= cacheVersion
  BY QueueMembers DEF CacheInv, QueueFresh, Fresh
<1>2. QueueFresh'
  BY <1>1 DEF QueueFresh, Fresh
<1>3. step \notin Idle => order.version <= cacheVersion
  BY DEF CacheInv, OrderFresh, Fresh
<1>4. OrderFresh' /\ CodeFresh' /\ (step' = "install" => ~StillCurrent')
  <2>1. OrderFresh'
    BY <1>3 DEF CacheInv, OrderFresh, Fresh
  <2>2. CodeFresh'
    <3>1. step \in {"class pointers", "running", "install"} => step \notin Idle
      BY DEF Idle
    <3>2. ASSUME step \notin Idle PROVE order.version # cacheVersion'
      <4>1. order.version <= cacheVersion
        BY <3>2, <1>3
      <4>2. QED
        BY <4>1
    <3>3. step \in {"class pointers", "running", "install"} => result \in Translations
      BY DEF CacheInv, CodeFresh
    <3>4. QED
      BY <3>1, <3>2, <3>3 DEF CodeFresh
  <2>3. step' = "install" => ~StillCurrent'
    BY <1>3 DEF StillCurrent, Idle
  <2>4. QED
    BY <2>1, <2>2, <2>3
<1>5. workQueue' \in Seq(Orders) /\ order'.version \in Nat
  <2>1. workQueue' \in Seq(Orders)
    <3>1. CASE workQueue' = workQueue
      BY <3>1
    <3>2. CASE workQueue' = <<>>
      BY <3>2
    <3>3. QED
      BY <3>1, <3>2
  <2>2. order'.version \in Nat
    OBVIOUS
  <2>3. QED
    BY <2>1, <2>2
<1>6. QED
  BY <1>2, <1>4, <1>5

\* Cancelled selections start no others.
LEMMA CancelledMode ==
  ASSUME CacheInv
  PROVE  /\ Cancelled \in [Interpreters -> Modes] /\ NoTrace \in [Interpreters -> TraceHeads \cup {Nobody}]
         /\ \A n \in Interpreters : /\ Cancelled[n] # "selecting"
                                    /\ Cancelled[n] \in {"translated", "calling"} => Cancelled[n] = mode[n]
  BY DEF CacheInv, JitTypeOK, Cancelled, NoTrace, Modes

\* The cache is wiped at a stop of the world, unless a thread is in it; no
\* selection goes on in either case.
LEMMA ResetStep ==
  ASSUME CacheInv, ResetCodeCache, UNCHANGED <<work, running>>, trace' = NoTrace,
         mode' \in [Interpreters -> Modes],
         \A n \in Interpreters : /\ mode'[n] # "selecting"
                                 /\ InTranslation(n)' => InTranslation(n)
  PROVE  CacheInv'
<1>1. CASE \E m \in Interpreters : InTranslation(m)
  <2>1. UNCHANGED code
    BY <1>1 DEF ResetCodeCache, code, cache
  <2>2. trace' \in [Interpreters -> TraceHeads \cup {Nobody}]
    BY CancelledMode
  <2>3. running' \in [Interpreters -> Bare \cup Translations]
    BY DEF CacheInv, JitTypeOK
  <2>4. \A n \in Interpreters : InTranslation(n)' => running'[n].wipe = wipes
    BY DEF CacheInv, TranslationsCurrent
  <2>5. QED
    BY <2>1, <2>2, <2>3, <2>4, ThreadMoves
<1>2. CASE ~\E m \in Interpreters : InTranslation(m)
  <2>1. /\ cacheVersion' = cacheVersion + 1 /\ workQueue' = <<>>
        /\ jitTable' = [p \in TraceHeads |-> NoEntry]
        /\ wipes' = wipes + 1 /\ UNCHANGED methodTraceSupport
    BY <1>2 DEF ResetCodeCache
  <2>2. /\ QueueFresh' /\ OrderFresh' /\ CodeFresh'
        /\ step' = "install" => ~StillCurrent'
        /\ workQueue' \in Seq(Orders) /\ order'.version \in Nat
    BY <2>1, NewVersion
  <2>3. JitTypeOK'
    <3>1. cacheVersion' \in Nat /\ wipes' \in Nat /\ methodTraceSupport' \in BOOLEAN
      BY <2>1 DEF CacheInv, JitTypeOK
    <3>2. jitTable' \in [TraceHeads -> Bare \cup Translations]
      BY <2>1 DEF Bare
    <3>3. trace' \in [Interpreters -> TraceHeads \cup {Nobody}]
      BY CancelledMode
    <3>4. running' \in [Interpreters -> Bare \cup Translations]
      BY DEF CacheInv, JitTypeOK
    <3>5. QED
      BY <2>2, <3>1, <3>2, <3>3, <3>4 DEF JitTypeOK
  <2>4. TranslationsCurrent'
    <3>1. \A p \in TraceHeads : jitTable'[p] \in Bare
      BY <2>1 DEF Bare
    <3>2. QED
      BY <1>2, <2>2, <3>1 DEF TranslationsCurrent
  <2>5. Selectors'
    BY DEF Selectors
  <2>6. QED
    BY <2>2, <2>3, <2>4, <2>5 DEF CacheInv
<1>3. QED
  BY <1>1, <1>2

\* dvmCompilerPerformSafePointChecks.
LEMMA SafePointStep ==
  ASSUME CacheInv, SafePoint
  PROVE  CacheInv'
<1>1. CASE codeCacheFull
  <2>1. ResetCodeCache /\ mode' = Cancelled /\ trace' = NoTrace /\ UNCHANGED <<work, running>>
    BY <1>1 DEF SafePoint
  <2>2. \A n \in Interpreters : /\ mode'[n] # "selecting"
                                /\ InTranslation(n)' => InTranslation(n)
    BY <2>1, CancelledMode DEF InTranslation
  <2>3. QED
    BY <2>1, <2>2, CancelledMode, ResetStep
<1>2. CASE ~codeCacheFull
  <2>1. UNCHANGED <<code, thread>> /\ UNCHANGED <<step, order, result>>
    BY <1>2 DEF SafePoint, code, cache, thread, work
  <2>2. QED
    BY <2>1, CompilerMoves
<1>3. QED
  BY <1>1, <1>2

\* Method tracing starts: what is under way is out of date at once.
LEMMA EnableStep ==
  ASSUME CacheInv, NEW m \in Interpreters, EnableTracing(m)
  PROVE  CacheInv'
<1>1. /\ mode[m] = "interpreting" /\ cacheVersion' = cacheVersion + 1 /\ methodTraceSupport' = TRUE
      /\ UNCHANGED <<workQueue, wipes, jitTable, work, trace, running>>
  BY DEF EnableTracing
<1>2. mode' = mode \/ mode' = [mode EXCEPT ![m] = "updating"]
  BY DEF EnableTracing, Enter
<1>3. /\ QueueFresh' /\ OrderFresh' /\ CodeFresh'
      /\ step' = "install" => ~StillCurrent'
      /\ workQueue' \in Seq(Orders) /\ order'.version \in Nat
  BY <1>1, NewVersion
<1>4. JitTypeOK'
  BY <1>1, <1>2, <1>3 DEF CacheInv, JitTypeOK, Modes
<1>5. \A n \in Interpreters : mode'[n] = mode[n] \/ mode'[n] = "updating"
  BY <1>2 DEF CacheInv, JitTypeOK
<1>6. TranslationsCurrent' /\ Selectors'
  BY <1>1, <1>3, <1>5 DEF CacheInv, TranslationsCurrent, Selectors, InTranslation
<1>7. QED
  BY <1>3, <1>4, <1>6 DEF CacheInv

\* And flushes.
LEMMA FlushStep ==
  ASSUME CacheInv, NEW m \in Interpreters, Flush(m)
  PROVE  CacheInv'
<1>1. /\ ResetCodeCache /\ mode' = [Cancelled EXCEPT ![m] = "interpreting"] /\ trace' = NoTrace
      /\ UNCHANGED <<work, running>>
  BY DEF Flush
<1>2. mode' \in [Interpreters -> Modes]
  BY <1>1, CancelledMode DEF Modes
<1>3. \A n \in Interpreters : /\ mode'[n] # "selecting"
                              /\ InTranslation(n)' => InTranslation(n)
  BY <1>1, CancelledMode DEF InTranslation
<1>4. QED
  BY <1>1, <1>2, <1>3, ResetStep

-----------------------------------------------------------------------------
(* The theorem.                                                            *)

\* Every step of the specification keeps the invariant.
LEMMA CacheStep == CacheInv /\ [JitNext]_jitVars => CacheInv'
<1> SUFFICES ASSUME CacheInv, [JitNext]_jitVars PROVE CacheInv'
  OBVIOUS
<1>1. CASE UNCHANGED jitVars
  BY <1>1, CompilerMoves DEF jitVars, code, cache, thread, work
<1>2. CASE CompilerStep
  BY <1>2, DequeueStep, EmitStep, InstallStep, OtherCompilerSteps DEF CompilerStep
<1>3. CASE StopStep
  BY <1>3, SafePointStep, OtherJitSteps DEF StopStep
<1>4. CASE Chance
  BY <1>4, SelectStep, EnterStep, OtherThreadSteps, EnableStep, OtherCompilerSteps, OtherJitSteps DEF Chance
<1>5. ASSUME NEW m \in Interpreters, InterpreterStep(m)
      PROVE  CacheInv'
  BY <1>5, EmptyStep, OrderStep, OtherThreadSteps, OtherJitSteps, FlushStep DEF InterpreterStep
<1>6. QED
  BY <1>1, <1>2, <1>3, <1>4, <1>5 DEF JitNext

\* The invariant holds for ever.
THEOREM CacheInvariance == JitSpec => []CacheInv
  BY InitCacheInv, CacheStep, PTL DEF JitSpec

\* No translation in the table, and none that a thread is in, has been
\* wiped (resetCodeCache), and dvmJitSetCodeAddr always finds its entry.
THEOREM NoWipedCode == JitSpec => []TranslationsCurrent
<1>1. CacheInv => TranslationsCurrent
  BY DEF CacheInv
<1>2. QED
  BY <1>1, CacheInvariance, PTL
=============================================================================
