---------------------------- MODULE HeapRequests ----------------------------
(***************************************************************************)
(* Who waits for whom around the heap: allocations that fail and collect,  *)
(* System.gc(), the daemon that collects concurrently when it is signalled *)
(* and trims the heap when it is not, its shutdown, and the heap lock and  *)
(* the stops of the world they share with each other and with the JIT      *)
(* compiler (vm/alloc/Heap.cpp, HeapSource.cpp, Alloc.cpp).                *)
(*                                                                         *)
(* What a collection does to objects is ConcurrentGC's subject; whether an *)
(* attempt to allocate succeeds is left open.  A stop of the world is the  *)
(* one of ThreadSuspend with one stopper at a time: it raises the suspend  *)
(* counts, and is complete when nobody is RUNNING inside a call.           *)
(***************************************************************************)
EXTENDS Naturals, FiniteSets

CONSTANTS Mutators, Daemon, Jit, NoThread,
          MaxRequests,   \* allocations and explicit collections of all mutators
          MaxStops,      \* stops of the world by the JIT compiler
          MaxTimeouts    \* timeouts of the daemon's wait, five seconds each

Threads == Mutators \cup {Daemon}

\* The threads of the model are different ones.
ASSUME HeapAssumption == Daemon \notin Mutators /\ NoThread \notin Threads

VARIABLES
  heapLock,       \* gDvm.gcHeapLock
  gcRunning,
  heapWaiters,    \* threads in gDvm.gcHeapCond
  gcThreadMutex,
  parked,         \* the daemon is in gcThreadCond
  trimNeeded, gcThreadShutdown,
  status,         \* "running" or "vmwait"
  stopper,        \* who has raised the suspend counts
  stopped,        \* the stop is complete
  pc,             \* where each thread is
  wait,           \* inside dvmLockHeap: "no", "blocked" or "locked"
  call,           \* of each thread: what is requested, the GcSpec, the attempts
                  \* made and, as history, which collections it has made
  requests, stops, timeouts

locks  == <<heapLock, gcRunning, heapWaiters>>
daemon == <<gcThreadMutex, parked, trimNeeded, gcThreadShutdown>>
world  == <<stopper, stopped>>
bounds == <<requests, stops, timeouts>>
heapVars == <<locks, daemon, world, status, pc, call, wait, bounds>>

NoCall == [request |-> "none", spec |-> "none", tries |-> 0, made |-> {}]
Goto(t, to) == pc' = [pc EXCEPT ![t] = to]
CollectFor(t, s, tries) ==
  /\ call' = [call EXCEPT ![t].spec = s, ![t].tries = tries]
  /\ Goto(t, "collect")
IsConcurrent(s) == s \in {"GC_CONCURRENT", "GC_EXPLICIT"}

\* A thread outside these calls comes to a safe point; one that waits for
\* its turn to stop the world suspends itself.
Stoppable(t) == status[t] = "vmwait" \/ pc[t] \in {"idle", "begin", "stop", "restop"}
MayRun(t) == stopper \in {NoThread, t}

-----------------------------------------------------------------------------
(* dvmLockHeap.                                                            *)

LockPoints == {"lockHeap", "relock", "lockSweep", "lockFinish", "lockDaemon"}
AfterLock(t) ==
  CASE pc[t] = "lockHeap"   -> IF call[t].request = "gc" THEN "await" ELSE "attempt"
    [] pc[t] = "relock"     -> "restop"
    [] pc[t] = "lockSweep"  -> "free"
    [] pc[t] = "lockFinish" -> "finish"
    [] pc[t] = "lockDaemon" -> "check"

TryLockHeap(t) ==
  /\ pc[t] \in LockPoints /\ wait[t] = "no"
  /\ IF heapLock = NoThread
     THEN /\ heapLock' = t /\ Goto(t, AfterLock(t))
          /\ UNCHANGED <<status, wait>>
     ELSE /\ status' = [status EXCEPT ![t] = "vmwait"] /\ wait' = [wait EXCEPT ![t] = "blocked"]
          /\ UNCHANGED <<heapLock, pc>>
  /\ UNCHANGED <<gcRunning, heapWaiters, daemon, world, call, bounds>>

LockHeap(t) ==
  /\ wait[t] = "blocked" /\ heapLock = NoThread
  /\ heapLock' = t /\ wait' = [wait EXCEPT ![t] = "locked"]
  /\ UNCHANGED <<gcRunning, heapWaiters, daemon, world, status, pc, call, bounds>>

\* dvmChangeStatus back to what it was, with the heap lock held: RUNNING
\* waits for the world to be resumed.
LockedHeap(t) ==
  /\ wait[t] = "locked"
  /\ IF pc[t] = "lockDaemon" THEN UNCHANGED status
     ELSE MayRun(t) /\ status' = [status EXCEPT ![t] = "running"]
  /\ wait' = [wait EXCEPT ![t] = "no"] /\ Goto(t, AfterLock(t))
  /\ UNCHANGED <<locks, daemon, world, call, bounds>>

-----------------------------------------------------------------------------
(* dvmWaitForConcurrentGcToComplete, with the heap lock held.              *)

WaitForGc(t) ==
  /\ pc[t] = "await" /\ gcRunning
  /\ status' = [status EXCEPT ![t] = "vmwait"]
  /\ heapLock' = NoThread /\ heapWaiters' = heapWaiters \cup {t}
  /\ Goto(t, "asleep")
  /\ UNCHANGED <<gcRunning, daemon, world, call, wait, bounds>>

WakeUp(t) ==
  /\ pc[t] = "asleep" /\ t \notin heapWaiters /\ heapLock = NoThread
  /\ heapLock' = t /\ Goto(t, "awake")
  /\ UNCHANGED <<gcRunning, heapWaiters, daemon, world, status, call, wait, bounds>>

RunAgain(t) ==
  /\ pc[t] = "awake" /\ MayRun(t)
  /\ status' = [status EXCEPT ![t] = "running"] /\ Goto(t, "await")
  /\ UNCHANGED <<locks, daemon, world, call, wait, bounds>>

GcComplete(t) ==
  /\ pc[t] = "await" /\ ~gcRunning
  /\ IF call[t].request = "gc" THEN CollectFor(t, "GC_EXPLICIT", 0)
     ELSE Goto(t, "attempt") /\ UNCHANGED call
  /\ UNCHANGED <<locks, daemon, world, status, wait, bounds>>

-----------------------------------------------------------------------------
(* dvmMalloc.  tries counts the attempts of tryMalloc: at first, after a   *)
(* running collection, after one of its own, after the one that clears     *)
(* soft references.  Growing the heap belongs to the last two.             *)

\* dvmHeapSourceAlloc signals gcThreadCond, without gcThreadMutex, if enough
\* is allocated by now: nobody may be there to hear it.
Succeed(t) ==
  /\ pc[t] = "attempt" /\ call[t].request = "malloc"
  /\ \/ UNCHANGED parked
     \/ ~gcRunning /\ parked' = FALSE
  /\ heapLock' = NoThread /\ Goto(t, "idle")
  /\ call' = [call EXCEPT ![t] = NoCall]
  /\ UNCHANGED <<gcRunning, heapWaiters, gcThreadMutex, trimNeeded, gcThreadShutdown, world,
                 status, wait, bounds>>

\* Mutant of WaitsForGc: a failed attempt goes on to collect at once.
NeverWaits == FALSE
WaitsForGc == gcRunning

FirstFailure(t) ==
  /\ pc[t] = "attempt" /\ call[t].tries = 0 /\ call[t].request = "malloc"
  /\ IF WaitsForGc THEN Goto(t, "await") /\ call' = [call EXCEPT ![t].tries = 1]
     ELSE CollectFor(t, "GC_FOR_MALLOC", 2)
  /\ UNCHANGED <<locks, daemon, world, status, wait, bounds>>

\* What exceeds the whole heap is not tried, but soft references are to be
\* collected before the error.
Oversize(t) ==
  /\ pc[t] = "attempt" /\ call[t].tries = 0 /\ call[t].request = "huge"
  /\ CollectFor(t, "GC_BEFORE_OOM", 3)
  /\ UNCHANGED <<locks, daemon, world, status, wait, bounds>>

LaterFailure(t) ==
  /\ pc[t] = "attempt"
  /\ \/ call[t].tries = 1 /\ CollectFor(t, "GC_FOR_MALLOC", 2)
     \/ call[t].tries = 2 /\ CollectFor(t, "GC_BEFORE_OOM", 3)
  /\ UNCHANGED <<locks, daemon, world, status, wait, bounds>>

OutOfMemory(t) ==
  /\ pc[t] = "attempt" /\ call[t].tries = 3
  /\ heapLock' = NoThread /\ Goto(t, "oome")
  /\ UNCHANGED <<gcRunning, heapWaiters, daemon, world, status, call, wait, bounds>>

-----------------------------------------------------------------------------
(* dvmCollectGarbageInternal.                                              *)

AfterCollect(t) ==
  CASE t = Daemon -> "collected"
    [] call[t].request = "gc" -> "trim"
    [] OTHER -> "attempt"

CollectRecursively(t) ==
  /\ pc[t] = "collect" /\ gcRunning
  /\ Goto(t, AfterCollect(t))
  /\ UNCHANGED <<locks, daemon, world, status, call, wait, bounds>>

Collect(t) ==
  /\ pc[t] = "collect" /\ ~gcRunning
  /\ gcRunning' = TRUE /\ Goto(t, "stop")
  /\ UNCHANGED <<heapLock, heapWaiters, daemon, world, status, call, wait, bounds>>

RaiseCounts(t) ==
  /\ pc[t] \in {"stop", "restop"} /\ stopper = NoThread
  /\ stopper' = t
  /\ Goto(t, IF pc[t] = "stop" THEN "stopping" ELSE "restopping")
  /\ UNCHANGED <<locks, daemon, stopped, status, call, wait, bounds>>

AllStopped(t) ==
  /\ pc[t] \in {"stopping", "restopping"}
  /\ \A u \in Threads \ {t} : Stoppable(u)
  /\ stopped' = TRUE
  /\ Goto(t, IF pc[t] = "restopping" THEN "remark"
             ELSE IF IsConcurrent(call[t].spec) THEN "mark" ELSE "markAll")
  /\ UNCHANGED <<locks, daemon, stopper, status, call, wait, bounds>>

\* The heap is unlocked before the world is resumed.
UnlockInPause(t) ==
  /\ pc[t] \in {"mark", "remark"}
  /\ heapLock' = NoThread
  /\ Goto(t, IF pc[t] = "mark" THEN "resume" ELSE "resumeSweep")
  /\ UNCHANGED <<gcRunning, heapWaiters, daemon, world, status, call, wait, bounds>>

Resume(t) ==
  /\ pc[t] \in {"resume", "resumeSweep", "resumeAll"}
  /\ stopper' = NoThread /\ stopped' = FALSE
  /\ Goto(t, CASE pc[t] = "resume"      -> "relock"
               [] pc[t] = "resumeSweep" -> "sweep"
               [] pc[t] = "resumeAll"   -> AfterCollect(t))
  /\ UNCHANGED <<locks, daemon, status, call, wait, bounds>>

\* Whether or not there is a batch of garbage to free.
Sweep(t) ==
  /\ pc[t] = "sweep"
  /\ \E next \in {"lockSweep", "lockFinish"} : Goto(t, next)
  /\ UNCHANGED <<locks, daemon, world, status, call, wait, bounds>>

FreeList(t) ==
  /\ pc[t] = "free"
  /\ heapLock' = NoThread /\ Goto(t, "lockFinish")
  /\ UNCHANGED <<gcRunning, heapWaiters, daemon, world, status, call, wait, bounds>>

Note(t) == call' = [call EXCEPT ![t].made = @ \cup {call[t].spec}]

\* Mutant of WokenWaiters: one of those waiting for the collection is woken.
OneWaiter == IF heapWaiters = {} THEN {} ELSE {CHOOSE t \in heapWaiters : TRUE}
WokenWaiters == heapWaiters

FinishConcurrent(t) ==
  /\ pc[t] = "finish"
  /\ gcRunning' = FALSE /\ heapWaiters' = heapWaiters \ WokenWaiters
  /\ Note(t) /\ Goto(t, AfterCollect(t))
  /\ UNCHANGED <<heapLock, daemon, world, status, wait, bounds>>

\* No other thread has had the heap lock meanwhile: nobody waits.
FinishStopped(t) ==
  /\ pc[t] = "markAll"
  /\ gcRunning' = FALSE
  /\ Note(t) /\ Goto(t, "resumeAll")
  /\ UNCHANGED <<heapLock, heapWaiters, daemon, world, status, wait, bounds>>

\* dvmCollectGarbage trims the heap and unlocks it.
ExplicitDone(t) ==
  /\ pc[t] = "trim"
  /\ heapLock' = NoThread /\ Goto(t, "returned")
  /\ UNCHANGED <<gcRunning, heapWaiters, daemon, world, status, call, wait, bounds>>

Return(t) ==
  /\ pc[t] \in {"oome", "returned"}
  /\ Goto(t, "idle") /\ call' = [call EXCEPT ![t] = NoCall]
  /\ UNCHANGED <<locks, daemon, world, status, wait, bounds>>

-----------------------------------------------------------------------------
(* gcDaemonThread and gcDaemonShutdown.                                    *)

LockGcThread ==
  /\ pc[Daemon] = "begin" /\ gcThreadMutex = NoThread
  /\ gcThreadMutex' = Daemon /\ Goto(Daemon, "loop")
  /\ UNCHANGED <<locks, parked, trimNeeded, gcThreadShutdown, world, status, call, wait, bounds>>

Park ==
  /\ pc[Daemon] = "loop" /\ ~gcThreadShutdown
  /\ gcThreadMutex' = NoThread /\ parked' = TRUE
  /\ Goto(Daemon, "parked")
  /\ UNCHANGED <<locks, trimNeeded, gcThreadShutdown, world, status, call, wait, bounds>>

\* Signalled, to collect, or timed out, to trim; it does not look again why.
Unpark ==
  /\ pc[Daemon] = "parked" /\ gcThreadMutex = NoThread
  /\ \/ /\ ~parked /\ UNCHANGED timeouts
        /\ call' = [call EXCEPT ![Daemon].spec = "GC_CONCURRENT"]
     \/ /\ parked /\ trimNeeded /\ timeouts < MaxTimeouts
        /\ timeouts' = timeouts + 1
        /\ call' = [call EXCEPT ![Daemon].spec = "trim"]
  /\ parked' = FALSE /\ gcThreadMutex' = Daemon
  /\ Goto(Daemon, "lockDaemon")
  /\ UNCHANGED <<locks, trimNeeded, gcThreadShutdown, world, status, wait, requests, stops>>

\* Somebody else's collection is running.
LeaveIt ==
  /\ pc[Daemon] = "check" /\ gcRunning
  /\ heapLock' = NoThread /\ Goto(Daemon, "loop")
  /\ UNCHANGED <<gcRunning, heapWaiters, daemon, world, status, call, wait, bounds>>

DaemonRuns ==
  /\ pc[Daemon] = "check" /\ ~gcRunning /\ MayRun(Daemon)
  /\ status' = [status EXCEPT ![Daemon] = "running"]
  /\ Goto(Daemon, IF call[Daemon].spec = "trim" THEN "collected" ELSE "collect")
  /\ UNCHANGED <<locks, daemon, world, call, wait, bounds>>

DaemonDone ==
  /\ pc[Daemon] = "collected"
  /\ trimNeeded' = (call[Daemon].spec # "trim")
  /\ status' = [status EXCEPT ![Daemon] = "vmwait"]
  /\ heapLock' = NoThread /\ Goto(Daemon, "loop")
  /\ call' = [call EXCEPT ![Daemon] = NoCall]
  /\ UNCHANGED <<gcRunning, heapWaiters, gcThreadMutex, parked, gcThreadShutdown, world, wait, bounds>>

\* The thread ends with gcThreadMutex locked.
DaemonExits ==
  /\ pc[Daemon] = "loop" /\ gcThreadShutdown /\ MayRun(Daemon)
  /\ Goto(Daemon, "gone")
  /\ UNCHANGED <<locks, daemon, world, status, call, wait, bounds>>

\* By a thread in VMWAIT; what follows is the join.
DaemonShutdown ==
  /\ ~gcThreadShutdown /\ gcThreadMutex = NoThread
  /\ gcThreadShutdown' = TRUE /\ parked' = FALSE
  /\ UNCHANGED <<locks, gcThreadMutex, trimNeeded, world, status, pc, call, wait, bounds>>

-----------------------------------------------------------------------------
Request(t) ==
  /\ pc[t] = "idle" /\ ~stopped /\ requests < MaxRequests
  /\ \E what \in {"malloc", "huge", "gc"} : call' = [call EXCEPT ![t].request = what]
  /\ requests' = requests + 1 /\ Goto(t, "lockHeap")
  /\ UNCHANGED <<locks, daemon, world, status, wait, stops, timeouts>>

JitStops ==
  /\ stopper = NoThread /\ stops < MaxStops
  /\ stopper' = Jit /\ stops' = stops + 1
  /\ UNCHANGED <<locks, daemon, stopped, status, pc, call, wait, requests, timeouts>>

JitStopped ==
  /\ stopper = Jit /\ ~stopped /\ \A u \in Threads : Stoppable(u)
  /\ stopped' = TRUE
  /\ UNCHANGED <<locks, daemon, stopper, status, pc, call, wait, bounds>>

JitResumes ==
  /\ stopper = Jit /\ stopped
  /\ stopper' = NoThread /\ stopped' = FALSE
  /\ UNCHANGED <<locks, daemon, status, pc, call, wait, bounds>>

HeapInit ==
  /\ heapLock = NoThread /\ gcRunning = FALSE /\ heapWaiters = {}
  /\ gcThreadMutex = NoThread /\ parked = FALSE /\ trimNeeded = FALSE /\ gcThreadShutdown = FALSE
  /\ stopper = NoThread /\ stopped = FALSE
  /\ status = [t \in Threads |-> IF t = Daemon THEN "vmwait" ELSE "running"]
  /\ pc = [t \in Threads |-> IF t = Daemon THEN "begin" ELSE "idle"]
  /\ call = [t \in Threads |-> NoCall] /\ wait = [t \in Threads |-> "no"]
  /\ requests = 0 /\ stops = 0 /\ timeouts = 0

Locking(t) == TryLockHeap(t) \/ LockHeap(t) \/ LockedHeap(t)
Waiting(t) == WaitForGc(t) \/ WakeUp(t) \/ RunAgain(t) \/ GcComplete(t)
Allocating(t) == Succeed(t) \/ FirstFailure(t) \/ Oversize(t) \/ LaterFailure(t) \/ OutOfMemory(t)
Collecting(t) == \/ CollectRecursively(t) \/ Collect(t) \/ RaiseCounts(t) \/ AllStopped(t)
                 \/ UnlockInPause(t) \/ Resume(t) \/ Sweep(t) \/ FreeList(t)
                 \/ FinishConcurrent(t) \/ FinishStopped(t) \/ ExplicitDone(t)
HeapStep(t) == Locking(t) \/ Waiting(t) \/ Allocating(t) \/ Collecting(t) \/ Return(t)
DaemonStep == \/ LockGcThread \/ Park \/ Unpark \/ LeaveIt
              \/ DaemonRuns \/ DaemonDone \/ DaemonExits
JitStep == JitStopped \/ JitResumes

HeapNext == \/ \E t \in Threads : HeapStep(t)
            \/ \E t \in Mutators : Request(t)
            \/ DaemonStep \/ DaemonShutdown \/ JitStops \/ JitStep

HeapSpec == HeapInit /\ [][HeapNext]_heapVars

-----------------------------------------------------------------------------
(* Properties.                                                             *)

\* What the comment in tryMalloc promises: soft references have been
\* collected by the time an OutOfMemoryError is thrown; and System.gc() has
\* collected by the time it returns, whoever else was collecting.  Requests
\* larger than the heap are excepted (see SoftClearedAlways).
RequestsHonoured ==
  \A t \in Mutators : /\ pc[t] = "oome" /\ call[t].request = "malloc" => "GC_BEFORE_OOM" \in call[t].made
                      /\ pc[t] = "returned" => "GC_EXPLICIT" \in call[t].made

\* Nobody waits for ever for the heap lock, the end of a collection, the
\* world or the daemon, whose shutdown ends although signals may be lost.
\* Those who stop the world here start it again: a debugger that has stopped
\* a thread with the heap lock need not (the comment at Heap.cpp:696).
HeapCallsReturn ==
  /\ \A t \in Mutators : pc[t] # "idle" ~> pc[t] = "idle"
  /\ gcThreadShutdown ~> pc[Daemon] = "gone"
  /\ stopper = Jit ~> stopper # Jit

\* RequestsHonoured without the exception.
SoftClearedAlways == \A t \in Mutators : pc[t] = "oome" => "GC_BEFORE_OOM" \in call[t].made
=============================================================================
