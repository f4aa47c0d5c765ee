---------------------------- MODULE ThreadSuspend ----------------------------
(***************************************************************************)
(* vm/Thread.cpp: how one thread stops the others.  Every thread has a     *)
(* status and a suspend count; a thread in status RUNNING looks at its     *)
(* count at safe points and when it comes back from native code, and       *)
(* sleeps on one condition variable until the count is 0.  The GC, the JIT *)
(* compiler and the debugger suspend and resume all threads; the debugger  *)
(* and getStackTrace suspend single ones.                                  *)
(*                                                                         *)
(* pc[t] is the control point of t inside these functions and "run"        *)
(* outside them; op[t] is the operation t is making.  One action is one    *)
(* access to state other threads can change.  Whatever is done under       *)
(* threadSuspendCountLock is one action: nothing blocks there but          *)
(* pthread_cond_wait, which gives the lock up.                             *)
(***************************************************************************)
EXTENDS Integers, FiniteSets

CONSTANTS
  Threads,          \* the thread list
  NoThread,         \* a NULL Thread*
  Jdwp,             \* the JDWP thread, or NoThread without a debugger
  Collectors,       \* threads that may collect garbage
  Compilers,        \* JIT compiler threads, in VMWAIT but to look up classes
  ListLockers,      \* threads that lock the thread list for other purposes
  Tracers,          \* threads that call getStackTrace on another thread
  EventPolicies,    \* suspend policies of debugger events: "all", "thread"
  DebuggerCalls,    \* what debugger requests may do: a subset of AllCalls
  MaxDebug          \* bound: nested debugger suspensions of one thread

AllCalls == {"suspendVM", "resumeVM", "suspendThread", "resumeThread", "undo"}

ASSUME ThreadsAssumption == NoThread \notin Threads /\ IsFiniteSet(Threads)
ASSUME RolesAssumption ==
  /\ Jdwp \in Threads \cup {NoThread}
  /\ Collectors \cup Compilers \cup ListLockers \cup Tracers \subseteq Threads
  /\ {Jdwp} \cap (Collectors \cup Compilers \cup ListLockers \cup Tracers) = {}
  /\ Compilers \cap (Collectors \cup ListLockers \cup Tracers) = {}
  /\ EventPolicies \subseteq {"all", "thread"}
  /\ DebuggerCalls \subseteq AllCalls
  /\ MaxDebug \in Nat

VARIABLES
  status,           \* Thread.status; NATIVE stands for every other quiet status
  suspendCount,     \* Thread.suspendCount
  dbgSuspendCount,  \* Thread.dbgSuspendCount
  suspendLock,      \* holder of gDvm._threadSuspendLock
  listLock,         \* holder of gDvm.threadListLock
  eventThread,      \* JdwpState.eventThreadId
  pc, op,           \* control point and operation of each thread
  why,              \* SuspendCause: "vm", "debug" or "event"
  target,           \* argument of dvmSuspendThread and dvmResumeThread
  oldStatus,        \* local of dvmLockThreadList and fullSuspendCheck
  scan,             \* threads the suspender has not yet seen stopped
  stopped           \* history: between suspend-all and resume-all of the VM

locks  == <<suspendLock, listLock>>
counts == <<suspendCount, dbgSuspendCount>>
call   == <<op, why, target>>
vars == <<status, suspendCount, dbgSuspendCount, suspendLock, listLock, eventThread,
          pc, op, why, target, oldStatus, scan, stopped>>

Status == {"RUNNING", "NATIVE", "VMWAIT", "SUSPENDED"}
PCs == {"run", "check", "full", "asleep", "woken", "token", "self", "try", "leave",
        "list", "restore", "count", "scan", "resume", "unlist", "unsuspend",
        "broadcast"}
Ops == {"none", "suspendAll", "resumeAll", "undo", "suspendThread", "resumeThread",
        "trace", "listWork", "suspendSelf"}

\* Operations that take gDvm._threadSuspendLock.
AllThreadOps == {"suspendAll", "resumeAll", "undo"}

\* Types; for the counts, that no thread is resumed more often than suspended.
TypeOK ==
  /\ status \in [Threads -> Status]
  /\ suspendCount \in [Threads -> Nat]
  /\ dbgSuspendCount \in [Threads -> Int]
  /\ suspendLock \in Threads \cup {NoThread}
  /\ listLock \in Threads \cup {NoThread}
  /\ eventThread \in Threads \cup {NoThread}
  /\ pc \in [Threads -> PCs]
  /\ op \in [Threads -> Ops]
  /\ why \in [Threads -> {"vm", "debug", "event"}]
  /\ target \in [Threads -> Threads \cup {NoThread}]
  /\ oldStatus \in [Threads -> Status]
  /\ scan \in [Threads -> SUBSET Threads]
  /\ stopped \in [Threads -> BOOLEAN]

\* The compiler and the JDWP thread have reached their idle loops.
Idle(t) == t \in Compilers \cup {Jdwp}

Init ==
  /\ status = [t \in Threads |-> IF Idle(t) THEN "VMWAIT" ELSE "RUNNING"]
  /\ suspendCount = [t \in Threads |-> 0]
  /\ dbgSuspendCount = [t \in Threads |-> 0]
  /\ suspendLock = NoThread
  /\ listLock = NoThread
  /\ eventThread = NoThread
  /\ pc = [t \in Threads |-> "run"]
  /\ op = [t \in Threads |-> "none"]
  /\ why = [t \in Threads |-> "vm"]
  /\ target = [t \in Threads |-> NoThread]
  /\ oldStatus = [t \in Threads |-> "RUNNING"]
  /\ scan = [t \in Threads |-> {}]
  /\ stopped = [t \in Threads |-> FALSE]

Goto(t, label) == pc' = [pc EXCEPT ![t] = label]

\* t starts operation o at label, for cause w on thread u.
Begin(t, o, w, u, label) ==
  /\ pc[t] = "run"
  /\ Goto(t, label)
  /\ op' = [op EXCEPT ![t] = o]
  /\ why' = [why EXCEPT ![t] = w]
  /\ target' = [target EXCEPT ![t] = u]

\* The operation of t is over.
Finish(t) ==
  /\ Goto(t, "run")
  /\ op' = [op EXCEPT ![t] = "none"]
  /\ why' = [why EXCEPT ![t] = "vm"]
  /\ target' = [target EXCEPT ![t] = NoThread]

\* dvmAddToSuspendCounts on the threads of S.
AddToSuspendCounts(S, delta, dbgDelta) ==
  /\ suspendCount' = [u \in Threads |->
                        IF u \in S THEN suspendCount[u] + delta ELSE suspendCount[u]]
  /\ dbgSuspendCount' = [u \in Threads |->
                        IF u \in S THEN dbgSuspendCount[u] + dbgDelta
                        ELSE dbgSuspendCount[u]]

\* Mutant of BroadcastGoto: pthread_cond_signal wakes one thread.
SignalGoto(t, label) ==
  IF \E v \in Threads : pc[v] = "asleep"
  THEN \E v \in Threads : /\ pc[v] = "asleep"
                          /\ pc' = [pc EXCEPT ![t] = label, ![v] = "woken"]
  ELSE Goto(t, label)

\* pthread_cond_broadcast on threadSuspendCountCond, t going on to label.
BroadcastGoto(t, label) ==
  pc' = [u \in Threads |-> IF u = t THEN label
                           ELSE IF pc[u] = "asleep" THEN "woken" ELSE pc[u]]

-----------------------------------------------------------------------------
(* dvmChangeStatus, dvmCheckSuspendPending and fullSuspendCheck.           *)

\* Where t goes on when the check is over: lockThreadSuspend tries again.
AfterCheck(t) == IF op[t] \in AllThreadOps THEN "try" ELSE "run"

Working(t) == pc[t] = "run" /\ status[t] = "RUNNING" /\ ~stopped[t]
Quiet(t)   == pc[t] = "run" /\ status[t] = "VMWAIT"

\* dvmChangeStatus to a quiet status: native code, or a debugger request or
\* the filling in of class pointers done.
LeaveRunning(t) ==
  /\ Working(t)
  /\ status' = [status EXCEPT ![t] = IF Idle(t) THEN "VMWAIT" ELSE "NATIVE"]
  /\ UNCHANGED <<counts, locks, eventThread, pc, call, oldStatus, scan, stopped>>

\* dvmChangeStatus to RUNNING stores the status first; then it reads the count.
\* The JDWP thread has waited for the thread that is posting an event; the
\* compiler is about to fill class pointers into what it has emitted.
ChangeToRunning(t) ==
  /\ pc[t] = "run"
  /\ \/ status[t] = "NATIVE"
     \/ t = Jdwp /\ status[t] = "VMWAIT" /\ eventThread = NoThread
     \/ t \in Compilers /\ status[t] = "VMWAIT" /\ ~stopped[t]
  /\ status' = [status EXCEPT ![t] = "RUNNING"]
  /\ Goto(t, "check")
  /\ UNCHANGED <<counts, locks, eventThread, call, oldStatus, scan, stopped>>

CheckSuspend(t) ==
  /\ pc[t] = "check"
  /\ Goto(t, IF suspendCount[t] = 0 THEN AfterCheck(t) ELSE "full")
  /\ UNCHANGED <<status, counts, locks, eventThread, call, oldStatus, scan, stopped>>

\* dvmCheckSuspendPending in the interpreter: no change when the count is 0.
SafePoint(t) ==
  /\ Working(t)
  /\ suspendCount[t] # 0
  /\ Goto(t, "full")
  /\ UNCHANGED <<status, counts, locks, eventThread, call, oldStatus, scan, stopped>>

\* The compiler's own look at its count before each order, from VMWAIT.
CheckBeforeOrder(t) ==
  /\ t \in Compilers
  /\ Quiet(t) /\ ~stopped[t]
  /\ suspendCount[t] # 0
  /\ Goto(t, "full")
  /\ UNCHANGED <<status, counts, locks, eventThread, call, oldStatus, scan, stopped>>

FullSuspendCheck(t) ==
  /\ pc[t] = "full"
  /\ IF suspendCount[t] # 0
     THEN /\ oldStatus' = [oldStatus EXCEPT ![t] = status[t]]
          /\ status' = [status EXCEPT ![t] = "SUSPENDED"]
          /\ Goto(t, "asleep")
     ELSE Goto(t, AfterCheck(t)) /\ UNCHANGED <<status, oldStatus>>
  /\ UNCHANGED <<counts, locks, eventThread, call, scan, stopped>>

\* Mutant of WakeUp: the count is not looked at again after the wait.
WakeUpOnce(t) ==
  /\ pc[t] = "woken"
  /\ IF op[t] = "suspendSelf" THEN Finish(t) ELSE Goto(t, AfterCheck(t)) /\ UNCHANGED call
  /\ status' = [status EXCEPT ![t] = "RUNNING"]
  /\ UNCHANGED <<counts, locks, eventThread, oldStatus, scan, stopped>>

\* The loop around dvmWaitCond; dvmSuspendSelf comes out of it RUNNING.
WakeUp(t) ==
  /\ pc[t] = "woken"
  /\ IF suspendCount[t] # 0
     THEN Goto(t, "asleep") /\ UNCHANGED <<status, call>>
     ELSE IF op[t] = "suspendSelf"
     THEN Finish(t) /\ status' = [status EXCEPT ![t] = "RUNNING"]
     ELSE /\ Goto(t, AfterCheck(t))
          /\ status' = [status EXCEPT ![t] = oldStatus[t]]
          /\ UNCHANGED call
  /\ UNCHANGED <<counts, locks, eventThread, oldStatus, scan, stopped>>

-----------------------------------------------------------------------------
(* lockThreadSuspend, dvmLockThreadList and the unlocks.                   *)

\* Mutant of TryLockThreadSuspend: wait for the lock without a suspend check.
BlockOnThreadSuspend(t) ==
  /\ pc[t] = "try"
  /\ suspendLock = NoThread
  /\ suspendLock' = t
  /\ Goto(t, "leave")
  /\ UNCHANGED <<status, counts, listLock, eventThread, call, oldStatus, scan, stopped>>

\* A failed trylock is followed by dvmCheckSuspendPending and another attempt.
TryLockThreadSuspend(t) ==
  /\ pc[t] = "try"
  /\ IF suspendLock = NoThread
     THEN suspendLock' = t /\ Goto(t, "leave")
     ELSE Goto(t, "check") /\ UNCHANGED suspendLock
  /\ UNCHANGED <<status, counts, listLock, eventThread, call, oldStatus, scan, stopped>>

\* Mutant of LockListLeave: RUNNING while waiting for the lock.
LockListRunning(t) ==
  /\ pc[t] = "leave"
  /\ oldStatus' = [oldStatus EXCEPT ![t] = status[t]]
  /\ Goto(t, "list")
  /\ UNCHANGED <<status, counts, locks, eventThread, call, scan, stopped>>

\* dvmLockThreadList: quiet while waiting, then the old status unchecked.
LockListLeave(t) ==
  /\ pc[t] = "leave"
  /\ oldStatus' = [oldStatus EXCEPT ![t] = status[t]]
  /\ status' = [status EXCEPT ![t] = "VMWAIT"]
  /\ Goto(t, "list")
  /\ UNCHANGED <<counts, locks, eventThread, call, scan, stopped>>

LockList(t) ==
  /\ pc[t] = "list"
  /\ listLock = NoThread
  /\ listLock' = t
  /\ Goto(t, "restore")
  /\ UNCHANGED <<status, counts, suspendLock, eventThread, call, oldStatus, scan, stopped>>

\* Mutant of LockListRestore: a suspend check with the lock held.
LockListCheck(t) ==
  /\ pc[t] = "restore"
  /\ status' = [status EXCEPT ![t] = oldStatus[t]]
  /\ Goto(t, IF suspendCount[t] # 0 THEN "full"
             ELSE IF op[t] = "listWork" THEN "unlist" ELSE "count")
  /\ UNCHANGED <<counts, locks, eventThread, call, oldStatus, scan, stopped>>

LockListRestore(t) ==
  /\ pc[t] = "restore"
  /\ status' = [status EXCEPT ![t] = oldStatus[t]]
  /\ Goto(t, IF op[t] = "listWork" THEN "unlist" ELSE "count")
  /\ UNCHANGED <<counts, locks, eventThread, call, oldStatus, scan, stopped>>

\* dvmUnlockThreadList; dvmUndoDebuggerSuspensions broadcasts under the other lock.
UnlockList(t) ==
  /\ pc[t] = "unlist"
  /\ listLock' = NoThread
  /\ \/ op[t] = "undo" /\ Goto(t, "broadcast") /\ UNCHANGED call
     \/ op[t] \in {"suspendAll", "resumeAll"} /\ Goto(t, "unsuspend") /\ UNCHANGED call
     \/ op[t] \notin AllThreadOps /\ Finish(t)
  /\ UNCHANGED <<status, counts, suspendLock, eventThread, oldStatus, scan, stopped>>

\* unlockThreadSuspend, the end of dvmSuspendAllThreads and of the undo.
UnlockThreadSuspend(t) ==
  /\ pc[t] = "unsuspend"
  /\ suspendLock' = NoThread
  /\ \/ op[t] = "resumeAll" /\ Goto(t, "broadcast") /\ UNCHANGED call
     \/ op[t] = "suspendAll" /\ why[t] = "event" /\ Goto(t, "self") /\ UNCHANGED call
     \/ op[t] = "suspendAll" /\ why[t] # "event" /\ Finish(t)
     \/ op[t] = "undo" /\ Finish(t)
  /\ stopped' = [stopped EXCEPT ![t] = @ \/ (op[t] = "suspendAll" /\ why[t] = "vm")]
  /\ UNCHANGED <<status, counts, listLock, eventThread, oldStatus, scan>>

Broadcast(t) ==
  /\ pc[t] = "broadcast"
  /\ \/ op[t] = "undo" /\ BroadcastGoto(t, "unsuspend") /\ UNCHANGED call
     \/ /\ op[t] = "resumeAll"
        /\ BroadcastGoto(t, "run")
        /\ op' = [op EXCEPT ![t] = "none"]
        /\ why' = [why EXCEPT ![t] = "vm"]
        /\ UNCHANGED target
  /\ UNCHANGED <<status, counts, locks, eventThread, oldStatus, scan, stopped>>

-----------------------------------------------------------------------------
(* The suspend counts, under the thread list lock.                         *)

ForDebugger(w) == w \in {"debug", "event"}

\* Debugger suspensions spare the JDWP thread.
Affected(t, w) == {u \in Threads \ {t} : ~(ForDebugger(w) /\ u = Jdwp)}

\* Mutant of SuspendAll: the loop does not skip the calling thread.
SuspendAllAndSelf(t) ==
  /\ pc[t] = "count"
  /\ op[t] = "suspendAll"
  /\ AddToSuspendCounts(Affected(t, why[t]) \cup {t}, 1, IF ForDebugger(why[t]) THEN 1 ELSE 0)
  /\ scan' = [scan EXCEPT ![t] = Affected(t, why[t])]
  /\ Goto(t, "scan")
  /\ UNCHANGED <<status, locks, eventThread, call, oldStatus, stopped>>

SuspendAll(t) ==
  LET S == Affected(t, why[t]) IN
  /\ pc[t] = "count"
  /\ op[t] = "suspendAll"
  /\ AddToSuspendCounts(S, 1, IF ForDebugger(why[t]) THEN 1 ELSE 0)
  /\ scan' = [scan EXCEPT ![t] = S]
  /\ Goto(t, "scan")
  /\ UNCHANGED <<status, locks, eventThread, call, oldStatus, stopped>>

\* dvmSuspendThread, for the debugger and for getStackTrace.
SuspendThread(t) ==
  /\ pc[t] = "count"
  /\ op[t] \in {"suspendThread", "trace"}
  /\ AddToSuspendCounts({target[t]}, 1, 1)
  /\ scan' = [scan EXCEPT ![t] = {target[t]}]
  /\ Goto(t, "scan")
  /\ UNCHANGED <<status, locks, eventThread, call, oldStatus, stopped>>

\* waitForThreadSuspend, thread by thread, in some order.
WaitForThreadSuspend(t) ==
  /\ pc[t] = "scan"
  /\ \/ /\ \E u \in scan[t] : /\ status[u] # "RUNNING"
                              /\ scan' = [scan EXCEPT ![t] = @ \ {u}]
        /\ UNCHANGED pc
     \/ /\ scan[t] = {}
        /\ Goto(t, IF op[t] = "trace" THEN "resume" ELSE "unlist")
        /\ UNCHANGED scan
  /\ UNCHANGED <<status, counts, locks, eventThread, call, oldStatus, stopped>>

ResumeAll(t) ==
  /\ pc[t] = "count"
  /\ op[t] = "resumeAll"
  /\ AddToSuspendCounts({u \in Affected(t, why[t]) : suspendCount[u] > 0},
                        -1, IF ForDebugger(why[t]) THEN -1 ELSE 0)
  /\ Goto(t, "unlist")
  /\ UNCHANGED <<status, locks, eventThread, call, oldStatus, scan, stopped>>

\* dvmResumeThread broadcasts, under the same lock, if the count is 0.
ResumeThread(t) ==
  LET u == target[t] IN
  /\ \/ pc[t] = "count" /\ op[t] = "resumeThread"
     \/ pc[t] = "resume"
  /\ AddToSuspendCounts({v \in {u} : suspendCount[v] > 0}, -1, -1)
  /\ IF suspendCount'[u] = 0 THEN BroadcastGoto(t, "unlist") ELSE Goto(t, "unlist")
  /\ UNCHANGED <<status, locks, eventThread, call, oldStatus, scan, stopped>>

\* Mutant of UndoDebuggerSuspensions: the debugger's share is not reset.
UndoKeepsShare(t) ==
  /\ pc[t] = "count"
  /\ op[t] = "undo"
  /\ suspendCount' = [u \in Threads |->
       IF u \in {t, Jdwp} THEN suspendCount[u] ELSE suspendCount[u] - dbgSuspendCount[u]]
  /\ Goto(t, "unlist")
  /\ UNCHANGED <<status, dbgSuspendCount, locks, eventThread, call, oldStatus, scan,
                 stopped>>

\* dvmUndoDebuggerSuspensions: the debugger has disconnected.
UndoDebuggerSuspensions(t) ==
  /\ pc[t] = "count"
  /\ op[t] = "undo"
  /\ suspendCount' = [u \in Threads |->
       IF u \in {t, Jdwp} THEN suspendCount[u] ELSE suspendCount[u] - dbgSuspendCount[u]]
  /\ dbgSuspendCount' = [u \in Threads |->
       IF u \in {t, Jdwp} THEN dbgSuspendCount[u] ELSE 0]
  /\ Goto(t, "unlist")
  /\ UNCHANGED <<status, locks, eventThread, call, oldStatus, scan, stopped>>

-----------------------------------------------------------------------------
(* Debugger events: suspendByPolicy and dvmSuspendSelf.                    *)

\* dvmJdwpSetWaitForEventThread: one thread at a time posts an event.
TakeEventToken(t) ==
  /\ pc[t] = "token"
  /\ eventThread = NoThread
  /\ eventThread' = t
  /\ \/ "all" \in EventPolicies /\ Goto(t, "try")
     \/ "thread" \in EventPolicies /\ Goto(t, "self")
  /\ UNCHANGED <<status, counts, locks, call, oldStatus, scan, stopped>>

\* dvmSuspendSelf; dvmJdwpClearWaitForEventThread lets the JDWP thread go on.
SuspendSelf(t) ==
  /\ pc[t] = "self"
  /\ AddToSuspendCounts({t}, 1, 1)
  /\ status' = [status EXCEPT ![t] = "SUSPENDED"]
  /\ eventThread' = NoThread
  /\ op' = [op EXCEPT ![t] = "suspendSelf"]
  /\ Goto(t, "asleep")
  /\ UNCHANGED <<locks, why, target, oldStatus, scan, stopped>>

-----------------------------------------------------------------------------
(* What the parts of the VM ask for.                                       *)

\* dvmCollectGarbageInternal, or the compiler thread resizing its tables.
StopTheWorld(t) ==
  /\ \/ t \in Collectors /\ Working(t)
     \/ t \in Compilers /\ Quiet(t) /\ ~stopped[t]
  /\ Begin(t, "suspendAll", "vm", NoThread, "try")
  /\ UNCHANGED <<status, counts, locks, eventThread, oldStatus, scan, stopped>>

RestartTheWorld(t) ==
  /\ stopped[t]
  /\ Begin(t, "resumeAll", "vm", NoThread, "try")
  /\ stopped' = [stopped EXCEPT ![t] = FALSE]
  /\ UNCHANGED <<status, counts, locks, eventThread, oldStatus, scan>>

\* Thread.interrupt(), dvmVisitRoots and others look at the thread list.
UseThreadList(t) ==
  /\ t \in ListLockers
  /\ status[t] = "RUNNING"
  /\ Begin(t, "listWork", "vm", NoThread, "leave")
  /\ UNCHANGED <<status, counts, locks, eventThread, oldStatus, scan, stopped>>

\* getTraceBuf: suspend, snapshot, resume, all under the thread list lock.
GetStackTrace(t) ==
  /\ t \in Tracers
  /\ Working(t)
  /\ \E u \in Threads \ {t} : Begin(t, "trace", "debug", u, "leave")
  /\ UNCHANGED <<status, counts, locks, eventThread, oldStatus, scan, stopped>>

MayDebug == \A u \in Threads : dbgSuspendCount[u] < MaxDebug

\* A breakpoint or the like: quiet first, then the suspensions.
PostEvent(t) ==
  /\ Jdwp # NoThread /\ EventPolicies # {} /\ t # Jdwp
  /\ MayDebug
  /\ Working(t)
  /\ Begin(t, "suspendAll", "event", NoThread, "token")
  /\ status' = [status EXCEPT ![t] = "VMWAIT"]
  /\ UNCHANGED <<counts, locks, eventThread, oldStatus, scan, stopped>>

\* The JDWP thread carries out a request; the undo comes when it has ended.
DebuggerCall(c) ==
  /\ c \in DebuggerCalls
  /\ IF c = "undo" THEN Quiet(Jdwp) ELSE Working(Jdwp)
  /\ \/ c = "suspendVM" /\ MayDebug /\ Begin(Jdwp, "suspendAll", "debug", NoThread, "try")
     \/ c = "resumeVM" /\ Begin(Jdwp, "resumeAll", "debug", NoThread, "try")
     \/ c = "undo" /\ Begin(Jdwp, "undo", "debug", NoThread, "try")
     \/ /\ c \in {"suspendThread", "resumeThread"}
        /\ c = "suspendThread" => MayDebug
        /\ \E u \in Threads \ {Jdwp} : Begin(Jdwp, c, "debug", u, "leave")
  /\ UNCHANGED <<status, counts, locks, eventThread, oldStatus, scan, stopped>>

-----------------------------------------------------------------------------

\* What a thread does next inside the functions of Thread.cpp.
Step(t) ==
  \/ CheckSuspend(t) \/ FullSuspendCheck(t) \/ WakeUp(t)
  \/ TryLockThreadSuspend(t)
  \/ LockListLeave(t) \/ LockList(t) \/ LockListRestore(t)
  \/ UnlockList(t) \/ UnlockThreadSuspend(t) \/ Broadcast(t)
  \/ SuspendAll(t) \/ SuspendThread(t) \/ WaitForThreadSuspend(t)
  \/ ResumeAll(t) \/ ResumeThread(t) \/ UndoDebuggerSuspensions(t)
  \/ TakeEventToken(t) \/ SuspendSelf(t)

Start(t) ==
  \/ LeaveRunning(t) \/ ChangeToRunning(t) \/ SafePoint(t) \/ CheckBeforeOrder(t)
  \/ StopTheWorld(t) \/ RestartTheWorld(t)
  \/ UseThreadList(t) \/ GetStackTrace(t) \/ PostEvent(t)

Next ==
  \/ \E t \in Threads : Step(t) \/ Start(t)
  \/ Jdwp \in Threads /\ \E c \in DebuggerCalls : DebuggerCall(c)

Spec == Init /\ [][Next]_vars

-----------------------------------------------------------------------------
(* Safety.                                                                 *)

\* t executes managed code, or other code of the VM that touches the heap.
InManagedCode(t) == status[t] = "RUNNING" /\ pc[t] = "run"

\* "The GC only runs when all threads have been suspended": between the return
\* of dvmSuspendAllThreads and dvmResumeAllThreads nobody else is RUNNING past
\* its check of the suspend count.
WorldStopped ==
  \A t, u \in Threads : stopped[t] /\ t # u => ~InManagedCode(u)

\* The suspensions of u for the VM that are in effect.
StopsInEffect(t) ==
  \/ stopped[t]
  \/ op[t] = "suspendAll" /\ why[t] = "vm" /\ pc[t] \in {"scan", "unlist", "unsuspend"}
  \/ /\ op[t] = "resumeAll" /\ why[t] = "vm"
     /\ pc[t] \in {"try", "check", "full", "asleep", "woken", "leave", "list",
                   "restore", "count"}

\* Every suspension is undone once and none twice, whoever else suspends,
\* resumes or disconnects meanwhile: apart from the debugger's share the count
\* of a thread is the number of others that hold the VM stopped.
SuspendCountsAddUp ==
  \A u \in Threads :
    suspendCount[u] - dbgSuspendCount[u] =
      Cardinality({t \in Threads \ {u} : StopsInEffect(t)})

\* The assertions of dvmSuspendSelf and fullSuspendCheck, that the debugger's
\* share is 0 when the count is, and of dvmUndoDebuggerSuspensions.
DebuggerShareInCount ==
  \A u \in Threads : 0 <= dbgSuspendCount[u] /\ dbgSuspendCount[u] <= suspendCount[u]

\* No lost wakeup: a thread that sleeps with its count at 0 is still to be
\* reached by the broadcast of the operation that brought it there.
ResumeNotLost ==
  \A t \in Threads :
    pc[t] = "asleep" /\ suspendCount[t] = 0 =>
      \E u \in Threads : /\ op[u] \in {"resumeAll", "undo"}
                         /\ pc[u] \in {"unlist", "unsuspend", "broadcast"}

\* Whoever waits for the others to stop, or tells them to go on, is not itself
\* asleep: the locks are held by threads that make progress.
HoldersAwake ==
  \A t \in Threads :
    t \in {suspendLock, listLock} => pc[t] \notin {"asleep", "woken", "run"}

\* "We are not allowed to GC when the debugger has suspended the VM": a thread
\* that holds the world stopped is not put to sleep by the debugger, which
\* could not tell it to resume, being stopped itself.
GcNotHeldByDebugger ==
  \A t \in Threads :
    StopsInEffect(t) => ~(pc[t] = "asleep" /\ dbgSuspendCount[t] > 0)
=============================================================================
