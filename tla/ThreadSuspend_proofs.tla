------------------------ MODULE ThreadSuspend_proofs ------------------------
(***************************************************************************)
(* Proofs about suspension, for any threads and any number of suspensions. *)
(* The invariant says which operation a thread is making at which point,   *)
(* that the two locks have the owners the code believes they have, that    *)
(* the counts are the suspensions in effect, and that a thread which was   *)
(* seen stopped can only get as far as its next suspend check.             *)
(***************************************************************************)
EXTENDS ThreadSuspend, FiniteSetTheorems, TLAPS

Stoppers    == Collectors \cup Compilers
SingleCalls == {"suspendThread", "resumeThread"}

\* The debugger does not suspend or resume threads one by one while others stop
\* the world: it resumes a thread whatever it was suspended for.
CountsAssumption == Jdwp \in Threads => DebuggerCalls \cap SingleCalls = {} \/ Stoppers = {}

\* u takes the thread list lock only with the suspend lock held.
Orderly(u) == u \notin ListLockers \cup Tracers /\ (u = Jdwp => DebuggerCalls \cap SingleCalls = {})

SuspendTypes ==
  /\ status \in [Threads -> Status] /\ oldStatus \in [Threads -> Status]
  /\ suspendCount \in [Threads -> Int] /\ dbgSuspendCount \in [Threads -> Int]
  /\ {suspendLock, listLock, eventThread} \subseteq Threads \cup {NoThread}
  /\ pc \in [Threads -> PCs] /\ op \in [Threads -> Ops]
  /\ why \in [Threads -> {"vm", "debug", "event"}]
  /\ target \in [Threads -> Threads \cup {NoThread}]
  /\ scan \in [Threads -> SUBSET Threads] /\ stopped \in [Threads -> BOOLEAN]

CheckPoints == {"check", "full", "asleep", "woken"}
ListPoints  == {"leave", "list", "restore", "count", "unlist"}

\* Where an operation can be, and whose it is.
OpAt(t) ==
  \/ op[t] = "none" /\ pc[t] \in {"run"} \cup CheckPoints
  \/ op[t] = "suspendAll" /\ pc[t] \in {"token", "try", "scan", "unsuspend", "self"}
                                         \cup CheckPoints \cup ListPoints
  \/ op[t] \in {"resumeAll", "undo"} /\ pc[t] \in {"try", "unsuspend", "broadcast"}
                                                   \cup CheckPoints \cup ListPoints
  \/ op[t] \in {"suspendThread", "resumeThread"} /\ pc[t] \in {"scan"} \cup ListPoints
  \/ op[t] = "trace" /\ pc[t] \in {"scan", "resume"} \cup ListPoints
  \/ op[t] = "listWork" /\ pc[t] \in {"leave", "list", "restore", "unlist"}
  \/ op[t] = "suspendSelf" /\ pc[t] \in {"asleep", "woken"}

OpBy(t) ==
  /\ op[t] \in {"suspendAll", "resumeAll"} /\ why[t] = "vm" => t \in Stoppers
  /\ op[t] = "resumeAll" => why[t] \in {"vm", "debug"}
  /\ op[t] = "resumeAll" /\ why[t] = "debug" => t = Jdwp
  /\ op[t] = "undo" => t = Jdwp /\ why[t] = "debug"
  /\ op[t] \in SingleCalls => t = Jdwp /\ op[t] \in DebuggerCalls
  /\ op[t] = "trace" => t \in Tracers
  /\ op[t] = "listWork" => t \in ListLockers
  /\ op[t] \in SingleCalls \cup {"trace"} => target[t] \in Threads
  /\ stopped[t] => t \in Stoppers /\ op[t] \in {"none", "listWork"}

Control == \A t \in Threads : OpAt(t) /\ OpBy(t)

HasSuspendLock(t) ==
  /\ op[t] \in AllThreadOps
  /\ \/ pc[t] \in {"scan", "unsuspend"} \cup ListPoints
     \/ op[t] = "undo" /\ pc[t] = "broadcast"
HasListLock(t) == pc[t] \in {"restore", "count", "scan", "resume", "unlist"}

LocksOwned == \A t \in Threads : /\ suspendLock = t <=> HasSuspendLock(t)
                                 /\ listLock = t <=> HasListLock(t)

Scanning == \A t \in Threads : pc[t] # "scan" => scan[t] = {}

\* The thread that getStackTrace looks at stays suspended.
TracedSuspended ==
  \A t \in Threads : op[t] = "trace" /\ pc[t] \in {"scan", "resume"} => dbgSuspendCount[target[t]] > 0

\* u has been seen stopped: it is not RUNNING but on its way into the check,
\* and waiting for the thread list lock will not make it so.
Halted(u) == /\ status[u] = "RUNNING" => pc[u] \in {"check", "full"}
             /\ pc[u] \in {"list", "restore"} => oldStatus[u] # "RUNNING"
OthersHalted ==
  \A t, u \in Threads : t # u /\ StopsInEffect(t) /\ u \notin scan[t] /\ Orderly(u) => Halted(u)

\* A thread asleep with its count at 0 has its broadcast to come.
WakeUpComes ==
  \A t \in Threads : pc[t] = "asleep" /\ suspendCount[t] = 0 =>
    \E u \in Threads : \/ op[u] = "resumeAll" /\ pc[u] \in {"unlist", "unsuspend", "broadcast"}
                       \/ op[u] = "undo" /\ pc[u] \in {"unlist", "broadcast"}

\* The debugger resumes the VM as a thread that is RUNNING.
DebuggerRuns ==
  \A t \in Threads : op[t] = "resumeAll" /\ why[t] = "debug" =>
    IF pc[t] \in {"list", "restore", "asleep", "woken"} THEN oldStatus[t] = "RUNNING"
    ELSE status[t] = "RUNNING"

Shape == SuspendTypes /\ Control /\ LocksOwned /\ Scanning /\ DebuggerRuns

SuspendInv == /\ Shape /\ SuspendCountsAddUp /\ DebuggerShareInCount /\ TracedSuspended
              /\ OthersHalted /\ WakeUpComes

-----------------------------------------------------------------------------
(* The counts and the suspensions in effect.                               *)

Others(u) == {v \in Threads \ {u} : StopsInEffect(v)}

\* There are finitely many of them, and a suspension in effect is one.
LEMMA OthersCounted ==
  ASSUME NEW u \in Threads
  PROVE  /\ IsFiniteSet(Others(u)) /\ Cardinality(Others(u)) \in Nat
         /\ Others(u) = {} => Cardinality(Others(u)) = 0
         /\ Others(u) # {} => Cardinality(Others(u)) > 0
<1>1. Others(u) \in SUBSET Threads
  BY DEF Others
<1>2. IsFiniteSet(Others(u))
  BY <1>1, FS_Subset, ThreadsAssumption
<1>3. QED
  BY <1>2, FS_CardinalityType, FS_EmptySet

\* One more, and one fewer.
LEMMA OneMore == ASSUME NEW S, IsFiniteSet(S), NEW x, x \notin S PROVE Cardinality(S \cup {x}) = Cardinality(S) + 1
  BY FS_AddElement
LEMMA OneLess == ASSUME NEW S, IsFiniteSet(S), NEW x \in S PROVE Cardinality(S \ {x}) = Cardinality(S) - 1
  BY FS_RemoveElement

\* The count of a thread that somebody has stopped is not 0.
LEMMA StopCounted ==
  ASSUME SuspendInv
  PROVE  /\ \A u \in Threads : suspendCount[u] >= 0
         /\ \A u \in Threads : suspendCount[u] - dbgSuspendCount[u] = Cardinality(Others(u))
         /\ \A u, v \in Threads : StopsInEffect(v) /\ v # u => suspendCount[u] > dbgSuspendCount[u]
         /\ \A u \in Threads : Others(u) = {} => suspendCount[u] = dbgSuspendCount[u]
<1> SUFFICES ASSUME NEW u \in Threads
             PROVE  /\ suspendCount[u] >= 0
                    /\ suspendCount[u] - dbgSuspendCount[u] = Cardinality(Others(u))
                    /\ \A v \in Threads : StopsInEffect(v) /\ v # u => suspendCount[u] > dbgSuspendCount[u]
                    /\ Others(u) = {} => suspendCount[u] = dbgSuspendCount[u]
  OBVIOUS
<1>1. suspendCount[u] \in Int /\ dbgSuspendCount[u] \in Int /\ dbgSuspendCount[u] >= 0
  BY DEF SuspendInv, Shape, SuspendTypes, DebuggerShareInCount
<1>2. suspendCount[u] - dbgSuspendCount[u] = Cardinality(Others(u))
  BY DEF SuspendInv, SuspendCountsAddUp, Others
<1>3. \A v \in Threads : StopsInEffect(v) /\ v # u => Others(u) # {}
  BY DEF Others
<1>4. QED
  BY <1>1, <1>2, <1>3, OthersCounted

\* A step that keeps the suspensions in effect keeps their number.
LEMMA SameOthers ==
  ASSUME SuspendInv, \A v \in Threads : StopsInEffect(v)' <=> StopsInEffect(v),
         \A u \in Threads : suspendCount'[u] - dbgSuspendCount'[u] = suspendCount[u] - dbgSuspendCount[u]
  PROVE  SuspendCountsAddUp'
<1>1. \A u \in Threads : {v \in Threads \ {u} : StopsInEffect(v)'} = {v \in Threads \ {u} : StopsInEffect(v)}
  OBVIOUS
<1>2. QED
  BY <1>1 DEF SuspendInv, SuspendCountsAddUp

\* The counts are natural numbers.
LEMMA TypesOfSuspend == SuspendInv => TypeOK
<1> SUFFICES ASSUME SuspendInv PROVE TypeOK
  OBVIOUS
<1>1. suspendCount \in [Threads -> Int] /\ \A u \in Threads : suspendCount[u] >= 0
  BY StopCounted DEF SuspendInv, Shape, SuspendTypes
<1>2. suspendCount \in [Threads -> Nat]
  BY <1>1
<1>3. QED
  BY <1>2 DEF SuspendInv, Shape, SuspendTypes, TypeOK

-----------------------------------------------------------------------------
(* Steps that leave the counts alone.                                      *)

USE ThreadsAssumption, RolesAssumption
USE DEF SuspendInv, Shape, SuspendTypes, Control, OpAt, OpBy, LocksOwned, HasSuspendLock, HasListLock,
        Scanning, DebuggerRuns, CheckPoints, ListPoints, SingleCalls, Stoppers, AllThreadOps, PCs, Ops, Status
USE DEF Goto, Begin, Finish, BroadcastGoto, AddToSuspendCounts, AfterCheck, Working, Quiet, AllCalls,
        MayDebug, Affected, ForDebugger, counts, locks, call

Counting(t) == \/ SuspendAll(t) \/ SuspendThread(t) \/ ResumeAll(t)
               \/ ResumeThread(t) \/ UndoDebuggerSuspensions(t) \/ SuspendSelf(t)

\* They keep operations, points and locks together, and every suspension.
LEMMA QuietShape ==
  ASSUME Shape, NEW t \in Threads, Step(t) \/ Start(t), ~Counting(t)
  PROVE  /\ Shape' /\ UNCHANGED counts
         /\ \A v \in Threads : StopsInEffect(v)' <=> StopsInEffect(v)
<1> USE DEF StopsInEffect
<1>1. CASE CheckSuspend(t)
  BY <1>1 DEF CheckSuspend
<1>2. CASE FullSuspendCheck(t)
  BY <1>2 DEF FullSuspendCheck
<1>3. CASE WakeUp(t)
  <2>1. CASE suspendCount[t] # 0
    BY <1>3, <2>1 DEF WakeUp
  <2>2. CASE suspendCount[t] = 0 /\ op[t] = "suspendSelf"
    <3>1. /\ op' = [op EXCEPT ![t] = "none"] /\ pc' = [pc EXCEPT ![t] = "run"]
          /\ why' = [why EXCEPT ![t] = "vm"] /\ target' = [target EXCEPT ![t] = NoThread]
          /\ status' = [status EXCEPT ![t] = "RUNNING"]
          /\ UNCHANGED <<counts, locks, eventThread, oldStatus, scan, stopped>>
      BY <1>3, <2>2 DEF WakeUp
    <3>2. Shape'
      BY <2>2, <3>1
    <3>3. QED
      BY <2>2, <3>1, <3>2
  <2>3. CASE suspendCount[t] = 0 /\ op[t] # "suspendSelf"
    BY <1>3, <2>3 DEF WakeUp
  <2>4. QED
    BY <2>1, <2>2, <2>3
<1>4. CASE TryLockThreadSuspend(t)
  BY <1>4 DEF TryLockThreadSuspend
<1>5. CASE LockListLeave(t)
  BY <1>5 DEF LockListLeave
<1>6. CASE LockList(t)
  BY <1>6 DEF LockList
<1>7. CASE LockListRestore(t)
  BY <1>7 DEF LockListRestore
<1>8. CASE UnlockList(t)
  <2>1. CASE op[t] \in AllThreadOps
    BY <1>8, <2>1 DEF UnlockList
  <2>2. CASE op[t] \notin AllThreadOps
    <3>1. /\ op' = [op EXCEPT ![t] = "none"] /\ pc' = [pc EXCEPT ![t] = "run"]
          /\ why' = [why EXCEPT ![t] = "vm"] /\ target' = [target EXCEPT ![t] = NoThread]
          /\ listLock' = NoThread
          /\ UNCHANGED <<status, counts, suspendLock, eventThread, oldStatus, scan, stopped>>
      BY <1>8, <2>2 DEF UnlockList
    <3>2. Shape'
      BY <1>8, <2>2, <3>1 DEF UnlockList
    <3>3. QED
      BY <2>2, <3>1, <3>2
  <2>3. QED
    BY <2>1, <2>2
<1>9. CASE UnlockThreadSuspend(t)
  <2>1. CASE op[t] = "suspendAll" /\ why[t] = "vm"
    <3>1. /\ op' = [op EXCEPT ![t] = "none"] /\ pc' = [pc EXCEPT ![t] = "run"]
          /\ why' = [why EXCEPT ![t] = "vm"] /\ target' = [target EXCEPT ![t] = NoThread]
          /\ stopped' = [stopped EXCEPT ![t] = TRUE] /\ suspendLock' = NoThread
          /\ UNCHANGED <<status, counts, listLock, eventThread, oldStatus, scan>>
      BY <1>9, <2>1 DEF UnlockThreadSuspend
    <3>2. pc[t] = "unsuspend" /\ StopsInEffect(t) /\ t \in Stoppers
      BY <1>9, <2>1 DEF UnlockThreadSuspend
    <3>3. Shape'
      BY <2>1, <3>1, <3>2
    <3>4. QED
      BY <3>1, <3>2, <3>3
  <2>2. CASE op[t] = "suspendAll" /\ why[t] # "vm"
    BY <1>9, <2>2 DEF UnlockThreadSuspend
  <2>3. CASE op[t] # "suspendAll"
    BY <1>9, <2>3 DEF UnlockThreadSuspend
  <2>4. QED
    BY <2>1, <2>2, <2>3
<1>10. CASE Broadcast(t)
  BY <1>10 DEF Broadcast
<1>11. CASE WaitForThreadSuspend(t)
  BY <1>11 DEF WaitForThreadSuspend
<1>12. CASE TakeEventToken(t)
  BY <1>12 DEF TakeEventToken
<1>13. CASE LeaveRunning(t)
  BY <1>13 DEF LeaveRunning, Idle
<1>14. CASE ChangeToRunning(t)
  BY <1>14 DEF ChangeToRunning
<1>15. CASE SafePoint(t)
  BY <1>15 DEF SafePoint
<1>16. CASE StopTheWorld(t)
  BY <1>16 DEF StopTheWorld
<1>17. CASE RestartTheWorld(t)
  BY <1>17 DEF RestartTheWorld
<1>18. CASE UseThreadList(t)
  BY <1>18 DEF UseThreadList
<1>19. CASE GetStackTrace(t)
  BY <1>19 DEF GetStackTrace
<1>20. CASE PostEvent(t)
  BY <1>20 DEF PostEvent
<1>21. CASE CheckBeforeOrder(t)
  BY <1>21 DEF CheckBeforeOrder
<1>22. QED
  BY <1>1, <1>2, <1>3, <1>4, <1>5, <1>6, <1>7, <1>8, <1>9, <1>10, <1>11, <1>12, <1>13, <1>14,
     <1>15, <1>16, <1>17, <1>18, <1>19, <1>20, <1>21 DEF Step, Start, Counting

\* They let no halted thread go and lose no broadcast.
LEMMA QuietHalts ==
  ASSUME SuspendInv, NEW t \in Threads, Step(t) \/ Start(t), ~Counting(t)
  PROVE  OthersHalted' /\ WakeUpComes' /\ TracedSuspended'
<1> USE DEF StopsInEffect, OthersHalted, Halted, Orderly, WakeUpComes, TracedSuspended
<1> DEFINE Counted == \A v, u \in Threads : StopsInEffect(v) /\ v # u => suspendCount[u] > 0
<1>0. Counted
  BY StopCounted DEF DebuggerShareInCount
<1>1. CASE CheckSuspend(t)
  BY <1>0, <1>1 DEF CheckSuspend
<1>2. CASE FullSuspendCheck(t)
  BY <1>0, <1>2 DEF FullSuspendCheck
<1>3. CASE WakeUp(t)
  <2>1. OthersHalted'
    BY <1>0, <1>3 DEF WakeUp
  <2>2. WakeUpComes'
    BY <1>3 DEF WakeUp
  <2>3. TracedSuspended'
    BY <1>3 DEF WakeUp
  <2>4. QED
    BY <2>1, <2>2, <2>3
<1>4. CASE TryLockThreadSuspend(t)
  BY <1>0, <1>4 DEF TryLockThreadSuspend
<1>5. CASE LockListLeave(t)
  BY <1>0, <1>5 DEF LockListLeave
<1>6. CASE LockList(t)
  BY <1>0, <1>6 DEF LockList
<1>7. CASE LockListRestore(t)
  BY <1>0, <1>7 DEF LockListRestore
<1>8. CASE UnlockList(t)
  BY <1>0, <1>8 DEF UnlockList
<1>9. CASE UnlockThreadSuspend(t)
  <2>1. TracedSuspended'
    BY <1>9 DEF UnlockThreadSuspend
  <2>0. WakeUpComes'
    <3>1. \A u \in Threads \ {t} : pc'[u] = pc[u] /\ op'[u] = op[u]
      BY <1>9 DEF UnlockThreadSuspend
    <3>2. pc[t] = "unsuspend" /\ pc'[t] # "asleep" /\ UNCHANGED counts
      BY <1>9 DEF UnlockThreadSuspend
    <3>3. op[t] = "resumeAll" => op'[t] = "resumeAll" /\ pc'[t] = "broadcast"
      BY <1>9 DEF UnlockThreadSuspend
    <3>4. QED
      BY <3>1, <3>2, <3>3
  <2>2. OthersHalted'
    BY <1>9 DEF UnlockThreadSuspend
  <2>3. QED
    BY <2>0, <2>1, <2>2
<1>10. CASE Broadcast(t)
  BY <1>0, <1>10 DEF Broadcast
<1>11. CASE WaitForThreadSuspend(t)
  BY <1>0, <1>11 DEF WaitForThreadSuspend
<1>12. CASE TakeEventToken(t)
  BY <1>0, <1>12 DEF TakeEventToken
<1>13. CASE LeaveRunning(t)
  BY <1>0, <1>13 DEF LeaveRunning, Idle
<1>14. CASE ChangeToRunning(t)
  BY <1>0, <1>14 DEF ChangeToRunning
<1>15. CASE SafePoint(t)
  BY <1>0, <1>15 DEF SafePoint
<1>16. CASE StopTheWorld(t)
  BY <1>0, <1>16 DEF StopTheWorld
<1>17. CASE RestartTheWorld(t)
  BY <1>0, <1>17 DEF RestartTheWorld
<1>18. CASE UseThreadList(t)
  BY <1>0, <1>18 DEF UseThreadList
<1>19. CASE GetStackTrace(t)
  BY <1>0, <1>19 DEF GetStackTrace
<1>20. CASE PostEvent(t)
  BY <1>0, <1>20 DEF PostEvent
<1>21. CASE CheckBeforeOrder(t)
  BY <1>0, <1>21 DEF CheckBeforeOrder
<1>22. QED
  BY <1>1, <1>2, <1>3, <1>4, <1>5, <1>6, <1>7, <1>8, <1>9, <1>10, <1>11, <1>12, <1>13, <1>14,
     <1>15, <1>16, <1>17, <1>18, <1>19, <1>20, <1>21 DEF Step, Start, Counting

-----------------------------------------------------------------------------
(* Steps that change the counts.                                           *)

\* They keep operations, points and locks together; one begins a suspension of
\* the world, and one ends it.
LEMMA CountingShape ==
  ASSUME Shape, NEW t \in Threads, Counting(t)
  PROVE  /\ Shape'
         /\ ~(SuspendAll(t) \/ ResumeAll(t)) =>
              \A v \in Threads : StopsInEffect(v)' <=> StopsInEffect(v)
         /\ \A v \in Threads : v # t => (StopsInEffect(v)' <=> StopsInEffect(v))
<1> USE DEF StopsInEffect
<1>1. CASE SuspendAll(t)
  BY <1>1 DEF SuspendAll
<1>2. CASE SuspendThread(t)
  BY <1>2 DEF SuspendThread
<1>3. CASE ResumeAll(t)
  BY <1>3 DEF ResumeAll
<1>4. CASE ResumeThread(t)
  BY <1>4 DEF ResumeThread
<1>5. CASE UndoDebuggerSuspensions(t)
  BY <1>5 DEF UndoDebuggerSuspensions
<1>6. CASE SuspendSelf(t)
  BY <1>6 DEF SuspendSelf
<1>7. QED
  BY <1>1, <1>2, <1>3, <1>4, <1>5, <1>6 DEF Counting

\* They let no halted thread go and lose no broadcast: whoever brings a count
\* to 0 has the broadcast before it.
LEMMA CountingHalts ==
  ASSUME SuspendInv, NEW t \in Threads, Counting(t)
  PROVE  OthersHalted' /\ WakeUpComes'
<1> USE DEF OthersHalted, Halted, Orderly, WakeUpComes, StopsInEffect
<1>0. \A u \in Threads : suspendCount[u] >= 0
  BY StopCounted
<1>1. CASE SuspendAll(t)
  BY <1>0, <1>1 DEF SuspendAll
<1>2. CASE SuspendThread(t)
  BY <1>0, <1>2 DEF SuspendThread
<1>3. CASE ResumeAll(t)
  BY <1>3 DEF ResumeAll
<1>4. CASE ResumeThread(t)
  BY <1>4 DEF ResumeThread
<1>5. CASE UndoDebuggerSuspensions(t)
  BY <1>5 DEF UndoDebuggerSuspensions
<1>6. CASE SuspendSelf(t)
  BY <1>0, <1>6 DEF SuspendSelf
<1>7. QED
  BY <1>1, <1>2, <1>3, <1>4, <1>5, <1>6 DEF Counting

\* The debugger resumes the VM when nobody else has it stopped: it is RUNNING,
\* and a halted thread is not, past its check.
LEMMA ResumesAlone ==
  ASSUME SuspendInv, CountsAssumption, NEW t \in Threads, ResumeAll(t), why[t] = "debug"
  PROVE  \A u \in Threads : suspendCount[u] = dbgSuspendCount[u]
<1>1. t = Jdwp /\ status[t] = "RUNNING" /\ pc[t] = "count" /\ suspendLock = t
  BY DEF ResumeAll
<1>2. \A v \in Threads : StopsInEffect(v) => v # t /\ v \in Stoppers /\ scan[v] = {}
  BY <1>1 DEF StopsInEffect
<1>3. \A v \in Threads : ~StopsInEffect(v)
  <2>1. CASE Stoppers = {}
    BY <1>2, <2>1
  <2>2. CASE DebuggerCalls \cap SingleCalls = {}
    <3>1. Orderly(t)
      BY <1>1, <2>2 DEF Orderly
    <3>2. QED
      BY <1>1, <1>2, <3>1 DEF OthersHalted, Halted
  <2>3. QED
    BY <1>1, <2>1, <2>2 DEF CountsAssumption
<1>4. \A u \in Threads : Others(u) = {}
  BY <1>3 DEF Others
<1>5. QED
  BY <1>4, StopCounted

\* The thread that is resumed alone is one that was suspended for the debugger.
LEMMA ResumesSuspended ==
  ASSUME SuspendInv, CountsAssumption, NEW t \in Threads, ResumeThread(t)
  PROVE  target[t] \in Threads /\ (suspendCount[target[t]] > 0 => dbgSuspendCount[target[t]] > 0)
<1>1. target[t] \in Threads
  BY DEF ResumeThread
<1>2. CASE op[t] = "trace"
  BY <1>1, <1>2 DEF ResumeThread, TracedSuspended
<1>3. CASE op[t] = "resumeThread"
  <2>1. Stoppers = {}
    BY <1>3 DEF CountsAssumption
  <2>2. \A v \in Threads : ~StopsInEffect(v)
    BY <2>1 DEF StopsInEffect
  <2>3. Others(target[t]) = {}
    BY <2>2 DEF Others
  <2>4. QED
    BY <1>1, <2>3, StopCounted
<1>4. QED
  BY <1>2, <1>3 DEF ResumeThread

\* The debugger's share does not go below 0.
LEMMA ShareStep ==
  ASSUME SuspendInv, CountsAssumption, NEW t \in Threads, Counting(t)
  PROVE  (\A u \in Threads : dbgSuspendCount'[u] >= 0) /\ TracedSuspended'
<1> USE DEF TracedSuspended
<1>0. \A u \in Threads : dbgSuspendCount[u] >= 0
  BY DEF DebuggerShareInCount
<1>1. CASE SuspendAll(t)
  BY <1>0, <1>1 DEF SuspendAll
<1>2. CASE SuspendThread(t)
  BY <1>0, <1>2 DEF SuspendThread
<1>3. CASE ResumeAll(t)
  <2>1. listLock = t
    BY <1>3 DEF ResumeAll
  <2>2. \A v \in Threads : ~(op'[v] = "trace" /\ pc'[v] \in {"scan", "resume"})
    BY <1>3, <2>1 DEF ResumeAll
  <2>3. CASE why[t] = "vm"
    BY <1>0, <1>3, <2>2, <2>3 DEF ResumeAll
  <2>4. CASE why[t] = "debug"
    <3>1. \A u \in Threads : suspendCount[u] = dbgSuspendCount[u]
      BY <1>3, <2>4, ResumesAlone
    <3>2. \A u \in Threads : suspendCount[u] > 0 => dbgSuspendCount[u] - 1 >= 0
      BY <3>1
    <3>3. QED
      BY <1>0, <1>3, <2>2, <2>4, <3>2 DEF ResumeAll
  <2>5. QED
    BY <1>3, <2>3, <2>4 DEF ResumeAll
<1>4. CASE ResumeThread(t)
  <2>1. listLock = t
    BY <1>4 DEF ResumeThread
  <2>2. \A v \in Threads : ~(op'[v] = "trace" /\ pc'[v] \in {"scan", "resume"})
    BY <1>4, <2>1 DEF ResumeThread
  <2>3. \A u \in Threads : dbgSuspendCount'[u] >= 0
    <3>1. target[t] \in Threads /\ (suspendCount[target[t]] > 0 => dbgSuspendCount[target[t]] > 0)
      BY <1>4, ResumesSuspended
    <3>2. QED
      BY <1>0, <1>4, <3>1 DEF ResumeThread
  <2>4. QED
    BY <2>2, <2>3
<1>5. CASE UndoDebuggerSuspensions(t)
  <2>1. listLock = t
    BY <1>5 DEF UndoDebuggerSuspensions
  <2>2. \A v \in Threads : ~(op'[v] = "trace" /\ pc'[v] \in {"scan", "resume"})
    BY <1>5, <2>1 DEF UndoDebuggerSuspensions
  <2>3. QED
    BY <1>0, <1>5, <2>2 DEF UndoDebuggerSuspensions
<1>6. CASE SuspendSelf(t)
  BY <1>0, <1>6 DEF SuspendSelf
<1>7. QED
  BY <1>1, <1>2, <1>3, <1>4, <1>5, <1>6 DEF Counting

\* A new suspension is counted once by every other thread, and uncounted once.
LEMMA CountsStep ==
  ASSUME SuspendInv, NEW t \in Threads, Counting(t)
  PROVE  SuspendCountsAddUp'
<1> DEFINE Diff(u) == suspendCount[u] - dbgSuspendCount[u]
           New(u)  == {v \in Threads \ {u} : StopsInEffect(v)'}
<1>0. \A u \in Threads : Diff(u) = Cardinality(Others(u)) /\ Diff(u) \in Int
  BY StopCounted
<1>1. CASE SuspendAll(t) /\ why[t] = "vm"
  <2>1. StopsInEffect(t)' /\ ~StopsInEffect(t)
    BY <1>1 DEF SuspendAll, StopsInEffect
  <2>2. \A u \in Threads \ {t} : New(u) = Others(u) \cup {t} /\ t \notin Others(u)
    BY <2>1, CountingShape DEF Others
  <2>3. New(t) = Others(t)
    BY CountingShape DEF Others
  <2> HIDE DEF New
  <2>4. \A u \in Threads \ {t} : Cardinality(New(u)) = Cardinality(Others(u)) + 1
    <3>1. SUFFICES ASSUME NEW u \in Threads \ {t}
                   PROVE  Cardinality(New(u)) = Cardinality(Others(u)) + 1
      OBVIOUS
    <3>2. IsFiniteSet(Others(u))
      BY OthersCounted
    <3>3. New(u) = Others(u) \cup {t} /\ t \notin Others(u)
      BY <2>2
    <3>4. Cardinality(Others(u) \cup {t}) = Cardinality(Others(u)) + 1
      BY <3>2, <3>3, OneMore
    <3>5. QED
      BY <3>3, <3>4
  <2>5. \A u \in Threads \ {t} : Diff(u)' = Diff(u) + 1
    BY <1>1 DEF SuspendAll
  <2>6. Diff(t)' = Diff(t)
    BY <1>1 DEF SuspendAll
  <2>7. \A u \in Threads : Diff(u)' = Cardinality(New(u))
    <3>1. \A u \in Threads \ {t} : Diff(u)' = Cardinality(New(u))
      BY <1>0, <2>4, <2>5
    <3>2. Diff(t)' = Cardinality(New(t))
      BY <1>0, <2>3, <2>6
    <3>3. QED
      BY <3>1, <3>2
  <2>8. QED
    BY <2>7 DEF SuspendCountsAddUp, New
<1>2. CASE ResumeAll(t) /\ why[t] = "vm"
  <2>1. ~StopsInEffect(t)' /\ StopsInEffect(t)
    BY <1>2 DEF ResumeAll, StopsInEffect
  <2>2. \A u \in Threads \ {t} : New(u) = Others(u) \ {t} /\ t \in Others(u)
    BY <2>1, CountingShape DEF Others
  <2>3. New(t) = Others(t)
    BY CountingShape DEF Others
  <2> HIDE DEF New
  <2>4. \A u \in Threads \ {t} : Cardinality(New(u)) = Cardinality(Others(u)) - 1
    <3>1. SUFFICES ASSUME NEW u \in Threads \ {t}
                   PROVE  Cardinality(New(u)) = Cardinality(Others(u)) - 1
      OBVIOUS
    <3>2. IsFiniteSet(Others(u))
      BY OthersCounted
    <3>3. New(u) = Others(u) \ {t} /\ t \in Others(u)
      BY <2>2
    <3>4. Cardinality(Others(u) \ {t}) = Cardinality(Others(u)) - 1
      BY <3>2, <3>3, OneLess
    <3>5. QED
      BY <3>3, <3>4
  <2>5. \A u \in Threads \ {t} : suspendCount[u] > 0
    BY <2>1, StopCounted DEF DebuggerShareInCount
  <2>6. \A u \in Threads \ {t} : Diff(u)' = Diff(u) - 1
    BY <1>2, <2>5 DEF ResumeAll
  <2>7. Diff(t)' = Diff(t)
    BY <1>2 DEF ResumeAll
  <2>8. \A u \in Threads : Diff(u)' = Cardinality(New(u))
    <3>1. \A u \in Threads \ {t} : Diff(u)' = Cardinality(New(u))
      BY <1>0, <2>4, <2>6
    <3>2. Diff(t)' = Cardinality(New(t))
      BY <1>0, <2>3, <2>7
    <3>3. QED
      BY <3>1, <3>2
  <2>9. QED
    BY <2>8 DEF SuspendCountsAddUp, New
<1>3. CASE (SuspendAll(t) \/ ResumeAll(t)) /\ why[t] # "vm"
  <2>1. \A v \in Threads : StopsInEffect(v)' <=> StopsInEffect(v)
    BY <1>3 DEF SuspendAll, ResumeAll, StopsInEffect
  <2>2. \A u \in Threads : Diff(u)' = Diff(u)
    BY <1>3 DEF SuspendAll, ResumeAll
  <2>3. QED
    BY <2>1, <2>2, SameOthers
<1>4. CASE ~(SuspendAll(t) \/ ResumeAll(t))
  <2>1. \A v \in Threads : StopsInEffect(v)' <=> StopsInEffect(v)
    BY <1>4, CountingShape
  <2>2. CASE SuspendThread(t)
    <3>1. \A u \in Threads : Diff(u)' = Diff(u)
      BY <2>2 DEF SuspendThread
    <3>2. QED
      BY <2>1, <3>1, SameOthers
  <2>3. CASE ResumeThread(t)
    <3>1. \A u \in Threads : Diff(u)' = Diff(u)
      BY <2>3 DEF ResumeThread
    <3>2. QED
      BY <2>1, <3>1, SameOthers
  <2>4. CASE UndoDebuggerSuspensions(t)
    <3>1. \A u \in Threads : Diff(u)' = Diff(u)
      BY <2>4 DEF UndoDebuggerSuspensions
    <3>2. QED
      BY <2>1, <3>1, SameOthers
  <2>5. CASE SuspendSelf(t)
    <3>1. \A u \in Threads : Diff(u)' = Diff(u)
      BY <2>5 DEF SuspendSelf
    <3>2. QED
      BY <2>1, <3>1, SameOthers
  <2>6. QED
    BY <1>4, <2>2, <2>3, <2>4, <2>5 DEF Counting
<1>5. QED
  BY <1>1, <1>2, <1>3, <1>4

-----------------------------------------------------------------------------
(* The debugger's requests.                                                *)

\* A request only begins, from outside any operation.
LEMMA DebuggerStep ==
  ASSUME Shape, Jdwp \in Threads, NEW c \in DebuggerCalls, DebuggerCall(c)
  PROVE  /\ Shape' /\ UNCHANGED counts
         /\ \A v \in Threads : StopsInEffect(v)' <=> StopsInEffect(v)
         /\ SuspendInv => OthersHalted' /\ WakeUpComes' /\ TracedSuspended'
<1>1. pc[Jdwp] = "run" /\ op[Jdwp] = "none" /\ Jdwp \notin Stoppers /\ ~stopped[Jdwp]
  BY DEF DebuggerCall
<1>2. PICK o \in Ops, label \in {"try", "leave"}, u \in Threads \cup {NoThread} :
        /\ op' = [op EXCEPT ![Jdwp] = o] /\ pc' = [pc EXCEPT ![Jdwp] = label]
        /\ why' = [why EXCEPT ![Jdwp] = "debug"] /\ target' = [target EXCEPT ![Jdwp] = u]
        /\ \/ o \in {"suspendAll", "resumeAll"} /\ label = "try" /\ status[Jdwp] = "RUNNING"
           \/ o = "undo" /\ label = "try"
           \/ o \in SingleCalls /\ o = c /\ u \in Threads /\ label = "leave"
  BY DEF DebuggerCall
<1>3. UNCHANGED <<status, counts, locks, eventThread, oldStatus, scan, stopped>>
  BY DEF DebuggerCall
<1>4. Shape'
  BY <1>1, <1>2, <1>3
<1>5. \A v \in Threads : StopsInEffect(v)' <=> StopsInEffect(v)
  BY <1>1, <1>2, <1>3 DEF StopsInEffect
<1>6. SuspendInv => OthersHalted'
  BY <1>1, <1>2, <1>3, <1>5 DEF OthersHalted, Halted
<1>7. SuspendInv => WakeUpComes'
  BY <1>1, <1>2, <1>3 DEF WakeUpComes
<1>8. SuspendInv => TracedSuspended'
  BY <1>1, <1>2, <1>3 DEF TracedSuspended
<1>9. QED
  BY <1>3, <1>4, <1>5, <1>6, <1>7, <1>8

-----------------------------------------------------------------------------
(* The invariant.                                                          *)

HIDE DEF SuspendInv, Shape

\* Operations, points and locks: whatever the threads and the debugger do.
LEMMA ShapeStep == Shape /\ [Next]_vars => Shape'
<1> SUFFICES ASSUME Shape, [Next]_vars PROVE Shape'
  OBVIOUS
<1>1. CASE UNCHANGED vars
  BY <1>1 DEF vars, Shape
<1>2. ASSUME NEW t \in Threads, Step(t) \/ Start(t) PROVE Shape'
  BY <1>2, QuietShape, CountingShape
<1>3. ASSUME Jdwp \in Threads, NEW c \in DebuggerCalls, DebuggerCall(c) PROVE Shape'
  BY <1>3, DebuggerStep
<1>4. QED
  BY <1>1, <1>2, <1>3 DEF Next

LEMMA InitShape == Init => Shape
  BY DEF Init, Idle, Shape

\* The debugger's share is part of the count because the rest is a number of
\* suspensions.
LEMMA ShareInCount ==
  ASSUME Shape', SuspendCountsAddUp', \A u \in Threads : dbgSuspendCount'[u] >= 0
  PROVE  DebuggerShareInCount'
<1> SUFFICES ASSUME NEW u \in Threads
             PROVE  0 <= dbgSuspendCount'[u] /\ dbgSuspendCount'[u] <= suspendCount'[u]
  BY DEF DebuggerShareInCount
<1> DEFINE S == {v \in Threads \ {u} : StopsInEffect(v)'}
<1>1. S \in SUBSET Threads
  OBVIOUS
<1>2. Cardinality(S) \in Nat
  BY <1>1, FS_Subset, FS_CardinalityType
<1>3. suspendCount'[u] - dbgSuspendCount'[u] = Cardinality(S)
  BY DEF SuspendCountsAddUp
<1>4. suspendCount'[u] \in Int /\ dbgSuspendCount'[u] \in Int
  BY DEF Shape, SuspendTypes
<1>5. QED
  BY <1>2, <1>3, <1>4

\* Nothing is suspended at first.
LEMMA InitSuspendInv == Init => SuspendInv
<1> SUFFICES ASSUME Init PROVE SuspendInv
  OBVIOUS
<1>1. Shape
  BY InitShape
<1>2. \A v \in Threads : ~StopsInEffect(v)
  BY DEF Init, StopsInEffect
<1>3. OthersHalted /\ TracedSuspended /\ WakeUpComes
  BY <1>2 DEF Init, OthersHalted, TracedSuspended, WakeUpComes
<1>4. SuspendCountsAddUp
  <2>1. \A u \in Threads : {v \in Threads \ {u} : StopsInEffect(v)} = {}
    BY <1>2
  <2>2. \A u \in Threads : suspendCount[u] - dbgSuspendCount[u] = 0
    BY DEF Init
  <2>3. QED
    BY <2>1, <2>2, FS_EmptySet DEF SuspendCountsAddUp
<1>5. DebuggerShareInCount
  <2>1. 0 <= 0
    OBVIOUS
  <2>2. QED
    BY <2>1 DEF Init, DebuggerShareInCount
<1>6. QED
  BY <1>1, <1>3, <1>4, <1>5 DEF SuspendInv

\* Every step of the specification keeps the invariant.
LEMMA SuspendInvStep == ASSUME CountsAssumption, SuspendInv, [Next]_vars PROVE SuspendInv'
<1>1. CASE UNCHANGED vars
  <2>1. \A v \in Threads : StopsInEffect(v)' <=> StopsInEffect(v)
    BY <1>1 DEF vars, StopsInEffect
  <2>2. SuspendCountsAddUp'
    BY <1>1, <2>1, SameOthers DEF vars
  <2>3. Shape'
    BY <1>1 DEF vars, SuspendInv, Shape
  <2>4. DebuggerShareInCount' /\ TracedSuspended' /\ OthersHalted' /\ WakeUpComes'
    BY <1>1, <2>1 DEF vars, SuspendInv, DebuggerShareInCount, TracedSuspended, OthersHalted, Halted,
                      WakeUpComes
  <2>5. QED
    BY <2>2, <2>3, <2>4 DEF SuspendInv
<1>2. ASSUME NEW t \in Threads, Step(t) \/ Start(t), ~Counting(t)
      PROVE  SuspendInv'
  <2>1. Shape' /\ UNCHANGED counts /\ \A v \in Threads : StopsInEffect(v)' <=> StopsInEffect(v)
    BY <1>2, QuietShape DEF SuspendInv
  <2>2. SuspendCountsAddUp' /\ DebuggerShareInCount'
    BY <2>1, SameOthers DEF SuspendInv, DebuggerShareInCount
  <2>3. QED
    BY <1>2, <2>1, <2>2, QuietHalts DEF SuspendInv
<1>3. ASSUME NEW t \in Threads, Counting(t)
      PROVE  SuspendInv'
  <2>1. Shape' /\ OthersHalted' /\ WakeUpComes' /\ SuspendCountsAddUp'
    BY <1>3, CountingShape, CountingHalts, CountsStep DEF SuspendInv
  <2>2. (\A u \in Threads : dbgSuspendCount'[u] >= 0) /\ TracedSuspended'
    BY <1>3, ShareStep
  <2>3. QED
    BY <2>1, <2>2, ShareInCount DEF SuspendInv
<1>4. ASSUME Jdwp \in Threads, NEW c \in DebuggerCalls, DebuggerCall(c)
      PROVE  SuspendInv'
  <2>1. /\ Shape' /\ UNCHANGED counts /\ OthersHalted' /\ WakeUpComes' /\ TracedSuspended'
        /\ \A v \in Threads : StopsInEffect(v)' <=> StopsInEffect(v)
    BY <1>4, DebuggerStep DEF SuspendInv
  <2>2. SuspendCountsAddUp' /\ DebuggerShareInCount'
    BY <2>1, SameOthers DEF SuspendInv, DebuggerShareInCount
  <2>3. QED
    BY <2>1, <2>2 DEF SuspendInv
<1>5. QED
  BY <1>1, <1>2, <1>3, <1>4 DEF Next

\* Under the assumption on the debugger the invariant always holds.
LEMMA SuspendInvariant == ASSUME CountsAssumption PROVE Spec => []SuspendInv
<1>1. SuspendInv /\ [Next]_vars => SuspendInv'
  BY SuspendInvStep
<1>2. QED
  BY <1>1, InitSuspendInv, PTL DEF Spec

-----------------------------------------------------------------------------
(* The theorems.                                                           *)

\* The thread list lock and the suspend lock are never held by a thread that
\* sleeps or has left: whatever the debugger does.
THEOREM LockHoldersAwake == Spec => []HoldersAwake
<1>1. Shape => HoldersAwake
  BY DEF Shape, HoldersAwake
<1>2. QED
  BY <1>1, InitShape, ShapeStep, PTL DEF Spec

\* No count is negative: nobody is resumed more often than suspended.
THEOREM SuspendTypeCorrect == ASSUME CountsAssumption PROVE Spec => []TypeOK
  BY TypesOfSuspend, SuspendInvariant, PTL

\* Every suspension of the VM is counted once and uncounted once.
THEOREM CountsAreStops == ASSUME CountsAssumption PROVE Spec => []SuspendCountsAddUp
<1>1. SuspendInv => SuspendCountsAddUp
  BY DEF SuspendInv
<1>2. QED
  BY <1>1, SuspendInvariant, PTL

\* What the assertions of dvmSuspendSelf, fullSuspendCheck and
\* dvmUndoDebuggerSuspensions say of the debugger's share.
THEOREM ShareIsInCount == ASSUME CountsAssumption PROVE Spec => []DebuggerShareInCount
<1>1. SuspendInv => DebuggerShareInCount
  BY DEF SuspendInv
<1>2. QED
  BY <1>1, SuspendInvariant, PTL

\* A thread asleep with its count at 0 is still to be woken.
THEOREM NoResumeLost == ASSUME CountsAssumption PROVE Spec => []ResumeNotLost
<1>1. SuspendInv => ResumeNotLost
  BY DEF SuspendInv, WakeUpComes, ResumeNotLost
<1>2. QED
  BY <1>1, SuspendInvariant, PTL

\* While one thread has the world stopped, no thread that takes the thread list
\* lock only with the suspend lock held is RUNNING past its suspend check.
THEOREM OrderlyThreadsStop ==
  ASSUME CountsAssumption
  PROVE  Spec => [](\A t, u \in Threads : stopped[t] /\ t # u /\ Orderly(u) => ~InManagedCode(u))
<1>1. SuspendInv => \A t, u \in Threads : stopped[t] /\ t # u /\ Orderly(u) => ~InManagedCode(u)
  <2>1. SUFFICES ASSUME SuspendInv, NEW t \in Threads, NEW u \in Threads, stopped[t], t # u, Orderly(u)
                 PROVE  ~InManagedCode(u)
    OBVIOUS
  <2>2. StopsInEffect(t) /\ scan[t] = {}
    BY <2>1 DEF StopsInEffect, SuspendInv, Shape
  <2>3. Halted(u)
    BY <2>1, <2>2 DEF SuspendInv, OthersHalted
  <2>4. QED
    BY <2>3 DEF Halted, InManagedCode
<1>2. QED
  BY <1>1, SuspendInvariant, PTL

\* If every thread does, the world is stopped.
THEOREM WorldStops == ASSUME \A u \in Threads : Orderly(u) PROVE Spec => []WorldStopped
<1>1. CountsAssumption
  BY DEF CountsAssumption, Orderly
<1>2. (\A t, u \in Threads : stopped[t] /\ t # u /\ Orderly(u) => ~InManagedCode(u)) => WorldStopped
  BY DEF WorldStopped
<1>3. QED
  BY <1>1, <1>2, OrderlyThreadsStop, PTL
=============================================================================
