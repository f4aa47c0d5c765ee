----------------------- MODULE ThreadLifecycle_proofs -----------------------
(***************************************************************************)
(* Proofs about threads that come and go, for any threads and any choice   *)
(* of what may go wrong.  The invariant says what the struct of a thread   *)
(* may look like at each control point, and how far the child of a thread  *)
(* that is starting another has come; the counts and the suspensions are   *)
(* accounted for on top of it.                                             *)
(***************************************************************************)
EXTENDS ThreadLifecycle, FiniteSetTheorems, TLAPS

Checking == {"resume", "check", "asleep"}

\* Where t is or, in a suspend check, where it goes on.
At(t) == IF pc[t] \in Checking THEN cont[t] ELSE pc[t]

\* Where a thread is not, or need not be, on the thread list; where it makes a
\* stop of the world; and where it has a child that nobody else knows of.
Outside  == {"none", "born", "gowait", "attach", "join", "failed"}
Stopping == {"stop", "scan", "gc", "restart"}
Parenting == {"register", "spawn", "unspawn", "adopt", "release"}
Quiet    == {"VMWAIT", "NATIVE", "SUSPENDED"}

\* The threads that Thread.start() starts.
Fresh    == Threads \ (Existing \cup Natives \cup Internals)

\* TypeOK without the bounds of the counters, which are proved from the rest.
LifeTypes ==
  /\ status \in [Threads -> Status]
  /\ suspendCount \in [Threads -> Nat]
  /\ inList \in SUBSET Threads
  /\ listLock \in Threads \cup {NoThread} /\ heapLock \in Threads \cup {NoThread}
  /\ sleepers \in SUBSET Threads
  /\ exitSignal \in BOOLEAN
  /\ nonDaemon \in Int /\ idCount \in Int
  /\ daemon \in [Threads -> BOOLEAN]
  /\ task \in [Threads -> Objects \cup {NoObject}]
  /\ vmThread \in [Objects -> Threads \cup {NoThread}]
  /\ vmData \in [Threads -> BOOLEAN]
  /\ begun \in SUBSET Objects
  /\ pc \in [Threads -> PCs] /\ cont \in [Threads -> PCs \ Checking]
  /\ child \in [Threads -> Threads \cup {NoThread}]
  /\ ref \in [Threads -> Threads \cup {NoThread}]
  /\ created \in [Threads -> {-1, 0, 1}]
  /\ stopped \in [Threads -> BOOLEAN]

\* Who can be where.
Roles(t) ==
  /\ At(t) = "none" => t \notin Existing
  /\ At(t) \in {"attach", "join", "failed", "pulse", "built", "unjoin"} => t \in Natives \cup Internals
  /\ At(t) = "restore" => t \in Natives
  /\ At(t) = "report" => t \in Internals
  /\ At(t) \in {"born", "gowait"} => t \in Fresh
  /\ At(t) \in {"exiting", "dying", "unlink"} => t \notin Existing
  /\ At(t) \in {"destroy", "exitwait", "shutdown"} => t = Main
  /\ At(t) \in Stopping => t \in Collectors \cup Compilers
  /\ pc[t] \in Checking =>
       cont[t] \notin Outside \cup {"pulse", "unjoin", "restore", "unlink", "destroy", "exitwait",
                                   "shutdown", "scan", "gc"}
  /\ At(t) \in {"unjoin", "failed"} => AttachMayFail
  /\ stopped[t] <=> pc[t] = "gc"

\* What the struct of a thread looks like, and when it is on the list.
Struct(t) ==
  /\ At(t) \notin Outside => t \in inList /\ status[t] \in Quiet \cup {"RUNNING"}
  /\ pc[t] \in {"none", "born", "attach", "join", "failed"} => t \notin inList
  /\ pc[t] \in {"attach", "failed"} => status[t] = "FREE"
  /\ pc[t] = "none" => status[t] \in {"FREE", "INITIALIZING"}
  /\ pc[t] = "none" /\ t \notin Fresh => status[t] = "FREE"
  /\ pc[t] \in {"born", "join"} => status[t] = "INITIALIZING"
  /\ pc[t] = "gowait" => status[t] \in {"STARTING", "VMWAIT"}
  /\ pc[t] = "check" => status[t] = "RUNNING"
  /\ pc[t] = "gowait" /\ status[t] = "VMWAIT" => t \in inList
  /\ pc[t] # "none" => (t \in Internals => daemon[t]) /\ (t \in Natives => daemon[t] \in DaemonChoices)

\* How far the child of t has come.
Family(t) ==
  /\ At(t) \in Parenting => child[t] \in Fresh /\ child[t] # t /\ task[child[t]] \in Objects
  /\ At(t) = "again" => child[t] \in Threads
  /\ At(t) \in {"register", "spawn", "unspawn"} => pc[child[t]] = "none" /\ status[child[t]] = "INITIALIZING"
  /\ At(t) = "adopt" => /\ pc[child[t]] \in {"born", "gowait"} /\ child[t] \notin inList
  /\ At(t) = "release" => /\ pc[child[t]] = "gowait" /\ status[child[t]] = "STARTING"
                          /\ child[t] \in inList

\* Two threads that are starting others have different children.
OneParent == \A t, u \in Threads :
  At(t) \in Parenting /\ At(u) \in Parenting /\ t # u => child[t] # child[u]

Alive == Existing \subseteq inList /\ \A t \in Threads : Roles(t) /\ Struct(t) /\ Family(t)

LifeInv == LifeTypes /\ Alive /\ OneParent

-----------------------------------------------------------------------------
USE NobodyAssumption, RolesAssumption
USE DEF LifeInv, LifeTypes, Alive, OneParent, Roles, Struct, Family, At, Checking, Outside, Stopping, Quiet,
        Parenting, Fresh, Existing, Status, PCs, Goto, ResumeAt, SetStatus, Working, ManagedPC, ListPC,
        CanLockList, locks, objects, locals, counters

-----------------------------------------------------------------------------
(* Threads, their structs and their children.                              *)

\* It holds when the VM is up,
LEMMA LifeStart == Init => LifeInv
<1> SUFFICES ASSUME Init PROVE LifeInv
  OBVIOUS
<1>1. Existing \in SUBSET Threads
  OBVIOUS
<1>2. idCount \in Nat
  <2>1. IsFiniteSet(Existing)
    BY <1>1, FS_Subset, NobodyAssumption
  <2>2. QED
    BY <2>1, FS_CardinalityType DEF Init
<1>3. LifeTypes
  <2>1. status \in [Threads -> Status] /\ pc \in [Threads -> PCs] /\ cont \in [Threads -> PCs \ Checking]
    BY DEF Init
  <2>2. /\ suspendCount \in [Threads -> Nat] /\ daemon \in [Threads -> BOOLEAN]
        /\ vmData \in [Threads -> BOOLEAN] /\ created \in [Threads -> {-1, 0, 1}]
        /\ stopped \in [Threads -> BOOLEAN]
    BY DEF Init
  <2>3. /\ task \in [Threads -> Objects \cup {NoObject}] /\ vmThread \in [Objects -> Threads \cup {NoThread}]
        /\ child \in [Threads -> Threads \cup {NoThread}] /\ ref \in [Threads -> Threads \cup {NoThread}]
    BY DEF Init
  <2>4. /\ inList \in SUBSET Threads /\ sleepers \in SUBSET Threads /\ begun \in SUBSET Objects
        /\ listLock = NoThread /\ heapLock = NoThread /\ exitSignal \in BOOLEAN /\ nonDaemon = 1
    BY <1>1 DEF Init
  <2>5. QED
    BY <1>2, <2>1, <2>2, <2>3, <2>4
<1>4. /\ pc \in [Threads -> {"run", "none"}] /\ inList = Existing
      /\ \A t \in Threads : IF t \in Existing THEN pc[t] = "run" /\ status[t] \in {"VMWAIT", "RUNNING"}
                           ELSE pc[t] = "none" /\ status[t] = "FREE"
      /\ \A t \in Threads : ~stopped[t]
  BY DEF Init
<1>5. Alive /\ OneParent
  BY <1>4
<1>6. QED
  BY <1>3, <1>5

\* through every step of a thread,
LEMMA LifeStep ==
  ASSUME LifeInv, NEW t \in Threads, Step(t) \/ ChangeToRunning(t) \/ Start(t)
  PROVE  LifeInv'
<1>1. CASE CheckSuspend(t)
  <2>1. CASE suspendCount[t] = 0
    <3>1. pc' = [pc EXCEPT ![t] = cont[t]] /\ cont[t] \in PCs /\ status[t] \in Status
      BY <1>1, <2>1 DEF CheckSuspend
    <3>2. QED
      BY <1>1, <2>1, <3>1 DEF CheckSuspend
  <2>2. CASE suspendCount[t] # 0
    <3>1. pc' = [pc EXCEPT ![t] = "asleep"] /\ status' = [status EXCEPT ![t] = "SUSPENDED"] /\ pc[t] = "check"
      BY <1>1, <2>2 DEF CheckSuspend
    <3>2. UNCHANGED <<suspendCount, inList, locks, sleepers, exitSignal, counters, daemon, objects, cont,
                      locals, stopped>>
      BY <1>1 DEF CheckSuspend
    <3>3. LifeTypes'
      BY <3>1, <3>2
    <3>4. Alive' /\ OneParent'
      BY <3>1, <3>2
    <3>5. QED
      BY <3>3, <3>4
  <2>3. QED
    BY <2>1, <2>2
<1>2. CASE SafePoint(t)
  BY <1>2 DEF SafePoint
<1>3. CASE WakeUp(t)
  BY <1>3 DEF WakeUp
<1>4. CASE WaitForList(t)
  BY <1>4 DEF WaitForList
<1>5. CASE SuspendAll(t)
  BY <1>5 DEF SuspendAll
<1>6. CASE WorldStops(t)
  BY <1>6 DEF WorldStops
<1>7. CASE EndStop(t)
  BY <1>7 DEF EndStop
<1>8. CASE ResumeAll(t)
  BY <1>8 DEF ResumeAll
<1>9. CASE Register(t)
  <2>1. CASE vmThread[task[child[t]]] = NoThread
    <3>1. /\ pc[t] = "register" /\ pc' = [pc EXCEPT ![t] = "spawn"]
          /\ vmThread' = [vmThread EXCEPT ![task[child[t]]] = child[t]]
          /\ vmData' = [vmData EXCEPT ![child[t]] = TRUE]
          /\ UNCHANGED <<status, suspendCount, inList, locks, sleepers, exitSignal, counters, daemon,
                         task, begun, cont, locals, stopped>>
      BY <1>9, <2>1 DEF Register
    <3>2. LifeTypes'
      BY <3>1
    <3>3. Alive' /\ OneParent'
      BY <3>1
    <3>4. QED
      BY <3>2, <3>3
  <2>2. CASE vmThread[task[child[t]]] # NoThread
    <3>1. /\ pc[t] = "register" /\ pc' = [pc EXCEPT ![t] = "again"]
          /\ status' = [status EXCEPT ![t] = "RUNNING", ![child[t]] = "FREE"]
          /\ UNCHANGED <<suspendCount, inList, locks, sleepers, exitSignal, counters, daemon,
                         objects, cont, locals, stopped>>
      BY <1>9, <2>2 DEF Register
    <3>2. child[t] \in Fresh /\ child[t] # t /\ pc[child[t]] = "none"
      BY <3>1
    <3>3. LifeTypes'
      BY <3>1, <3>2
    <3>4. Alive' /\ OneParent'
      BY <3>1, <3>2
    <3>5. QED
      BY <3>3, <3>4
  <2>3. QED
    BY <2>1, <2>2
<1>10. CASE StartAgain(t)
  <2>1. LifeTypes'
    BY <1>10 DEF StartAgain
  <2>2. Alive'
    BY <1>10 DEF StartAgain
  <2>3. OneParent'
    BY <1>10 DEF StartAgain
  <2>4. QED
    BY <2>1, <2>2, <2>3
<1>11. CASE Spawn(t)
  <2>1. child[t] \in Fresh /\ child[t] # t /\ pc[t] = "spawn" /\ pc[child[t]] = "none"
    BY <1>11 DEF Spawn
  <2>2. CASE pc' = [pc EXCEPT ![t] = "resume", ![child[t]] = "born"] /\ cont' = [cont EXCEPT ![t] = "adopt"]
    <3>1. LifeTypes'
      BY <1>11, <2>1, <2>2 DEF Spawn
    <3>2. Alive' /\ OneParent'
      BY <1>11, <2>1, <2>2 DEF Spawn
    <3>3. QED
      BY <3>1, <3>2
  <2>3. CASE ResumeAt(t, "unspawn")
    BY <1>11, <2>1, <2>3 DEF Spawn
  <2>4. QED
    BY <1>11, <2>2, <2>3 DEF Spawn
<1>12. CASE Unspawn(t)
  BY <1>12 DEF Unspawn
<1>13. CASE Prepare(t)
  BY <1>13 DEF Prepare
<1>14. CASE Adopt(t)
  <2>1. CASE status[child[t]] = "STARTING"
    <3>1. /\ pc[t] = "adopt" /\ child[t] \in Threads /\ inList' = inList \cup {child[t]}
          /\ nonDaemon' \in Int /\ ResumeAt(t, "release")
          /\ UNCHANGED <<status, suspendCount, locks, sleepers, exitSignal, idCount, daemon, objects,
                         locals, stopped>>
      BY <1>14, <2>1 DEF Adopt
    <3>2. LifeTypes'
      BY <3>1
    <3>3. Alive' /\ OneParent'
      BY <2>1, <3>1
    <3>4. QED
      BY <3>2, <3>3
  <2>2. CASE status[child[t]] # "STARTING"
    BY <1>14, <2>2 DEF Adopt
  <2>3. QED
    BY <2>1, <2>2
<1>15. CASE Release(t)
  <2>1. LifeTypes'
    BY <1>15 DEF Release
  <2>2. Alive'
    BY <1>15 DEF Release
  <2>3. OneParent'
    BY <1>15 DEF Release
  <2>4. QED
    BY <2>1, <2>2, <2>3
<1>16. CASE Go(t)
  <2>1. LifeTypes'
    BY <1>16 DEF Go
  <2>2. Alive'
    BY <1>16 DEF Go
  <2>3. OneParent'
    BY <1>16 DEF Go
  <2>4. QED
    BY <2>1, <2>2, <2>3
<1>17. CASE Use(t)
  BY <1>17 DEF Use
<1>18. CASE PrepareAttached(t)
  <2>1. LifeTypes'
    <3>1. /\ status' \in [Threads -> Status] /\ pc' \in [Threads -> PCs] /\ idCount' \in Int
          /\ UNCHANGED <<suspendCount, inList, locks, sleepers, exitSignal, nonDaemon, daemon,
                         objects, cont, locals, stopped>>
      BY <1>18 DEF PrepareAttached
    <3>2. QED
      BY <3>1
  <2>2. Alive'
    BY <1>18 DEF PrepareAttached
  <2>3. OneParent'
    BY <1>18 DEF PrepareAttached
  <2>4. QED
    BY <2>1, <2>2, <2>3
<1>19. CASE Join(t)
  BY <1>19 DEF Join
<1>20. CASE PulseHeapLock(t)
  BY <1>20 DEF PulseHeapLock
<1>21. CASE BuildObjects(t)
  BY <1>21 DEF BuildObjects
<1>22. CASE Unjoin(t)
  <2>1. LifeTypes'
    BY <1>22 DEF Unjoin
  <2>2. Alive'
    BY <1>22 DEF Unjoin
  <2>3. OneParent'
    BY <1>22 DEF Unjoin
  <2>4. QED
    BY <2>1, <2>2, <2>3
<1>23. CASE RestoreCount(t)
  <2>1. CASE pc[t] = "restore"
    <3>1. /\ status' = [status EXCEPT ![t] = "NATIVE"] /\ pc' = [pc EXCEPT ![t] = "resume"]
          /\ cont' = [cont EXCEPT ![t] = "run"] /\ t \in Natives /\ nonDaemon' \in Int
          /\ UNCHANGED <<suspendCount, inList, locks, sleepers, exitSignal, idCount, daemon, objects,
                         locals, stopped>>
      BY <1>23, <2>1 DEF RestoreCount
    <3>2. LifeTypes'
      BY <3>1
    <3>3. Alive' /\ OneParent'
      BY <2>1, <3>1
    <3>4. QED
      BY <3>2, <3>3
  <2>2. CASE pc[t] = "failed"
    BY <1>23, <2>2 DEF RestoreCount
  <2>3. QED
    BY <1>23, <2>1, <2>2 DEF RestoreCount
<1>24. CASE Report(t)
  <2>1. created' \in [Threads -> {-1, 0, 1}]
    BY <1>24 DEF Report
  <2>2. LifeTypes'
    <3>1. CASE pc[t] = "report"
      <4>1. /\ status' = [status EXCEPT ![t] = "RUNNING"] /\ pc' = [pc EXCEPT ![t] = "run"]
            /\ sleepers' = {}
            /\ UNCHANGED <<suspendCount, inList, locks, exitSignal, counters, daemon, objects,
                           cont, child, ref, stopped>>
        BY <1>24, <3>1 DEF Report
      <4>2. QED
        BY <2>1, <4>1
    <3>2. CASE pc[t] = "failed"
      BY <1>24, <2>1, <3>2 DEF Report
    <3>3. QED
      BY <1>24, <3>1, <3>2 DEF Report
  <2>3. Alive' /\ OneParent'
    BY <1>24 DEF Report
  <2>4. QED
    BY <2>2, <2>3
<1>25. CASE AwaitInternal(t)
  <2>1. LifeTypes'
    BY <1>25 DEF AwaitInternal
  <2>2. Alive'
    BY <1>25 DEF AwaitInternal
  <2>3. OneParent'
    BY <1>25 DEF AwaitInternal
  <2>4. QED
    BY <2>1, <2>2, <2>3
<1>26. CASE ClearVmThread(t)
  BY <1>26 DEF ClearVmThread
<1>27. CASE Quit(t)
  BY <1>27 DEF Quit
<1>28. CASE Unlink(t)
  <2>1. pc[t] = "unlink" /\ t \notin Existing /\ CanLockList(t)
    BY <1>28 DEF Unlink
  <2>2. /\ inList' = inList \ {t} /\ status' = [status EXCEPT ![t] = "FREE"]
        /\ suspendCount' = [suspendCount EXCEPT ![t] = 0] /\ task' = [task EXCEPT ![t] = NoObject]
        /\ pc' = [pc EXCEPT ![t] = "none"] /\ nonDaemon' \in Int /\ idCount' \in Int
        /\ exitSignal' \in BOOLEAN
        /\ UNCHANGED <<locks, sleepers, daemon, vmThread, vmData, begun, cont, locals, stopped>>
    BY <1>28 DEF Unlink
  <2>3. \A p \in Threads : At(p) \in Parenting => child[p] # t
    BY <2>1
  <2>4. LifeTypes'
    BY <2>2
  <2>5. Alive'
    BY <2>1, <2>2, <2>3
  <2>6. OneParent'
    BY <2>1, <2>2
  <2>7. QED
    BY <2>4, <2>5, <2>6
<1>29. CASE ChangeToRunning(t)
  BY <1>29 DEF ChangeToRunning
<1>30. CASE LeaveRunning(t)
  BY <1>30 DEF LeaveRunning
<1>31. CASE EnterStop(t)
  BY <1>31 DEF EnterStop
<1>32. CASE \E o \in Objects : Create(t, o)
  <2>1. PICK o \in Objects : Create(t, o)
    BY <1>32
  <2>2. PICK n \in Fresh, d \in BOOLEAN :
          /\ pc[n] = "none" /\ status[n] = "FREE"
          /\ status' = [status EXCEPT ![n] = "INITIALIZING"]
          /\ task' = [task EXCEPT ![n] = o] /\ daemon' = [daemon EXCEPT ![n] = d]
          /\ child' = [child EXCEPT ![t] = n]
    <3>1. PICK n \in Threads \ (Existing \cup Natives \cup Internals), d \in DaemonChoices :
            /\ pc[n] = "none" /\ status[n] = "FREE"
            /\ status' = [status EXCEPT ![n] = "INITIALIZING"]
            /\ task' = [task EXCEPT ![n] = o] /\ daemon' = [daemon EXCEPT ![n] = d]
            /\ child' = [child EXCEPT ![t] = n]
      BY ONLY <2>1, Zenon DEF Create
    <3>2. QED
      BY <3>1
  <2>3. /\ Working(t) /\ pc' = [pc EXCEPT ![t] = "register"] /\ begun' = begun \cup {o}
        /\ UNCHANGED <<suspendCount, inList, locks, sleepers, exitSignal, counters, vmThread,
                       vmData, cont, ref, created, stopped>>
    BY <2>1 DEF Create
  <2>4. LifeTypes'
    BY <2>2, <2>3
  <2>5. Alive'
    BY <2>2, <2>3
  <2>6. OneParent'
    BY <2>2, <2>3
  <2>7. QED
    BY <2>4, <2>5, <2>6
<1>33. CASE CreateInternal(t)
  <2>1. PICK n \in Internals :
          /\ pc[n] = "none"
          /\ pc' = [pc EXCEPT ![t] = "internal", ![n] = "attach"]
          /\ child' = [child EXCEPT ![t] = n] /\ created' = [created EXCEPT ![t] = 0]
          /\ daemon' = [daemon EXCEPT ![n] = TRUE]
    BY <1>33 DEF CreateInternal
  <2>2. /\ Working(t) /\ status' = [status EXCEPT ![t] = "VMWAIT"]
        /\ UNCHANGED <<suspendCount, inList, locks, sleepers, exitSignal, counters, objects, cont,
                       ref, stopped>>
    BY <1>33 DEF CreateInternal
  <2>3. t # n /\ t \in inList /\ n \notin inList /\ status[n] = "FREE" /\ n \notin Natives /\ pc[t] = "run"
    BY <2>1, <2>2
  <2>4. LifeTypes'
    BY <2>1, <2>2
  <2>5. Alive'
    <3>1. \A u \in Threads : Roles(u)'
      BY <2>1, <2>2, <2>3
    <3>2. \A u \in Threads : Struct(u)'
      <4>1. Struct(t)'
        BY <2>1, <2>2, <2>3
      <4>2. Struct(n)'
        BY <2>1, <2>2, <2>3
      <4>3. ASSUME NEW u \in Threads, u # t, u # n PROVE Struct(u)'
        <5>1. pc'[u] = pc[u] /\ status'[u] = status[u] /\ daemon'[u] = daemon[u] /\ cont' = cont /\ inList' = inList
          BY <2>1, <2>2, <4>3
        <5>2. Struct(u)
          OBVIOUS
        <5>3. QED
          BY ONLY <5>1, <5>2
      <4>4. QED
        BY <4>1, <4>2, <4>3
    <3>3. \A u \in Threads : Family(u)'
      BY <2>1, <2>2, <2>3
    <3>4. QED
      BY <2>2, <3>1, <3>2, <3>3
  <2>6. OneParent'
    BY <2>1, <2>2
  <2>7. QED
    BY <2>4, <2>5, <2>6
<1>34. CASE LookUp(t)
  BY <1>34 DEF LookUp
<1>35. CASE JniAttach(t)
  BY <1>35 DEF JniAttach
<1>36. CASE Detach(t)
  BY <1>36 DEF Detach
<1>37. QED
  BY <1>1, <1>2, <1>3, <1>4, <1>5, <1>6, <1>7, <1>8, <1>9, <1>10, <1>11, <1>12, <1>13,
     <1>14, <1>15, <1>16, <1>17, <1>18, <1>19, <1>20, <1>21, <1>22, <1>23, <1>24, <1>25,
     <1>26, <1>27, <1>28, <1>29, <1>30, <1>31, <1>32, <1>33, <1>34, <1>35, <1>36 DEF Step,
     Start

\* and when Main shuts the VM down.
LEMMA MainStep ==
  ASSUME LifeInv, DestroyJavaVM \/ AwaitLastThread
  PROVE  LifeInv'
<1>1. CASE DestroyJavaVM
  BY <1>1 DEF DestroyJavaVM
<1>2. CASE AwaitLastThread
  <2>1. nonDaemon' \in Int /\ \E l \in {"exitwait", "shutdown"} : pc' = [pc EXCEPT ![Main] = l]
    <3>1. nonDaemon \in Int
      BY DEF LifeTypes
    <3>2. pc[Main] = "destroy" => nonDaemon' = nonDaemon - 1
      BY <1>2, <3>1 DEF AwaitLastThread
    <3>3. pc[Main] # "destroy" => nonDaemon' = nonDaemon
      BY <1>2, <3>1 DEF AwaitLastThread
    <3>4. pc' = [pc EXCEPT ![Main] = "exitwait"] \/ pc' = [pc EXCEPT ![Main] = "shutdown"]
      BY <1>2 DEF AwaitLastThread
    <3>5. QED
      BY <3>1, <3>2, <3>3, <3>4
  <2>2. UNCHANGED <<status, suspendCount, inList, locks, sleepers, idCount, daemon, objects, cont, locals, stopped>>
        /\ exitSignal' = FALSE /\ pc[Main] \in {"destroy", "exitwait"}
    BY <1>2 DEF AwaitLastThread
  <2>3. PICK l \in {"exitwait", "shutdown"} : pc' = [pc EXCEPT ![Main] = l]
    BY <2>1
  <2>4. LifeTypes'
    BY <2>1, <2>2, <2>3
  <2>5. Alive'
    BY <2>2, <2>3
  <2>6. OneParent'
    BY <2>2, <2>3
  <2>7. QED
    BY <2>4, <2>5, <2>6
<1>3. QED
  BY <1>1, <1>2

-----------------------------------------------------------------------------
(* The two counters.                                                       *)

NonDaemons == {t \in inList : ~daemon[t]}
HasId == {t \in Threads : status[t] # "FREE" /\ pc[t] \notin {"none", "born"}}
Gone == pc[Main] \in {"exitwait", "shutdown"}

\* The steps that change them, or what they count.
Accounting(t) == \/ Prepare(t) \/ Adopt(t) \/ PrepareAttached(t) \/ Join(t) \/ Unjoin(t)
                 \/ RestoreCount(t) \/ Unlink(t) \/ JniAttach(t)

\* One more, and one fewer.
LEMMA OneMore == ASSUME NEW S, IsFiniteSet(S), NEW x, x \notin S PROVE Cardinality(S \cup {x}) = Cardinality(S) + 1
  BY ONLY IsFiniteSet(S), x \notin S, FS_AddElement
LEMMA OneLess == ASSUME NEW S, IsFiniteSet(S), NEW x \in S PROVE Cardinality(S \ {x}) = Cardinality(S) - 1
  BY ONLY IsFiniteSet(S), x \in S, FS_RemoveElement

\* The sets that are counted are finite, and the counters are numbers.
Numbers == /\ IsFiniteSet(NonDaemons) /\ IsFiniteSet(Attaching) /\ IsFiniteSet(HasId)
           /\ Cardinality(NonDaemons) \in Nat /\ Cardinality(Attaching) \in Nat /\ Cardinality(HasId) \in Nat
           /\ nonDaemon \in Int /\ idCount \in Int

LEMMA Finite == LifeInv => Numbers
<1> SUFFICES ASSUME LifeInv PROVE Numbers
  OBVIOUS
<1>1. NonDaemons \in SUBSET Threads /\ Attaching \in SUBSET Threads /\ HasId \in SUBSET Threads
  BY DEF NonDaemons, Attaching, HasId
<1>2. IsFiniteSet(NonDaemons) /\ IsFiniteSet(Attaching) /\ IsFiniteSet(HasId)
  BY <1>1, FS_Subset, NobodyAssumption
<1>3. QED
  BY <1>2, FS_CardinalityType DEF Numbers

\* The same after a step.
LEMMA FiniteNext == LifeInv' => Numbers'
  BY Finite, PTL

\* Every other step leaves them alone.
LEMMA Kept ==
  ASSUME LifeInv, NEW t \in Threads, Step(t) \/ ChangeToRunning(t) \/ Start(t), ~Accounting(t)
  PROVE  /\ nonDaemon' = nonDaemon /\ idCount' = idCount /\ (Gone' <=> Gone)
         /\ pc'[Main] = "exitwait" => pc[Main] = "exitwait"
         /\ \A u \in Threads : /\ u \in NonDaemons' <=> u \in NonDaemons
                               /\ u \in Attaching' <=> u \in Attaching
                               /\ u \in HasId' <=> u \in HasId
<1> USE DEF NonDaemons, Attaching, HasId, Gone
<1>1. CASE CheckSuspend(t)
  BY <1>1 DEF CheckSuspend
<1>2. CASE SafePoint(t)
  BY <1>2 DEF SafePoint
<1>3. CASE WakeUp(t)
  BY <1>3 DEF WakeUp
<1>4. CASE WaitForList(t)
  BY <1>4 DEF WaitForList
<1>5. CASE SuspendAll(t)
  BY <1>5 DEF SuspendAll
<1>6. CASE WorldStops(t)
  BY <1>6 DEF WorldStops
<1>7. CASE EndStop(t)
  BY <1>7 DEF EndStop
<1>8. CASE ResumeAll(t)
  BY <1>8 DEF ResumeAll
<1>9. CASE Register(t)
  BY <1>9 DEF Register
<1>10. CASE StartAgain(t)
  BY <1>10 DEF StartAgain
<1>11. CASE Spawn(t)
  BY <1>11 DEF Spawn
<1>12. CASE Unspawn(t)
  BY <1>12 DEF Unspawn
<1>13. CASE Release(t)
  BY <1>13 DEF Release
<1>14. CASE Go(t)
  BY <1>14 DEF Go
<1>15. CASE Use(t)
  BY <1>15 DEF Use
<1>16. CASE PulseHeapLock(t)
  BY <1>16 DEF PulseHeapLock
<1>17. CASE BuildObjects(t)
  BY <1>17 DEF BuildObjects
<1>18. CASE Report(t)
  BY <1>18 DEF Report
<1>19. CASE AwaitInternal(t)
  BY <1>19 DEF AwaitInternal
<1>20. CASE ClearVmThread(t)
  BY <1>20 DEF ClearVmThread
<1>21. CASE Quit(t)
  BY <1>21 DEF Quit
<1>22. CASE ChangeToRunning(t)
  BY <1>22 DEF ChangeToRunning
<1>23. CASE LeaveRunning(t)
  BY <1>23 DEF LeaveRunning
<1>24. CASE EnterStop(t)
  BY <1>24 DEF EnterStop
<1>25. CASE \E o \in Objects : Create(t, o)
  BY <1>25 DEF Create
<1>26. CASE CreateInternal(t)
  BY <1>26 DEF CreateInternal
<1>27. CASE LookUp(t)
  BY <1>27 DEF LookUp
<1>28. CASE Detach(t)
  BY <1>28 DEF Detach
<1>29. QED
  BY <1>1, <1>2, <1>3, <1>4, <1>5, <1>6, <1>7, <1>8, <1>9, <1>10, <1>11, <1>12, <1>13,
     <1>14, <1>15, <1>16, <1>17, <1>18, <1>19, <1>20, <1>21, <1>22, <1>23, <1>24, <1>25,
     <1>26, <1>27, <1>28 DEF Step, Start, Accounting

\* So that what they count has the same number.
LEMMA KeptCounts ==
  ASSUME LifeInv, LifeInv'
  PROVE  /\ (\A u \in Threads : u \in NonDaemons' <=> u \in NonDaemons) => NonDaemons' = NonDaemons
         /\ (\A u \in Threads : u \in Attaching' <=> u \in Attaching) => Attaching' = Attaching
         /\ (\A u \in Threads : u \in HasId' <=> u \in HasId) => HasId' = HasId
  BY DEF NonDaemons, Attaching, HasId

HIDE DEF LifeInv

\* What one more thread on the list, and one fewer, count for.
LEMMA ListGrows ==
  ASSUME LifeInv, NEW n \in Threads, n \notin inList, inList' = inList \cup {n}, daemon' = daemon,
         nonDaemon' = nonDaemon + (IF daemon[n] THEN 0 ELSE 1)
  PROVE  nonDaemon' - nonDaemon = Cardinality(NonDaemons') - Cardinality(NonDaemons)
<1>1. IsFiniteSet(NonDaemons) /\ n \notin NonDaemons /\ Cardinality(NonDaemons) \in Nat /\ nonDaemon \in Int
  BY Finite DEF NonDaemons, Numbers
<1>2. CASE daemon[n]
  <2>1. NonDaemons' = NonDaemons /\ nonDaemon' = nonDaemon + 0
    BY <1>2 DEF NonDaemons
  <2>2. QED
    BY <1>1, <2>1
<1>3. CASE ~daemon[n]
  <2>1. NonDaemons' = NonDaemons \cup {n} /\ nonDaemon' = nonDaemon + 1
    BY <1>3 DEF NonDaemons
  <2>2. Cardinality(NonDaemons') = Cardinality(NonDaemons) + 1
    BY <1>1, <2>1, OneMore
  <2>3. QED
    BY <1>1, <2>1, <2>2
<1>4. QED
  BY <1>2, <1>3

\* A thread that leaves the list takes out of the count what it had put in.
LEMMA ListShrinks ==
  ASSUME LifeInv, NEW n \in inList, inList' = inList \ {n}, daemon' = daemon,
         nonDaemon' = nonDaemon - (IF daemon[n] THEN 0 ELSE 1)
  PROVE  nonDaemon' - nonDaemon = Cardinality(NonDaemons') - Cardinality(NonDaemons)
<1>1. IsFiniteSet(NonDaemons) /\ Cardinality(NonDaemons) \in Nat /\ nonDaemon \in Int
  BY Finite DEF Numbers
<1>2. CASE daemon[n]
  <2>1. NonDaemons' = NonDaemons /\ nonDaemon' = nonDaemon - 0
    BY <1>2 DEF NonDaemons
  <2>2. QED
    BY <1>1, <2>1
<1>3. CASE ~daemon[n]
  <2>1. NonDaemons' = NonDaemons \ {n} /\ n \in NonDaemons /\ nonDaemon' = nonDaemon - 1
    BY <1>3 DEF NonDaemons
  <2>2. Cardinality(NonDaemons') = Cardinality(NonDaemons) - 1
    BY <1>1, <2>1, OneLess
  <2>3. QED
    BY <1>1, <2>1, <2>2
<1>4. QED
  BY <1>2, <1>3

\* What the steps that count do to the sets that are counted.
\* Every section that changes the list changes the count with it.
LEMMA ListCounted ==
  ASSUME LifeInv, NEW t \in Threads, Adopt(t) \/ Join(t) \/ Unjoin(t) \/ Unlink(t)
  PROVE  nonDaemon' - nonDaemon = Cardinality(NonDaemons') - Cardinality(NonDaemons)
<1>1. CASE Adopt(t)
  <2>1. CASE status[child[t]] = "STARTING"
    <3>1. child[t] \in Threads /\ child[t] \notin inList
      BY <1>1 DEF Adopt, LifeInv
    <3>2. /\ inList' = inList \cup {child[t]} /\ daemon' = daemon
          /\ nonDaemon' = nonDaemon + (IF daemon[child[t]] THEN 0 ELSE 1)
      BY <1>1, <2>1 DEF Adopt
    <3>3. QED
      BY <3>1, <3>2, ListGrows
  <2>2. CASE status[child[t]] # "STARTING"
    <3>1. NonDaemons' = NonDaemons /\ nonDaemon' = nonDaemon
      BY <1>1, <2>2 DEF Adopt, NonDaemons
    <3>2. Cardinality(NonDaemons) \in Nat /\ nonDaemon \in Int
      BY Finite DEF Numbers
    <3>3. QED
      BY <3>1, <3>2
  <2>3. QED
    BY <2>1, <2>2
<1>2. CASE Join(t)
  <2>1. /\ t \notin inList /\ inList' = inList \cup {t} /\ daemon' = daemon
        /\ nonDaemon' = nonDaemon + (IF daemon[t] THEN 0 ELSE 1)
    BY <1>2 DEF Join, LifeInv
  <2>2. QED
    BY <2>1, ListGrows
<1>3. CASE Unjoin(t)
  <2>1. /\ t \in inList /\ inList' = inList \ {t} /\ daemon' = daemon
        /\ nonDaemon' = nonDaemon - (IF daemon[t] THEN 0 ELSE 1)
    BY <1>3 DEF Unjoin, LifeInv
  <2>2. QED
    BY <2>1, ListShrinks
<1>4. CASE Unlink(t)
  <2>1. /\ t \in inList /\ inList' = inList \ {t} /\ daemon' = daemon
        /\ nonDaemon' = nonDaemon - (IF daemon[t] THEN 0 ELSE 1)
    BY <1>4 DEF Unlink, LifeInv
  <2>2. QED
    BY <2>1, ListShrinks
<1>5. QED
  BY <1>1, <1>2, <1>3, <1>4

\* The count is exact, and Main is in it.
CountInv == CountIsExact /\ ~daemon[Main]

\* A step that changes the count by what it adds to the two sets keeps it exact.
LEMMA Balance ==
  ASSUME LifeInv, LifeInv', CountIsExact, Gone' <=> Gone,
         nonDaemon' - nonDaemon = (Cardinality(NonDaemons') - Cardinality(NonDaemons))
                                  + (Cardinality(Attaching') - Cardinality(Attaching))
  PROVE  CountIsExact'
<1> DEFINE gone == IF Gone THEN 1 ELSE 0
<1>1. nonDaemon = Cardinality(NonDaemons) + Cardinality(Attaching) - gone
  BY DEF CountIsExact, NonDaemons, Gone
<1>2. /\ Cardinality(NonDaemons) \in Nat /\ Cardinality(Attaching) \in Nat /\ nonDaemon \in Int
      /\ Cardinality(NonDaemons') \in Nat /\ Cardinality(Attaching') \in Nat /\ nonDaemon' \in Int
  BY Finite, FiniteNext DEF Numbers
<1>3. gone' = gone /\ gone \in {0, 1}
  BY DEF Gone
<1>4. nonDaemon' = Cardinality(NonDaemons') + Cardinality(Attaching') - gone'
  <2> HIDE DEF gone
  <2>1. QED
    BY <1>1, <1>2, <1>3
<1>5. QED
  BY <1>4 DEF CountIsExact, NonDaemons, Gone

\* A thread on the list does not change its mind.
LEMMA DaemonsKept ==
  ASSUME LifeInv, NEW t \in Threads, Step(t) \/ ChangeToRunning(t) \/ Start(t)
  PROVE  \A u \in inList : daemon'[u] = daemon[u]
<1>1. CASE \E o \in Objects : Create(t, o)
  BY <1>1 DEF Create, LifeInv
<1>2. CASE CreateInternal(t)
  <2>1. PICK n \in Internals : pc[n] = "none" /\ daemon' = [daemon EXCEPT ![n] = TRUE]
    BY <1>2 DEF CreateInternal
  <2>2. n \notin inList /\ daemon \in [Threads -> BOOLEAN] /\ inList \in SUBSET Threads
    BY <2>1 DEF LifeInv
  <2>3. QED
    BY <2>1, <2>2
<1>3. CASE JniAttach(t)
  BY <1>3 DEF JniAttach, LifeInv
<1>4. CASE /\ Step(t) \/ ChangeToRunning(t) \/ Start(t)
           /\ ~(\E o \in Objects : Create(t, o)) /\ ~CreateInternal(t) /\ ~JniAttach(t)
  <2>1. daemon' = daemon
    BY <1>4 DEF Step, ChangeToRunning, Start, CheckSuspend, SafePoint, WakeUp, WaitForList, SuspendAll, WorldStops,
       EndStop, ResumeAll, Register, StartAgain, Spawn, Unspawn, Prepare, Adopt, Release, Go, Use, PrepareAttached,
       Join, PulseHeapLock, BuildObjects, Unjoin, RestoreCount, Report, AwaitInternal, ClearVmThread, Quit, Unlink,
       LeaveRunning, EnterStop, LookUp, Detach
  <2>2. QED
    BY <2>1
<1>5. QED
  BY <1>1, <1>2, <1>3, <1>4

\* nonDaemonThreadCount stays exact.
LEMMA CountStep ==
  ASSUME LifeInv, LifeInv', CountInv, NEW t \in Threads, Step(t) \/ ChangeToRunning(t) \/ Start(t)
  PROVE  CountInv'
<1>1. ~daemon'[Main]
  BY DaemonsKept DEF CountInv, LifeInv
<1>2. CASE ~Accounting(t)
  <2>1. NonDaemons' = NonDaemons /\ Attaching' = Attaching /\ nonDaemon' = nonDaemon /\ (Gone' <=> Gone)
    BY <1>2, Kept, KeptCounts
  <2>2. QED
    BY <1>1, <2>1, Balance, Finite DEF Numbers, CountInv
<1>3. CASE Prepare(t) \/ PrepareAttached(t)
  <2>1. /\ \A u \in Threads : u \in NonDaemons' <=> u \in NonDaemons
        /\ \A u \in Threads : u \in Attaching' <=> u \in Attaching
        /\ nonDaemon' = nonDaemon /\ (Gone' <=> Gone)
    <3>1. CASE Prepare(t)
      BY <3>1 DEF Prepare, NonDaemons, Attaching, Gone, LifeInv
    <3>2. CASE PrepareAttached(t)
      BY <3>2 DEF PrepareAttached, NonDaemons, Attaching, Gone, LifeInv
    <3>3. QED
      BY <1>3, <3>1, <3>2
  <2>2. QED
    BY <1>1, <2>1, KeptCounts, Balance, Finite DEF Numbers, CountInv
<1>4. CASE Adopt(t) \/ Join(t) \/ Unjoin(t) \/ Unlink(t)
  <2>1. (\A u \in Threads : u \in Attaching' <=> u \in Attaching) /\ (Gone' <=> Gone)
    <3>1. CASE Adopt(t)
      BY <3>1 DEF Adopt, Attaching, Gone, LifeInv
    <3>2. CASE Join(t)
      BY <3>2 DEF Join, Attaching, Gone, LifeInv
    <3>3. CASE Unjoin(t)
      BY <3>3 DEF Unjoin, Attaching, Gone, LifeInv
    <3>4. CASE Unlink(t)
      BY <3>4 DEF Unlink, Attaching, Gone, LifeInv
    <3>5. QED
      BY <1>4, <3>1, <3>2, <3>3, <3>4
  <2>2. Attaching' = Attaching
    BY <2>1, KeptCounts
  <2>3. nonDaemon' - nonDaemon = Cardinality(NonDaemons') - Cardinality(NonDaemons)
    BY <1>4, ListCounted
  <2>4. QED
    BY <1>1, <2>1, <2>2, <2>3, Balance, Finite, FiniteNext DEF Numbers, CountInv
<1>5. CASE RestoreCount(t)
  <2>1. /\ \A u \in Threads : u \in NonDaemons' <=> u \in NonDaemons
        /\ t \in Attaching /\ \A u \in Threads : u \in Attaching' <=> u \in Attaching \ {t}
        /\ nonDaemon' = nonDaemon - 1 /\ (Gone' <=> Gone)
    BY <1>5 DEF RestoreCount, NonDaemons, Attaching, Gone, LifeInv
  <2>2. NonDaemons' = NonDaemons /\ Attaching' = Attaching \ {t}
    BY <2>1, KeptCounts DEF Attaching
  <2>3. Cardinality(Attaching') = Cardinality(Attaching) - 1
    BY <2>1, <2>2, OneLess, Finite DEF Numbers
  <2>4. QED
    BY <1>1, <2>1, <2>2, <2>3, Balance, Finite, FiniteNext DEF Numbers, CountInv
<1>6. CASE JniAttach(t)
  <2>1. /\ \A u \in Threads : u \in NonDaemons' <=> u \in NonDaemons
        /\ t \notin Attaching /\ \A u \in Threads : u \in Attaching' <=> u \in Attaching \cup {t}
        /\ nonDaemon' = nonDaemon + 1 /\ (Gone' <=> Gone)
    BY <1>6 DEF JniAttach, NonDaemons, Attaching, Gone, LifeInv
  <2>2. NonDaemons' = NonDaemons /\ Attaching' = Attaching \cup {t}
    BY <2>1, KeptCounts DEF Attaching
  <2>3. Cardinality(Attaching') = Cardinality(Attaching) + 1
    BY <2>1, <2>2, OneMore, Finite DEF Numbers
  <2>4. QED
    BY <1>1, <2>1, <2>2, <2>3, Balance, Finite, FiniteNext DEF Numbers, CountInv
<1>7. QED
  BY <1>1, <1>2, <1>3, <1>4, <1>5, <1>6 DEF Accounting, CountInv

\* DestroyJavaVM takes Main out of the count, once.
LEMMA MainCount ==
  ASSUME LifeInv, LifeInv', CountInv, DestroyJavaVM \/ AwaitLastThread
  PROVE  CountInv'
<1>1. ~daemon'[Main]
  BY DEF CountInv, DestroyJavaVM, AwaitLastThread
<1>2. /\ \A u \in Threads : u \in NonDaemons' <=> u \in NonDaemons
      /\ \A u \in Threads : u \in Attaching' <=> u \in Attaching
  <2>1. CASE DestroyJavaVM
    BY <2>1 DEF DestroyJavaVM, NonDaemons, Attaching, LifeInv
  <2>2. CASE AwaitLastThread
    BY <2>2 DEF AwaitLastThread, NonDaemons, Attaching, LifeInv
  <2>3. QED
    BY <2>1, <2>2
<1>3. NonDaemons' = NonDaemons /\ Attaching' = Attaching
  BY <1>2, KeptCounts
<1>4. CASE (Gone' <=> Gone) /\ nonDaemon' = nonDaemon
  BY <1>1, <1>3, <1>4, Balance, Finite DEF Numbers, CountInv
<1>5. CASE AwaitLastThread /\ pc[Main] = "destroy"
  <2>1. ~Gone /\ Gone' /\ nonDaemon' = nonDaemon - 1
    BY <1>5 DEF AwaitLastThread, Gone, LifeInv
  <2>2. nonDaemon = Cardinality(NonDaemons) + Cardinality(Attaching) - 0
    BY <2>1 DEF CountInv, CountIsExact, NonDaemons, Gone
  <2>3. nonDaemon' = Cardinality(NonDaemons') + Cardinality(Attaching') - 1
    BY <1>3, <2>1, <2>2, Finite DEF Numbers
  <2>4. QED
    BY <1>1, <2>1, <2>3 DEF CountInv, CountIsExact, NonDaemons, Gone
<1>6. CASE AwaitLastThread /\ pc[Main] = "exitwait"
  <2>1. nonDaemon' = nonDaemon
    BY <1>6, Finite DEF AwaitLastThread, Numbers
  <2>2. Gone /\ Gone'
    BY <1>6 DEF AwaitLastThread, Gone, LifeInv
  <2>3. QED
    BY <1>4, <2>1, <2>2
<1>7. CASE DestroyJavaVM
  BY <1>4, <1>7 DEF DestroyJavaVM, Gone, LifeInv
<1>8. QED
  BY <1>5, <1>6, <1>7 DEF AwaitLastThread

\* At first there is only Main.
LEMMA CountStart == Init => CountInv
<1> SUFFICES ASSUME Init PROVE CountInv
  OBVIOUS
<1>1. ~daemon[Main] /\ ~Gone /\ nonDaemon = 1
  BY DEF Init, Gone
<1>2. NonDaemons = {Main}
  BY DEF Init, NonDaemons
<1>3. Attaching = {}
  BY DEF Init, Attaching
<1>4. Cardinality(NonDaemons) = 1 /\ Cardinality(Attaching) = 0
  BY <1>2, <1>3, FS_Singleton, FS_EmptySet
<1>5. QED
  BY <1>1, <1>4 DEF CountInv, CountIsExact, NonDaemons, Gone

\* The count is never taken below 0: Main, at least, is in it.
LEMMA CountIsNatural ==
  ASSUME LifeInv, CountInv
  PROVE  nonDaemon \in Nat
<1>1. Main \in NonDaemons
  BY DEF NonDaemons, LifeInv, CountInv
<1>2. Cardinality(NonDaemons) \in Nat \ {0} /\ Cardinality(Attaching) \in Nat
  BY <1>1, Finite, FS_EmptySet DEF Numbers
<1>3. nonDaemon = Cardinality(NonDaemons) + Cardinality(Attaching) - (IF Gone THEN 1 ELSE 0)
  BY DEF CountInv, CountIsExact, NonDaemons, Gone
<1>4. QED
  BY <1>2, <1>3

-----------------------------------------------------------------------------
(* Thread ids.                                                             *)

\* A struct whose thread has not got as far as an id, and every one whose
\* thread is being detached, is accounted for.
IdsInv == /\ idCount >= Cardinality(HasId)
          /\ ~AttachMayFail => idCount = Cardinality(HasId)

\* A failed attach may leave a bit set; no other step changes one side alone.
LEMMA IdsStep ==
  ASSUME LifeInv, LifeInv', IdsInv, NEW t \in Threads, Step(t) \/ ChangeToRunning(t) \/ Start(t)
  PROVE  IdsInv'
<1>0. /\ idCount >= Cardinality(HasId) /\ (~AttachMayFail => idCount = Cardinality(HasId))
      /\ idCount \in Int /\ Cardinality(HasId) \in Nat /\ IsFiniteSet(HasId)
  BY Finite DEF IdsInv, Numbers
<1>1. CASE idCount' = idCount /\ HasId' = HasId
  BY <1>0, <1>1 DEF IdsInv
<1>2. CASE ~Accounting(t)
  BY <1>1, <1>2, Kept, KeptCounts
<1>3. CASE Prepare(t) \/ (PrepareAttached(t) /\ pc'[t] = "join")
  <2>1. idCount' = idCount + 1 /\ t \notin HasId /\ \A u \in Threads : u \in HasId' <=> u \in HasId \cup {t}
    <3>1. CASE Prepare(t)
      BY <3>1 DEF Prepare, HasId, LifeInv
    <3>2. CASE PrepareAttached(t) /\ pc'[t] = "join"
      BY <3>2 DEF PrepareAttached, HasId, LifeInv
    <3>3. QED
      BY <1>3, <3>1, <3>2
  <2>2. HasId' = HasId \cup {t}
    BY <2>1 DEF HasId
  <2>3. Cardinality(HasId') = Cardinality(HasId) + 1
    BY <1>0, <2>1, <2>2, OneMore
  <2>4. QED
    BY <1>0, <2>1, <2>3 DEF IdsInv
<1>4. CASE PrepareAttached(t) /\ pc'[t] # "join"
  <2>1. AttachMayFail /\ idCount' \in {idCount, idCount + 1} /\ \A u \in Threads : u \in HasId' <=> u \in HasId
    BY <1>4 DEF PrepareAttached, HasId, LifeInv
  <2>2. QED
    BY <1>0, <2>1, KeptCounts DEF IdsInv
<1>5. CASE Adopt(t) \/ Join(t) \/ RestoreCount(t) \/ JniAttach(t)
  <2>1. \A u \in Threads : u \in HasId' <=> u \in HasId
    <3>1. CASE Adopt(t)
      BY <3>1 DEF Adopt, HasId, LifeInv
    <3>2. CASE Join(t)
      BY <3>2 DEF Join, HasId, LifeInv
    <3>3. CASE RestoreCount(t)
      BY <3>3 DEF RestoreCount, HasId, LifeInv
    <3>4. CASE JniAttach(t)
      BY <3>4 DEF JniAttach, HasId, LifeInv
    <3>5. QED
      BY <1>5, <3>1, <3>2, <3>3, <3>4
  <2>2. idCount' = idCount
    BY <1>5 DEF Adopt, Join, RestoreCount, JniAttach
  <2>3. QED
    BY <1>1, <2>1, <2>2, KeptCounts
<1>6. CASE Unjoin(t) \/ Unlink(t)
  <2>1. t \in HasId /\ \A u \in Threads : u \in HasId' <=> u \in HasId \ {t}
    <3>1. CASE Unjoin(t)
      BY <3>1 DEF Unjoin, HasId, LifeInv
    <3>2. CASE Unlink(t)
      BY <3>2 DEF Unlink, HasId, LifeInv
    <3>3. QED
      BY <1>6, <3>1, <3>2
  <2>2. HasId' = HasId \ {t}
    BY <2>1 DEF HasId
  <2>3. Cardinality(HasId') = Cardinality(HasId) - 1
    BY <1>0, <2>1, <2>2, OneLess
  <2>4. CASE Unlink(t)
    <3>1. idCount' = idCount - 1
      BY <2>4 DEF Unlink
    <3>2. QED
      BY <1>0, <2>3, <3>1 DEF IdsInv
  <2>5. CASE Unjoin(t)
    <3>1. idCount' = idCount /\ AttachMayFail
      BY <2>5 DEF Unjoin, LifeInv
    <3>2. QED
      BY <1>0, <2>3, <3>1 DEF IdsInv
  <2>6. QED
    BY <1>6, <2>4, <2>5
<1>7. QED
  BY <1>2, <1>3, <1>4, <1>5, <1>6 DEF Accounting

\* Shutting down gives no id back.
LEMMA MainIds ==
  ASSUME LifeInv, LifeInv', IdsInv, DestroyJavaVM \/ AwaitLastThread
  PROVE  IdsInv'
<1>1. idCount' = idCount /\ \A u \in Threads : u \in HasId' <=> u \in HasId
  <2>1. CASE DestroyJavaVM
    BY <2>1 DEF DestroyJavaVM, HasId, LifeInv
  <2>2. CASE AwaitLastThread
    BY <2>2 DEF AwaitLastThread, HasId, LifeInv
  <2>3. QED
    BY <2>1, <2>2
<1>2. QED
  BY <1>1, KeptCounts DEF IdsInv

\* The threads there are at first have their ids.
LEMMA IdsStart == Init => IdsInv
<1> SUFFICES ASSUME Init PROVE IdsInv
  OBVIOUS
<1>1. HasId = Existing
  BY DEF Init, HasId
<1>2. idCount = Cardinality(HasId) /\ idCount \in Nat
  <2>1. IsFiniteSet(HasId)
    BY FS_Subset, NobodyAssumption DEF HasId
  <2>2. QED
    BY <1>1, <2>1, FS_CardinalityType DEF Init
<1>3. QED
  BY <1>2 DEF IdsInv

-----------------------------------------------------------------------------
(* The end of the VM.                                                      *)

\* JNI may attach threads only if no attach fails and none of them is a daemon.
ExitAssumption == Natives = {} \/ (DaemonChoices = {FALSE} /\ ~AttachMayFail)

\* The last non-daemon thread signals, and JNI's temporary count is not the last
\* to go, since its thread is in the count itself.
LEMMA ExitStep ==
  ASSUME LifeInv, LifeInv', CountInv, CountInv', ExitAssumption, ExitNotLost,
         NEW t \in Threads, Step(t) \/ ChangeToRunning(t) \/ Start(t)
  PROVE  ExitNotLost'
<1>1. nonDaemon \in Nat
  BY CountIsNatural
<1>2. exitSignal => exitSignal'
  <2>1. CASE Unlink(t)
    BY <2>1 DEF Unlink
  <2>2. CASE ~Unlink(t)
    BY <2>2 DEF Step, ChangeToRunning, Start, CheckSuspend, SafePoint, WakeUp, WaitForList, SuspendAll, WorldStops,
       EndStop, ResumeAll, Register, StartAgain, Spawn, Unspawn, Prepare, Adopt, Release, Go, Use, PrepareAttached,
       Join, PulseHeapLock, BuildObjects, Unjoin, RestoreCount, Report, AwaitInternal, ClearVmThread, Quit,
       LeaveRunning, EnterStop, Create, CreateInternal, LookUp, JniAttach, Detach
  <2>3. QED
    BY <2>1, <2>2
<1>3. CASE nonDaemon' >= nonDaemon /\ (pc'[Main] = "exitwait" => pc[Main] = "exitwait")
  BY <1>1, <1>2, <1>3, FiniteNext DEF ExitNotLost, Numbers
<1>4. CASE ~Accounting(t)
  BY <1>1, <1>3, <1>4, Kept
<1>5. CASE Accounting(t) /\ ~RestoreCount(t)
  <2>1. pc'[Main] = "exitwait" => pc[Main] = "exitwait"
    BY <1>5 DEF Accounting, Prepare, Adopt, PrepareAttached, Join, Unjoin, Unlink, JniAttach, LifeInv
  <2>2. CASE nonDaemon' >= nonDaemon
    BY <1>3, <2>1, <2>2
  <2>3. CASE ~(nonDaemon' >= nonDaemon) /\ Unlink(t)
    <3>1. daemon[t] => nonDaemon' = nonDaemon
      BY <1>1, <2>3 DEF Unlink
    <3>2. ~daemon[t]
      BY <1>1, <2>3, <3>1
    <3>3. QED
      BY <2>1, <2>3, <3>2 DEF Unlink, ExitNotLost
  <2>4. CASE ~(nonDaemon' >= nonDaemon) /\ Unjoin(t)
    <3>1. daemon[t] => nonDaemon' = nonDaemon
      BY <1>1, <2>4 DEF Unjoin
    <3>2. ~daemon[t] /\ pc[t] = "unjoin"
      BY <1>1, <2>4, <3>1 DEF Unjoin
    <3>3. t \in Natives /\ AttachMayFail
      BY <3>2 DEF LifeInv
    <3>4. QED
      BY <3>3 DEF ExitAssumption
  <2>5. Prepare(t) \/ Adopt(t) \/ PrepareAttached(t) \/ Join(t) \/ JniAttach(t) => nonDaemon' >= nonDaemon
    BY <1>1 DEF Prepare, Adopt, PrepareAttached, Join, JniAttach
  <2>6. QED
    BY <1>5, <2>2, <2>3, <2>4, <2>5 DEF Accounting
<1>6. CASE RestoreCount(t)
  <2>1. t \in Natives /\ ~AttachMayFail /\ DaemonChoices = {FALSE}
    BY <1>6 DEF RestoreCount, ExitAssumption
  <2>2. t \in inList' /\ ~daemon'[t] /\ Main \in inList' /\ ~daemon'[Main] /\ t # Main
    <3>1. pc[t] = "restore" /\ t \in inList /\ Main \in inList /\ t # Main
      <4>1. pc[t] = "restore"
        BY <1>6, <2>1 DEF RestoreCount, LifeInv
      <4>2. At(t) = "restore" /\ t \in inList
        BY <4>1 DEF LifeInv
      <4>3. Main \in inList /\ t # Main
        BY <2>1 DEF LifeInv
      <4>4. QED
        BY <4>1, <4>2, <4>3
    <3>2. inList' = inList /\ daemon' = daemon
      BY <1>6 DEF RestoreCount
    <3>3. daemon[t] \in DaemonChoices /\ daemon[t] \in BOOLEAN
      <4>1. daemon[t] \in BOOLEAN
        BY DEF LifeInv
      <4>2. Struct(t)
        BY DEF LifeInv
      <4>3. QED
        BY ONLY <2>1, <3>1, <4>1, <4>2
    <3>4. QED
      BY <2>1, <3>1, <3>2, <3>3 DEF CountInv
  <2>3. t \in NonDaemons' /\ Main \in NonDaemons' \ {t}
    BY <2>2 DEF NonDaemons
  <2>4. Cardinality(NonDaemons') >= 2
    <3>1. IsFiniteSet(NonDaemons') /\ Cardinality(NonDaemons') \in Nat
      BY FiniteNext DEF Numbers
    <3>2. IsFiniteSet(NonDaemons' \ {t}) /\ Cardinality(NonDaemons' \ {t}) = Cardinality(NonDaemons') - 1
      BY <2>3, <3>1, FS_RemoveElement
    <3>3. Cardinality(NonDaemons' \ {t}) # 0 /\ Cardinality(NonDaemons' \ {t}) \in Nat
      BY <2>3, <3>2, FS_EmptySet, FS_CardinalityType
    <3>4. QED
      BY <3>1, <3>2, <3>3
  <2>5. nonDaemon' > 0
    <3>1. nonDaemon' = Cardinality(NonDaemons') + Cardinality(Attaching') - (IF Gone' THEN 1 ELSE 0)
      BY DEF CountInv, CountIsExact, NonDaemons, Gone
    <3>2. Cardinality(NonDaemons') \in Nat /\ Cardinality(Attaching') \in Nat
      BY FiniteNext DEF Numbers
    <3>3. QED
      BY <2>4, <3>1, <3>2
  <2>6. QED
    BY <2>5, FiniteNext DEF ExitNotLost, Numbers
<1>7. QED
  BY <1>4, <1>5, <1>6

\* Main looks at the count before it sleeps.
LEMMA MainExit ==
  ASSUME LifeInv, LifeInv', DestroyJavaVM \/ AwaitLastThread
  PROVE  ExitNotLost'
<1>1. CASE DestroyJavaVM
  BY <1>1 DEF DestroyJavaVM, ExitNotLost, LifeInv
<1>2. CASE AwaitLastThread
  <2>1. pc' = [pc EXCEPT ![Main] = IF nonDaemon' > 0 THEN "exitwait" ELSE "shutdown"]
    BY <1>2 DEF AwaitLastThread
  <2>2. pc'[Main] = "exitwait" => nonDaemon' > 0
    BY <2>1 DEF LifeInv
  <2>3. nonDaemon' \in Int
    BY FiniteNext DEF Numbers
  <2>4. QED
    BY <2>2, <2>3 DEF ExitNotLost
<1>3. QED
  BY <1>1, <1>2

-----------------------------------------------------------------------------
(* The VMThread of a thread.                                               *)

\* No thread fails to be created and no Thread object is started a second time.
LookupAssumption == ~SpawnMayFail /\ ~StartTwice

\* Of the threads with the same Thread object at most one is there; its VMThread
\* points to it from its registration to the time it dies.
VmInv ==
  /\ \A t \in Threads : At(t) \notin {"again", "unspawn"}
  /\ \A t \in Threads : task[t] # NoObject => task[t] \in begun /\ t \in Fresh
  /\ \A t, u \in Threads : task[t] = task[u] /\ t # u => task[t] = NoObject
  /\ \A o \in Objects : o \notin begun => vmThread[o] = NoThread
  /\ \A t \in Threads : At(t) = "register" => vmThread[task[child[t]]] = NoThread
  /\ \A t \in Threads : vmData[t] => /\ task[t] # NoObject /\ vmThread[task[t]] = t
                                     /\ status[t] # "FREE" /\ At(t) \notin {"dying", "unlink"}

\* Registration, death and everything in between keep it.
LEMMA VmStep ==
  ASSUME LifeInv, LookupAssumption, VmInv, NEW t \in Threads, Step(t) \/ ChangeToRunning(t) \/ Start(t)
  PROVE  VmInv'
<1> USE DEF VmInv, LookupAssumption, LifeInv
<1>1. CASE CheckSuspend(t)
  BY <1>1 DEF CheckSuspend
<1>2. CASE SafePoint(t)
  BY <1>2 DEF SafePoint
<1>3. CASE WakeUp(t)
  BY <1>3 DEF WakeUp
<1>4. CASE WaitForList(t)
  BY <1>4 DEF WaitForList
<1>5. CASE SuspendAll(t)
  BY <1>5 DEF SuspendAll
<1>6. CASE WorldStops(t)
  BY <1>6 DEF WorldStops
<1>7. CASE EndStop(t)
  BY <1>7 DEF EndStop
<1>8. CASE ResumeAll(t)
  BY <1>8 DEF ResumeAll
<1>9. CASE Register(t)
  <2>1. /\ pc[t] = "register" /\ vmThread[task[child[t]]] = NoThread /\ child[t] \in Threads /\ child[t] # t
        /\ pc[child[t]] = "none" /\ status[child[t]] = "INITIALIZING" /\ task[child[t]] \in Objects
    BY <1>9 DEF Register
  <2>2. /\ pc' = [pc EXCEPT ![t] = "spawn"] /\ vmThread' = [vmThread EXCEPT ![task[child[t]]] = child[t]]
        /\ vmData' = [vmData EXCEPT ![child[t]] = TRUE] /\ UNCHANGED <<status, task, begun, child, cont>>
    BY <1>9, <2>1 DEF Register
  <2>3. QED
    BY <2>1, <2>2
<1>10. CASE StartAgain(t)
  BY <1>10 DEF StartAgain
<1>11. CASE Spawn(t)
  <2>1. pc' = [pc EXCEPT ![t] = "resume", ![child[t]] = "born"] /\ cont' = [cont EXCEPT ![t] = "adopt"]
    BY <1>11 DEF Spawn
  <2>2. pc[t] = "spawn" /\ child[t] \in Threads /\ child[t] # t /\ pc[child[t]] = "none"
    BY <1>11 DEF Spawn
  <2>3. UNCHANGED <<status, vmThread, vmData, task, begun, child>>
    BY <1>11 DEF Spawn
  <2>4. QED
    BY <2>1, <2>2, <2>3
<1>12. CASE Unspawn(t)
  BY <1>12 DEF Unspawn
<1>13. CASE Prepare(t)
  BY <1>13 DEF Prepare
<1>14. CASE Adopt(t)
  <2>1. CASE status[child[t]] = "STARTING"
    <3>1. /\ pc[t] = "adopt" /\ ResumeAt(t, "release")
          /\ UNCHANGED <<status, vmThread, vmData, task, begun, child>>
      BY <1>14, <2>1 DEF Adopt
    <3>2. QED
      BY <3>1
  <2>2. CASE status[child[t]] # "STARTING"
    BY <1>14, <2>2 DEF Adopt
  <2>3. QED
    BY <2>1, <2>2
<1>15. CASE Release(t)
  BY <1>15 DEF Release
<1>16. CASE Go(t)
  <2>1. CASE status[t] = "VMWAIT"
    <3>1. /\ pc[t] = "gowait" /\ ResumeAt(t, "run")
          /\ UNCHANGED <<status, vmThread, vmData, task, begun, child>>
      BY <1>16, <2>1 DEF Go
    <3>2. QED
      BY <3>1
  <2>2. CASE status[t] # "VMWAIT"
    BY <1>16, <2>2 DEF Go
  <2>3. QED
    BY <2>1, <2>2
<1>17. CASE Use(t)
  BY <1>17 DEF Use
<1>18. CASE PrepareAttached(t)
  BY <1>18 DEF PrepareAttached
<1>19. CASE Join(t)
  BY <1>19 DEF Join
<1>20. CASE PulseHeapLock(t)
  BY <1>20 DEF PulseHeapLock
<1>21. CASE BuildObjects(t)
  <2>1. pc[t] = "built" /\ \E l \in {"report", "restore", "unjoin"} : pc' = [pc EXCEPT ![t] = l]
    BY <1>21 DEF BuildObjects
  <2>2. UNCHANGED <<status, vmThread, vmData, task, begun, child, cont>>
    BY <1>21 DEF BuildObjects
  <2>3. QED
    BY <2>1, <2>2
<1>22. CASE Unjoin(t)
  BY <1>22 DEF Unjoin
<1>23. CASE RestoreCount(t)
  <2>1. UNCHANGED <<vmThread, vmData, task, begun, child>>
    BY <1>23 DEF RestoreCount
  <2>2. CASE pc[t] = "restore"
    <3>1. ResumeAt(t, "run") /\ status' = [status EXCEPT ![t] = "NATIVE"]
      BY <1>23, <2>2 DEF RestoreCount
    <3>2. QED
      BY <2>1, <2>2, <3>1
  <2>3. CASE pc[t] = "failed"
    <3>1. pc' = [pc EXCEPT ![t] = "none"] /\ UNCHANGED <<status, cont>>
      BY <1>23, <2>3 DEF RestoreCount
    <3>2. QED
      BY <2>1, <2>3, <3>1
  <2>4. QED
    BY <1>23, <2>2, <2>3 DEF RestoreCount
<1>24. CASE Report(t)
  BY <1>24 DEF Report
<1>25. CASE AwaitInternal(t)
  BY <1>25 DEF AwaitInternal
<1>26. CASE ClearVmThread(t)
  BY <1>26 DEF ClearVmThread
<1>27. CASE Quit(t)
  BY <1>27 DEF Quit
<1>28. CASE Unlink(t)
  BY <1>28 DEF Unlink
<1>29. CASE ChangeToRunning(t)
  BY <1>29 DEF ChangeToRunning
<1>30. CASE LeaveRunning(t)
  BY <1>30 DEF LeaveRunning
<1>31. CASE EnterStop(t)
  BY <1>31 DEF EnterStop
<1>32. CASE \E o \in Objects : Create(t, o)
  BY <1>32 DEF Create
<1>33. CASE CreateInternal(t)
  <2>1. PICK n \in Internals :
          /\ pc[n] = "none" /\ pc' = [pc EXCEPT ![t] = "internal", ![n] = "attach"]
          /\ child' = [child EXCEPT ![t] = n]
    BY <1>33 DEF CreateInternal
  <2>2. Working(t) /\ status' = [status EXCEPT ![t] = "VMWAIT"] /\ UNCHANGED <<vmThread, vmData, task, begun, cont>>
    BY <1>33 DEF CreateInternal
  <2>3. QED
    BY <2>1, <2>2
<1>34. CASE LookUp(t)
  BY <1>34 DEF LookUp
<1>35. CASE JniAttach(t)
  BY <1>35 DEF JniAttach
<1>36. CASE Detach(t)
  BY <1>36 DEF Detach
<1>37. QED
  BY <1>1, <1>2, <1>3, <1>4, <1>5, <1>6, <1>7, <1>8, <1>9, <1>10, <1>11, <1>12, <1>13,
     <1>14, <1>15, <1>16, <1>17, <1>18, <1>19, <1>20, <1>21, <1>22, <1>23, <1>24, <1>25,
     <1>26, <1>27, <1>28, <1>29, <1>30, <1>31, <1>32, <1>33, <1>34, <1>35, <1>36 DEF Step,
     Start

\* Shutting down changes no VMThread.
LEMMA MainVm ==
  ASSUME LifeInv, VmInv, DestroyJavaVM \/ AwaitLastThread
  PROVE  VmInv'
<1> USE DEF VmInv, LifeInv
<1>1. CASE DestroyJavaVM
  BY <1>1 DEF DestroyJavaVM
<1>2. CASE AwaitLastThread
  <2>1. /\ pc[Main] \in {"destroy", "exitwait"} /\ \E l \in {"exitwait", "shutdown"} : pc' = [pc EXCEPT ![Main] = l]
        /\ UNCHANGED <<status, vmThread, vmData, task, begun, child, cont>>
    <3>1. pc' = [pc EXCEPT ![Main] = "exitwait"] \/ pc' = [pc EXCEPT ![Main] = "shutdown"]
      BY <1>2 DEF AwaitLastThread
    <3>2. QED
      BY <1>2, <3>1 DEF AwaitLastThread
  <2>2. QED
    BY <2>1
<1>3. QED
  BY <1>1, <1>2

-----------------------------------------------------------------------------
(* Nobody slips past a stop.                                               *)

\* No thread dies of an exception, and the JIT compiler, which stops the world
\* without the heap lock, is not there together with threads that attach.
SlipAssumption == ~Uncaught /\ (Compilers = {} \/ Natives \cup Internals = {})

\* The stops of the world in effect, by who makes them.
Stops == {g \in Threads : pc[g] \in {"scan", "gc", "restart"} \/ (pc[g] \in Checking /\ cont[g] = "restart")}

\* A thread put into the list whose parent is still in its own suspend check.
Newborn(u) == /\ pc[u] = "gowait" /\ status[u] = "STARTING"
              /\ \E t \in Threads : child[t] = u /\ cont[t] = "release" /\ pc[t] \in Checking

\* A thread that came while the world was stopped, which is being resumed now.
Overlooked(u) == /\ u \notin Existing /\ Compilers = {}
                 /\ \A g \in Threads : pc[g] \notin {"scan", "gc"}

\* The stops that u may have missed are not in its count.
Missed(u) == Newborn(u) \/ pc[u] = "pulse" \/ Overlooked(u)

\* A collector holds the heap lock up to the end of its stop.
HeapHeld == \A g \in Collectors : /\ At(g) \in {"stop", "scan", "gc"} => heapLock = g
                                  /\ pc[g] = "stop" => status[g] = "RUNNING"

\* The count of a thread is the number of stops by others, unless it has missed
\* some; then it has a check or the heap lock before it that will catch it.
SlipInv ==
  /\ HeapHeld
  /\ \A u \in Threads \ inList : suspendCount[u] = 0
  /\ \A u \in inList : \/ suspendCount[u] = Cardinality(Stops \ {u})
                       \/ Missed(u) /\ suspendCount[u] <= Cardinality(Stops \ {u})

\* There are finitely many stops, and none if their number is 0.
LEMMA StopsCounted ==
  ASSUME LifeInv, NEW u
  PROVE  /\ IsFiniteSet(Stops \ {u}) /\ Cardinality(Stops \ {u}) \in Nat
         /\ Cardinality(Stops \ {u}) = 0 <=> \A v \in Threads : v # u => v \notin Stops
<1>1. Stops \in SUBSET Threads
  BY DEF Stops
<1>2. IsFiniteSet(Stops \ {u})
  BY <1>1, FS_Subset, NobodyAssumption
<1>3. (Stops \ {u} = {}) <=> \A v \in Threads : v # u => v \notin Stops
  BY <1>1
<1>4. QED
  BY <1>2, <1>3, FS_CardinalityType, FS_EmptySet

\* Who passes its check does so when nobody stops the world or when it has been
\* overlooked.
LEMMA PassedFree ==
  ASSUME LifeInv, SlipInv, NEW t \in Threads, pc[t] \in {"check", "asleep"}, suspendCount[t] = 0
  PROVE  (\A v \in Threads : v # t => v \notin Stops) \/ Overlooked(t)
<1>1. t \in inList
  BY DEF LifeInv
<1>2. ~Newborn(t) /\ pc[t] # "pulse"
  BY DEF Newborn
<1>3. suspendCount[t] = Cardinality(Stops \ {t}) \/ Overlooked(t)
  BY <1>1, <1>2 DEF SlipInv, Missed
<1>4. QED
  BY <1>3, StopsCounted

\* Every step but the two that count keeps the stops in effect; a thread that it
\* puts into the list has missed them, and one that has missed them before has
\* done so still, unless there are none.
Keeps(t) ==
  /\ \A u \in Threads : u \in Stops' <=> u \in Stops
  /\ \A u \in Threads : u \notin inList' => suspendCount'[u] = 0
  /\ \A u \in Threads : u \in inList' => suspendCount'[u] = suspendCount[u]
  /\ \A u \in Threads : u \in inList' /\ u \notin inList => Missed(u)'
  /\ \A u \in Threads : u \in inList' /\ Missed(u) => Missed(u)' \/ \A v \in Threads : v \notin Stops
  /\ HeapHeld'

\* Each of the other steps is one of these.
LEMMA SlipKept ==
  ASSUME LifeInv, SlipInv, SlipAssumption, NEW t \in Threads,
         Step(t) \/ ChangeToRunning(t) \/ Start(t), ~SuspendAll(t), ~ResumeAll(t)
  PROVE  Keeps(t)
<1> DEFINE Lists == \A u \in Threads \ inList : suspendCount[u] = 0
<1>0. HeapHeld /\ Lists
  BY DEF SlipInv
<1> USE DEF Keeps, Stops, Missed, Newborn, Overlooked, HeapHeld, SlipAssumption, LifeInv
<1>1. CASE CheckSuspend(t)
  <2>1. CASE suspendCount[t] = 0
    <3>1. pc[t] = "check" /\ pc' = [pc EXCEPT ![t] = cont[t]] /\ cont[t] \in PCs \ Checking
      BY <1>1, <2>1 DEF CheckSuspend
    <3>2. UNCHANGED <<status, suspendCount, inList, heapLock, cont, child>>
      BY <1>1, <2>1 DEF CheckSuspend
    <3>3. (\A v \in Threads : v # t => v \notin Stops) \/ Overlooked(t)
      BY <2>1, <3>1, PassedFree DEF LifeInv
    <3>4. HeapHeld' /\ \A u \in Threads : u \in Stops' <=> u \in Stops
      BY <1>0, <3>1, <3>2
    <3>5. \A u \in Threads : u \in inList' /\ Missed(u) => Missed(u)' \/ \A v \in Threads : v \notin Stops
      BY <3>1, <3>2, <3>3
    <3>6. QED
      BY <1>0, <3>2, <3>4, <3>5
  <2>2. CASE suspendCount[t] # 0
    <3>1. pc[t] = "check" /\ pc' = [pc EXCEPT ![t] = "asleep"]
      BY <1>1, <2>2 DEF CheckSuspend
    <3>2. UNCHANGED <<suspendCount, inList, heapLock, cont, child>> /\ status' = [status EXCEPT ![t] = "SUSPENDED"]
      BY <1>1, <2>2 DEF CheckSuspend
    <3>3. QED
      BY <1>0, <3>1, <3>2
  <2>3. QED
    BY <2>1, <2>2
<1>2. CASE SafePoint(t)
  BY <1>0, <1>2 DEF SafePoint
<1>3. CASE WakeUp(t)
  <2>1. pc[t] = "asleep" /\ pc' = [pc EXCEPT ![t] = cont[t]] /\ cont[t] \in PCs \ Checking
    BY <1>3 DEF WakeUp
  <2>2. UNCHANGED <<suspendCount, inList, heapLock, cont, child>> /\ status' = [status EXCEPT ![t] = "RUNNING"]
    BY <1>3 DEF WakeUp
  <2>3. (\A v \in Threads : v # t => v \notin Stops) \/ Overlooked(t)
    BY <1>3, <2>1, PassedFree DEF WakeUp
  <2>4. QED
    BY <1>0, <2>1, <2>2, <2>3
<1>4. CASE WaitForList(t)
  BY <1>0, <1>4 DEF WaitForList
<1>5. CASE WorldStops(t)
  BY <1>0, <1>5 DEF WorldStops
<1>6. CASE EndStop(t)
  BY <1>0, <1>6 DEF EndStop
<1>7. CASE Register(t)
  BY <1>0, <1>7 DEF Register
<1>8. CASE StartAgain(t)
  BY <1>0, <1>8 DEF StartAgain
<1>9. CASE Spawn(t)
  <2>1. child[t] \in Fresh /\ child[t] # t /\ pc[t] = "spawn" /\ pc[child[t]] = "none"
    BY <1>9 DEF Spawn
  <2>2. UNCHANGED <<status, suspendCount, inList, heapLock, child>>
    BY <1>9 DEF Spawn
  <2>3. CASE pc' = [pc EXCEPT ![t] = "resume", ![child[t]] = "born"] /\ cont' = [cont EXCEPT ![t] = "adopt"]
    BY <1>0, <2>1, <2>2, <2>3
  <2>4. CASE ResumeAt(t, "unspawn")
    BY <1>0, <2>1, <2>2, <2>4
  <2>5. QED
    BY <1>9, <2>3, <2>4 DEF Spawn
<1>10. CASE Unspawn(t)
  BY <1>0, <1>10 DEF Unspawn
<1>11. CASE Prepare(t)
  BY <1>0, <1>11 DEF Prepare
<1>12. CASE Adopt(t)
  <2>1. UNCHANGED <<status, suspendCount, heapLock, child>> /\ pc[t] = "adopt"
    BY <1>12 DEF Adopt
  <2>2. CASE status[child[t]] = "STARTING"
    <3>1. inList' = inList \cup {child[t]} /\ ResumeAt(t, "release") /\ pc[child[t]] = "gowait" /\ child[t] # t
      BY <1>12, <2>2 DEF Adopt
    <3>2. QED
      BY <1>0, <2>1, <2>2, <3>1
  <2>3. CASE status[child[t]] # "STARTING"
    BY <1>12, <1>0, <2>3 DEF Adopt
  <2>4. QED
    BY <2>2, <2>3
<1>13. CASE Release(t)
  BY <1>0, <1>13 DEF Release
<1>14. CASE Go(t)
  BY <1>0, <1>14 DEF Go
<1>15. CASE Use(t)
  BY <1>0, <1>15 DEF Use
<1>16. CASE PrepareAttached(t)
  BY <1>0, <1>16 DEF PrepareAttached
<1>17. CASE Join(t)
  BY <1>0, <1>17 DEF Join
<1>18. CASE PulseHeapLock(t)
  BY <1>0, <1>18 DEF PulseHeapLock
<1>19. CASE BuildObjects(t)
  BY <1>0, <1>19 DEF BuildObjects
<1>20. CASE Unjoin(t)
  BY <1>0, <1>20 DEF Unjoin
<1>21. CASE RestoreCount(t)
  <2>1. UNCHANGED <<suspendCount, inList, heapLock, child>>
    BY <1>21 DEF RestoreCount
  <2>2. CASE pc[t] = "restore"
    <3>1. ResumeAt(t, "run") /\ status' = [status EXCEPT ![t] = "NATIVE"]
      BY <1>21, <2>2 DEF RestoreCount
    <3>2. QED
      BY <1>0, <2>1, <2>2, <3>1
  <2>3. CASE pc[t] = "failed"
    <3>1. pc' = [pc EXCEPT ![t] = "none"] /\ UNCHANGED <<status, cont>>
      BY <1>21, <2>3 DEF RestoreCount
    <3>2. QED
      BY <1>0, <2>1, <2>3, <3>1
  <2>4. QED
    BY <1>21, <2>2, <2>3 DEF RestoreCount
<1>22. CASE Report(t)
  BY <1>0, <1>22 DEF Report
<1>23. CASE AwaitInternal(t)
  BY <1>0, <1>23 DEF AwaitInternal
<1>24. CASE ClearVmThread(t)
  BY <1>0, <1>24 DEF ClearVmThread
<1>25. CASE Quit(t)
  BY <1>0, <1>25 DEF Quit
<1>26. CASE Unlink(t)
  BY <1>0, <1>26 DEF Unlink
<1>27. CASE ChangeToRunning(t)
  BY <1>0, <1>27 DEF ChangeToRunning
<1>28. CASE LeaveRunning(t)
  BY <1>0, <1>28 DEF LeaveRunning
<1>29. CASE EnterStop(t)
  BY <1>0, <1>29 DEF EnterStop
<1>30. CASE \E o \in Objects : Create(t, o)
  BY <1>0, <1>30 DEF Create
<1>31. CASE CreateInternal(t)
  BY <1>0, <1>31 DEF CreateInternal
<1>32. CASE LookUp(t)
  BY <1>0, <1>32 DEF LookUp
<1>33. CASE JniAttach(t)
  BY <1>0, <1>33 DEF JniAttach
<1>34. CASE Detach(t)
  BY <1>0, <1>34 DEF Detach
<1>35. QED
  BY <1>1, <1>2, <1>3, <1>4, <1>5, <1>6, <1>7, <1>8, <1>9, <1>10, <1>11, <1>12, <1>13,
     <1>14, <1>15, <1>16, <1>17, <1>18, <1>19, <1>20, <1>21, <1>22, <1>23, <1>24, <1>25,
     <1>26, <1>27, <1>28, <1>29, <1>30, <1>31, <1>32, <1>33, <1>34 DEF Step, Start

\* So that the counts still are what they were or of those who have missed some.
LEMMA SlipStep ==
  ASSUME LifeInv, SlipInv, SlipAssumption, NEW t \in Threads, Keeps(t), LifeInv'
  PROVE  SlipInv'
<1>1. Stops' = Stops
  BY DEF Keeps, Stops
<1>2. HeapHeld' /\ \A u \in Threads \ inList' : suspendCount'[u] = 0
  BY DEF Keeps
<1>3. ASSUME NEW u \in inList'
      PROVE  \/ suspendCount'[u] = Cardinality(Stops \ {u})
             \/ Missed(u)' /\ suspendCount'[u] <= Cardinality(Stops \ {u})
  <2>0. u \in Threads /\ suspendCount'[u] = suspendCount[u] /\ suspendCount[u] \in Nat
    BY <1>3 DEF Keeps, LifeInv
  <2>1. Cardinality(Stops \ {u}) \in Nat /\ (Cardinality(Stops \ {u}) = 0 <=> \A v \in Threads : v # u => v \notin Stops)
    BY StopsCounted
  <2>2. CASE u \notin inList
    BY <1>3, <2>0, <2>1, <2>2 DEF Keeps, SlipInv
  <2>3. CASE u \in inList /\ suspendCount[u] = Cardinality(Stops \ {u})
    BY <2>0, <2>3
  <2>4. CASE u \in inList /\ Missed(u) /\ suspendCount[u] <= Cardinality(Stops \ {u})
    <3>1. Missed(u)' \/ \A v \in Threads : v \notin Stops
      BY <1>3, <2>0, <2>4 DEF Keeps
    <3>2. CASE \A v \in Threads : v \notin Stops
      BY <2>0, <2>1, <2>4, <3>2
    <3>3. QED
      BY <2>0, <2>4, <3>1, <3>2
  <2>5. QED
    BY <2>2, <2>3, <2>4 DEF SlipInv
<1>4. QED
  BY <1>1, <1>2, <1>3 DEF SlipInv

\* A suspend-all adds one to the counts; no collector begins it while another
\* stop is in effect.
LEMMA SuspendStep ==
  ASSUME LifeInv, SlipInv, SlipAssumption, NEW t \in Threads, SuspendAll(t)
  PROVE  SlipInv'
<1>1. t \in inList /\ pc[t] = "stop" /\ t \notin Stops /\ t \in Collectors \cup Compilers
  BY DEF SuspendAll, LifeInv, Stops
<1>2. /\ \A u \in inList : suspendCount'[u] = suspendCount[u] + (IF u = t THEN 0 ELSE 1)
      /\ \A u \in Threads \ inList : suspendCount'[u] = suspendCount[u]
      /\ UNCHANGED <<status, inList, heapLock, cont, child>> /\ pc' = [pc EXCEPT ![t] = "scan"]
  BY DEF SuspendAll, LifeInv
<1>3. Stops' = Stops \cup {t}
  BY <1>1, <1>2 DEF Stops, LifeInv
<1>4. HeapHeld'
  BY <1>1, <1>2 DEF HeapHeld, SlipInv, LifeInv
<1>5. \A u \in inList : Newborn(u) \/ pc[u] = "pulse" => Missed(u)'
  BY <1>1, <1>2 DEF Missed, Newborn, LifeInv
<1>6. (\A v \in Threads : v \notin Stops) \/ Compilers # {}
  <2>1. SUFFICES ASSUME Compilers = {} PROVE \A v \in Threads : v \notin Stops
    OBVIOUS
  <2>2. t \in Collectors /\ suspendCount[t] = 0
    BY <1>1, <2>1 DEF SuspendAll, SlipInv, HeapHeld
  <2>3. ~Missed(t)
    BY <1>1, <2>2 DEF Missed, Newborn, Overlooked
  <2>4. Cardinality(Stops \ {t}) = 0
    BY <1>1, <2>2, <2>3 DEF SlipInv
  <2>5. QED
    BY <1>1, <2>4, StopsCounted
<1>7. ASSUME NEW u \in inList
      PROVE  \/ suspendCount'[u] = Cardinality(Stops' \ {u})
             \/ Missed(u)' /\ suspendCount'[u] <= Cardinality(Stops' \ {u})
  <2>0. suspendCount[u] \in Nat /\ Cardinality(Stops \ {u}) \in Nat /\ IsFiniteSet(Stops \ {u})
        /\ (Cardinality(Stops \ {u}) = 0 <=> \A v \in Threads : v # u => v \notin Stops)
    <3>1. suspendCount[u] \in Nat
      BY <1>7 DEF LifeInv
    <3>2. QED
      BY <3>1, StopsCounted
  <2>1. Cardinality(Stops' \ {u}) = Cardinality(Stops \ {u}) + (IF u = t THEN 0 ELSE 1)
    <3>1. CASE u = t
      <4>1. Cardinality(Stops' \ {u}) = Cardinality(Stops \ {u})
        <5>1. Stops' \ {u} = Stops \ {u}
          BY <1>3, <3>1
        <5>2. QED
          BY <5>1
      <4>2. QED
        BY <2>0, <3>1, <4>1
    <3>2. CASE u # t
      <4>1. Stops' \ {u} = (Stops \ {u}) \cup {t} /\ t \notin Stops \ {u}
        BY <1>1, <1>3, <3>2
      <4>2. QED
        BY <2>0, <3>2, <4>1, OneMore
    <3>3. QED
      BY <3>1, <3>2
  <2>2. CASE suspendCount[u] = Cardinality(Stops \ {u})
    BY <1>2, <2>0, <2>1, <2>2
  <2>3. CASE Missed(u) /\ suspendCount[u] <= Cardinality(Stops \ {u}) /\ ~Overlooked(u)
    <3>1. Missed(u)'
      BY <1>5, <2>3 DEF Missed
    <3>2. QED
      BY <1>2, <2>0, <2>1, <2>3, <3>1
  <2>4. CASE suspendCount[u] <= Cardinality(Stops \ {u}) /\ Overlooked(u)
    <3>1. \A v \in Threads : v \notin Stops
      BY <1>6, <2>4 DEF Overlooked
    <3>2. suspendCount[u] = Cardinality(Stops \ {u})
      BY <2>0, <2>4, <3>1
    <3>3. QED
      BY <2>2, <3>2
  <2>5. QED
    BY <1>7, <2>2, <2>3, <2>4 DEF SlipInv
<1>8. QED
  BY <1>2, <1>4, <1>7 DEF SlipInv

\* A resume-all takes away one from every count that has it.
LEMMA ResumeStep ==
  ASSUME LifeInv, SlipInv, NEW t \in Threads, ResumeAll(t)
  PROVE  SlipInv'
<1>1. t \in inList /\ pc[t] = "restart" /\ t \in Stops
  BY DEF ResumeAll, LifeInv, Stops
<1>2. /\ \A u \in inList : suspendCount'[u] = IF u # t /\ suspendCount[u] > 0 THEN suspendCount[u] - 1 ELSE suspendCount[u]
      /\ \A u \in Threads \ inList : suspendCount'[u] = suspendCount[u]
      /\ UNCHANGED <<status, inList, heapLock, cont, child>> /\ pc' = [pc EXCEPT ![t] = "run"]
  BY DEF ResumeAll, LifeInv
<1>3. Stops' = Stops \ {t}
  BY <1>1, <1>2 DEF Stops, LifeInv
<1>4. HeapHeld'
  BY <1>1, <1>2 DEF HeapHeld, SlipInv, LifeInv
<1>5. \A u \in inList : Missed(u) => Missed(u)'
  BY <1>1, <1>2 DEF Missed, Newborn, Overlooked, LifeInv
<1>6. ASSUME NEW u \in inList
      PROVE  \/ suspendCount'[u] = Cardinality(Stops' \ {u})
             \/ Missed(u)' /\ suspendCount'[u] <= Cardinality(Stops' \ {u})
  <2>0. suspendCount[u] \in Nat /\ Cardinality(Stops \ {u}) \in Nat /\ IsFiniteSet(Stops \ {u})
    <3>1. suspendCount[u] \in Nat
      BY <1>6 DEF LifeInv
    <3>2. QED
      BY <3>1, StopsCounted
  <2>1. Cardinality(Stops' \ {u}) = Cardinality(Stops \ {u}) - (IF u = t THEN 0 ELSE 1)
        /\ (u # t => Cardinality(Stops \ {u}) > 0)
    <3>1. CASE u = t
      <4>1. Cardinality(Stops' \ {u}) = Cardinality(Stops \ {u})
        <5>1. Stops' \ {u} = Stops \ {u}
          BY <1>3, <3>1
        <5>2. QED
          BY <5>1
      <4>2. QED
        BY <2>0, <3>1, <4>1
    <3>2. CASE u # t
      <4>1. Stops' \ {u} = (Stops \ {u}) \ {t} /\ t \in Stops \ {u}
        BY <1>1, <1>3, <3>2
      <4>2. Cardinality(Stops \ {u}) # 0
        BY <2>0, <4>1, FS_EmptySet
      <4>3. QED
        BY <2>0, <3>2, <4>1, <4>2, OneLess
    <3>3. QED
      BY <3>1, <3>2
  <2>2. \/ suspendCount[u] = Cardinality(Stops \ {u})
        \/ Missed(u)' /\ suspendCount[u] <= Cardinality(Stops \ {u})
    BY <1>5, <1>6 DEF SlipInv
  <2>3. QED
    BY <1>2, <2>0, <2>1, <2>2
<1>7. QED
  BY <1>2, <1>4, <1>6 DEF SlipInv

\* DestroyJavaVM does not come into it.
LEMMA MainSlip ==
  ASSUME LifeInv, SlipInv, SlipAssumption, DestroyJavaVM \/ AwaitLastThread, LifeInv'
  PROVE  SlipInv'
<1>1. Keeps(Main)
  <2> USE DEF Keeps, Stops, Missed, Newborn, Overlooked, HeapHeld, LifeInv
  <2>0. HeapHeld /\ \A u \in Threads \ inList : suspendCount[u] = 0
    BY DEF SlipInv
  <2>1. CASE DestroyJavaVM
    BY <2>0, <2>1 DEF DestroyJavaVM
  <2>2. CASE AwaitLastThread
    <3>1. /\ pc[Main] \in {"destroy", "exitwait"} /\ UNCHANGED <<status, suspendCount, inList, heapLock, cont, child>>
          /\ \E l \in {"exitwait", "shutdown"} : pc' = [pc EXCEPT ![Main] = l]
      <4>1. pc' = [pc EXCEPT ![Main] = "exitwait"] \/ pc' = [pc EXCEPT ![Main] = "shutdown"]
        BY <2>2 DEF AwaitLastThread
      <4>2. QED
        BY <2>2, <4>1 DEF AwaitLastThread
    <3>2. QED
      BY <2>0, <3>1
  <2>3. QED
    BY <2>1, <2>2
<1>2. QED
  BY <1>1, SlipStep

\* At first nobody stops the world.
LEMMA SlipStart == Init => SlipInv
<1> SUFFICES ASSUME Init PROVE SlipInv
  OBVIOUS
<1>1. Stops = {} /\ HeapHeld
  BY DEF Init, Stops, HeapHeld
<1>2. \A u \in Threads : suspendCount[u] = 0 /\ Cardinality(Stops \ {u}) = 0
  <2>1. Cardinality({}) = 0
    BY FS_EmptySet
  <2>2. \A u \in Threads : Stops \ {u} = {}
    BY <1>1
  <2>3. QED
    BY <2>1, <2>2 DEF Init
<1>3. QED
  BY <1>1, <1>2 DEF SlipInv, Init

\* Nobody passes the check of another, or with a count that is not 0.
LEMMA OnlyAtZero ==
  ASSUME LifeInv, [Next]_vars, NEW t \in Threads, PassesCheck(t)
  PROVE  suspendCount[t] = 0
<1>1. pc[t] \in {"check", "asleep"} /\ pc'[t] \notin {"check", "asleep"}
  BY DEF PassesCheck
<1>2. ASSUME NEW u \in Threads, Step(u) \/ ChangeToRunning(u) \/ Start(u)
      PROVE  suspendCount[t] = 0
  <2>1. CASE u # t
    <3>1. pc[t] # "none" /\ pc \in [Threads -> PCs]
      BY <1>1 DEF LifeInv
    <3>2. pc'[t] = pc[t]
      <4>1. CASE Spawn(u)
        BY <1>1, <2>1, <4>1 DEF Spawn, LifeInv
      <4>2. CASE CreateInternal(u)
        BY <2>1, <3>1, <4>2 DEF CreateInternal
      <4>3. CASE ~Spawn(u) /\ ~CreateInternal(u)
        BY <1>2, <2>1, <3>1, <4>3 DEF Step, ChangeToRunning, Start, CheckSuspend, SafePoint, WakeUp, WaitForList,
           SuspendAll, WorldStops, EndStop, ResumeAll, Register, StartAgain, Unspawn, Prepare, Adopt, Release, Go, Use,
           PrepareAttached, Join, PulseHeapLock, BuildObjects, Unjoin, RestoreCount, Report, AwaitInternal,
           ClearVmThread, Quit, Unlink, LeaveRunning, EnterStop, Create, LookUp, JniAttach, Detach
      <4>4. QED
        BY <4>1, <4>2, <4>3
    <3>3. QED
      BY <1>1, <3>2
  <2>2. CASE CheckSuspend(t)
    BY <1>1, <2>2 DEF CheckSuspend, LifeInv
  <2>3. CASE WakeUp(t)
    BY <2>3 DEF WakeUp
  <2>4. CASE u = t /\ ~CheckSuspend(t) /\ ~WakeUp(t)
    BY <1>1, <1>2, <2>4 DEF Step, ChangeToRunning, Start, SafePoint, WaitForList, SuspendAll, WorldStops, EndStop,
       ResumeAll, Register, StartAgain, Spawn, Unspawn, Prepare, Adopt, Release, Go, Use, PrepareAttached, Join,
       PulseHeapLock, BuildObjects, Unjoin, RestoreCount, Report, AwaitInternal, ClearVmThread, Quit, Unlink,
       LeaveRunning, EnterStop, Create, CreateInternal, LookUp, JniAttach, Detach
  <2>5. QED
    BY <2>1, <2>2, <2>3, <2>4
<1>3. CASE DestroyJavaVM \/ AwaitLastThread
  BY <1>1, <1>3 DEF DestroyJavaVM, AwaitLastThread, LifeInv
<1>4. CASE UNCHANGED vars
  BY <1>1, <1>4 DEF vars
<1>5. QED
  BY <1>2, <1>3, <1>4 DEF Next

\* A thread that passes its check finds nobody that holds the world stopped.
LEMMA NobodyPasses ==
  ASSUME LifeInv, SlipInv, [Next]_vars, NEW t \in Threads, NEW g \in Threads, PassesCheck(t), t # g
  PROVE  ~stopped[g]
<1>1. SUFFICES ASSUME stopped[g] PROVE FALSE
  OBVIOUS
<1>2. pc[g] = "gc" /\ g \in Stops
  BY <1>1 DEF LifeInv, Stops
<1>3. pc[t] \in {"check", "asleep"} /\ pc'[t] \notin {"check", "asleep"}
  BY DEF PassesCheck
<1>4. suspendCount[t] = 0
  BY OnlyAtZero
<1>5. QED
  BY <1>2, <1>3, <1>4, PassedFree DEF Overlooked

-----------------------------------------------------------------------------
HIDE DEF LifeInv, LifeTypes, Alive, OneParent, Roles, Struct, Family, At, Checking, Existing, Goto, ResumeAt,
         SetStatus, Working, locks, objects, locals, counters

\* The shape of the threads, the count and the ids, whatever goes wrong.
LEMMA Invariance == Spec => [](LifeInv /\ CountInv /\ IdsInv)
<1>1. Init => LifeInv /\ CountInv /\ IdsInv
  BY LifeStart, CountStart, IdsStart
<1>2. LifeInv /\ CountInv /\ IdsInv /\ [Next]_vars => (LifeInv /\ CountInv /\ IdsInv)'
  <2> SUFFICES ASSUME LifeInv, CountInv, IdsInv, [Next]_vars PROVE (LifeInv /\ CountInv /\ IdsInv)'
    OBVIOUS
  <2>1. ASSUME NEW t \in Threads, Step(t) \/ ChangeToRunning(t) \/ Start(t) PROVE (LifeInv /\ CountInv /\ IdsInv)'
    BY <2>1, LifeStep, CountStep, IdsStep
  <2>2. CASE DestroyJavaVM \/ AwaitLastThread
    BY <2>2, MainStep, MainCount, MainIds
  <2>3. CASE UNCHANGED vars
    <3>1. LifeInv'
      BY <2>3 DEF vars, LifeInv, LifeTypes, Alive, OneParent, Roles, Struct, Family, At, Checking
    <3>2. CountInv' /\ IdsInv'
      BY <2>3 DEF vars, CountInv, CountIsExact, Attaching, IdsInv, HasId
    <3>3. QED
      BY <3>1, <3>2
  <2>4. QED
    BY <2>1, <2>2, <2>3 DEF Next
<1>3. QED
  BY <1>1, <1>2, PTL DEF Spec

\* The three invariants that rest on what may go wrong: the signal at the end,
LEMMA ExitInvariance == ASSUME ExitAssumption PROVE Spec => []ExitNotLost
<1>1. Init => ExitNotLost
  BY DEF Init, ExitNotLost, Existing
<1>2. LifeInv /\ LifeInv' /\ CountInv /\ CountInv' /\ ExitNotLost /\ [Next]_vars => ExitNotLost'
  <2> SUFFICES ASSUME LifeInv, LifeInv', CountInv, CountInv', ExitNotLost, [Next]_vars PROVE ExitNotLost'
    OBVIOUS
  <2>1. ASSUME NEW t \in Threads, Step(t) \/ ChangeToRunning(t) \/ Start(t) PROVE ExitNotLost'
    BY <2>1, ExitStep, ExitAssumption
  <2>2. CASE DestroyJavaVM \/ AwaitLastThread
    BY <2>2, MainExit
  <2>3. CASE UNCHANGED vars
    BY <2>3 DEF vars, ExitNotLost
  <2>4. QED
    BY <2>1, <2>2, <2>3 DEF Next
<1>3. QED
  BY <1>1, <1>2, Invariance, PTL DEF Spec

\* the way from a Thread object to its thread,
LEMMA VmInvariance == ASSUME LookupAssumption PROVE Spec => []VmInv
<1>1. Init => VmInv
  BY DEF Init, VmInv, At, Checking, Existing
<1>2. LifeInv /\ VmInv /\ [Next]_vars => VmInv'
  <2> SUFFICES ASSUME LifeInv, VmInv, [Next]_vars PROVE VmInv'
    OBVIOUS
  <2>1. ASSUME NEW t \in Threads, Step(t) \/ ChangeToRunning(t) \/ Start(t) PROVE VmInv'
    BY <2>1, VmStep, LookupAssumption
  <2>2. CASE DestroyJavaVM \/ AwaitLastThread
    BY <2>2, MainVm
  <2>3. CASE UNCHANGED vars
    BY <2>3 DEF vars, objects, locals, VmInv, At, Checking
  <2>4. QED
    BY <2>1, <2>2, <2>3 DEF Next
<1>3. QED
  BY <1>1, <1>2, Invariance, PTL DEF Spec

\* and the stops that a thread which joins has missed.
LEMMA SlipInvariance == ASSUME SlipAssumption PROVE Spec => []SlipInv
<1>1. Init => SlipInv
  BY SlipStart
<1>2. LifeInv /\ LifeInv' /\ SlipInv /\ [Next]_vars => SlipInv'
  <2> SUFFICES ASSUME LifeInv, LifeInv', SlipInv, [Next]_vars PROVE SlipInv'
    OBVIOUS
  <2>1. ASSUME NEW t \in Threads, Step(t) \/ ChangeToRunning(t) \/ Start(t) PROVE SlipInv'
    <3>1. CASE SuspendAll(t)
      BY <3>1, SuspendStep, SlipAssumption
    <3>2. CASE ResumeAll(t)
      BY <3>2, ResumeStep
    <3>3. CASE ~SuspendAll(t) /\ ~ResumeAll(t)
      BY <2>1, <3>3, SlipKept, SlipStep, SlipAssumption
    <3>4. QED
      BY <3>1, <3>2, <3>3
  <2>2. CASE DestroyJavaVM \/ AwaitLastThread
    BY <2>2, MainSlip, SlipAssumption
  <2>3. CASE UNCHANGED vars
    BY <2>3 DEF vars, locks, locals, SlipInv, HeapHeld, Missed, Newborn, Overlooked, Stops, At, Checking, Existing
  <2>4. QED
    BY <2>1, <2>2, <2>3 DEF Next
<1>3. QED
  BY <1>1, <1>2, Invariance, PTL DEF Spec

-----------------------------------------------------------------------------
\* Whatever goes wrong in starting, attaching and leaving, a thread that runs
\* interpreted code is on the thread list, where a suspend-all finds it.
THEOREM RunnersAreListed == Spec => []RunnersListed
<1>1. LifeInv => RunnersListed
  BY DEF LifeInv, LifeTypes, Alive, Roles, Struct, At, Checking, RunnersListed
<1>2. QED
  BY <1>1, Invariance, PTL

\* nonDaemonThreadCount is exact for any threads and whatever fails: the
\* temporary count of JNI's attach is given back on every path.
THEOREM CountStaysExact == Spec => []CountIsExact
<1>1. CountInv => CountIsExact
  BY DEF CountInv
<1>2. QED
  BY <1>1, Invariance, PTL

\* No counter is ever taken below 0, neither of suspensions nor of threads nor
\* of ids, and every other variable keeps to its values.
THEOREM LifeTypeCorrect == Spec => []TypeOK
<1>1. LifeInv /\ CountInv /\ IdsInv => TypeOK
  <2> SUFFICES ASSUME LifeInv, CountInv, IdsInv PROVE TypeOK
    OBVIOUS
  <2>1. nonDaemon \in Nat
    BY CountIsNatural
  <2>2. idCount \in Nat
    BY Finite DEF Numbers, IdsInv
  <2>3. LifeTypes
    BY DEF LifeInv
  <2>4. QED
    BY <2>1, <2>2, <2>3 DEF LifeTypes, TypeOK, Checking
<1>2. QED
  BY <1>1, Invariance, PTL

\* Unless an attach fails for lack of memory, which leaks the id, the bits of
\* threadIdMap are as many as the threads that have come as far as an id.
THEOREM IdsStayBalanced == ASSUME ~AttachMayFail PROVE Spec => []IdsBalanced
<1>1. IdsInv => IdsBalanced
  BY DEF IdsInv, IdsBalanced, HasId
<1>2. QED
  BY <1>1, Invariance, PTL

\* No thread gets the id of another, even when attaches fail: there are never
\* fewer bits set than threads with an id.
THEOREM IdsAreEnough == Spec => [](Cardinality(HasId) <= idCount)
<1>1. LifeInv /\ IdsInv => Cardinality(HasId) <= idCount
  BY Finite DEF IdsInv, Numbers
<1>2. QED
  BY <1>1, Invariance, PTL

\* Main is woken by the last non-daemon thread that leaves, unless JNI attaches
\* daemons, whose temporary count goes down without a signal, or fails to attach.
THEOREM ExitSignalled == ASSUME ExitAssumption PROVE Spec => []ExitNotLost
  BY ExitInvariance, ExitAssumption

\* A VMThread leads to a thread whose struct is there as long as no thread fails
\* to be created and no Thread object is started twice.
THEOREM NoneDangles == ASSUME LookupAssumption PROVE Spec => []NoDanglingThread
<1>1. LifeInv /\ VmInv => NoDanglingThread
  BY DEF LifeInv, LifeTypes, VmInv, NoDanglingThread
<1>2. QED
  BY <1>1, Invariance, VmInvariance, LookupAssumption, PTL

\* A thread that is started or attached while the world is stopped is suspended
\* before it runs interpreted code, wherever the stop catches it.
THEOREM NobodySlips == ASSUME SlipAssumption PROVE Spec => NobodySlipsPast
<1>1. LifeInv /\ SlipInv /\ [Next]_vars =>
        [\A t, g \in Threads : PassesCheck(t) /\ t # g => ~stopped[g]]_vars
  BY NobodyPasses
<1>2. QED
  BY <1>1, Invariance, SlipInvariance, SlipAssumption, PTL DEF Spec, NobodySlipsPast
=============================================================================
