--------------------------- MODULE ThreadLifecycle ---------------------------
(***************************************************************************)
(* vm/Thread.cpp and vm/Jni.cpp: how threads come and go.  A thread is     *)
(* started by Thread.start(), which hands the new thread over in two       *)
(* steps, or attaches itself from native code; it leaves the thread list   *)
(* when it detaches, and DestroyJavaVM waits for the last of them.  All    *)
(* of this happens while the GC and the JIT compiler stop the threads on   *)
(* the list, and a thread that joins it is not to slip past them.          *)
(*                                                                         *)
(* A section under gDvm.threadListLock is one action; only suspend-all     *)
(* keeps the lock over several steps, and gDvm.threadStartCond and         *)
(* vmExitCond give it up.  Suspension itself is that of ThreadSuspend,     *)
(* with fewer steps: the check of the count and falling asleep are one.    *)
(***************************************************************************)
EXTENDS Integers, FiniteSets

CONSTANTS
  Threads,          \* pthreads with their Thread structs
  NoThread,         \* a NULL Thread*
  Objects,          \* java.lang.Thread objects to be started
  NoObject,         \* no such object
  Main,             \* the main thread
  Collectors,       \* threads that collect garbage
  Compilers,        \* JIT compiler threads: they stop the world from VMWAIT
  Natives,          \* pthreads that attach themselves through JNI
  Internals,        \* pthreads dvmCreateInternalThread starts
  Starters,         \* threads that start others
  Lookers,          \* threads that call a native method of another's VMThread
  DaemonChoices,    \* may started and attached threads be daemons?
  StartTwice,       \* does anybody start a Thread object a second time?
  SpawnMayFail,     \* may pthread_create fail?
  AttachMayFail,    \* may an attach fail for lack of memory?
  Uncaught,         \* may a thread exit with an uncaught exception?
  Destroys,         \* does Main call DestroyJavaVM?
  kMaxThreadId      \* the VM aborts when it runs out of thread ids

\* The threads there are when the VM is up; the others are still free structs.
Existing == {Main} \cup Collectors \cup Compilers

ASSUME NobodyAssumption == NoThread \notin Threads /\ NoObject \notin Objects /\ IsFiniteSet(Threads)
ASSUME RolesAssumption ==
  /\ Existing \cup Natives \cup Internals \cup Starters \cup Lookers \subseteq Threads
  /\ Compilers \cap ({Main} \cup Collectors \cup Starters \cup Lookers) = {}
  /\ Natives \cap Internals = {}
  /\ Existing \cap (Natives \cup Internals) = {}
  /\ DaemonChoices \subseteq BOOLEAN
  /\ {StartTwice, SpawnMayFail, AttachMayFail, Uncaught, Destroys} \subseteq BOOLEAN
  /\ kMaxThreadId \in Nat

VARIABLES
  status,           \* Thread.status; FREE: not allocated; NATIVE: every quiet one
  suspendCount,     \* Thread.suspendCount
  inList,           \* gDvm.threadList
  listLock,         \* the suspend-all that holds gDvm.threadListLock
  heapLock,         \* holder of gDvm.gcHeapLock
  sleepers,         \* threads asleep on gDvm.threadStartCond
  exitSignal,       \* vmExitCond was signalled while Main slept on it
  nonDaemon,        \* gDvm.nonDaemonThreadCount
  idCount,          \* bits set in gDvm.threadIdMap
  daemon,           \* the thread is a daemon
  task,             \* Thread.threadObj of a started thread
  vmThread,         \* Thread object's vmThread: the VMThread, named by its thread
  vmData,           \* VMThread.vmData still points to the thread
  begun,            \* hasBeenStarted of java.lang.Thread
  pc, cont,         \* control point; where a suspend check goes on
  child,            \* local newThread of the two create functions
  ref,              \* VMThread the thread calls a method of
  created,          \* local createStatus of dvmCreateInternalThread
  stopped           \* history: the thread holds the world stopped

locks   == <<listLock, heapLock>>
objects == <<task, vmThread, vmData, begun>>
locals  == <<child, ref, created>>
counters == <<nonDaemon, idCount>>
vars == <<status, suspendCount, inList, listLock, heapLock, sleepers, exitSignal,
          nonDaemon, idCount, daemon, task, vmThread, vmData, begun, pc, cont, child,
          ref, created, stopped>>

Status == {"FREE", "INITIALIZING", "STARTING", "VMWAIT", "RUNNING", "NATIVE", "SUSPENDED"}
PCs == {"none", "run", "resume", "check", "asleep",
        "register", "again", "undefined", "spawn", "unspawn", "adopt", "release",
        "born", "gowait", "use", "internal",
        "attach", "join", "pulse", "built", "unjoin", "failed", "restore", "report",
        "exiting", "dying", "unlink", "destroy", "exitwait", "shutdown",
        "stop", "scan", "gc", "restart"}

\* Types; for the counters, that no thread is resumed or leaves once too often.
TypeOK ==
  /\ status \in [Threads -> Status]
  /\ suspendCount \in [Threads -> Nat]
  /\ inList \subseteq Threads
  /\ {listLock, heapLock} \subseteq Threads \cup {NoThread}
  /\ sleepers \subseteq Threads
  /\ exitSignal \in BOOLEAN
  /\ nonDaemon \in Nat /\ idCount \in Nat
  /\ daemon \in [Threads -> BOOLEAN]
  /\ task \in [Threads -> Objects \cup {NoObject}]
  /\ vmThread \in [Objects -> Threads \cup {NoThread}]
  /\ vmData \in [Threads -> BOOLEAN]
  /\ begun \subseteq Objects
  /\ pc \in [Threads -> PCs] /\ cont \in [Threads -> PCs]
  /\ child \in [Threads -> Threads \cup {NoThread}]
  /\ ref \in [Threads -> Threads \cup {NoThread}]
  /\ created \in [Threads -> {-1, 0, 1}]
  /\ stopped \in [Threads -> BOOLEAN]

Init ==
  /\ status = [t \in Threads |-> IF t \in Compilers THEN "VMWAIT"
                                 ELSE IF t \in Existing THEN "RUNNING" ELSE "FREE"]
  /\ suspendCount = [t \in Threads |-> 0]
  /\ inList = Existing
  /\ listLock = NoThread /\ heapLock = NoThread
  /\ sleepers = {}
  /\ exitSignal = FALSE
  /\ nonDaemon = 1
  /\ idCount = Cardinality(Existing)
  /\ daemon = [t \in Threads |-> t \in Existing \ {Main}]
  /\ task = [t \in Threads |-> NoObject]
  /\ vmThread = [o \in Objects |-> NoThread]
  /\ vmData = [t \in Threads |-> FALSE]
  /\ begun = {}
  /\ pc = [t \in Threads |-> IF t \in Existing THEN "run" ELSE "none"]
  /\ cont = [t \in Threads |-> "run"]
  /\ child = [t \in Threads |-> NoThread]
  /\ ref = [t \in Threads |-> NoThread]
  /\ created = [t \in Threads |-> 0]
  /\ stopped = [t \in Threads |-> FALSE]

Goto(t, label) == pc' = [pc EXCEPT ![t] = label]

\* Go to label through dvmChangeStatus(RUNNING), which checks for suspension.
ResumeAt(t, label) ==
  /\ Goto(t, "resume")
  /\ cont' = [cont EXCEPT ![t] = label]

SetStatus(t, s) == status' = [status EXCEPT ![t] = s]

Working(t) == pc[t] = "run" /\ status[t] = "RUNNING"

\* Control points at which the thread runs interpreted code or may come to a
\* safe point of the interpreter, and those at which it wants the thread list.
ManagedPC == {"run", "built", "exiting", "dying"}
ListPC == {"register", "adopt", "release", "use", "unjoin", "restore", "report", "unlink"}

\* dvmLockThreadList succeeds for a thread that waits for it.
CanLockList(t) == listLock = NoThread /\ status[t] # "RUNNING"

-----------------------------------------------------------------------------
(* Status changes, and suspension as in ThreadSuspend.                     *)

LeaveRunning(t) ==
  /\ pc[t] \in ManagedPC
  /\ status[t] = "RUNNING"
  /\ SetStatus(t, "NATIVE")
  /\ ResumeAt(t, pc[t])
  /\ UNCHANGED <<suspendCount, inList, locks, sleepers, exitSignal, counters, daemon,
                 objects, locals, stopped>>

ChangeToRunning(t) ==
  /\ pc[t] = "resume"
  /\ SetStatus(t, "RUNNING")
  /\ Goto(t, "check")
  /\ UNCHANGED <<suspendCount, inList, locks, sleepers, exitSignal, counters, daemon,
                 objects, cont, locals, stopped>>

CheckSuspend(t) ==
  /\ pc[t] = "check"
  /\ IF suspendCount[t] = 0
     THEN Goto(t, cont[t]) /\ UNCHANGED status
     ELSE Goto(t, "asleep") /\ SetStatus(t, "SUSPENDED")
  /\ UNCHANGED <<suspendCount, inList, locks, sleepers, exitSignal, counters, daemon,
                 objects, cont, locals, stopped>>

\* A safe point, or the check of a suspend-all or resume-all that comes second.
SafePoint(t) ==
  /\ pc[t] \in ManagedPC \cup {"stop", "restart"}
  /\ status[t] = "RUNNING"
  /\ suspendCount[t] # 0
  /\ SetStatus(t, "SUSPENDED")
  /\ Goto(t, "asleep")
  /\ cont' = [cont EXCEPT ![t] = pc[t]]
  /\ UNCHANGED <<suspendCount, inList, locks, sleepers, exitSignal, counters, daemon,
                 objects, locals, stopped>>

WakeUp(t) ==
  /\ pc[t] = "asleep"
  /\ suspendCount[t] = 0
  /\ SetStatus(t, "RUNNING")
  /\ Goto(t, cont[t])
  /\ UNCHANGED <<suspendCount, inList, locks, sleepers, exitSignal, counters, daemon,
                 objects, cont, locals, stopped>>

\* dvmLockThreadList: quiet while waiting; the old status comes back unchecked.
WaitForList(t) ==
  /\ pc[t] \in ListPC
  /\ status[t] = "RUNNING"
  /\ SetStatus(t, "VMWAIT")
  /\ UNCHANGED <<suspendCount, inList, locks, sleepers, exitSignal, counters, daemon,
                 objects, pc, cont, locals, stopped>>

\* dvmCollectGarbageInternal has the heap lock; the compiler thread has not.
EnterStop(t) ==
  /\ \/ t \in Collectors /\ Working(t) /\ heapLock = NoThread /\ heapLock' = t
     \/ t \in Compilers /\ pc[t] = "run" /\ UNCHANGED heapLock
  /\ Goto(t, "stop")
  /\ UNCHANGED <<status, suspendCount, inList, listLock, sleepers, exitSignal, counters,
                 daemon, objects, cont, locals, stopped>>

SuspendAll(t) ==
  /\ pc[t] = "stop"
  /\ listLock = NoThread
  /\ status[t] = "RUNNING" => suspendCount[t] = 0
  /\ listLock' = t
  /\ suspendCount' = [u \in Threads |-> IF u \in inList \ {t} THEN suspendCount[u] + 1
                                        ELSE suspendCount[u]]
  /\ Goto(t, "scan")
  /\ UNCHANGED <<status, inList, heapLock, sleepers, exitSignal, counters, daemon,
                 objects, cont, locals, stopped>>

WorldStops(t) ==
  /\ pc[t] = "scan"
  /\ \A u \in inList \ {t} : status[u] # "RUNNING"
  /\ listLock' = NoThread
  /\ stopped' = [stopped EXCEPT ![t] = TRUE]
  /\ Goto(t, "gc")
  /\ UNCHANGED <<status, suspendCount, inList, heapLock, sleepers, exitSignal, counters,
                 daemon, objects, cont, locals>>

\* A concurrent collection gives the heap lock up first, and then resumes.
EndStop(t) ==
  /\ pc[t] = "gc"
  /\ heapLock' = IF heapLock = t THEN NoThread ELSE heapLock
  /\ stopped' = [stopped EXCEPT ![t] = FALSE]
  /\ Goto(t, "restart")
  /\ UNCHANGED <<status, suspendCount, inList, listLock, sleepers, exitSignal, counters,
                 daemon, objects, cont, locals>>

\* Threads that joined meanwhile have a count of 0.
ResumeAll(t) ==
  /\ pc[t] = "restart"
  /\ listLock = NoThread
  /\ suspendCount' = [u \in Threads |->
       IF u \in inList \ {t} /\ suspendCount[u] > 0 THEN suspendCount[u] - 1
       ELSE suspendCount[u]]
  /\ Goto(t, "run")
  /\ UNCHANGED <<status, inList, locks, sleepers, exitSignal, counters, daemon, objects,
                 cont, locals, stopped>>

-----------------------------------------------------------------------------
(* dvmCreateInterpThread, and interpThreadStart in the new thread.         *)

\* Thread.start(): java.lang.Thread lets a Thread object through only once.
Create(t, o) ==
  /\ t \in Starters
  /\ Working(t)
  /\ o \notin begun \/ StartTwice
  /\ begun' = begun \cup {o}
  /\ \E n \in Threads \ (Existing \cup Natives \cup Internals), d \in DaemonChoices :
       /\ pc[n] = "none" /\ status[n] = "FREE"
       /\ status' = [status EXCEPT ![n] = "INITIALIZING"]
       /\ task' = [task EXCEPT ![n] = o]
       /\ daemon' = [daemon EXCEPT ![n] = d]
       /\ child' = [child EXCEPT ![t] = n]
  /\ Goto(t, "register")
  /\ UNCHANGED <<suspendCount, inList, locks, sleepers, exitSignal, counters, vmThread,
                 vmData, cont, ref, created, stopped>>

\* Test and set of vmThread; a started Thread throws, frees the new thread ...
Register(t) ==
  LET n == child[t]  o == task[n] IN
  /\ pc[t] = "register"
  /\ CanLockList(t)
  /\ IF vmThread[o] = NoThread
     THEN /\ vmThread' = [vmThread EXCEPT ![o] = n]
          /\ vmData' = [vmData EXCEPT ![n] = TRUE]
          /\ Goto(t, "spawn")
          /\ UNCHANGED status
     ELSE /\ status' = [status EXCEPT ![t] = "RUNNING", ![n] = "FREE"]
          /\ Goto(t, "again")
          /\ UNCHANGED <<vmThread, vmData>>
  /\ UNCHANGED <<suspendCount, inList, locks, sleepers, exitSignal, counters, daemon,
                 task, begun, cont, locals, stopped>>

\* ... and goes on as for a new one.  The rest works on freed memory.
StartAgain(t) ==
  /\ pc[t] = "again"
  /\ vmThread' = [vmThread EXCEPT ![task[child[t]]] = child[t]]
  /\ vmData' = [vmData EXCEPT ![child[t]] = TRUE]
  /\ Goto(t, "undefined")
  /\ UNCHANGED <<status, suspendCount, inList, locks, sleepers, exitSignal, counters,
                 daemon, task, begun, cont, locals, stopped>>

Spawn(t) ==
  /\ pc[t] = "spawn"
  /\ \/ /\ pc' = [pc EXCEPT ![t] = "resume", ![child[t]] = "born"]
        /\ cont' = [cont EXCEPT ![t] = "adopt"]
     \/ SpawnMayFail /\ ResumeAt(t, "unspawn")
  /\ UNCHANGED <<status, suspendCount, inList, locks, sleepers, exitSignal, counters,
                 daemon, objects, locals, stopped>>

\* pthread_create has failed: the Thread object forgets the VMThread.
Unspawn(t) ==
  LET n == child[t] IN
  /\ pc[t] = "unspawn"
  /\ vmThread' = [vmThread EXCEPT ![task[n]] = NoThread]
  /\ status' = [status EXCEPT ![n] = "FREE"]
  /\ Goto(t, "run")
  /\ UNCHANGED <<suspendCount, inList, locks, sleepers, exitSignal, counters, daemon,
                 task, vmData, begun, cont, locals, stopped>>

\* Mutant of Prepare: the parent is not woken.
PrepareQuietly(n) ==
  /\ pc[n] = "born"
  /\ CanLockList(n)
  /\ idCount < kMaxThreadId
  /\ idCount' = idCount + 1
  /\ SetStatus(n, "STARTING")
  /\ sleepers' = sleepers \cup {n}
  /\ Goto(n, "gowait")
  /\ UNCHANGED <<suspendCount, inList, locks, exitSignal, nonDaemon, daemon, objects,
                 cont, locals, stopped>>

\* The new thread gets its id, wakes its parent and waits to be let go.
Prepare(n) ==
  /\ pc[n] = "born"
  /\ CanLockList(n)
  /\ idCount < kMaxThreadId
  /\ idCount' = idCount + 1
  /\ SetStatus(n, "STARTING")
  /\ sleepers' = {n}
  /\ Goto(n, "gowait")
  /\ UNCHANGED <<suspendCount, inList, locks, exitSignal, nonDaemon, daemon, objects,
                 cont, locals, stopped>>

\* Mutant of Adopt: the new thread is let go at once, in one step.
AdoptAndRelease(t) ==
  LET n == child[t] IN
  /\ pc[t] = "adopt"
  /\ CanLockList(t)
  /\ status[n] = "STARTING"
  /\ inList' = inList \cup {n}
  /\ nonDaemon' = nonDaemon + (IF daemon[n] THEN 0 ELSE 1)
  /\ status' = [status EXCEPT ![n] = "VMWAIT"]
  /\ sleepers' = {}
  /\ ResumeAt(t, "run")
  /\ UNCHANGED <<suspendCount, locks, exitSignal, idCount, daemon, objects, locals, stopped>>

\* Wait on threadStartCond for the new thread and put it into the list.
Adopt(t) ==
  LET n == child[t] IN
  /\ pc[t] = "adopt"
  /\ CanLockList(t)
  /\ t \notin sleepers
  /\ IF status[n] = "STARTING"
     THEN /\ inList' = inList \cup {n}
          /\ nonDaemon' = nonDaemon + (IF daemon[n] THEN 0 ELSE 1)
          /\ ResumeAt(t, "release")
          /\ UNCHANGED sleepers
     ELSE /\ sleepers' = sleepers \cup {t}
          /\ UNCHANGED <<inList, nonDaemon, pc, cont>>
  /\ UNCHANGED <<status, suspendCount, locks, exitSignal, idCount, daemon, objects,
                 locals, stopped>>

\* Mutant of Release: the new thread is made RUNNING while it still waits.
ReleaseRunning(t) ==
  /\ pc[t] = "release"
  /\ CanLockList(t)
  /\ status' = [status EXCEPT ![t] = "RUNNING", ![child[t]] = "RUNNING"]
  /\ sleepers' = {}
  /\ Goto(t, "run")
  /\ UNCHANGED <<suspendCount, inList, locks, exitSignal, counters, daemon, objects,
                 cont, locals, stopped>>

\* Having come through its own suspend check, the parent lets the thread go.
Release(t) ==
  /\ pc[t] = "release"
  /\ CanLockList(t)
  /\ status' = [status EXCEPT ![t] = "RUNNING", ![child[t]] = "VMWAIT"]
  /\ sleepers' = {}
  /\ Goto(t, "run")
  /\ UNCHANGED <<suspendCount, inList, locks, exitSignal, counters, daemon, objects,
                 cont, locals, stopped>>

Go(n) ==
  /\ pc[n] = "gowait"
  /\ listLock = NoThread
  /\ n \notin sleepers
  /\ IF status[n] = "VMWAIT"
     THEN ResumeAt(n, "run") /\ UNCHANGED sleepers
     ELSE sleepers' = sleepers \cup {n} /\ UNCHANGED <<pc, cont>>
  /\ UNCHANGED <<status, suspendCount, inList, locks, exitSignal, counters, daemon,
                 objects, locals, stopped>>

-----------------------------------------------------------------------------
(* Native methods of java.lang.VMThread, such as interrupt and getStatus.  *)

LookUp(t) ==
  /\ t \in Lookers
  /\ Working(t)
  /\ \E o \in Objects : /\ vmThread[o] # NoThread
                        /\ ref' = [ref EXCEPT ![t] = vmThread[o]]
  /\ Goto(t, "use")
  /\ UNCHANGED <<status, suspendCount, inList, locks, sleepers, exitSignal, counters,
                 daemon, objects, cont, child, created, stopped>>

\* dvmGetThreadFromThreadObject and the use of what it returns.
Use(t) ==
  /\ pc[t] = "use"
  /\ CanLockList(t)
  /\ SetStatus(t, "RUNNING")
  /\ ref' = [ref EXCEPT ![t] = NoThread]
  /\ Goto(t, "run")
  /\ UNCHANGED <<suspendCount, inList, locks, sleepers, exitSignal, counters, daemon,
                 objects, cont, child, created, stopped>>

-----------------------------------------------------------------------------
(* attachThread, dvmAttachCurrentThread and dvmCreateInternalThread.       *)

\* JNI counts the thread in while it attaches, unless the VM is going down.
JniAttach(t) ==
  /\ t \in Natives
  /\ pc[t] = "none"
  /\ listLock = NoThread
  /\ nonDaemon > 0
  /\ nonDaemon' = nonDaemon + 1
  /\ \E d \in DaemonChoices : daemon' = [daemon EXCEPT ![t] = d]
  /\ Goto(t, "attach")
  /\ UNCHANGED <<status, suspendCount, inList, locks, sleepers, exitSignal, idCount,
                 objects, cont, locals, stopped>>

CreateInternal(t) ==
  /\ t \in Starters
  /\ Working(t)
  /\ \E n \in Internals :
       /\ pc[n] = "none"
       /\ pc' = [pc EXCEPT ![t] = "internal", ![n] = "attach"]
       /\ child' = [child EXCEPT ![t] = n]
       /\ created' = [created EXCEPT ![t] = 0]
       /\ daemon' = [daemon EXCEPT ![n] = TRUE]
  /\ SetStatus(t, "VMWAIT")
  /\ UNCHANGED <<suspendCount, inList, locks, sleepers, exitSignal, counters, objects,
                 cont, ref, stopped>>

\* Mutant of Join: the thread is counted but not put into the list.
JoinUnlisted(t) ==
  /\ pc[t] = "join"
  /\ listLock = NoThread
  /\ nonDaemon' = nonDaemon + (IF daemon[t] THEN 0 ELSE 1)
  /\ SetStatus(t, "VMWAIT")
  /\ Goto(t, "pulse")
  /\ UNCHANGED <<suspendCount, inList, locks, sleepers, exitSignal, idCount, daemon,
                 objects, cont, locals, stopped>>

\* allocThread and prepareThread; an error before or after the thread gets its
\* id ends in the label fail, which frees the struct.
PrepareAttached(t) ==
  /\ pc[t] = "attach"
  /\ listLock = NoThread
  /\ idCount < kMaxThreadId
  /\ \/ SetStatus(t, "INITIALIZING") /\ Goto(t, "join") /\ idCount' = idCount + 1
     \/ /\ AttachMayFail
        /\ Goto(t, "failed")
        /\ idCount' \in {idCount, idCount + 1}
        /\ UNCHANGED status
  /\ UNCHANGED <<suspendCount, inList, locks, sleepers, exitSignal, nonDaemon, daemon,
                 objects, cont, locals, stopped>>

Join(t) ==
  /\ pc[t] = "join"
  /\ listLock = NoThread
  /\ inList' = inList \cup {t}
  /\ nonDaemon' = nonDaemon + (IF daemon[t] THEN 0 ELSE 1)
  /\ SetStatus(t, "VMWAIT")
  /\ Goto(t, "pulse")
  /\ UNCHANGED <<suspendCount, locks, sleepers, exitSignal, idCount, daemon, objects,
                 cont, locals, stopped>>

\* The count of a thread that joins during a collection does not show it.
PulseHeapLock(t) ==
  /\ pc[t] = "pulse"
  /\ heapLock = NoThread
  /\ ResumeAt(t, "built")
  /\ UNCHANGED <<status, suspendCount, inList, locks, sleepers, exitSignal, counters,
                 daemon, objects, locals, stopped>>

\* The Thread object of the attached thread is made, or cannot be made.
BuildObjects(t) ==
  /\ pc[t] = "built"
  /\ status[t] = "RUNNING"
  /\ \/ Goto(t, IF t \in Internals THEN "report" ELSE "restore")
     \/ AttachMayFail /\ Goto(t, "unjoin")
  /\ UNCHANGED <<status, suspendCount, inList, locks, sleepers, exitSignal, counters,
                 daemon, objects, cont, locals, stopped>>

\* Mutant of Unjoin: the thread stays in the count.
UnjoinCounted(t) ==
  /\ pc[t] = "unjoin"
  /\ CanLockList(t)
  /\ inList' = inList \ {t}
  /\ SetStatus(t, "FREE")
  /\ Goto(t, "failed")
  /\ suspendCount' = [suspendCount EXCEPT ![t] = 0]
  /\ UNCHANGED <<locks, sleepers, exitSignal, counters, daemon, objects, cont, locals,
                 stopped>>

\* The label fail_unlink; the next struct at this place starts from zero.
Unjoin(t) ==
  /\ pc[t] = "unjoin"
  /\ CanLockList(t)
  /\ inList' = inList \ {t}
  /\ nonDaemon' = nonDaemon - (IF daemon[t] THEN 0 ELSE 1)
  /\ SetStatus(t, "FREE")
  /\ suspendCount' = [suspendCount EXCEPT ![t] = 0]
  /\ Goto(t, "failed")
  /\ UNCHANGED <<locks, sleepers, exitSignal, idCount, daemon, objects, cont, locals,
                 stopped>>

\* attachThread takes the temporary count back; the caller is native code.
RestoreCount(t) ==
  /\ t \in Natives
  /\ pc[t] \in {"restore", "failed"}
  /\ CanLockList(t)
  /\ nonDaemon' = nonDaemon - 1
  /\ IF pc[t] = "restore"
     THEN SetStatus(t, "NATIVE") /\ ResumeAt(t, "run")
     ELSE Goto(t, "none") /\ UNCHANGED <<status, cont>>
  /\ UNCHANGED <<suspendCount, inList, locks, sleepers, exitSignal, idCount, daemon,
                 objects, locals, stopped>>

\* internalThreadStart tells the creator, whose child it is.
Report(t) ==
  /\ t \in Internals
  /\ pc[t] \in {"report", "failed"}
  /\ CanLockList(t)
  /\ created' = [p \in Threads |->
       IF pc[p] = "internal" /\ child[p] = t THEN (IF pc[t] = "report" THEN 1 ELSE -1)
       ELSE created[p]]
  /\ sleepers' = {}
  /\ IF pc[t] = "report" THEN SetStatus(t, "RUNNING") /\ Goto(t, "run")
                         ELSE UNCHANGED status /\ Goto(t, "none")
  /\ UNCHANGED <<suspendCount, inList, locks, exitSignal, counters, daemon, objects, cont,
                 child, ref, stopped>>

AwaitInternal(t) ==
  /\ pc[t] = "internal"
  /\ listLock = NoThread
  /\ t \notin sleepers
  /\ IF created[t] = 0
     THEN sleepers' = sleepers \cup {t} /\ UNCHANGED <<pc, cont>>
     ELSE ResumeAt(t, "run") /\ UNCHANGED sleepers
  /\ UNCHANGED <<status, suspendCount, inList, locks, exitSignal, counters, daemon,
                 objects, locals, stopped>>

-----------------------------------------------------------------------------
(* dvmDetachCurrentThread and DestroyJavaVM.                               *)

\* An uncaught exception takes back every suspension of the dying thread.
Detach(t) ==
  /\ t \notin Existing
  /\ Working(t)
  /\ \/ UNCHANGED suspendCount
     \/ Uncaught /\ suspendCount' = [suspendCount EXCEPT ![t] = 0]
  /\ Goto(t, "exiting")
  /\ UNCHANGED <<status, inList, locks, sleepers, exitSignal, counters, daemon, objects,
                 cont, locals, stopped>>

\* Mutant of ClearVmThread: the VMThread still points to the thread.
ClearVmThreadOnly(t) ==
  /\ pc[t] = "exiting"
  /\ status[t] = "RUNNING"
  /\ vmThread' = [o \in Objects |-> IF o = task[t] THEN NoThread ELSE vmThread[o]]
  /\ Goto(t, "dying")
  /\ UNCHANGED <<status, suspendCount, inList, locks, sleepers, exitSignal, counters,
                 daemon, task, vmData, begun, cont, locals, stopped>>

\* From here on the Thread object and its VMThread do not lead to the thread.
ClearVmThread(t) ==
  /\ pc[t] = "exiting"
  /\ status[t] = "RUNNING"
  /\ vmThread' = [o \in Objects |-> IF o = task[t] THEN NoThread ELSE vmThread[o]]
  /\ vmData' = [n \in Threads |->
       vmData[n] /\ ~(task[t] # NoObject /\ n = vmThread[task[t]])]
  /\ Goto(t, "dying")
  /\ UNCHANGED <<status, suspendCount, inList, locks, sleepers, exitSignal, counters,
                 daemon, task, begun, cont, locals, stopped>>

\* Thread.join() has been told (ObjectLock); no object is touched from here on.
Quit(t) ==
  /\ pc[t] = "dying"
  /\ SetStatus(t, "VMWAIT")
  /\ Goto(t, "unlink")
  /\ UNCHANGED <<suspendCount, inList, locks, sleepers, exitSignal, counters, daemon,
                 objects, cont, locals, stopped>>

\* Mutant of Unlink: the last thread does not signal.
UnlinkQuietly(t) ==
  /\ pc[t] = "unlink"
  /\ CanLockList(t)
  /\ inList' = inList \ {t}
  /\ nonDaemon' = nonDaemon - (IF daemon[t] THEN 0 ELSE 1)
  /\ idCount' = idCount - 1
  /\ SetStatus(t, "FREE")
  /\ suspendCount' = [suspendCount EXCEPT ![t] = 0]
  /\ task' = [task EXCEPT ![t] = NoObject]
  /\ Goto(t, "none")
  /\ UNCHANGED <<locks, sleepers, exitSignal, daemon, vmThread, vmData, begun, cont,
                 locals, stopped>>

\* Mutant of Unlink: the id is not given back.
UnlinkKeepsId(t) ==
  /\ pc[t] = "unlink"
  /\ CanLockList(t)
  /\ inList' = inList \ {t}
  /\ nonDaemon' = nonDaemon - (IF daemon[t] THEN 0 ELSE 1)
  /\ exitSignal' = (exitSignal \/ (pc[Main] = "exitwait" /\ ~daemon[t] /\ nonDaemon' = 0))
  /\ SetStatus(t, "FREE")
  /\ suspendCount' = [suspendCount EXCEPT ![t] = 0]
  /\ task' = [task EXCEPT ![t] = NoObject]
  /\ Goto(t, "none")
  /\ UNCHANGED <<locks, sleepers, idCount, daemon, vmThread, vmData, begun, cont, locals,
                 stopped>>

\* Leave the list, signal if this was the last non-daemon thread, and be freed.
Unlink(t) ==
  /\ pc[t] = "unlink"
  /\ CanLockList(t)
  /\ inList' = inList \ {t}
  /\ nonDaemon' = nonDaemon - (IF daemon[t] THEN 0 ELSE 1)
  /\ exitSignal' = (exitSignal \/ (pc[Main] = "exitwait" /\ ~daemon[t] /\ nonDaemon' = 0))
  /\ idCount' = idCount - 1
  /\ SetStatus(t, "FREE")
  /\ suspendCount' = [suspendCount EXCEPT ![t] = 0]
  /\ task' = [task EXCEPT ![t] = NoObject]
  /\ Goto(t, "none")
  /\ UNCHANGED <<locks, sleepers, daemon, vmThread, vmData, begun, cont, locals, stopped>>

DestroyJavaVM ==
  /\ Destroys
  /\ Working(Main)
  /\ SetStatus(Main, "VMWAIT")
  /\ Goto(Main, "destroy")
  /\ UNCHANGED <<suspendCount, inList, locks, sleepers, exitSignal, counters, daemon,
                 objects, cont, locals, stopped>>

\* The wait on vmExitCond: the first look at the count, and every other one.
AwaitLastThread ==
  /\ pc[Main] = "destroy" \/ (pc[Main] = "exitwait" /\ exitSignal)
  /\ listLock = NoThread
  /\ nonDaemon' = nonDaemon - (IF pc[Main] = "destroy" THEN 1 ELSE 0)
  /\ exitSignal' = FALSE
  /\ Goto(Main, IF nonDaemon' > 0 THEN "exitwait" ELSE "shutdown")
  /\ UNCHANGED <<status, suspendCount, inList, locks, sleepers, idCount, daemon, objects,
                 cont, locals, stopped>>

-----------------------------------------------------------------------------

\* What a thread does next by itself.
Step(t) ==
  \/ CheckSuspend(t) \/ SafePoint(t) \/ WakeUp(t) \/ WaitForList(t)
  \/ SuspendAll(t) \/ WorldStops(t) \/ EndStop(t) \/ ResumeAll(t)
  \/ Register(t) \/ StartAgain(t) \/ Spawn(t) \/ Unspawn(t)
  \/ Prepare(t) \/ Adopt(t) \/ Release(t) \/ Go(t) \/ Use(t)
  \/ PrepareAttached(t) \/ Join(t) \/ PulseHeapLock(t) \/ BuildObjects(t) \/ Unjoin(t)
  \/ RestoreCount(t) \/ Report(t) \/ AwaitInternal(t)
  \/ ClearVmThread(t) \/ Quit(t) \/ Unlink(t)

\* What the application, the GC and the JIT compiler ask for.
Start(t) ==
  \/ LeaveRunning(t) \/ EnterStop(t)
  \/ (\E o \in Objects : Create(t, o)) \/ CreateInternal(t)
  \/ LookUp(t) \/ JniAttach(t) \/ Detach(t)

Next ==
  \/ \E t \in Threads : Step(t) \/ ChangeToRunning(t) \/ Start(t)
  \/ DestroyJavaVM \/ AwaitLastThread

Spec == Init /\ [][Next]_vars

-----------------------------------------------------------------------------
(* Properties.                                                             *)

\* t passes its check of the suspend count, or wakes up, and goes on.
PassesCheck(t) ==
  /\ pc[t] \in {"check", "asleep"}
  /\ pc'[t] \notin {"check", "asleep"}

\* "If a GC is in progress this call will suspend us": whenever a thread was
\* started or attached, it does not become RUNNING while the world is stopped.
NobodySlipsPast ==
  [][\A t, g \in Threads : PassesCheck(t) /\ t # g => ~stopped[g]]_vars

\* A thread that runs interpreted code is on the thread list, so that the next
\* suspend-all waits for it.
RunnersListed ==
  \A t \in Threads : status[t] = "RUNNING" /\ pc[t] \in ManagedPC => t \in inList

\* Threads that are attaching through JNI are counted once more.
Attaching == {t \in Natives : pc[t] \in {"attach", "join", "pulse", "built", "unjoin",
                                         "failed", "restore"}
                              \/ (pc[t] \in {"resume", "check", "asleep"} /\ cont[t] = "built")}

\* nonDaemonThreadCount is exact, whatever fails: the VM neither goes down under
\* a thread nor waits for one that is not there.
CountIsExact ==
  nonDaemon = Cardinality({t \in inList : ~daemon[t]}) + Cardinality(Attaching)
              - (IF pc[Main] \in {"exitwait", "shutdown"} THEN 1 ELSE 0)

\* DestroyJavaVM does not sleep on when the last non-daemon thread is gone.
ExitNotLost == pc[Main] = "exitwait" /\ nonDaemon = 0 => exitSignal

\* Under the thread list lock, a VMThread leads to no thread or to one whose
\* struct is not freed, whenever the caller got hold of the VMThread.
NoDanglingThread ==
  \A t \in Threads :
    ref[t] # NoThread /\ vmData[ref[t]] => status[ref[t]] # "FREE"

\* A started Thread object keeps its VMThread until it ends: of several
\* Thread.start() on one object one succeeds and the others change nothing.
StartedOnce ==
  [][\A o \in Objects :
       vmThread[o] # NoThread => vmThread'[o] \in {vmThread[o], NoThread}]_vars

\* Thread ids, which thin locks have few of, are those of threads with a struct
\* that has come as far as prepareThread.
IdsBalanced ==
  idCount = Cardinality({t \in Threads : status[t] # "FREE" /\ pc[t] \notin {"none", "born"}})
=============================================================================
