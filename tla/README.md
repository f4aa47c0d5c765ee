# Verification of the Dalvik virtual machine

This directory holds TLA+ specifications of the Dalvik VM under `src/`, the TLC
configurations that check them and TLAPS proofs about them. They concentrate on
the parts of the VM where order matters most and tests reach least: how threads
lock, wait, stop each other, come and go, and the services they share while they
do: the collector, the heap's lock, class initialisation, the JIT compiler's
queue and cache, the tables of JNI references and the instanceof cache.

Reading order: `AbstractMonitor`, `ObjectLock`, `ObjectLock_proofs`,
`ThreadSuspend`, `ThreadLifecycle`, `ConcurrentGC`, `ClassLoading`, each with its
proofs; then the four services `HeapRequests`, `TraceCompiler`, `AbstractReferences` with
`IndirectRefs`, and `AtomicCache`. `IndirectRefs_proofs` is about the tables,
`Services_proofs`, in three parts, about the other three. The
`Live...` modules add a budget and fairness to the module they are named after;
the `MC...` modules have what TLC needs: a symmetry set, heaps and programs to
try, and in `MCServices` the sum of the four services.

    tlc -config ThreadSuspend_debugger.cfg ThreadSuspend.tla
    tlc -config Services.cfg MCServices.tla
    tlapm Services_proofs.tla

## 1. Inventory

| Component | State it keeps | Operations | Talks to |
|---|---|---|---|
| Object locks and wait sets, `vm/Sync.cpp` | `Object.lock` word (thin: owner and count; fat: `Monitor` with mutex, owner, depth, wait set), `Thread.waitMonitor`, `waitMutex`, `interrupted` | `dvmLockObject`, `dvmUnlockObject`, `dvmObjectWait`, `dvmObjectNotify(All)`, `dvmThreadInterrupt`, `dvmThreadSleep` | suspension (a thread that waits is VMWAIT), the collector (frees monitors), the natives of `Object` and `VMThread` |
| Thread suspension, `vm/Thread.cpp` | `status`, `suspendCount`, `dbgSuspendCount` of every thread, `threadListLock`, `_threadSuspendLock` (a trylock), `threadSuspendCountLock` and its condition | suspend-all and resume-all, single suspend and resume, `dvmChangeStatus`, `dvmCheckSuspendPending`, undo of the debugger's suspensions | collector, JIT compiler, debugger, stack traces, everyone who changes status |
| Thread start, attach and exit, `vm/Thread.cpp`, `vm/Jni.cpp` | `threadList`, `threadIdMap`, `nonDaemonThreadCount`, `threadStartCond`, `vmExitCond`, `VMThread.vmData`, `Thread.vmThread` | `dvmCreateInterpThread`, `dvmCreateInternalThread`, `dvmAttachCurrentThread`, `dvmDetachCurrentThread`, `DestroyJavaVM`, `dvmSlayDaemons` | suspension, heap lock, class library |
| Garbage collector, `vm/alloc` | mark stack, mark bitmaps, card table, heap sizes, `gcHeapLock`, the GC daemon's condition, reference queues | allocation, partial, full and concurrent collections, sweeping | suspension, object locks (sweeps monitors), intern table, class loading |
| Debugger and JDWP, `vm/Debugger.cpp`, `vm/jdwp` | event list, event token, object registry, the invoke request of a thread | suspend and resume, events, method invocation in a suspended thread, disconnect | suspension |
| JIT compiler, `vm/compiler`, `vm/interp/Jit.cpp` | work queue, code cache, trace table, profile table | enqueue, compile, resize, reset | suspension |
| Classes, `vm/oo/Class.cpp` | class status, the thread that initialises, loader tables | find, link, initialise | object locks (the status is guarded by the class's own monitor), verifier |
| Indirect references, `vm/IndirectRefTable.cpp` | segments with holes, serial numbers | add, remove, get, push and pop of frames | JNI, collector |
| Instanceof and interface caches, `vm/AtomicCache.*` | keys, value and version of each entry | lookup, update, both without a lock | interpreter |
| `Intern`, `Hash`, `BitVector`, `ReferenceTable` | hash tables with tombstones, bit sets, arrays | lookup, insert, remove, iterate | interpreter, collector |
| Linear allocator, copying collector, interpreter, verifier, profiling and DDM, `libdex`, host tools, `dx` | see `PROJECT.json` | | |

What is hard in each of them, at its line, is the list `hazards` of
`PROJECT.json`. In short:

* **Object locks**: a spinner, an unlocker and the thread that inflates race for
  one word; the recursion count overflows; `wait` gives up any depth and must get
  it back; a notification or an interrupt arrives between the decision to sleep
  and the sleep. Correct means: one owner, exact depth, no lost wakeup, no lost
  interrupt, every call returns.
* **Suspension**: two stores and two reads in opposite order by the thread that
  goes RUNNING and the one that stops it; several suspenders at once; a debugger
  that adds and takes away its share of a count the collector uses too. Correct
  means: nobody is RUNNING past its check while the world is stopped, each
  suspension is undone exactly once, no circle of waiting threads.
* **Start, attach and exit**: a thread enters the list while the world is being
  stopped; every error path has to undo counts, ids and pointers; the last
  non-daemon thread must wake `DestroyJavaVM`. Correct means: nobody slips past a
  stop, the list and the counts are exact, nothing points to a freed `Thread`.
* **Collector**: marking while mutators write (card table), the finger of the
  bitmap walk, references that a finalizer brings back, sweeping concurrently with
  allocation. Correct means: nothing in use is freed, no reference is cleared that
  should not be, garbage goes.
* **Heap requests**: allocations, `System.gc()` and the daemon skip, await or make
  collections, and become RUNNING with the heap lock held. Correct means: what was
  asked for has been done on return, and everything returns.
* **Classes**: two threads load, link and initialise the same class, recursively,
  and fail. Correct means: no use before initialisation, one `<clinit>`, and only
  a circle of threads hangs.
* **JIT**: the compiler's thread takes no part in stops of the world, in which the
  cache it writes to is wiped; waiters rely on one signal. Correct means: no way
  leads into wiped code, and everything returns.
* **Indirect references**: holes, serials, segments restored by popping frames. A
  reference leads to its own object or nowhere.
* **Caches**: an entry is rewritten between any two reads of a reader. A hit is a
  hit for the reader's own keys.
* **Debugger**: handing an invoke request to a suspended thread and taking the
  result (not modelled).

## 2. Plan

| | Module | Question | State |
|---|---|---|---|
| 1 | `AbstractMonitor`, `ObjectLock`, `LiveObjectLock`, `ObjectLock_proofs` | is a Dalvik lock a Java monitor? | built; proved but for liveness |
| 2 | `ThreadSuspend`, `LiveThreadSuspend`, `ThreadSuspend_proofs` | is the world stopped when a suspender thinks so? | built; proved but for liveness |
| 3 | `ThreadLifecycle`, `LiveThreadLifecycle`, `ThreadLifecycle_proofs` | does a thread that comes or goes break that? | built; proved but for liveness |
| 4 | `ConcurrentGC`, `MCConcurrentGC`, `ConcurrentGC_proofs` | is only garbage freed, and all of it? | built; proved |
| 5 | `ClassLoading`, `MCClassLoading`, `ClassLoading_proofs` | is a class initialised once, and before it is used? | built; proved but for the return |
| 6 | `HeapRequests`, `Services_proofs` | does a request for memory or a collection get it, and return? | built; proved but for the return |
| 7 | `TraceCompiler`, `Services_proofs` | does anything lead into a wiped code cache? | built; proved but for the return |
| 8 | `AbstractReferences`, `IndirectRefs`, `IndirectRefs_proofs` | does a JNI reference lead where it should? | built; proved |
| 9 | `AtomicCache`, `Services_proofs` | is a lookup without a lock answered right? | built; proved |
| 10 | the invoke request of a suspended thread (`Debugger.cpp`) | | open |
| 11 | `dvmSlayDaemons` at shutdown | | open |

The modules have one action per operation and no RECURSIVE operator, so that the
proofs can be about them as they stand.

## 3. The modules and the code

Every definition that models code is listed with its lines under `map` in
`PROJECT.json`. Definitions whose comment starts with "Mutant of" are broken
variants of the definition they follow or precede; no specification uses them.
They show that the properties can fail.

### AbstractMonitor

What `java.lang.Object` promises: each thread has a depth per object (`depth`),
may be parked on one object (`parkedOn`), and, once there is a reason (`waking`:
notified, timed out, interrupted), resumes with the depth it gave up. `Enter` needs
that nobody else is inside. The code's mutexes, words and lists do not occur.

### ObjectLock (`vm/Sync.cpp`, the natives in `java_lang_VMThread.cpp`)

| State | Code |
|---|---|
| `lock[o]` | `Object.lock`: shape bit, owner and recursion count of a thin lock |
| `owner`, `lockCount`, `waitSet`, `monLock` | `Monitor.owner`, `lockCount`, `waitSet`, holder of `Monitor.lock` |
| `waitMonitor`, `waitMutex`, `interrupted` | the fields of `Thread` |
| `signalled[t]` | `waitCond` of the thread was signalled while it slept |
| `pc`, `obj`, and the locals | where in which call the thread is, and what it has read |
| `held`, and the other history variables | what the application did; no guard reads them |

`LockObject` decides on the word read first; `ReadLockWord`, `CasLock`, `SpinRead`
and `SpinCas` are the loop of `dvmLockObject` in which each read and each
compare-and-swap is a step; `InflateMonitor` makes a lock fat with its depth.
`RecurseFat`, `AcquireMonLock`, `SetOwner` are `lockMonitor`; `UnlockObject` is
`dvmUnlockObject`. `waitMonitor` is cut where another thread can come between:
`ObjectWait`, `WaitRefused`, `WaitPark`, `WaitEnter`, `WaitRelease`, `CondWait`,
`CondReturn`, `Relock`, `WaitDone`, `WaitReturn`. Notification pops one thread after
the other (`NotifyPop`) and signals it under its `waitMutex` (`NotifySignal`).
`ThreadInterrupt` is `dvmThreadInterrupt`; `PollRead` and `PollClear` are the two
halves of `Thread.interrupted()`.

Abstractions: memory is sequentially consistent; the status changes around
blocking calls are left to `ThreadSuspend`, since a suspension only delays a step;
reading and writing a thin word one owns is one step, as nobody else writes it; a
section under `waitMutex` that does not block is one step; identity hash bits, lock
profiling and the sweeping of monitors are left out; an object gets at most one
`Monitor`, as in the code. `dvmThreadSleep` is a lock, a timed wait and an unlock of
an object that is fat from the start (`BornFat`), like `threadSleepMon`.

### ThreadSuspend (`vm/Thread.cpp`, with its callers in `vm/alloc`, `vm/compiler`, `vm/interp/Jit.cpp`, `vm/Debugger.cpp`, `vm/jdwp`)

`status`, `suspendCount` and `dbgSuspendCount` are the fields of `Thread`;
`suspendLock` and `listLock` the holders of `_threadSuspendLock` and
`threadListLock`; `eventThread` the holder of JDWP's event token. A call runs
through `pc` with its locals in `op`, `why`, `target` and so on. `ChangeToRunning`
stores RUNNING and `CheckSuspend` then reads the count, two steps, as in
`dvmChangeStatus`; `FullSuspendCheck`, `WakeUp` are `fullSuspendCheck`. `LockListLeave`
to `UnlockList` are `dvmLockThreadList`, with its store of the old status.
`TryLockThreadSuspend`, `SuspendAll`, `WaitForThreadSuspend` (the threads in any
order), `ResumeAll` and `Broadcast` are suspend-all and resume-all;
`SuspendThread`, `ResumeThread`, `SuspendSelf` and `UndoDebuggerSuspensions` what the
debugger adds. `StopTheWorld`, `UseThreadList`, `GetStackTrace`, `PostEvent` and
`DebuggerCall` are the callers.

Abstractions: a section under `threadSuspendCountLock` is one step. NATIVE stands
for every quiet status. The thread list is constant (see `ThreadLifecycle`). The
time-outs after which `waitForThreadSuspend` aborts the VM are left out: with
them a run ends, without them it shows who would be waited for. The heap lock is
not modelled, which allows more: two collectors can try to stop the world
together, as can a collector and the compiler. The compiler is in VMWAIT, looks at
its count before each order (`CheckBeforeOrder`), and becomes RUNNING to fill class
pointers into its code; that it may allocate then, and so collect, is left out.

### ThreadLifecycle (`vm/Thread.cpp`, `vm/Jni.cpp`, `java_lang_VMThread.cpp`)

`inList`, `nonDaemon`, `idCount` are `threadList`, `nonDaemonThreadCount` and the
number of bits in `threadIdMap`; `task`, `vmThread`, `vmData` the pointers between
`Thread`, `java.lang.Thread` and `VMThread`; `sleepers` and `exitSignal` the two
conditions. A start by `dvmCreateInterpThread` is `Create`, `Register` (or
`StartAgain`), `Spawn` (or `Unspawn`), `Adopt`, `Release` in the parent and `Prepare`,
`Go` in the child; `CreateInternal`, `AwaitInternal` and `Report` are
`dvmCreateInternalThread`; `JniAttach`, `PrepareAttached`, `Join`, `PulseHeapLock`,
`BuildObjects`, `Unjoin`, `RestoreCount` are `attachThread` and
`dvmAttachCurrentThread` with their errors; `Detach`, `ClearVmThread`, `Quit`,
`Unlink` are `dvmDetachCurrentThread`; `DestroyJavaVM`, `AwaitLastThread` the end.
`LookUp` and `Use` stand for the natives that take a `VMThread` from another thread,
lock the list and follow `vmData`.

Abstractions: a section under `threadListLock` is one step, except that
suspend-all keeps the lock over several. Suspension has fewer steps than in
`ThreadSuspend`, where they are checked in full. A second collector that waits for the
heap lock is left out (to the others it is a quiet thread). `kMaxThreadId` bounds
the ids; the VM aborts when they are used up, so the action is disabled. After
the branch of `dvmCreateInterpThread` that goes on with a freed `Thread` the thread
is at `undefined` and takes no more steps. Priorities, debugger and DDM
notices, and the wait for method tracing at exit are left out.

### ConcurrentGC (`vm/alloc/MarkSweep.cpp`, `CardTable.cpp`, `HeapBitmap.cpp`, `Heap.cpp`)

`live` and `mark` are the two bitmaps, `dirty` the card table, `chunk` what
`mspace_calloc` has given out; `ctx` is `GcMarkContext` with finger, mark stack and
reference lists; `condemned` is history. `Begin` and `ReMark` are the two
pauses of a concurrent collection, `MarkStopped` that of the others; between the two
pauses the walk (`WalkBitmap`) and the mark stack (`PopMarkStack`) proceed turn by turn
while `Store`, `MarkCard`, `Load`, `New`, `Clear` and so on change the heap. `ProcessReferences`
is `dvmHeapProcessReferences` with both rounds of clearing; `ctx.pending` are the four lists
of the heap, one for each class of References, in the order in which they were
found. What the collector does in a pause is a function of a record `g` of what it
changes, and its loops are `Loop` (so many turns) and `ForEach` (a walk in address
order). `processMarkStack` gets as many turns as there are addresses, and turns with an
empty stack do nothing: that this is enough is proved. After the swap of
the bitmaps the sweep takes one bitmap word at a time (`SweepWord`) and frees under the
lock (`FreeList`).

Abstractions: a pause is one step; that the world is stopped in it is
`ThreadSuspend`'s business. One thread at a time is between a store and its card,
in the same pause-free section. Only a trace reads the card table, and begins by
clearing it, so that cards dirtied at other times are left out. Weak globals are
created in heaps without References, to bound the state space. A `FinalizerReference`
is held by the list of its class until it is enqueued. The fields of a freed
address are reset, since nothing can read them. With three addresses a heap has
one soft reference: that every other one is kept shows in the order of the list only.
A card holds whole objects: the scan of an object that begins on another card
is left out. Sizes, and hence fragmentation and the limits of heaps, are left out.

### ClassLoading (`vm/oo/Class.cpp`, `vm/oo/Resolve.cpp`)

Each thread has a stack of frames, since these functions call each other: a use
of a static field (`dvmResolveStaticField`), `findClassNoInit` and `dvmInitClass`. `table`
is `gDvm.loadedClasses`; `status`, `super` and `initThreadId` are fields of a
`ClassObject`; `monitor` and `waiting` stand for its monitor, an `AbstractMonitor`;
`resolved` is the field cache of the `DvmDex`. What classes say, a superclass and
the classes their `<clinit>` uses, is the constant `Programs`.

Abstractions: one class loader; layout of fields and vtables, interfaces and array
classes are left out; verification is one step that may fail. When another thread
has added a class of the same name and it has failed to link, the code
dereferences NULL (`aborted`): the model stops there, see section 5. The loop in
which `findClassNoInit` waits for another thread to link a class is modelled although
the circumstances that lead there are rare.

### HeapRequests (`vm/alloc/Heap.cpp`, `HeapSource.cpp`, `Alloc.cpp`)

`heapLock`, `gcRunning` and `heapWaiters` are `gcHeapLock`, `gcHeap->gcRunning` and
those in `gcHeapCond`; `gcThreadMutex`, `parked`, `trimNeeded` and `gcThreadShutdown`
belong to the daemon. `TryLockHeap`, `LockHeap`, `LockedHeap` are `dvmLockHeap`, whose last
step becomes RUNNING with the lock held; `WaitForGc` to `GcComplete` are
`dvmWaitForConcurrentGcToComplete`; `FirstFailure`, `LaterFailure`, `Oversize`,
`OutOfMemory` are the attempts of `tryMalloc`; `Collect` to `FinishStopped` are
`dvmCollectGarbageInternal`, including the way a concurrent collection unlocks the
heap, resumes the world, takes the lock again and stops the world again; `Park`,
`Unpark`, `DaemonRuns`, `DaemonDone` are `gcDaemonThread`.

Abstractions: whether an attempt succeeds is open, and what a collection does to
objects is `ConcurrentGC`'s subject. The world is stopped by one thread at a time, as
the suspend lock sees to; the JIT compiler is one more stopper. `call[t].made`
is history. The daemon's five seconds are a choice.

### TraceCompiler (`vm/compiler/Compiler.cpp`, `vm/interp/Jit.cpp`, `vm/compiler/codegen/arm/Assemble.cpp`)

`workQueue`, `codeCacheFull`, `cacheVersion`, `jitTable`, `pProfTable`,
`haltCompilerThread` are the fields of `gDvmJit`; `step`, `order`, `result` are where the
compiler's thread is and what it has; `mode`, `trace`, `running` the same for
interpreting threads. A translation is a record of the number of wipes before
it was made (`wipes`, history) and of whether it reports method calls. `SelectTrace`,
`EmptyTrace`, `OrderTrace` are `dvmJitCheckTraceRequest` and `dvmCheckJit`, `Enqueue` is
`dvmCompilerWorkEnqueue`, `Drained` is the wait of `dvmCompilerDrainQueue`; `AwaitOrders`
to `InstallCode` are `compilerThreadStart` and what it calls; `SafePoint` and
`ResetCodeCache` are `dvmCompilerPerformSafePointChecks` and `resetCodeCache`;
`EnableTracing` to `DisableTracing` are `dvmCompilerUpdateGlobalState`.

Abstractions: what is compiled, chaining of translations, inline caches, profiling and
self verification are left out. `dvmCompilerForceWorkEnqueue` is left out: its
callers are never called. A thread in a translation polls, and may leave it, at
any time. At step `lost` the compiler reads code that has been wiped (section 5);
the model stops there, as the outcome is undefined.

### IndirectRefs and AbstractReferences (`vm/IndirectRefTable.*`, `vm/Jni.cpp`, `vm/interp/Stack.cpp`)

`slots`, `topIndex`, `numHoles` are the table and its segment state, `cookies` those
saved in the frames. `AddReference` is `addLocalReference`, `RemoveTopmost` (with the
holes below it) and `RemoveInside` are `IndirectRefTable::remove`, `PushFrame` and
`PopLocalFrame` the frames, the latter with the result it hands on.
`AbstractReferences` says what JNI promises: what is handed out is new, leads to
its object until it is deleted from its own frame or the frame is popped, and then
nowhere. The mapping reads `held` off the table: whatever a reference gets.

Abstractions: growth always succeeds; kinds of references, dumps, popping more frames
than there are, and the direct pointers that applications with bugs are given
are left out. Global and weak tables are the case of no frames.

### AtomicCache (`vm/AtomicCache.h`, `vm/AtomicCache.cpp`)

One entry to which all keys hash. `ReadVersion`, `ReadField`, `Hit`, `Miss` are the
reads of `ATOMIC_CACHE_LOOKUP`, `LockEntry` to `UnlockEntry` the writes of
`dvmUpdateAtomicCache`. Fields are read and written in any order, as the barriers
allow, and so is every other order in which the processor may bring them.
The cached value is the pair of keys it was computed from, so that a wrong one shows.
The version counts without end; its overflow into the lock flag, after 2^30 updates,
is disregarded by the code's own comment.

### MCServices

The four services do not know of each other, so their sum is checked rather than their
product: `which` chooses one, the others stay where they are. The fairness of
each is conjoined and guarded by the choice.

## 4. Runs

| Run | Instance | What it shows |
|---|---|---|
| `ObjectLock_safety` | 3 threads, 1 object, spurious wakeups, symmetric | `MutualExclusion`, `DepthPreserved` and `FreeMeansClear` survive inflation by overflow, by contention and by wait; `WaitSetIntegrity` and `SleeperCanBeWoken`: the wait set holds waiters only, once each, and whoever sleeps can still be reached by notify; `InterruptWakes` and `InterruptReported`: an interrupt ends the sleep and is neither forgotten nor cleared unseen; `IndInv` is the invariant of the proofs |
| `ObjectLock_refine` | 2 threads, a thin and a fat object, waits that do not throw, `interrupted()` | every step is a step of `AbstractMonitor` or invisible (`RefinesMonitor`) |
| `ObjectLock_live` | 2 threads, 1 object, 3 calls each | `CallsReturn`, `WakingReturns` |
| `ThreadSuspend_debugger` | 2 collectors, compiler, debugger | `WorldStopped`; `SuspendCountsAddUp`: each count is the number of suspensions in effect; `ResumeNotLost`: nobody sleeps with a count of 0 unless a wakeup is on its way; `DebuggerShareInCount`: an undo during a collection takes back the debugger's share and no more |
| `ThreadSuspend_single` | 2 threads, debugger, single suspensions, no collector | `HoldersAwake`: a thread with the suspend lock or the thread list lock is never asleep in a suspension |
| `ThreadSuspend_live` | 2 collectors that also trace each other and lock the list, compiler | `SuspendersFinish`, `SuspendedResume`, `SuspendsWhenTold` |
| `ThreadLifecycle_start` | main, collector, a started and an attaching thread, which may fail | `NobodySlipsPast`: no thread comes through a suspend check while the world is stopped; `RunnersListed`; `NoDanglingThread`; `CountIsExact`, through the errors of an attach too |
| `ThreadLifecycle_mishaps` | main, compiler, an internal and 2 started threads, double starts, failing `pthread_create`, uncaught exceptions, `DestroyJavaVM` | `IdsBalanced`, and `ExitNotLost`: when the count is 0 `DestroyJavaVM` has been signalled |
| `ThreadLifecycle_live` | main, collector, a started and an internal thread | `HandshakeEnds`, `StopsEnd` |
| `ConcurrentGC` | 4 heaps of 3 addresses, 2 to a bitmap word and to a card: one with an object of the zygote and weak globals, three with a soft, weak or phantom reference next to a finalizer's | `NoDangling`: what the program can get hold of is allocated and live; `GrayOnDirtyCards`: what the trace missed is on a dirty card; `ClearsUnreachable`: no pause clears a reference to what is strongly held; `GarbageIsFreed` in the collection that finds it |
| `ClassLoading` | 2 threads, 2 classes, 4 programs, 2 failures, 1 interrupt | `InitBeforeUse`; `ClinitOnce`; `UsesReturn`, but for a circle of threads |
| `Services` | 2 allocating threads, daemon, JIT stop; 2 interpreting threads, compiler, 2 traces, a queue and a cache of one; a table of 4 slots with 2 frames; a cache entry with 2 readers and 4 pairs of keys | `RequestsHonoured`, `HeapCallsReturn`; `TranslationsCurrent`, `CompilerCallsReturn`; `RefinesReferences`; `AnswersAreRight` |

**Bounds.** `CountMask` 1 stands for the count field's 0x1fff: the code treats all
counts below the limit alike, and with 1 both the overflow and the step
before it happen with `MaxDepth` 2. Three threads are the least with which two wait
in one set while a third notifies, and two objects the least with which a thread
waits on one while it holds the other; the two runs split the two. `MaxDebug` 1 or
2 bounds the debugger's share of a count: with 2 a thread stays suspended after
one resume. Three or four threads in `ThreadSuspend` give two competing suspenders
of each kind and a bystander. In `ThreadLifecycle` one thread of each kind is
enough for each pairwise race with a suspender; `ThreadLifecycle_mishaps` has two
structs for started threads so that the same object can be started again.
In `ConcurrentGC` three objects are the least with which one is hidden behind another
from the finger while a third holds the reference, and two to a word or card make
the finger run ahead of its visits. `ClassLoading` needs two classes for a circle;
`MaxObjects` 7 is what two threads and two failures can publish (with two uses
per thread and one failure it passes too: 444,040 states). In `Services` two
requests let one collection be skipped for another (with three, heap alone,
275,371 states); a queue and a cache of one are full at once (with `QueueSize` 2
and `MaxPauses` 2, compiler alone, 613,416 states); `MaxCount` 4 and five added references
fill the table, make it grow and use slots again; two lookups meet in a half-written entry (with
three, cache alone, 323,673 states); `Serials` 8 exceeds `MaxAdds`, so that serial
numbers do not wrap round (section 5 has the run where they do).
`TypeOK` of `ThreadSuspend` and `ThreadLifecycle` documents the variables; the runs
spend their time on more.

**Deadlock** is checked in `ThreadSuspend_single` and `ConcurrentGC`. The other systems
may really stop: in `ObjectLock` all threads may be in a wait without time-out; in the
life cycle all threads but the main one may have exited; threads that initialise
classes may wait in a circle; the daemon and the compiler may wait for work that does
not come; the live runs use up their budget. In
`ThreadSuspend_debugger` the VM can lock up altogether, by the overlap of section 5 in
which an event suspends the collector: the collector is then stopped by the
debugger, and the JDWP thread, which could resume it, by the collector. That
nobody else waits in a circle is checked as liveness.

**Fairness.** The live specifications, `ClassLoading` and `MCServices` assume weak fairness of each thread's
own steps inside the VM: pthreads are scheduled, `pthread_mutex_unlock` lets
someone in, a thread in interpreted code reaches the next safe point. They do not
assume that applications make calls, that native code returns, or that a
debugger resumes. The number of new calls, stops or internal threads is bounded
(`MaxStarts`), because the spin loop and the mutexes are unfair: with an endless
supply of competitors one thread can lose every race, in the code as in the model.
For the live run of `ObjectLock`, a thread inside a monitor eventually leaves it
(`Leave`); a lock is not free otherwise. In `MCServices` threads come back
from calls out of translations; the daemon's wait need not time out.

## 5. Where the code disagrees with its own comments

The models show these; each has a configuration of its own, not among the runs,
whose property TLC finds violated (those in the last four lines are run with
`MCServices`, `ClassLoading_winner` with `MCClassLoading`, the others with
the module in their name):

| Configuration | Property | What happens |
|---|---|---|
| `ObjectLock_polled` | `InterruptReported` | `Thread.interrupted()` reads and clears the flag in two unguarded steps (`java_lang_VMThread.cpp:131`); an interrupt in between is gone |
| `ObjectLock_classinit` | `InterruptReported` | a wait that must not throw consumes the interrupt (`Sync.cpp:755`), where the comment (`Sync.cpp:601`) speaks of setting the flag |
| `ThreadSuspend_listlock` | `WorldStopped` | `dvmLockThreadList` puts RUNNING back without a check (`Thread.cpp:390`), though a suspend-all may have counted the thread as stopped |
| `ThreadSuspend_event` | `GcNotHeldByDebugger` | a thread in VMWAIT posts a suspend-all event and suspends the collector in the middle of its collection (`JdwpEvent.cpp:906`); the collector's suspension may then hold the JDWP thread, and nobody is left to resume anybody |
| `ThreadSuspend_resume` | `DebuggerShareInCount` | the debugger resumes a thread that only the collector has suspended (`Thread.cpp:2211`; the comment at 124 forbids it) |
| `ThreadLifecycle_exit` | `ExitNotLost` | `attachThread` takes its increment of `nonDaemonThreadCount` back without a signal (`Jni.cpp:2818`); `DestroyJavaVM` sleeps on |
| `ThreadLifecycle_slip_attach` | `NobodySlipsPast` | an attaching thread is stalled by the heap lock only, which `dvmJitResizeJitTable` does not take (`Thread.cpp:1841`, `Jit.cpp:1334`) |
| `ThreadLifecycle_slip_uncaught` | `NobodySlipsPast` | a dying thread takes back a collector's suspension with its own (`Thread.cpp:1617`) |
| `ThreadLifecycle_twice` | `StartedOnce` | the branch for a thread that was started before does not return (`Thread.cpp:1274`) |
| `ThreadLifecycle_dangling` | `NoDanglingThread` | when `pthread_create` fails `vmData` still points to the freed `Thread` (`Thread.cpp:1312`) |
| `ThreadLifecycle_ids` | `IdsBalanced` | a thread that fails to attach keeps its id (`Thread.cpp:1963`) |
| `ClassLoading_winner` | `WinnerIsThere` | the class another thread had added under the same name has failed to link and is gone when it is looked up; a build without assertions dereferences NULL (`Class.cpp:1560`) |
| `HeapRequests_oversize` | `SoftClearedAlways` | a request larger than the heap skips its collection of soft references when a concurrent one runs, and fails (`Heap.cpp:182`; the comments at 178 and 243 have them collected first) |
| `TraceCompiler_wiped` | `CompilerReadsItsCode` | the compiler may wait for a stop between reading its new code's header and filling in class pointers, and the stop wipes it (`arm/Assemble.cpp:2285`) |
| `TraceCompiler_untraced` | `TracedFromNowOn` | "flush them" (`Compiler.cpp:819`): a thread inside a translation prevents the flush, and translations that report no calls stay in use |
| `IndirectRefs_wrap` | `RefinesReferences` | serial numbers wrap round (after 4096 uses of a slot), and an old reference leads to a new object |

The passing runs leave the culprit of each out, by a constant or by stopping there:
polls in `ObjectLock_safety`, list lockers and single suspensions next to collections in
`ThreadSuspend`, compilers next to attaching threads and so on. What they show
holds of the rest of the code.

## 6. What is proved

Seven modules have proofs. Each theorem holds for every value of the constants that
meets the named assumptions of its module, which TLC evaluates in the runs.

**`ObjectLock_proofs`** (any threads and objects, any width of the count field, any
`BornFat`): `Invariance` of `IndInv`, `TypeCorrect`, which bounds the recursion count
by its field, `DepthIsPreserved`, `Exclusion`, `FreeIsClear`. None of the three
safety properties is inductive. `MutualExclusion` speaks of
`held`, which is what the application did; to keep it one has to know that `held`
agrees with the word, the monitor or what a waiting thread has put by
(`DepthInv`); that the owner of a `Monitor` has its mutex, that a thin lock has no
`Monitor` in use, and that a lock without owner has depth 0 (`WordInv`); that at
five control points a thread has the mutex while nobody is owner, and that a
thread about to inflate still owns the thin lock (`PcInv`);
and that a full count field belongs to a thread about to inflate it, or the next
enter would overflow (`CountInv`). The proof has one lemma per action; the clauses
are stated per object (`WordOK`, `CountOK`) and per thread (`PcOK`, `DepthOK`), so
that an action disturbs the clauses of its own thread and object only and a frame
lemma covers the rest. TLC checks `IndInv` as an invariant of `ObjectLock_safety`.

Its second part is about waiting: `WaitSetsAreSound`, `NoLostWakeup`,
`InterruptsWake`, and `ImplementsMonitor`, that all of `vm/Sync.cpp` as modelled
implements `AbstractMonitor`, none of which needs an assumption. `WaitInv` is
inductive on top of `IndInv`. It says what other threads may read off a waiting
thread: `waitMonitor`, `waitMutex`, `signalled` and `interrupted` agree with its control
point (`CondInv`); a wait set has each of its waiters once, and they are on their
way into or out of a wait for that object (`ListInv`); a thread is in the set before
it can sleep (`JoinInv`); the peer a notifier has popped but not yet signalled is
still in its wait, because the notifier owns the monitor that the peer must
enter to leave it (`PeerInv`); and a sleeper without a signal is in the set or has been
chosen by such a notifier (`WakeInv`), so that between pop and signal no wakeup is
lost. For the refinement each action of the code is one of the monitor or a
stutter; the lemmas `Map...` state the abstract actions in terms of the mapping
and are cited by the lemma of the action that takes them. `InterruptsAreReported`, an
action property, has an assumption: `Thread.interrupted()` is not called and every
wait may throw (`ReportAssumption`). Where either fails an interrupt does go
unreported (`ObjectLock_polled`, `ObjectLock_classinit`).

**`ClassLoading_proofs`** (any threads and names, any number of failures and
interrupts, any programs the module's `ProgramAssumption` admits): `ClinitRunsOnce` and
`InitialisedBeforeUse`. Both depend on who has a class in his hands, and that is an
activation anywhere in the stack of some thread, not the one on top. So the
invariant (`LoadingInv`) speaks of all activations: each that links or initialises
has the class's `status` and `initThreadId` on its side (`FrameOK`); no class is in the
hands of two activations of a thread (`OneHolder`), and a class that is being
initialised is in the hands of one of its `initThreadId` (`OwnerInv`); an activation
that has got past the initialisation of a superclass or of a class it uses finds
it initialised, or being initialised further out in the same stack (`NeedsMet`);
the callee of one that still waits for this is that initialisation (`CallOK`), and
what it returns establishes it (`Returned`). `<clinit>` has begun only for a class that
keeps its name for good (`RunsInv`), or the name could be loaded and initialised
again. A step moves, pushes or pops one activation; three lemmas (`MoveInv`,
`PushInv`, `PopInv`) say what is to be shown in each case, and one lemma per action shows it. TLC
has checked the invariant on the instance of the run `ClassLoading` too.

**`ConcurrentGC_proofs`** (any number of objects, any sizes of words and cards, any
shapes of the heap): `NothingInUseIsFreed`, `CardsCoverGray`, `OnlyUnreachableCleared`
and `GarbageDoesNotFloatTwice`, all from `CollectorSound`. Two sets carry the
invariant (`GCInv`): `live`, which the mutators cannot get out of (`HeapOK`), and `Kept`,
`live` without `condemned`, which marking does not get out of (`Sound`). The first gives
`NoDangling`, the second that no garbage survives its collection. During a trace a
marked object that still leads to a white one is on the stack, in the word or ahead of
the walk, behind a write barrier, or on a dirty card (`TraceOK`); at the second
pause stack and walk are done and no thread is behind its barrier, so that the cards
remain, and scanning them leaves no marked object with a white field. From there the mark is closed
(`Settled`), and the rounds of reference processing keep it so, but for the
referents they clear. A reference to a finalizable object is a root until it has
been enqueued, hence marked (`FinalsHeld`), and after its round no marked one has a
white referent left (`FinalsDone`). `SweepOK` and `ChunksOK` say what of the old bitmap
is still to be swept, and that outside the zygote's heap what is allocated is live or
among that.
The marking loops need an induction that the library states with an operator as
parameter. The proofs do without: a loop is the sequence of its values, which a
function is given for (`LoopExists`), and a set of turns that has 0 and with each turn
the next has them all (`Climb`, from the well-founded `<`). The mark stack is empty in the end since each push
marks a white object (`Slack`, marks less stack, grows with every pop), and the
walk is at its end since each turn visits an object (`Left`).

**`Services_proofs`, the heap's requests** (any threads, any number of requests; assumed only that the
daemon is no mutator and that nobody is a thread): `RequestsAreHonoured` and
`CollectionsExclude`. What matters is who has the heap lock (`Owned`: `heapLock` names
a thread exactly when it is at a point where it believes to have it), since
`gcRunning` is set with the lock only: an attempt that has found it clear may
rely on that until its own collection (`Progress`), so that the collection it asks
for is not the one that `dvmCollectGarbageInternal` skips. `SleepersAwaited` needs that
a collection has no sleepers until it first gives the lock up.

**`Services_proofs`, the compiler** (any threads and traces, any sizes): `NoWipedCode`. The code
tells old work from new by `cacheVersion`, the property speaks of `wipes`; the
invariant `CacheInv` relates the two: an order, in the queue or in hand, is never
of a later version; of the current one it has its entry in the table; and code that
waits to be installed under the current version dates from the current wipe.

**`Services_proofs`, the cache** (any threads and classes, versions without bound):
`LookupsAreRight`. One update at a time, the entry consistent while its number is
even, and `SeenIsCurrent`: what was read under an even number that is still the
entry's is what the entry still holds. It is the number alone that says so; the
version with its flag set comes twice, at the end of one update and at the start of
the next, and the proof shows that this is harmless.

**`ThreadSuspend_proofs`** (any finite set of threads): `LockHoldersAwake`
holds without an assumption. `SuspendTypeCorrect`, `CountsAreStops`, `ShareIsInCount` and
`NoResumeLost` assume that the debugger does not suspend or resume single threads
while somebody else stops the world (`CountsAssumption`): where both happen it takes
back a suspension of the collector's (`ThreadSuspend_resume`). The invariant says
what each count is made of at every control point of a suspender, between its
increments too: how many stops are in force, which of them a thread has been
counted for, and what of a count is the debugger's. `WorldStops` assumes that every
thread is `Orderly`: none goes back to RUNNING without looking at its count, as
the threads that lock the thread list do (`ThreadSuspend_listlock`), and the
debugger makes no single calls. It rests on `OrderlyThreadsStop`: who has been seen stopped and is still counted stays so,
since the only way back leads through a check of the count under its lock.

**`ThreadLifecycle_proofs`** (any finite set of threads). Without an assumption:
`RunnersAreListed`, `CountStaysExact`, `LifeTypeCorrect`, and `IdsAreEnough`. With one,
each of which leaves out what section 5 shows to go wrong: `IdsStayBalanced` (no
attach fails), `ExitSignalled` (no attach fails and attaching threads are no
daemons, or nobody attaches), `NoneDangles` (no spawn fails and no thread is started
twice) and the action property `NobodySlips` (nobody dies of an uncaught
exception, and a JIT compiler does not run beside attaching or internal threads).
The invariant behind all of them (`LifeInv`) gives for each control point
who may be there, what of the thread exists (`Alive`) and which of the parent's
steps it waits for, one parent for each child (`OneParent`). `CountInv` and
`IdsInv` write the two counters as cardinalities of sets of threads at certain
control points, so each action adds one member or takes one away or neither.
`SlipInv` says whom a stop of the world may have missed: only a newborn thread that
the suspender's locks hold up before it can touch the heap.

**`IndirectRefs_proofs`** (tables of any size, any number of frames):
`TableStaysSound` and `ReferencesAreRight`. `add` fills a hole when the counts of the
segment state and the frame's cookie differ, and its search for one has no other
bound; `remove` gives up as many holes as it finds below the topmost slot. Both are
right because of `SegmentsInv`: in every frame's segment, not only the last, the
difference of the counts is the number of empty slots, and the topmost slot is not
empty. A cookie is only a number to return to, so the invariant has to say this of
all frames, and that what happens above a frame's beginning leaves it true
(`StackKept`, `StackCut`). For the refinement (`RefInv`) a reference must have no
greater serial number than its slot: then one that is handed out is new, and old ones
to the same slot do not match. That is so while serial numbers do not wrap
(`SerialsLast`: fewer references are handed out than there are serial numbers, 4096
in the code), the only assumption; without it `RefinesReferences` fails
(`IndirectRefs_wrap`). The library's theorem that `<` on the numbers is well-founded
stands in for induction where the largest hole is needed (`Least`, `Largest`).

Only model-checked: all liveness (fairness and ENABLED are out of the prover's
reach). Every safety invariant, every action property that is no liveness, and both
refinements that the runs check are proved.

## 7. What is not modelled

Component by component in `PROJECT.json`. In the modelled parts: the aborts after
time-outs, `dvmSlayDaemons`, `dvmWaitForSuspend`, method invocation by the debugger,
priorities, thread dumps, identity hash codes, sweeping of monitors, heap sizes and
fragmentation, verification of the heap, class layout and loaders, a failed `realloc`
of a reference table (`IndirectRefTable.cpp:109` tests the old pointer and would write
through a null one), what the JIT compiles and how translations are chained.

Of the rest: reference tables, interned strings, hash tables and bit vectors are
containers under one lock each; the linear allocator is a bump pointer; the copying
collector is off by default. The interpreter, the verifier and `dx` compute on instructions
and have no protocol a model checker could explore; profiling, DDM, the signal
catcher and heap dumps are diagnostics; `libdex` and the host tools read and write files;
the assembly interpreters and the generated tables are not written by hand.
These make up nearly all of the repository's lines: what is modelled is a small share of them, and
most of its concurrency.
