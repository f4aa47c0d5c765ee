---------------------------- MODULE TraceCompiler ----------------------------
(***************************************************************************)
(* The JIT compiler's thread, its queue of work orders and the code cache  *)
(* it fills (vm/compiler/Compiler.cpp, the assembler's part that installs  *)
(* code, and the table of translations in vm/interp/Jit.cpp).              *)
(*                                                                         *)
(* Interpreting threads select traces, order their compilation and enter   *)
(* what has been compiled; a full cache is wiped, with the table and the   *)
(* queue, at the next stop of the world.  The compiler's thread takes part *)
(* in no stop except while it looks up class pointers, so all it knows may *)
(* be out of date whenever it looks again: cacheVersion tells.             *)
(*                                                                         *)
(* A translation is a record of the wipe it was made after and of whether  *)
(* it reports method calls; instructions and chaining are left out, and so *)
(* is compilerLock, which nobody holds while waiting for anything else.    *)
(***************************************************************************)
EXTENDS Naturals, Sequences

CONSTANTS Interpreters,  \* threads that run Dalvik code
          TraceHeads,    \* where traces start
          QueueSize, CacheSize,
          MaxTraces,     \* trace selections of all threads
          MaxEntries,    \* entries into translations
          MaxPauses,     \* stops of the world by the collector
          MaxUpsets,     \* resizings of the table and forced resets
          NoEntry, NoCode, Template, Nobody

VARIABLES
  blockingMode,
  workQueue,      \* of [pc, version]
  codeCacheFull, cacheVersion, methodTraceSupport, haltCompilerThread,
  pProfTable,     \* traces are requested and translations used at all
  used,           \* codeCacheByteUsed, in translations
  wipes,          \* history: how often the cache has been wiped
  jitTable,       \* of each trace head: NoEntry, NoCode, Template or a translation
  step,           \* of the compiler's thread
  order,          \* the work order in hand
  result,         \* its codeAddress
  mode,           \* of each interpreting thread
  trace,          \* the head of the trace it selects
  running,        \* the translation it is in
  jitStopper, jitStopped,
  counts          \* of what the bounds are about

cache  == <<codeCacheFull, cacheVersion, methodTraceSupport, used, wipes>>
stop   == <<jitStopper, jitStopped>>
thread == <<mode, trace, running>>
work   == <<step, order, result>>
jitVars == <<blockingMode, workQueue, cache, haltCompilerThread, pProfTable, jitTable, work,
             thread, stop, counts>>

\* What can be used without the cache.
Bare == {NoEntry, NoCode, Template}

\* A translation knows the life of the cache it was made in, and whether
\* methods were traced then.  An entry without code, the template and a
\* translation are told apart.
Translations == [wipe : Nat, traced : BOOLEAN]
ASSUME JitAssumption == NoEntry \notin {NoCode, Template} /\ Bare \cap Translations = {}

NoOrder == [pc |-> Nobody, version |-> 0]
To(s) == step' = s
OrderDone == To("done") /\ order' = NoOrder /\ result' = NoCode
Enter(m, md) == mode' = [mode EXCEPT ![m] = md]
Once(what, max) == counts[what] < max /\ counts' = [counts EXCEPT ![what] = @ + 1]

\* dvmJitHideTranslation.
Hidden == jitStopper # Nobody \/ codeCacheFull \/ ~pProfTable
InTranslation(m) == mode[m] \in {"translated", "calling"}

-----------------------------------------------------------------------------
(* Interpreting threads.                                                   *)

\* dvmJitCheckTraceRequest: unless the queue is backlogged or somebody has
\* asked for this trace before, the trace head gets its entry.
SelectTrace(m) ==
  /\ mode[m] = "interpreting" /\ ~jitStopped /\ pProfTable
  /\ 4 * Len(workQueue) < 3 * QueueSize
  /\ \E p \in TraceHeads : /\ jitTable[p] = NoEntry
                           /\ jitTable' = [jitTable EXCEPT ![p] = NoCode]
                           /\ trace' = [trace EXCEPT ![m] = p]
  /\ Enter(m, "selecting") /\ Once("traces", MaxTraces)
  /\ UNCHANGED <<blockingMode, workQueue, cache, haltCompilerThread, pProfTable, work, running, stop>>

\* dvmCheckJit, when the trace turns out to be empty.
EmptyTrace(m) ==
  /\ mode[m] = "selecting" /\ ~jitStopped
  /\ jitTable' = [jitTable EXCEPT ![trace[m]] = Template]
  /\ Enter(m, "interpreting") /\ trace' = [trace EXCEPT ![m] = Nobody]
  /\ UNCHANGED <<blockingMode, workQueue, cache, haltCompilerThread, pProfTable, work, running, stop,
                 counts>>

\* dvmCompilerWorkEnqueue.
Refused == Len(workQueue) = QueueSize \/ codeCacheFull
Ordered(p) == \E i \in 1..Len(workQueue) : workQueue[i].pc = p
Enqueue(p) ==
  IF Ordered(p) THEN UNCHANGED <<workQueue, step>>
  ELSE /\ workQueue' = Append(workQueue, [pc |-> p, version |-> cacheVersion])
       /\ step' = IF step = "waiting" THEN "top" ELSE step

OrderTrace(m) ==
  /\ mode[m] = "selecting" /\ ~jitStopped
  /\ IF Refused THEN Enter(m, "interpreting") /\ UNCHANGED <<workQueue, step>>
     ELSE /\ Enqueue(trace[m])
          /\ Enter(m, IF blockingMode THEN "draining" ELSE "interpreting")
  /\ trace' = [trace EXCEPT ![m] = Nobody]
  /\ UNCHANGED <<blockingMode, cache, haltCompilerThread, pProfTable, jitTable, order, result,
                 running, stop, counts>>

\* dvmCompilerDrainQueue.  The wait is a timed one: whoever may stop
\* waiting does, signalled or not.
\* Mutant of NeedNotDrain: a suspend request is not looked at.
DrainsRegardless(m) == workQueue = <<>> \/ haltCompilerThread
NeedNotDrain(m) == workQueue = <<>> \/ haltCompilerThread \/ jitStopper \notin {Nobody, m}

Drained(m) ==
  /\ mode[m] = "draining" /\ NeedNotDrain(m)
  /\ Enter(m, "interpreting")
  /\ UNCHANGED <<blockingMode, workQueue, cache, haltCompilerThread, pProfTable, jitTable, work, trace,
                 running, stop, counts>>

EnterTranslation(m) ==
  /\ mode[m] = "interpreting" /\ ~Hidden
  /\ \E p \in TraceHeads : /\ jitTable[p] \notin Bare
                           /\ running' = [running EXCEPT ![m] = jitTable[p]]
  /\ Enter(m, "translated") /\ Once("entries", MaxEntries)
  /\ UNCHANGED <<blockingMode, workQueue, cache, haltCompilerThread, pProfTable, jitTable, work, trace,
                 stop>>

\* Translations call C functions, which may block, and be stopped, with
\* inJitCodeCache set.
CallFromTranslation(m) ==
  /\ mode[m] = "translated" /\ Enter(m, "calling")
  /\ UNCHANGED <<blockingMode, workQueue, cache, haltCompilerThread, pProfTable, jitTable, work, trace,
                 running, stop, counts>>

\* Back from the call, to the translation or to the interpreter.
LeaveTranslation(m) ==
  /\ InTranslation(m) /\ ~jitStopped
  /\ Enter(m, "interpreting") /\ running' = [running EXCEPT ![m] = NoCode]
  /\ UNCHANGED <<blockingMode, workQueue, cache, haltCompilerThread, pProfTable, jitTable, work, trace,
                 stop, counts>>

-----------------------------------------------------------------------------
(* The compiler's thread, compilerThreadStart.                             *)

AwaitOrders ==
  /\ step = "top" /\ ~haltCompilerThread /\ workQueue = <<>>
  /\ To("waiting")
  /\ UNCHANGED <<blockingMode, workQueue, cache, haltCompilerThread, pProfTable, jitTable, order,
                 result, thread, stop, counts>>

\* With an order done the next is taken without a look at haltCompilerThread.
Dequeue ==
  /\ workQueue # <<>>
  /\ step = "done" \/ (step = "top" /\ ~haltCompilerThread)
  /\ order' = Head(workQueue) /\ result' = NoCode /\ workQueue' = Tail(workQueue)
  /\ To("check")
  /\ UNCHANGED <<blockingMode, cache, haltCompilerThread, pProfTable, jitTable, thread, stop, counts>>

QueueDone ==
  /\ step = "done" /\ workQueue = <<>>
  /\ To("top")
  /\ UNCHANGED <<blockingMode, workQueue, cache, haltCompilerThread, pProfTable, jitTable, order,
                 result, thread, stop, counts>>

\* The thread becomes RUNNING to detach.
CompilerExits ==
  /\ step = "top" /\ haltCompilerThread /\ jitStopper = Nobody
  /\ To("gone")
  /\ UNCHANGED <<blockingMode, workQueue, cache, haltCompilerThread, pProfTable, jitTable, order,
                 result, thread, stop, counts>>

CheckSuspendPending ==
  /\ step = "check" /\ (blockingMode \/ jitStopper = Nobody)
  /\ To("decide")
  /\ UNCHANGED <<blockingMode, workQueue, cache, haltCompilerThread, pProfTable, jitTable, order,
                 result, thread, stop, counts>>

\* dvmJitResizeJitTable, when the table is three quarters full: entries and
\* code move to a larger table, or the table cannot grow any more.
ResizeTable ==
  /\ step = "decide" /\ jitStopper = Nobody /\ Once("upsets", MaxUpsets)
  /\ jitStopper' = "compiler" /\ To("resize")
  /\ UNCHANGED <<blockingMode, workQueue, cache, haltCompilerThread, pProfTable, jitTable, order,
                 result, thread, jitStopped>>

Resized ==
  /\ step = "resize" /\ jitStopped
  /\ jitStopper' = Nobody /\ jitStopped' = FALSE /\ To("decide")
  /\ UNCHANGED <<blockingMode, workQueue, cache, haltCompilerThread, pProfTable, jitTable, order,
                 result, thread, counts>>

ResizeFails ==
  /\ step = "decide" /\ Once("upsets", MaxUpsets)
  /\ codeCacheFull' = TRUE
  /\ UNCHANGED <<blockingMode, workQueue, cacheVersion, methodTraceSupport, used, wipes,
                 haltCompilerThread, pProfTable, jitTable, work, thread, stop>>

\* Shutdown, a full cache, a translation that is there by now, a stale
\* order, or a compilation that bails out.
Discard ==
  /\ step = "decide"
  /\ OrderDone
  /\ UNCHANGED <<blockingMode, workQueue, cache, haltCompilerThread, pProfTable, jitTable, thread, stop, counts>>

Worthwhile ==
  /\ ~haltCompilerThread /\ ~codeCacheFull
  /\ jitTable[order.pc] \in {NoEntry, NoCode} \/ Hidden
  /\ order.version = cacheVersion

Compile ==
  /\ step = "decide" /\ Worthwhile
  /\ To("assemble")
  /\ UNCHANGED <<blockingMode, workQueue, cache, haltCompilerThread, pProfTable, jitTable, order,
                 result, thread, stop, counts>>

\* dvmCompilerAssembleLIR.
CacheIsFull ==
  /\ step = "assemble" /\ used = CacheSize
  /\ codeCacheFull' = TRUE /\ OrderDone
  /\ UNCHANGED <<blockingMode, workQueue, cacheVersion, methodTraceSupport, used, wipes,
                 haltCompilerThread, pProfTable, jitTable, thread, stop, counts>>

CacheChanged ==
  /\ step = "assemble" /\ used < CacheSize /\ order.version # cacheVersion
  /\ OrderDone
  /\ UNCHANGED <<blockingMode, workQueue, cache, haltCompilerThread, pProfTable, jitTable, thread, stop, counts>>

EmitCode ==
  /\ step = "assemble" /\ used < CacheSize /\ order.version = cacheVersion
  /\ used' = used + 1
  /\ result' = [wipe |-> wipes, traced |-> methodTraceSupport]
  /\ \E next \in {"class pointers", "install"} : To(next)
  /\ UNCHANGED <<blockingMode, workQueue, codeCacheFull, cacheVersion, methodTraceSupport, wipes,
                 haltCompilerThread, pProfTable, jitTable, order, thread, stop, counts>>

\* dvmJitInstallClassObjectPointers: becomes RUNNING, which waits for the
\* end of a stop, and then reads what it has emitted, which may have been
\* wiped in that stop.  No good comes of that: see CompilerReadsItsCode.
StartClassPointers ==
  /\ step = "class pointers" /\ jitStopper = Nobody
  /\ To(IF result.wipe = wipes THEN "running" ELSE "lost")
  /\ UNCHANGED <<blockingMode, workQueue, cache, haltCompilerThread, pProfTable, jitTable, order,
                 result, thread, stop, counts>>

InstallClassPointers ==
  /\ step = "running" /\ To("install")
  /\ UNCHANGED <<blockingMode, workQueue, cache, haltCompilerThread, pProfTable, jitTable, order,
                 result, thread, stop, counts>>

\* Mutant of StillCurrent: what has been compiled is installed.
NeverStale == TRUE
StillCurrent == order.version = cacheVersion

InstallCode ==
  /\ step = "install"
  /\ jitTable' = IF StillCurrent THEN [jitTable EXCEPT ![order.pc] = result] ELSE jitTable
  /\ OrderDone
  /\ UNCHANGED <<blockingMode, workQueue, cache, haltCompilerThread, pProfTable, thread,
                 stop, counts>>

-----------------------------------------------------------------------------
(* Stops of the world.                                                     *)

\* By the collector, by the compiler, or by a thread that enables method
\* tracing.  A thread that waits for the queue is RUNNING, so is one in a
\* translation, until it polls.
AtSafePoint(m) == mode[m] \in {"interpreting", "selecting", "calling", "updating"}
WorldStops ==
  /\ jitStopper # Nobody /\ ~jitStopped
  /\ \A m \in Interpreters : AtSafePoint(m)
  /\ step # "running"
  /\ jitStopped' = TRUE
  /\ UNCHANGED <<blockingMode, workQueue, cache, haltCompilerThread, pProfTable, jitTable, work,
                 thread, jitStopper, counts>>

\* resetCodeCache.  Traces under selection are given up even if the cache
\* has to stay because a thread is in it.
Cancelled == [m \in Interpreters |-> IF mode[m] = "selecting" THEN "interpreting" ELSE mode[m]]
NoTrace == [m \in Interpreters |-> Nobody]
ResetCodeCache ==
  IF \E m \in Interpreters : InTranslation(m)
  THEN UNCHANGED <<workQueue, cache, jitTable>>
  ELSE /\ cacheVersion' = cacheVersion + 1
       /\ workQueue' = <<>>
       /\ jitTable' = [p \in TraceHeads |-> NoEntry]
       /\ used' = 0 /\ wipes' = wipes + 1
       /\ codeCacheFull' = FALSE
       /\ UNCHANGED methodTraceSupport

Collection ==
  /\ jitStopper = Nobody /\ Once("stops", MaxPauses)
  /\ jitStopper' = "collector"
  /\ UNCHANGED <<blockingMode, workQueue, cache, haltCompilerThread, pProfTable, jitTable, work,
                 thread, jitStopped>>

\* dvmCompilerPerformSafePointChecks, and the end of the stop.
SafePoint ==
  /\ jitStopper = "collector" /\ jitStopped
  /\ IF codeCacheFull THEN ResetCodeCache /\ mode' = Cancelled /\ trace' = NoTrace
     ELSE UNCHANGED <<workQueue, cache, jitTable, mode, trace>>
  /\ jitStopper' = Nobody /\ jitStopped' = FALSE
  /\ UNCHANGED <<blockingMode, haltCompilerThread, pProfTable, work, running, counts>>

\* dvmCompilerUpdateGlobalState, as a profiler starts.
EnableTracing(m) ==
  /\ mode[m] = "interpreting" /\ ~jitStopped /\ ~methodTraceSupport /\ ~haltCompilerThread
  /\ cacheVersion' = cacheVersion + 1 /\ methodTraceSupport' = TRUE
  /\ IF used = 0 THEN pProfTable' = FALSE /\ UNCHANGED mode
     ELSE Enter(m, "updating") /\ UNCHANGED pProfTable
  /\ UNCHANGED <<blockingMode, workQueue, codeCacheFull, used, wipes, haltCompilerThread, jitTable,
                 work, trace, running, stop, counts>>

SuspendToFlush(m) ==
  /\ mode[m] = "updating" /\ jitStopper = Nobody
  /\ jitStopper' = m
  /\ UNCHANGED <<blockingMode, workQueue, cache, haltCompilerThread, pProfTable, jitTable, work,
                 thread, jitStopped, counts>>

Flush(m) ==
  /\ jitStopper = m /\ jitStopped
  /\ ResetCodeCache /\ mode' = [Cancelled EXCEPT ![m] = "interpreting"] /\ trace' = NoTrace
  /\ pProfTable' = FALSE
  /\ jitStopper' = Nobody /\ jitStopped' = FALSE
  /\ UNCHANGED <<blockingMode, haltCompilerThread, work, running, counts>>

\* As the profiler ends.
DisableTracing(m) ==
  /\ mode[m] = "interpreting" /\ ~jitStopped /\ methodTraceSupport
  /\ ~pProfTable /\ ~haltCompilerThread
  /\ pProfTable' = TRUE
  /\ UNCHANGED <<blockingMode, workQueue, cache, haltCompilerThread, jitTable, work, thread, stop,
                 counts>>

\* Some SIGUSR2 of a tuning build.
ForceReset ==
  /\ ~codeCacheFull /\ Once("upsets", MaxUpsets)
  /\ codeCacheFull' = TRUE
  /\ UNCHANGED <<blockingMode, workQueue, cacheVersion, methodTraceSupport, used, wipes,
                 haltCompilerThread, pProfTable, jitTable, work, thread, stop>>

\* dvmCompilerShutdown, up to the join.
CompilerShutdown ==
  /\ ~haltCompilerThread
  /\ haltCompilerThread' = TRUE /\ pProfTable' = FALSE
  /\ step' = IF step = "waiting" THEN "top" ELSE step
  /\ UNCHANGED <<blockingMode, workQueue, cache, jitTable, order, result, thread, stop, counts>>

-----------------------------------------------------------------------------
JitInit ==
  /\ blockingMode \in BOOLEAN
  /\ workQueue = <<>> /\ codeCacheFull = FALSE /\ cacheVersion = 0 /\ methodTraceSupport = FALSE
  /\ haltCompilerThread = FALSE /\ pProfTable = TRUE /\ used = 0 /\ wipes = 0
  /\ jitTable = [p \in TraceHeads |-> NoEntry]
  /\ step = "top" /\ order = NoOrder /\ result = NoCode
  /\ mode = [m \in Interpreters |-> "interpreting"]
  /\ trace = NoTrace /\ running = [m \in Interpreters |-> NoCode]
  /\ jitStopper = Nobody /\ jitStopped = FALSE
  /\ counts = [what \in {"traces", "entries", "stops", "upsets"} |-> 0]

CompilerStep ==
  \/ AwaitOrders \/ Dequeue \/ QueueDone \/ CompilerExits \/ CheckSuspendPending
  \/ Resized \/ Discard \/ Compile \/ CacheIsFull \/ CacheChanged \/ EmitCode
  \/ StartClassPointers \/ InstallClassPointers \/ InstallCode
InterpreterStep(m) ==
  \/ EmptyTrace(m) \/ OrderTrace(m) \/ Drained(m)
  \/ LeaveTranslation(m) \/ SuspendToFlush(m) \/ Flush(m)

StopStep == WorldStops \/ SafePoint

\* What may or may not happen.
Chance ==
  \/ \E m \in Interpreters : \/ SelectTrace(m) \/ EnterTranslation(m) \/ CallFromTranslation(m)
                             \/ EnableTracing(m) \/ DisableTracing(m)
  \/ ResizeTable \/ ResizeFails \/ Collection \/ ForceReset \/ CompilerShutdown

JitNext ==
  /\ step # "lost"
  /\ \/ CompilerStep \/ StopStep \/ Chance
     \/ \E m \in Interpreters : InterpreterStep(m)

JitSpec == JitInit /\ [][JitNext]_jitVars

-----------------------------------------------------------------------------
(* Properties.                                                             *)

\* Nothing leads into wiped code: neither the table nor a thread that is in
\* a translation.  And the entry that dvmJitSetCodeAddr asserts to be there
\* is: for a trace under selection, which may be empty, and for an order
\* whose translation will be installed.
TranslationsCurrent ==
  /\ \A p \in TraceHeads : jitTable[p] \notin Bare => jitTable[p].wipe = wipes
  /\ \A m \in Interpreters : /\ InTranslation(m) => running[m].wipe = wipes
                             /\ mode[m] = "selecting" => jitTable[trace[m]] # NoEntry
  /\ step = "install" /\ StillCurrent => jitTable[order.pc] # NoEntry

\* Threads that wait for the queue go on, also when the world is to be
\* stopped; stops end, and so does the compiler's thread at shutdown.
CompilerCallsReturn ==
  /\ \A m \in Interpreters : mode[m] = "draining" ~> (mode[m] # "draining" \/ step = "lost")
  /\ jitStopper # Nobody ~> (jitStopper = Nobody \/ step = "lost")
  /\ haltCompilerThread ~> step \in {"gone", "lost"}

\* The compiler's thread reads class pointers out of the code it has just
\* emitted.  It need not be there any more.
CompilerReadsItsCode == step # "lost"

\* "If there are any existing translations, flush them": a thread that is
\* in one prevents it.
TracedFromNowOn ==
  methodTraceSupport /\ (\A m \in Interpreters : mode[m] # "updating")
    => \A p \in TraceHeads : jitTable[p] \notin Bare => jitTable[p].traced
=============================================================================
