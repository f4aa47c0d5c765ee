----------------------------- MODULE MCServices -----------------------------
(***************************************************************************)
(* Four services of the VM that do not know of each other, for TLC: which  *)
(* of them moves is chosen initially, the others stay where they are.      *)
(***************************************************************************)
EXTENDS HeapRequests, TraceCompiler, IndirectRefs, AtomicCache

VARIABLE which

Init ==
  /\ HeapInit /\ JitInit /\ RefInit /\ CacheInit
  /\ which \in {"heap", "jit", "references", "cache"}
  /\ which # "jit" => ~blockingMode

Next ==
  /\ UNCHANGED which
  /\ \/ which = "heap" /\ HeapNext /\ UNCHANGED <<jitVars, refVars, cacheVars>>
     \/ which = "jit" /\ JitNext /\ UNCHANGED <<heapVars, refVars, cacheVars>>
     \/ which = "references" /\ RefNext /\ UNCHANGED <<heapVars, jitVars, cacheVars>>
     \/ which = "cache" /\ CacheNext /\ UNCHANGED <<heapVars, jitVars, refVars>>

Heap == which = "heap"
TheJit == which = "jit" /\ step # "lost"

\* Whoever can go on does, with the heap, the queue or the world; calls
\* from translations return.  Requests, selections and stops need not come,
\* nor does the daemon's wait have to time out.
Fairness ==
  /\ \A t \in Threads : WF_heapVars(Heap /\ HeapStep(t))
  /\ WF_heapVars(Heap /\ DaemonStep) /\ WF_heapVars(Heap /\ JitStep)
  /\ WF_jitVars(TheJit /\ CompilerStep) /\ WF_jitVars(TheJit /\ StopStep)
  /\ \A m \in Interpreters : WF_jitVars(TheJit /\ InterpreterStep(m))

Spec == Init /\ [][Next]_<<heapVars, jitVars, refVars, cacheVars, which>> /\ Fairness
=============================================================================
