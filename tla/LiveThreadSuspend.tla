------------------------- MODULE LiveThreadSuspend -------------------------
(***************************************************************************)
(* Liveness of ThreadSuspend without a debugger.  lockThreadSuspend polls  *)
(* a trylock and the thread list lock is an ordinary pthread mutex, so a   *)
(* thread can lose every race for them: each thread starts boundedly many  *)
(* operations.                                                             *)
(***************************************************************************)
EXTENDS ThreadSuspend

CONSTANT MaxStarts    \* bound: operations each thread starts
ASSUME MaxStartsAssumption == MaxStarts \in Nat

VARIABLE starts       \* operations each thread may still start

BudgetedStart(t) ==
  /\ starts[t] > 0
  /\ starts' = [starts EXCEPT ![t] = @ - 1]
  /\ StopTheWorld(t) \/ UseThreadList(t) \/ GetStackTrace(t)

LiveInit == Init /\ starts = [t \in Threads |-> MaxStarts]
LiveNext ==
  \E t \in Threads :
    \/ BudgetedStart(t)
    \/ /\ \/ Step(t) \/ RestartTheWorld(t) \/ SafePoint(t)
          \/ LeaveRunning(t) \/ ChangeToRunning(t) \/ CheckBeforeOrder(t)
       /\ UNCHANGED starts

\* The scheduler runs every thread, the interpreter reaches safe points and
\* whoever stopped the world restarts it.  Native code need never come back.
LiveFairness ==
  \A t \in Threads :
    /\ WF_<<vars, starts>>(Step(t) /\ UNCHANGED starts)
    /\ WF_<<vars, starts>>(SafePoint(t) /\ UNCHANGED starts)
    /\ WF_<<vars, starts>>(RestartTheWorld(t) /\ UNCHANGED starts)

LiveSpec == LiveInit /\ [][LiveNext]_<<vars, starts>> /\ LiveFairness

\* dvmSuspendAllThreads returns: threads that suspend each other, that trace
\* each other's stack and that wait for the thread list do not wait in a circle.
SuspendersFinish ==
  \A t \in Threads : op[t] \in {"suspendAll", "trace"} ~> op[t] = "none"

\* Every suspended thread is resumed in the end.
SuspendedResume == \A t \in Threads : pc[t] = "asleep" ~> status[t] # "SUSPENDED"

\* A thread that is told to suspend does so, or is told to go on, wherever it is.
SuspendsWhenTold ==
  \A t \in Threads : suspendCount[t] > 0 ~> suspendCount[t] = 0 \/ status[t] # "RUNNING"
=============================================================================
