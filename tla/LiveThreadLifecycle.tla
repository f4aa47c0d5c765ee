------------------------ MODULE LiveThreadLifecycle ------------------------
(***************************************************************************)
(* Liveness of the start-up of threads, for boundedly many stops of the    *)
(* world, visits to native code and internal threads: the thread list lock *)
(* is an ordinary pthread mutex, which a thread that waits can lose to     *)
(* every suspend-all, a thread that calls native code for ever does        *)
(* nothing else, and every internal thread that fails to attach costs an   *)
(* id, for want of which the VM aborts in the end.                         *)
(***************************************************************************)
EXTENDS ThreadLifecycle

CONSTANT MaxStarts    \* bound: stops, native calls and internal threads in all
ASSUME MaxStartsAssumption == MaxStarts \in Nat

VARIABLE starts       \* how many of them the threads may still start

BudgetedStart(t) ==
  /\ starts > 0
  /\ starts' = starts - 1
  /\ EnterStop(t) \/ LeaveRunning(t) \/ CreateInternal(t)

\* What the application asks for; it need not.
Application(t) ==
  (\E o \in Objects : Create(t, o)) \/ Detach(t)

LiveInit == Init /\ starts = MaxStarts
LiveNext ==
  \E t \in Threads :
    \/ BudgetedStart(t)
    \/ (Step(t) \/ ChangeToRunning(t) \/ Application(t)) /\ UNCHANGED starts

\* The VM's own code runs on and reaches safe points; native code, which goes
\* on as interpreted code, need never come back.
LiveFairness ==
  \A t \in Threads :
    /\ WF_<<vars, starts>>(Step(t) /\ UNCHANGED starts)
    /\ WF_<<vars, starts>>(ChangeToRunning(t) /\ cont[t] # "run" /\ UNCHANGED starts)

LiveSpec == LiveInit /\ [][LiveNext]_<<vars, starts>> /\ LiveFairness

\* Both sides of a thread's start come through it: the parent returns, and the
\* child is let go, whoever stops the world meanwhile.
HandshakeEnds ==
  \A t \in Threads :
    pc[t] \in {"adopt", "release", "born", "gowait", "internal"} ~>
      pc[t] = "run" \/ (pc[t] = "resume" /\ cont[t] = "run")

\* Threads on their way into the list do not keep a suspend-all from ending.
StopsEnd == \A t \in Threads : pc[t] = "stop" ~> pc[t] = "run"
=============================================================================
