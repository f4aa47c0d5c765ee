--------------------------- MODULE LiveObjectLock ---------------------------
(***************************************************************************)
(* Liveness of ObjectLock, for applications that make boundedly many calls *)
(* on one object: neither the spin loop nor a pthread mutex is fair, so    *)
(* without the bound one thread can overtake another for ever, and with    *)
(* two objects the application can deadlock by itself.                     *)
(***************************************************************************)
EXTENDS ObjectLock

CONSTANT MaxStarts    \* bound: enters, waits and notifies of each thread
ASSUME MaxStartsAssumption == MaxStarts \in Nat

VARIABLE starts       \* calls each thread may still start

\* The application uses its budget for every call but dvmUnlockObject.
BudgetedStart(t) ==
  /\ starts[t] > 0
  /\ starts' = [starts EXCEPT ![t] = @ - 1]
  /\ \E o \in Objects : LockObject(t, o) \/ ObjectWait(t, o) \/ ObjectNotify(t, o)

Leave(t) ==
  /\ \E o \in Objects : UnlockThin(t, o) \/ UnlockFat(t, o)
  /\ UNCHANGED starts

LiveInit == Init /\ starts = [t \in Threads |-> MaxStarts]
LiveNext ==
  \E t \in Threads :
    \/ BudgetedStart(t) \/ Leave(t)
    \/ (Step(t) \/ ThreadInterrupt(t)) /\ UNCHANGED starts

\* The scheduler runs every thread, timers expire, and the application leaves
\* the monitors it has entered.  It need not interrupt or notify anybody.
LiveFairness ==
  \A t \in Threads :
    /\ WF_<<vars, starts>>(Step(t) /\ UNCHANGED starts)
    /\ WF_<<vars, starts>>(Leave(t))

LiveSpec == LiveInit /\ [][LiveNext]_<<vars, starts>> /\ LiveFairness

InCall(t) == pc[t] # "idle"

\* Every call comes back, except a wait without a timeout that nobody ends: no
\* thread spins or blocks for ever on a monitor its owners leave.
CallsReturn ==
  \A t \in Threads :
    InCall(t) ~> ~InCall(t) \/ (pc[t] = "waiting" /\ ~timed[t] /\ ~signalled[t])

\* A notified, interrupted or timed wait does end, with its monitor owned again.
WakingReturns ==
  \A t \in Threads :
    pc[t] = "waiting" /\ (signalled[t] \/ interrupted[t] \/ timed[t]) ~>
      pc[t] = "waitreturn" /\ owner[obj[t]] = t
=============================================================================
