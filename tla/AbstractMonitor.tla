-------------------------- MODULE AbstractMonitor --------------------------
(***************************************************************************)
(* What Java promises of the monitors that vm/Sync.cpp implements: a       *)
(* reentrant lock per object and a condition queue.  No lock word, no      *)
(* pthread mutex and no list: a thread is inside an object some number of  *)
(* times, or it is parked in Object.wait() on it.                          *)
(***************************************************************************)
EXTENDS Naturals

CONSTANTS
  Threads, Objects, NoObject,
  SpuriousWakeups   \* may wait() return for no reason at all?

VARIABLES
  depth,      \* depth[t][o]: enters minus exits of t on o, kept while parked
  parkedOn,   \* the object t waits on, or NoObject
  waking,     \* a parked thread that has a reason to return
  limited,    \* the parked thread gave a timeout
  interrupt   \* an interrupt was posted to t and not yet reported to it

avars == <<depth, parkedOn, waking, limited, interrupt>>

Inside(t, o) == depth[t][o] > 0 /\ parkedOn[t] # o
Empty(o)     == \A t \in Threads : ~Inside(t, o)

TypeOK ==
  /\ depth \in [Threads -> [Objects -> Nat]]
  /\ parkedOn \in [Threads -> Objects \cup {NoObject}]
  /\ waking \in [Threads -> BOOLEAN]
  /\ limited \in [Threads -> BOOLEAN]
  /\ interrupt \in [Threads -> BOOLEAN]

Init ==
  /\ depth = [t \in Threads |-> [o \in Objects |-> 0]]
  /\ parkedOn = [t \in Threads |-> NoObject]
  /\ waking = [t \in Threads |-> FALSE]
  /\ limited = [t \in Threads |-> FALSE]
  /\ interrupt = [t \in Threads |-> FALSE]

Enter(t, o) ==
  /\ parkedOn[t] = NoObject
  /\ Inside(t, o) \/ Empty(o)
  /\ depth' = [depth EXCEPT ![t][o] = @ + 1]
  /\ UNCHANGED <<parkedOn, waking, limited, interrupt>>

Exit(t, o) ==
  /\ parkedOn[t] = NoObject
  /\ Inside(t, o)
  /\ depth' = [depth EXCEPT ![t][o] = @ - 1]
  /\ UNCHANGED <<parkedOn, waking, limited, interrupt>>

\* The caller leaves the monitor however deep it is; depth remembers how deep.
Wait(t, o) ==
  /\ parkedOn[t] = NoObject
  /\ Inside(t, o)
  /\ parkedOn' = [parkedOn EXCEPT ![t] = o]
  /\ \E b \in BOOLEAN : limited' = [limited EXCEPT ![t] = b]
  /\ UNCHANGED <<depth, waking, interrupt>>

WakeUp(t) ==
  /\ parkedOn[t] # NoObject
  /\ ~waking[t]
  /\ waking' = [waking EXCEPT ![t] = TRUE]

\* Only a thread inside the object may wake one that is parked on it.
Notify(t, u) ==
  /\ WakeUp(u)
  /\ Inside(t, parkedOn[u])
  /\ UNCHANGED <<depth, parkedOn, limited, interrupt>>

TimeOut(t) ==
  /\ limited[t] \/ SpuriousWakeups
  /\ WakeUp(t)
  /\ UNCHANGED <<depth, parkedOn, limited, interrupt>>

\* A parked thread may notice an interrupt at once or some time later.
Interrupt(t) ==
  /\ interrupt' = [interrupt EXCEPT ![t] = TRUE]
  /\ WakeUp(t) \/ UNCHANGED waking
  /\ UNCHANGED <<depth, parkedOn, limited>>

NoticeInterrupt(t) ==
  /\ interrupt[t]
  /\ WakeUp(t)
  /\ UNCHANGED <<depth, parkedOn, limited, interrupt>>

\* wait() returns inside the monitor again, as deep as it was when it left.
Resume(t) ==
  /\ waking[t]
  /\ Empty(parkedOn[t])
  /\ parkedOn' = [parkedOn EXCEPT ![t] = NoObject]
  /\ waking' = [waking EXCEPT ![t] = FALSE]
  /\ limited' = [limited EXCEPT ![t] = FALSE]
  /\ UNCHANGED <<depth, interrupt>>

\* InterruptedException, or Thread.interrupted() returning true.
Report(t) ==
  /\ parkedOn[t] = NoObject
  /\ interrupt[t]
  /\ interrupt' = [interrupt EXCEPT ![t] = FALSE]
  /\ UNCHANGED <<depth, parkedOn, waking, limited>>

Next ==
  \E t \in Threads :
    \/ \E o \in Objects : Enter(t, o) \/ Exit(t, o) \/ Wait(t, o)
    \/ \E u \in Threads : Notify(t, u)
    \/ TimeOut(t) \/ Interrupt(t) \/ NoticeInterrupt(t)
    \/ Resume(t) \/ Report(t)

Spec == Init /\ [][Next]_avars
=============================================================================
