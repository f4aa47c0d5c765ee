---------------------------- MODULE ClassLoading ----------------------------
(***************************************************************************)
(* Loading, linking and initialisation of classes: findClassNoInit and     *)
(* dvmInitClass of vm/oo/Class.cpp, and dvmResolveStaticField of           *)
(* vm/oo/Resolve.cpp, which calls them and caches what it finds.           *)
(*                                                                         *)
(* Threads reach these functions recursively: linking a class finds its    *)
(* superclass, initialising it initialises the superclass and runs its     *)
(* <clinit>, which uses other classes.  So each thread has a stack of      *)
(* frames.  A class name (descriptor) is bound to at most one ClassObject  *)
(* at a time by the table gDvm.loadedClasses; a name whose class failed to *)
(* link can be bound again.  The superclass of a name and the classes its  *)
(* <clinit> uses make up a program.                                        *)
(***************************************************************************)
EXTENDS Integers, FiniteSets, Sequences

CONSTANTS Threads, Names, NoName,
          Programs,       \* records [super |-> ..., uses |-> ..., preverified |-> ...]
          MaxCalls,       \* uses of a class that each thread begins
          MaxMishaps,     \* failures to load, link, verify or run <clinit>
          MaxObjects,     \* ClassObjects published, those that fail to link included
          MaxInterrupts   \* interrupts, or spurious wakeups, of waiting threads

ASSUME ProgramAssumption ==
  \A p \in Programs : /\ p.super \in [Names -> Names \cup {NoName}]
                      /\ p.uses \in [Names -> Seq(Names)]
                      /\ p.preverified \subseteq Names

ClassObject == 1..MaxObjects
None   == 0
Nobody == "nobody"

VARIABLES
  program,       \* what the classes say, fixed for a behaviour
  table,         \* gDvm.loadedClasses
  name, status,  \* of each ClassObject; "free" before it is published
  super,
  initThreadId,
  monitor,       \* who has the object locked
  waiting,       \* threads in Object.wait() on the object
  resolved,      \* the entry for a static field of each name in the DvmDex cache
  stack,         \* calls of each thread, the innermost last
  calls, mishaps, interrupts,
  runs,          \* history: how often the <clinit> of a name was begun
  aborted        \* a NULL class was dereferenced

names == <<table, name, super, resolved>>
classes == <<names, status, initThreadId, monitor, waiting>>
bounds  == <<program, calls, mishaps, interrupts>>
vars == <<classes, bounds, stack, runs, aborted>>

\* One activation.  pc is where it goes on, res what the last callee returned
\* (the class, or None with an exception pending), i counts in a <clinit>.
Frame(fn, d, o, pc) == [fn |-> fn, d |-> d, o |-> o, pc |-> pc, res |-> None, i |-> 0]

Depth(t) == Len(stack[t])
Top(t)   == stack[t][Depth(t)]
At(t, fn, pc) == ~aborted /\ stack[t] # <<>> /\ Top(t).fn = fn /\ Top(t).pc = pc

\* The innermost call goes on at pc, has found class o, calls, or returns.
Goto(t, pc)        == stack' = [stack EXCEPT ![t][Depth(t)].pc = pc]
GotoWith(t, o, pc) == stack' = [stack EXCEPT ![t][Depth(t)] = [@ EXCEPT !.pc = pc, !.o = o]]
CallFrom(t, caller, callee) ==
  stack' = [stack EXCEPT ![t] = Append([@ EXCEPT ![Depth(t)] = caller], callee)]
Call(t, pc, callee) == CallFrom(t, [Top(t) EXCEPT !.pc = pc], callee)
Return(t, res) ==
  stack' = [stack EXCEPT ![t] =
              IF Depth(t) = 1 THEN <<>>
              ELSE [SubSeq(@, 1, Depth(t) - 1) EXCEPT ![Depth(t) - 1].res = res]]

MayFail == IF mishaps < MaxMishaps THEN BOOLEAN ELSE {FALSE}
Count(failed) == mishaps' = mishaps + (IF failed THEN 1 ELSE 0)

SuperName(o) == program.super[name[o]]
IsClassLinked(o) == status[o] \in {"resolved", "verified", "initializing", "initialized"}

\* Locks are reentrant; no frame takes one that its caller holds and then
\* leaves it to the caller, except to find out that it is recursive.
Lockable(t, o) == monitor[o] \in {Nobody, t}
Lock(t, o)     == monitor[o] = Nobody /\ monitor' = [monitor EXCEPT ![o] = t]
NotifyAllAndUnlock(o) ==
  monitor' = [monitor EXCEPT ![o] = Nobody] /\ waiting' = [waiting EXCEPT ![o] = {}]

-----------------------------------------------------------------------------
(* findClassNoInit                                                         *)

LookupClass(t) ==
  /\ At(t, "find", "lookup")
  /\ LET o == table[Top(t).d] IN GotoWith(t, o, IF o = None THEN "load" ELSE "got")
  /\ UNCHANGED <<classes, bounds, runs, aborted>>

\* loadClassFromDex fails, with an exception.
LoadFails(t) ==
  /\ At(t, "find", "load") /\ mishaps < MaxMishaps
  /\ Count(TRUE) /\ Return(t, None)
  /\ UNCHANGED <<classes, program, calls, interrupts, runs, aborted>>

\* Mutant of NameTaken: the class already in the table is not looked for.
NameNotLookedUp(d) == FALSE
NameTaken(d) == table[d] # None

\* One that is free.
NewClassObject == CHOOSE o \in ClassObject : status[o] = "free"

\* The new ClassObject is locked before dvmAddClassToHash publishes it.
AddClassToHash(t) ==
  /\ At(t, "find", "load") /\ ~NameTaken(Top(t).d)
  /\ \E o \in ClassObject : status[o] = "free"
  /\ LET d == Top(t).d
         o == NewClassObject
     IN /\ table' = [table EXCEPT ![d] = o]
        /\ name' = [name EXCEPT ![o] = d]
        /\ status' = [status EXCEPT ![o] = "loaded"]
        /\ initThreadId' = [initThreadId EXCEPT ![o] = t]
        /\ monitor' = [monitor EXCEPT ![o] = t]
        /\ GotoWith(t, o, "link")
  /\ UNCHANGED <<super, waiting, resolved, bounds, runs, aborted>>

\* Somebody else was faster: this thread's object is thrown away.
LoseRace(t) ==
  /\ At(t, "find", "load") /\ NameTaken(Top(t).d)
  /\ Goto(t, "winner")
  /\ UNCHANGED <<classes, bounds, runs, aborted>>

\* The winner may have failed to link, and have left the table again.
LookupWinner(t) ==
  /\ At(t, "find", "winner")
  /\ LET o == table[Top(t).d] IN
     /\ GotoWith(t, o, "got")
     /\ aborted' = (o = None)
  /\ UNCHANGED <<classes, bounds, runs>>

\* dvmLinkClass has the object locked while it finds the superclass.
LinkSuper(t) ==
  /\ At(t, "find", "link")
  /\ LET d == SuperName(Top(t).o) IN
     IF d = NoName THEN Goto(t, "linkNoSuper")
     ELSE Call(t, "linkSuper", Frame("find", d, None, "lookup"))
  /\ UNCHANGED <<classes, bounds, runs, aborted>>

SuperFound(t) ==
  At(t, "find", "linkNoSuper") \/ (At(t, "find", "linkSuper") /\ Top(t).res # None)

Linked(t) ==
  /\ SuperFound(t)
  /\ LET o == Top(t).o IN
     /\ status' = [status EXCEPT ![o] =
                     IF name[o] \in program.preverified THEN "verified" ELSE "resolved"]
     /\ super' = [super EXCEPT ![o] = Top(t).res]
     /\ NotifyAllAndUnlock(o)
     /\ Return(t, o)
  /\ UNCHANGED <<table, name, initThreadId, resolved, bounds, runs, aborted>>

\* The superclass was not found, or it or something else does not suit.
LinkFails(t) ==
  /\ \/ At(t, "find", "linkSuper") /\ Top(t).res = None /\ Count(FALSE)
     \/ SuperFound(t) /\ mishaps < MaxMishaps /\ Count(TRUE)
  /\ LET o == Top(t).o IN
     /\ table' = [table EXCEPT ![name[o]] = None]
     /\ status' = [status EXCEPT ![o] = "error"]
     /\ initThreadId' = [initThreadId EXCEPT ![o] = Nobody]
     /\ NotifyAllAndUnlock(o)
     /\ Return(t, None)
  /\ UNCHANGED <<super, name, resolved, program, calls, interrupts, runs, aborted>>

\* The class is there but may not be linked yet.
GotClass(t) ==
  /\ At(t, "find", "got")
  /\ LET o == Top(t).o IN
     Goto(t, IF IsClassLinked(o) \/ status[o] = "error" THEN "check" ELSE "lock")
  /\ UNCHANGED <<classes, bounds, runs, aborted>>

\* If this thread itself is linking it, the hierarchy is circular.
AwaitLink(t) ==
  /\ At(t, "find", "lock") /\ Lockable(t, Top(t).o)
  /\ LET o == Top(t).o IN
     IF IsClassLinked(o) \/ status[o] = "error" THEN Goto(t, "check") /\ UNCHANGED waiting
     ELSE IF initThreadId[o] = t THEN Return(t, None) /\ UNCHANGED waiting
     ELSE waiting' = [waiting EXCEPT ![o] = @ \cup {t}] /\ Goto(t, "parked")
  /\ UNCHANGED <<names, status, initThreadId, monitor, bounds, runs, aborted>>

CheckFound(t) ==
  /\ At(t, "find", "check")
  /\ LET o == Top(t).o IN Return(t, IF status[o] = "error" THEN None ELSE o)
  /\ UNCHANGED <<classes, bounds, runs, aborted>>

-----------------------------------------------------------------------------
(* dvmInitClass                                                            *)

LockClass(t) ==
  /\ At(t, "init", "lock") /\ Lock(t, Top(t).o)
  /\ Goto(t, "examine")
  /\ UNCHANGED <<names, status, initThreadId, waiting, bounds, runs, aborted>>

Unlock(o) == monitor' = [monitor EXCEPT ![o] = Nobody] /\ UNCHANGED waiting

Examine(t, statuses) == At(t, "init", "examine") /\ status[Top(t).o] \in statuses

VerifyClass(t) ==
  /\ Examine(t, {"resolved"})
  /\ status' = [status EXCEPT ![Top(t).o] = "verified"]
  /\ UNCHANGED <<names, initThreadId, monitor, waiting, bounds, stack, runs, aborted>>

\* The verifier or validateSuperDescriptors rejects the class.
RejectClass(t) ==
  /\ Examine(t, {"resolved", "verified"}) /\ mishaps < MaxMishaps
  /\ status' = [status EXCEPT ![Top(t).o] = "error"]
  /\ Unlock(Top(t).o)
  /\ Count(TRUE) /\ Return(t, None)
  /\ UNCHANGED <<names, initThreadId, program, calls, interrupts, runs, aborted>>

\* Done, failed earlier, or being initialised by this very thread.
NothingToDo(t) ==
  /\ \/ Examine(t, {"initialized", "error"})
     \/ Examine(t, {"initializing"}) /\ initThreadId[Top(t).o] = t
  /\ LET o == Top(t).o IN Unlock(o) /\ Return(t, IF status[o] = "error" THEN None ELSE o)
  /\ UNCHANGED <<names, status, initThreadId, bounds, runs, aborted>>

\* The other thread may store CLASS_ERROR, without the lock, before this one
\* sleeps.
WaitForInit(t) ==
  /\ Examine(t, {"initializing"}) /\ initThreadId[Top(t).o] # t
  /\ Goto(t, "wait")
  /\ UNCHANGED <<classes, bounds, runs, aborted>>

Park(t) ==
  /\ At(t, "init", "wait")
  /\ LET o == Top(t).o IN
     monitor' = [monitor EXCEPT ![o] = Nobody] /\ waiting' = [waiting EXCEPT ![o] = @ \cup {t}]
  /\ Goto(t, "parked")
  /\ UNCHANGED <<names, status, initThreadId, bounds, runs, aborted>>

\* Object.wait() returns, here or in findClassNoInit, with the object locked.
Awake(t) ==
  /\ \E fn \in {"find", "init"} : At(t, fn, "parked")
  /\ t \notin waiting[Top(t).o]
  /\ Goto(t, "lock")
  /\ UNCHANGED <<classes, bounds, runs, aborted>>

\* interruptShouldThrow is false: an interrupt only wakes the thread.
Interrupt(t) ==
  /\ interrupts < MaxInterrupts /\ ~aborted
  /\ \E o \in ClassObject : t \in waiting[o]
  /\ waiting' = [o \in ClassObject |-> waiting[o] \ {t}]
  /\ interrupts' = interrupts + 1
  /\ UNCHANGED <<names, status, initThreadId, monitor, program, calls, mishaps, stack, runs, aborted>>

BeginInit(t) ==
  /\ Examine(t, {"verified"})
  /\ LET o == Top(t).o IN
     /\ initThreadId' = [initThreadId EXCEPT ![o] = t]
     /\ status' = [status EXCEPT ![o] = "initializing"]
     /\ Unlock(o) /\ Goto(t, "super")
  /\ UNCHANGED <<names, bounds, runs, aborted>>

SuperReady(s) == status[s] = "initialized"

InitSuper(t) ==
  /\ At(t, "init", "super")
  /\ LET s == super[Top(t).o] IN
     IF s = None \/ SuperReady(s) THEN Goto(t, "clinit")
     ELSE Call(t, "superDone", Frame("init", name[s], s, "lock"))
  /\ UNCHANGED <<classes, bounds, runs, aborted>>

SuperFailed(t) ==
  /\ At(t, "init", "superDone") /\ Top(t).res = None
  /\ status' = [status EXCEPT ![Top(t).o] = "error"]
  /\ Goto(t, "notify")
  /\ UNCHANGED <<names, initThreadId, monitor, waiting, bounds, runs, aborted>>

\* Mutant of NotifyFailure: those who wait for the subclass are forgotten.
ForgetWaiters(o) == UNCHANGED <<monitor, waiting>>
NotifyFailure(o) == NotifyAllAndUnlock(o)

NotifyError(t) ==
  /\ At(t, "init", "notify") /\ monitor[Top(t).o] = Nobody
  /\ NotifyFailure(Top(t).o)
  /\ Return(t, None)
  /\ UNCHANGED <<names, status, initThreadId, bounds, runs, aborted>>

BeginClinit(t) ==
  /\ At(t, "init", "clinit") \/ (At(t, "init", "superDone") /\ Top(t).res # None)
  /\ runs' = [runs EXCEPT ![name[Top(t).o]] = @ + 1]
  /\ Goto(t, "run")
  /\ UNCHANGED <<classes, bounds, aborted>>

Uses(t) == program.uses[name[Top(t).o]]
ClinitThrew(t) == At(t, "init", "used") /\ Top(t).res = None
InClinit(t) == At(t, "init", "run") \/ (At(t, "init", "used") /\ Top(t).res # None)

ClinitUses(t) ==
  /\ InClinit(t) /\ Top(t).i < Len(Uses(t))
  /\ LET i == Top(t).i + 1 IN
     CallFrom(t, [Top(t) EXCEPT !.pc = "used", !.i = i], Frame("use", Uses(t)[i], None, "start"))
  /\ UNCHANGED <<classes, bounds, runs, aborted>>

EndClinit(t) ==
  \E thrown \in BOOLEAN :
    /\ \/ ClinitThrew(t) /\ thrown /\ Count(FALSE)
       \/ InClinit(t) /\ Top(t).i = Len(Uses(t)) /\ thrown \in MayFail /\ Count(thrown)
    /\ LET o == Top(t).o IN
       /\ monitor[o] = Nobody
       /\ status' = [status EXCEPT ![o] = IF thrown THEN "error" ELSE "initialized"]
       /\ NotifyAllAndUnlock(o)
       /\ Return(t, IF thrown THEN None ELSE o)
    /\ UNCHANGED <<names, initThreadId, program, calls, interrupts, runs, aborted>>

-----------------------------------------------------------------------------
(* dvmResolveStaticField                                                   *)

ResolveStaticField(t) ==
  /\ At(t, "use", "start")
  /\ LET d == Top(t).d IN
     IF resolved[d] # None THEN GotoWith(t, resolved[d], "use")
     ELSE Call(t, "found", Frame("find", d, None, "lookup"))
  /\ UNCHANGED <<classes, bounds, runs, aborted>>

InitFieldClass(t) ==
  /\ At(t, "use", "found")
  /\ LET o == Top(t).res
         found == [Top(t) EXCEPT !.o = o] IN
     IF o = None THEN Return(t, None)
     ELSE IF status[o] = "initialized" THEN GotoWith(t, o, "cache")
     ELSE CallFrom(t, [found EXCEPT !.pc = "initDone"], Frame("init", found.d, o, "lock"))
  /\ UNCHANGED <<classes, bounds, runs, aborted>>

\* Mutant of Cacheable: a class this thread is still initialising is cached.
CacheableAlways(o) == TRUE
Cacheable(o) == status[o] = "initialized"

SetResolvedField(t) ==
  /\ \/ At(t, "use", "cache")
     \/ At(t, "use", "initDone") /\ Top(t).res # None
  /\ LET o == Top(t).o IN
     resolved' = IF Cacheable(o) THEN [resolved EXCEPT ![Top(t).d] = o] ELSE resolved
  /\ Goto(t, "use")
  /\ UNCHANGED <<super, table, name, status, initThreadId, monitor, waiting, bounds, runs, aborted>>

ResolveFails(t) ==
  /\ At(t, "use", "initDone") /\ Top(t).res = None
  /\ Return(t, None)
  /\ UNCHANGED <<classes, bounds, runs, aborted>>

UseField(t) ==
  /\ At(t, "use", "use")
  /\ Return(t, Top(t).o)
  /\ UNCHANGED <<classes, bounds, runs, aborted>>

-----------------------------------------------------------------------------
Begin(t) ==
  /\ stack[t] = <<>> /\ calls[t] < MaxCalls /\ ~aborted
  /\ \E d \in Names : stack' = [stack EXCEPT ![t] = <<Frame("use", d, None, "start")>>]
  /\ calls' = [calls EXCEPT ![t] = @ + 1]
  /\ UNCHANGED <<classes, program, mishaps, interrupts, runs, aborted>>

Init ==
  /\ program \in Programs
  /\ table = [d \in Names |-> None] /\ resolved = [d \in Names |-> None]
  /\ name = [o \in ClassObject |-> NoName] /\ status = [o \in ClassObject |-> "free"]
  /\ super = [o \in ClassObject |-> None]
  /\ initThreadId = [o \in ClassObject |-> Nobody] /\ monitor = [o \in ClassObject |-> Nobody]
  /\ waiting = [o \in ClassObject |-> {}]
  /\ stack = [t \in Threads |-> <<>>] /\ calls = [t \in Threads |-> 0]
  /\ mishaps = 0 /\ interrupts = 0
  /\ runs = [d \in Names |-> 0] /\ aborted = FALSE

Find(t) == \/ LookupClass(t) \/ LoadFails(t) \/ AddClassToHash(t) \/ LoseRace(t) \/ LookupWinner(t)
           \/ LinkSuper(t) \/ Linked(t) \/ LinkFails(t)
           \/ GotClass(t) \/ AwaitLink(t) \/ CheckFound(t)
InitClass(t) == \/ LockClass(t) \/ VerifyClass(t) \/ RejectClass(t) \/ NothingToDo(t)
                \/ WaitForInit(t) \/ Park(t) \/ Awake(t)
                \/ BeginInit(t) \/ InitSuper(t) \/ SuperFailed(t) \/ NotifyError(t)
                \/ BeginClinit(t) \/ ClinitUses(t) \/ EndClinit(t)
Resolve(t) == \/ ResolveStaticField(t) \/ InitFieldClass(t) \/ SetResolvedField(t)
              \/ ResolveFails(t) \/ UseField(t)

Continue(t) == Find(t) \/ InitClass(t) \/ Resolve(t)
Next == \E t \in Threads : Begin(t) \/ Continue(t) \/ Interrupt(t)

\* A thread that can go on does; an interrupt need not come.
Spec == Init /\ [][Next]_vars /\ \A t \in Threads : WF_vars(Continue(t))

-----------------------------------------------------------------------------
(* Properties.                                                             *)

Usable(t, o) == status[o] = "initialized" \/ (status[o] = "initializing" /\ initThreadId[o] = t)

\* A thread uses a static field, and runs a <clinit>, only when the class
\* (the superclass) is initialised, or is being initialised by that thread:
\* what the comment in dvmResolveStaticField calls waiting for class init.
InitBeforeUse ==
  \A t \in Threads :
    /\ At(t, "use", "use") => Usable(t, Top(t).o)
    /\ (At(t, "init", "run") \/ At(t, "init", "used")) /\ super[Top(t).o] # None =>
         Usable(t, super[Top(t).o])

\* The <clinit> of a name runs once, however many threads ask for it, load
\* it at the same time or meet it half initialised.
ClinitOnce == \A d \in Names : runs[d] <= 1

\* Whom a thread waits for: the owner of the lock, or who initialises the class.
BlockedOn(t) ==
  IF stack[t] = <<>> THEN Nobody
  ELSE LET o == Top(t).o IN
    IF Top(t).pc = "parked" /\ t \in waiting[o] THEN initThreadId[o]
    ELSE IF Top(t).pc \in {"lock", "notify"} THEN monitor[o]
    ELSE Nobody
Circle == \E S \in SUBSET Threads \ {{}} : \A t \in S : BlockedOn(t) \in S

\* Every use of a class ends, in success or with an exception, except for the
\* deadlock the comment of dvmInitClass describes, in which threads wait for
\* each other in a circle: no wakeup is lost.
UsesReturn ==
  \A t \in Threads : stack[t] # <<>> ~> (stack[t] = <<>> \/ Circle \/ aborted)

\* dvmAddClassToHash found another class of the name: assert(clazz != NULL).
WinnerIsThere == ~aborted
=============================================================================
