---------------------------- MODULE IndirectRefs ----------------------------
(***************************************************************************)
(* A table of JNI references (vm/IndirectRefTable.cpp) in the hands of a   *)
(* thread's frames (vm/Jni.cpp, vm/interp/Stack.cpp, vm/JniInternal.h).  A *)
(* frame's cookie is the segment state at the time it was pushed: index of *)
(* the first free slot and number of holes below it.  The tables of global *)
(* and weak global references are the case of no frames.                   *)
(*                                                                         *)
(* A reference is its index and serial number; its kind, and direct        *)
(* pointers for applications with bugs, are left out.                      *)
(***************************************************************************)
EXTENDS Sequences, FiniteSetsExt

CONSTANTS Objects, Null,
          Junk,        \* what a slot holds before its first use
          InitialCount, MaxCount,
          Serials,     \* 2^12 in the code
          MaxFrames,
          MaxAdds      \* references handed out

ASSUME TableAssumption ==
  /\ InitialCount \in Nat \ {0} /\ MaxCount \in Nat /\ InitialCount <= MaxCount
  /\ Serials \in Nat \ {0} /\ MaxAdds \in Nat /\ Null \notin Objects

VARIABLES slots,                \* table_, as far as it is allocated
          topIndex, numHoles,   \* segmentState
          cookies,              \* of the frames
          issued                \* history: references handed out

refVars == <<slots, topIndex, numHoles, cookies, issued>>

Cookie == [topIndex |-> topIndex, numHoles |-> numHoles]
FirstSegment == [topIndex |-> 0, numHoles |-> 0]
CookieOf(frames) == IF frames = <<>> THEN FirstSegment ELSE frames[Len(frames)]
Allocated == Cardinality(DOMAIN slots)

\* IndirectRefTable::get: the object, or Null for kInvalidIndirectRefObject.
Get(ref) ==
  IF ref.index < topIndex /\ slots[ref.index].serial = ref.serial
  THEN slots[ref.index].obj ELSE Null

\* Mutant of nextSerial: a slot that is used again has the same references.
SameSerial(serial) == serial
nextSerial(serial) == (serial + 1) % Serials

-----------------------------------------------------------------------------
(* IndirectRefTable::add, in segment state seg.                            *)

Allocate(seg) ==
  IF seg.topIndex < Allocated THEN slots
  ELSE [i \in 0..(Min({2 * Allocated, MaxCount}) - 1) |->
          IF i < Allocated THEN slots[i] ELSE [obj |-> Junk, serial |-> 0]]

\* The last hole of the segment, or a new slot.
HasHole(seg, cookie) == seg.numHoles > cookie.numHoles
Room(seg, cookie) == HasHole(seg, cookie) \/ seg.topIndex < MaxCount
FreeSlot(seg, cookie) ==
  IF HasHole(seg, cookie) THEN Max({i \in 0..(seg.topIndex - 2) : slots[i].obj = Null})
  ELSE seg.topIndex

AddTo(seg, cookie, obj) ==
  LET hole   == HasHole(seg, cookie)
      at     == FreeSlot(seg, cookie)
      table  == IF hole THEN slots ELSE Allocate(seg)
      serial == nextSerial(table[at].serial)
  IN /\ slots' = [table EXCEPT ![at] = [obj |-> obj, serial |-> serial]]
     /\ topIndex' = IF hole THEN seg.topIndex ELSE seg.topIndex + 1
     /\ numHoles' = IF hole THEN seg.numHoles - 1 ELSE seg.numHoles
     /\ issued' = issued \cup {[index |-> at, serial |-> serial]}

\* A full table aborts the VM.
AddReference ==
  /\ Cardinality(issued) < MaxAdds /\ Room(Cookie, CookieOf(cookies))
  /\ \E obj \in Objects : AddTo(Cookie, CookieOf(cookies), obj)
  /\ UNCHANGED cookies

-----------------------------------------------------------------------------
(* IndirectRefTable::remove.                                               *)

Removable(ref) ==
  /\ CookieOf(cookies).topIndex <= ref.index /\ ref.index < topIndex
  /\ slots[ref.index].obj # Null /\ slots[ref.index].serial = ref.serial

\* How many holes below the topmost slot go with it.
Consumed ==
  Max({k \in 0..(numHoles - CookieOf(cookies).numHoles) :
         /\ k <= topIndex - 1 - CookieOf(cookies).topIndex
         /\ \A j \in 1..k : slots[topIndex - 1 - j].obj = Null})

RemoveTopmost(ref) ==
  /\ Removable(ref) /\ ref.index = topIndex - 1
  /\ topIndex' = topIndex - 1 - Consumed
  /\ numHoles' = numHoles - Consumed
  /\ UNCHANGED <<slots, cookies, issued>>

RemoveInside(ref) ==
  /\ Removable(ref) /\ ref.index < topIndex - 1
  /\ slots' = [slots EXCEPT ![ref.index].obj = Null]
  /\ numHoles' = numHoles + 1
  /\ UNCHANGED <<topIndex, cookies, issued>>

-----------------------------------------------------------------------------
(* Frames of native methods and of PushLocalFrame.                         *)

PushFrame ==
  /\ Len(cookies) < MaxFrames
  /\ cookies' = Append(cookies, Cookie)
  /\ UNCHANGED <<slots, topIndex, numHoles, issued>>

\* Returning from a method pops the local frames it has left, too.
PopFrames ==
  \E to \in 0..(Len(cookies) - 1) :
    /\ cookies' = SubSeq(cookies, 1, to)
    /\ topIndex' = cookies[to + 1].topIndex /\ numHoles' = cookies[to + 1].numHoles
    /\ UNCHANGED <<slots, issued>>

\* PopLocalFrame, with a result for the frame below.
PopLocalFrame ==
  /\ cookies # <<>> /\ Cardinality(issued) < MaxAdds
  /\ cookies' = SubSeq(cookies, 1, Len(cookies) - 1)
  /\ Room(CookieOf(cookies), CookieOf(cookies'))
  /\ \E obj \in Objects : AddTo(CookieOf(cookies), CookieOf(cookies'), obj)

RefInit ==
  /\ slots = [i \in 0..(InitialCount - 1) |-> [obj |-> Junk, serial |-> 0]]
  /\ topIndex = 0 /\ numHoles = 0 /\ cookies = <<>> /\ issued = {}

RefNext == \/ AddReference \/ PushFrame \/ PopFrames \/ PopLocalFrame
           \/ \E ref \in issued : RemoveTopmost(ref) \/ RemoveInside(ref)

-----------------------------------------------------------------------------
(* Properties.                                                             *)

\* The frame that a slot in use belongs to.
LevelOf(index) == Cardinality({k \in 1..Len(cookies) : cookies[k].topIndex <= index})

Live == {r \in issued : Get(r) # Null}
Meaning(r) == [ref |-> r, obj |-> Get(r), level |-> LevelOf(r.index)]

References == INSTANCE AbstractReferences
  WITH References <- [index : 0..(MaxCount - 1), serial : 0..(Serials - 1)],
       held <- {Meaning(r) : r \in Live},
       level <- Len(cookies)

\* Every reference leads to its object until it is deleted or its frame is
\* popped, and nowhere afterwards, though slots are used again, holes are
\* filled and segment states restored.  (While serial numbers last: see
\* IndirectRefs_wrap.cfg.)
RefinesReferences == References!Spec
=============================================================================
