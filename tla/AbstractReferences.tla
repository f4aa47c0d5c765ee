------------------------- MODULE AbstractReferences -------------------------
(***************************************************************************)
(* What JNI code may expect of references: one is handed out for an        *)
(* object, is new, and leads to this object until it is deleted from its   *)
(* own frame or the frame is popped; then it leads nowhere, for good.      *)
(***************************************************************************)
EXTENDS Naturals

CONSTANTS Objects, References

VARIABLES held,     \* of [ref, obj, level]: what leads where
          level,    \* the number of frames
          issued    \* references ever handed out

Give(obj, to, keep) ==
  \E ref \in References \ issued :
    /\ held' = keep \cup {[ref |-> ref, obj |-> obj, level |-> to]}
    /\ issued' = issued \cup {ref}

Add == /\ \E obj \in Objects : Give(obj, level, held)
       /\ UNCHANGED level

Delete == /\ \E ref \in issued : held' = {h \in held : h.ref # ref \/ h.level # level}
          /\ UNCHANGED <<level, issued>>

Push == level' = level + 1 /\ UNCHANGED <<held, issued>>

Below(to) == {h \in held : h.level <= to}
Pop == \E to \in 0..(level - 1) :
         /\ level' = to
         /\ \/ held' = Below(to) /\ UNCHANGED issued
            \/ \E obj \in Objects : Give(obj, to, Below(to))

Init == held = {} /\ level = 0 /\ issued = {}
Next == Add \/ Delete \/ Push \/ Pop
Spec == Init /\ [][Next]_<<held, level, issued>>
=============================================================================
