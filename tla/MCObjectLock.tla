---------------------------- MODULE MCObjectLock ----------------------------
(***************************************************************************)
(* Instances of ObjectLock for TLC: threads are interchangeable in the     *)
(* runs that check invariants.                                             *)
(***************************************************************************)
EXTENDS ObjectLock, TLC

Symmetry == Permutations(Threads)
=============================================================================
