--------------------------- MODULE MCConcurrentGC ---------------------------
(***************************************************************************)
(* Instances of ConcurrentGC for TLC.  The first heap has an object of the *)
(* zygote and weak JNI globals; the others each have a Reference of one    *)
(* kind next to a FinalizerReference, so that an object can be held by     *)
(* either, by both, or only through the finalizer.                         *)
(***************************************************************************)
EXTENDS ConcurrentGC

Shape(k, z) == [kind |-> k, zygote |-> z]
SmallHeaps ==
  {Shape(<<"data", "data", "data">>, 1)} \cup
  {Shape(<<k, "final", "data">>, 0) : k \in {"soft", "weak", "phantom"}}
=============================================================================
