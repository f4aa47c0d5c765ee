--------------------------- MODULE MCClassLoading ---------------------------
(***************************************************************************)
(* Programs for ClassLoading: a superclass whose <clinit> uses its         *)
(* subclass, two classes whose <clinit>s use each other, a hierarchy that  *)
(* is circular, and a subclass used by a third class.                      *)
(***************************************************************************)
EXTENDS ClassLoading
CONSTANTS A, B

Program(sa, sb, ua, ub, pre) ==
  [super |-> [d \in Names |-> IF d = A THEN sa ELSE IF d = B THEN sb ELSE NoName],
   uses |-> [d \in Names |-> IF d = A THEN ua ELSE IF d = B THEN ub ELSE <<>>],
   preverified |-> pre]

SmallPrograms ==
  {Program(NoName, A, <<B>>, <<>>, {A}),
   Program(NoName, NoName, <<B>>, <<A>>, {}),
   Program(B, A, <<>>, <<>>, {}),
   Program(NoName, A, <<>>, <<A>>, {A, B})}
=============================================================================
