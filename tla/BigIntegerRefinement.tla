------------------------ MODULE BigIntegerRefinement ------------------------
(***************************************************************************)
(* BigInteger implements IntegerRegisters: each object stands for an         *)
(* integer, and each call computes with those.                               *)
(***************************************************************************)
EXTENDS BigInteger

\* What the objects hold and what the calls do is arithmetic of integers: no
\* carry, borrow, block, sign or correction is lost, whatever the objects have
\* in common, and a call that throws changes nothing
\* but the object that a difference was to be put in.
Abstract == INSTANCE IntegerRegisters WITH val <- [z \in Objects |-> Held(reg[z])]
ImplementsIntegers == Abstract!Spec
=============================================================================
