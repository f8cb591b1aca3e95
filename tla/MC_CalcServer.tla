----------------------------- MODULE MC_CalcServer -----------------------------
(* CalcServer with a few session objects: one per slot, one that waits and    *)
(* one for a connection that is being handled.                                *)
EXTENDS CalcServer, TLC

CONSTANTS s1, s2, s3, s4

MCSessions == {s1, s2, s3, s4}

\* The objects are interchangeable.
Objects == Permutations(MCSessions)
================================================================================
