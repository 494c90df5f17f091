------------------------------ MODULE MCServer -----------------------------
(* Instances of EgressServer: the handlers against each other, without the   *)
(* reconciler.                                                               *)
EXTENDS EgressServer, TLC

Interchangeable == Permutations(Callers)
=============================================================================
