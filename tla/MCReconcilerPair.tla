-------------------------- MODULE MCReconcilerPair -------------------------
(* Instances of ReconcilerPair: a rolling update while calls come in.        *)
EXTENDS ReconcilerPair
=============================================================================
