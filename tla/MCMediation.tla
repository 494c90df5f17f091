----------------------------- MODULE MCMediation ---------------------------
(* Instances of Mediation: rules created, changed and deleted while Networks *)
(* passes run.                                                               *)
EXTENDS Mediation
=============================================================================
