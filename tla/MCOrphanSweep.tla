---------------------------- MODULE MCOrphanSweep --------------------------
(* Instances of OrphanSweep: five names at most, on pages of two.             *)
EXTENDS OrphanSweep
=============================================================================
