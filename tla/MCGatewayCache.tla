--------------------------- MODULE MCGatewayCache --------------------------
(* Instances of GatewayCache: one target whose rule changes under its cache. *)
EXTENDS GatewayCache, TLC

Interchangeable == Permutations(Callers)
=============================================================================
