--------------------------- MODULE MCAuthorization -------------------------
(* Instances of Authorization: two organizations, an agent in the first and  *)
(* an environment in the second.                                             *)
EXTENDS Authorization, TLC

Interchangeable == Permutations(Callers)

MCHomeOf == [t \in Targets |-> IF t \in Agents THEN "acme" ELSE "beta"]
=============================================================================
