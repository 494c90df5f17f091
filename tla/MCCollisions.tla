---------------------------- MODULE MCCollisions ---------------------------
(* Instances of InterceptCollisions: one public rule whose matcher moves on  *)
(* and off a private resource's host, one private rule of that resource.     *)
EXTENDS InterceptCollisions

MCResourceOf == [r \in PrivateRules |-> "x1"]

MCInterceptOf == [x \in ResourceIds |->
  [host |-> <<"gitlab", "corp">>, ports |-> {443}]]

MCMatchers ==
  {[pattern |-> <<"*", "corp">>, ports |-> {80, 443}],
   [pattern |-> <<"gitlab", "corp">>, ports |-> {80}]}
=============================================================================
