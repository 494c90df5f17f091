---------------------------- MODULE Interception ---------------------------
(* Which dials a public rule's matcher intercepts                            *)
(* (internal/server/private_targets.go).                                     *)
(*                                                                           *)
(* A host or a pattern is a string cut at its dots: the sequence of what     *)
(* stands between them, be it a label of a name or an octet of an address,   *)
(* which this code does not tell apart.                                      *)
EXTENDS Integers, Sequences

IsWildcard(pattern) == Len(pattern) > 1 /\ Head(pattern) = "*"

(* domainPatternMatchesHost: the very host, or one label under a wildcard.   *)
DomainPatternMatchesHost(pattern, host) ==
  IF IsWildcard(pattern)
  THEN Len(host) > 1 /\ Head(host) # "" /\ Tail(host) = Tail(pattern)
  ELSE pattern = host

(* portsOverlap, of ports kept as sets.                                      *)
PortsOverlap(rulePorts, interceptPorts) ==
  rulePorts \cap interceptPorts # {}

=============================================================================
