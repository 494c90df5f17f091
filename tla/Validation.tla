----------------------------- MODULE Validation ----------------------------
(* What a rule's matcher, effect and upstream_tls must look like             *)
(* (internal/server/validation.go): each operator takes a part as a client   *)
(* sent it, or as it is stored, and gives the part to store, or Refused.     *)
(* Parts have one shape, sent or stored, because an update validates stored  *)
(* parts again together with the ones it brings.                             *)
(*                                                                           *)
(* Left out: name, description and path, which are only trimmed, and the     *)
(* white space around every other value.  None is an absent message or a     *)
(* blank value.                                                              *)
EXTENDS Interception, FiniteSets, SequencesExt

CONSTANTS Lower,            \* strings.ToLower of the labels in use
          ParseIP,          \* net.ParseIP: the bits of strings that are IPv4
          ParseCIDR,        \* net.ParseCIDR: the bits of their prefixes
          Upper,            \* strings.ToUpper of the methods in use
          FoldName,         \* strings.ToLower of the header names in use
          Delimited,        \* names and user names with a CR, an LF or a colon
          SecretIds,        \* well-formed secret ids
          ResourceIds,      \* well-formed private resource ids
          AddressBits,      \* bound: bits of an address (32 in IPv4)
          CarrierGradeNAT,  \* prefix of the reserved block (100.64.0.0/10)
          None, Refused

---------------------------------------------------------------------------
(* What a message can carry: the fields there are and what may stand in      *)
(* each, valid or not.  A pattern is a string cut at its dots; ParseIP and   *)
(* ParseCIDR are defined where package net succeeds and gives an IPv4        *)
(* address or block, which are all the reserved block can meet.              *)

Bit == {0, 1}

PatternForm == Seq(DOMAIN Lower)

MatcherForm ==
  [pattern : PatternForm \cup {None}, resource : STRING \cup {None},
   ports : SUBSET Int, methods : SUBSET (DOMAIN Upper \cup {None})]

HeaderForm ==
  [name : STRING \cup {None}, scheme : STRING, username : STRING \cup {None},
   credential : {"absent", "value", "secret"}, value : STRING \cup {None}]

EffectForm == [action : STRING, inject : Seq(HeaderForm \cup {None})]

TLSForm ==
  [server : STRING \cup {None},
   trust : {"absent", "ca_bundle", "insecure", "verify"},
   ca : STRING \cup {None}]

RuleForm ==
  [matcher : MatcherForm \cup {None}, effect : EffectForm \cup {None},
   tls : TLSForm \cup {None}]

ASSUME ValidationAssumption ==
  /\ AddressBits \in Nat
  /\ CarrierGradeNAT \in Seq(Bit) /\ Len(CarrierGradeNAT) <= AddressBits
  /\ ParseIP \in [DOMAIN ParseIP -> [1..AddressBits -> Bit]]
  /\ ParseCIDR \in [DOMAIN ParseCIDR ->
                       UNION {[1..n -> Bit] : n \in 0..AddressBits}]
  /\ DOMAIN ParseIP \cap DOMAIN ParseCIDR = {}
  /\ Lower \in [DOMAIN Lower -> DOMAIN Lower]
  /\ Upper \in [DOMAIN Upper -> DOMAIN Upper]
  /\ \A l \in DOMAIN Lower : Lower[Lower[l]] = Lower[l]
  /\ \A m \in DOMAIN Upper : Upper[Upper[m]] = Upper[m]
  /\ None \notin SecretIds \cup ResourceIds \cup DOMAIN Upper \cup {Refused}
  /\ None \notin PatternForm \cup MatcherForm \cup EffectForm \cup TLSForm

---------------------------------------------------------------------------
(* Domain patterns.                                                          *)

Lowered(pattern) == [i \in DOMAIN pattern |-> Lower[pattern[i]]]

ReservedSuffixes == {<<"agyn">>, <<"svc">>, <<"cluster", "local">>}

(* The zone a wildcard stands for, or the pattern itself.                    *)
TrimmedWildcard(pattern) ==
  IF IsWildcard(pattern) THEN Tail(pattern) ELSE pattern

(* net.IPNet's IP and Contains.                                              *)
FirstAddress(block) ==
  [i \in 1..AddressBits |-> IF i <= Len(block) THEN block[i] ELSE 0]

Covers(block, address) == IsPrefix(block, address)

(* Mutation: one direction only.                                             *)
CidrOverlap_OneWay(a, b) == Covers(b, FirstAddress(a))

CidrOverlap(a, b) ==
  Covers(a, FirstAddress(b)) \/ Covers(b, FirstAddress(a))

OverlapsCarrierGradeNAT(pattern) ==
  IF pattern \in DOMAIN ParseIP THEN Covers(CarrierGradeNAT, ParseIP[pattern])
  ELSE /\ pattern \in DOMAIN ParseCIDR
       /\ CidrOverlap(ParseCIDR[pattern], CarrierGradeNAT)

(* rejectReservedDomainPattern.                                              *)
IsReserved(pattern) ==
  \/ \E s \in ReservedSuffixes : IsSuffix(s, TrimmedWildcard(pattern))
  \/ OverlapsCarrierGradeNAT(pattern)

---------------------------------------------------------------------------
(* The matcher.                                                              *)

Ports == 1..65535

ServiceDefaultPorts == {80, 443}

(* Mutation: no ports stay no ports.                                         *)
ValidatePorts_NoDefault(ports) ==
  IF ports \subseteq Ports THEN ports ELSE Refused

(* No ports are the default ones.                                            *)
ValidatePorts(ports) ==
  LET chosen == IF ports = {} THEN ServiceDefaultPorts ELSE ports IN
  IF chosen \subseteq Ports THEN chosen ELSE Refused

ValidateMethods(methods) ==
  IF None \in methods THEN Refused ELSE {Upper[m] : m \in methods}

(* Mutation: reserved patterns are looked for before the case is folded.     *)
ValidatePublicMatcher_RawCheck(matcher) ==
  LET pattern == Lowered(matcher.pattern)
      ports   == ValidatePorts(matcher.ports)
      methods == ValidateMethods(matcher.methods) IN
  IF ports = Refused \/ methods = Refused \/ IsReserved(matcher.pattern) THEN Refused
  ELSE [pattern |-> pattern, resource |-> None,
        ports |-> ports, methods |-> methods]

ValidatePublicMatcher(matcher) ==
  LET pattern == Lowered(matcher.pattern)
      ports   == ValidatePorts(matcher.ports)
      methods == ValidateMethods(matcher.methods) IN
  IF ports = Refused \/ methods = Refused \/ IsReserved(pattern) THEN Refused
  ELSE [pattern |-> pattern, resource |-> None,
        ports |-> ports, methods |-> methods]

ValidatePrivateMatcher(matcher) ==
  LET methods == ValidateMethods(matcher.methods) IN
  IF \/ matcher.resource \notin ResourceIds
     \/ matcher.ports # {}
     \/ methods = Refused
  THEN Refused
  ELSE [matcher EXCEPT !.methods = methods]

(* One of a pattern and a resource.                                          *)
ValidateMatcher(matcher) ==
  IF \/ matcher = None
     \/ (matcher.pattern = None) <=> (matcher.resource = None)
  THEN Refused
  ELSE IF matcher.resource = None THEN ValidatePublicMatcher(matcher)
                                  ELSE ValidatePrivateMatcher(matcher)

---------------------------------------------------------------------------
(* The effect.                                                               *)

IsNoopEffect(effect) ==
  \/ effect = None
  \/ effect.action \notin {"allow", "deny"} /\ effect.inject = <<>>

(* A user name goes with the basic scheme and only with it; the credential   *)
(* is a value or the id of a secret.                                         *)
ValidHeader(header) ==
  /\ header # None
  /\ header.name # None /\ header.name \notin Delimited
  /\ header.scheme \in {"unspecified", "bearer", "basic"}
  /\ header.scheme = "basic" => header.username \notin Delimited
  /\ header.scheme = "basic" <=> header.username # None
  /\ \/ header.credential = "value" /\ header.value # None
     \/ header.credential = "secret" /\ header.value \in SecretIds

ValidateEffect(effect) ==
  LET inject == effect.inject IN
  IF /\ effect.action \in {"absent", "allow", "deny"}
     /\ \A i \in DOMAIN inject : ValidHeader(inject[i])
     /\ \A i, j \in DOMAIN inject :
          FoldName[inject[i].name] = FoldName[inject[j].name] => i = j
  THEN effect ELSE Refused

---------------------------------------------------------------------------
(* upstream_tls, of a private matcher only.                                  *)

(* What trust with insecure_skip_verify = false and no server name is stored *)
(* as: a block with every field empty.                                       *)
EmptyTLS == [server |-> None, trust |-> "absent", ca |-> None]

ValidateUpstreamTLS(tls, matcher) ==
  IF tls = None THEN None
  ELSE IF matcher.resource = None THEN Refused
  ELSE CASE tls.trust = "ca_bundle" ->
              IF tls.ca \in SecretIds THEN tls ELSE Refused
         [] tls.trust = "insecure" -> tls
         [] tls.trust = "verify" -> [tls EXCEPT !.trust = "absent", !.ca = None]
         [] tls.trust = "absent" ->
              IF tls.server = None THEN None ELSE tls

---------------------------------------------------------------------------
(* validateRuleInput.                                                        *)

ValidateRuleInput(rule) ==
  LET matcher == ValidateMatcher(rule.matcher) IN
  IF IsNoopEffect(rule.effect) \/ matcher = Refused THEN Refused
  ELSE
    LET effect == ValidateEffect(rule.effect)
        tls    == ValidateUpstreamTLS(rule.tls, matcher) IN
    IF effect = Refused \/ tls = Refused THEN Refused
    ELSE [matcher |-> matcher, effect |-> effect, tls |-> tls]

InjectedSecrets(rule) ==
  {rule.effect.inject[i].value : i \in
     {j \in DOMAIN rule.effect.inject :
        rule.effect.inject[j].credential = "secret"}}

(* The SecretIDs of validateRuleInput, which validateSecrets resolves.       *)
SecretIDs(rule) ==
  InjectedSecrets(rule) \cup
    (IF rule.tls # None /\ rule.tls.trust = "ca_bundle" THEN {rule.tls.ca}
     ELSE {})

---------------------------------------------------------------------------
(* Queries over the JSON columns of a stored rule (internal/store/store.go). *)

(* Mutation: only injected headers are searched.                             *)
ReferencesSecret_Headers(rule, secret) ==
  \E i \in DOMAIN rule.effect.inject :
    /\ rule.effect.inject[i].credential = "secret"
    /\ rule.effect.inject[i].value = secret

(* The WHERE clause of CountRulesReferencingSecret.                          *)
ReferencesSecret(rule, secret) ==
  \/ \E i \in DOMAIN rule.effect.inject :
       /\ rule.effect.inject[i].credential = "secret"
       /\ rule.effect.inject[i].value = secret
  \/ rule.tls # None /\ rule.tls.trust = "ca_bundle" /\ rule.tls.ca = secret

(* That of CountRulesReferencingPrivateResource.                             *)
ReferencesResource(rule, resource) == rule.matcher.resource = resource

=============================================================================
