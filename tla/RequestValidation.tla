------------------------- MODULE RequestValidation -------------------------
(* One request after another through validateRuleInput, and what the answer  *)
(* means to those who read it later: the update that validates a stored rule *)
(* again, the sidecar that intercepts what a stored matcher says, and the    *)
(* Secrets service that asks which rules name a secret.                      *)
EXTENDS Validation

CONSTANTS Inputs,    \* rules as clients send them
          Hosts      \* destinations workloads dial, names and addresses

ASSUME RequestAssumption ==
  /\ Inputs \subseteq RuleForm
  /\ Hosts \subseteq Seq(STRING)

VARIABLES input,    \* the rule sent, None before
          verdict   \* what validation made of it, None before

validationVars == <<input, verdict>>

ValidationInit == input = None /\ verdict = None

Send ==
  /\ input = None
  /\ input' \in Inputs
  /\ UNCHANGED verdict

Validate ==
  /\ input # None /\ verdict = None
  /\ verdict' = ValidateRuleInput(input)
  /\ UNCHANGED input

Answer ==
  /\ verdict # None
  /\ input' = None /\ verdict' = None

ValidationNext == Send \/ Validate \/ Answer

ValidationSpec == ValidationInit /\ [][ValidationNext]_validationVars

---------------------------------------------------------------------------
(* Properties.                                                               *)

Accepted == verdict \notin {None, Refused}

(* A stored rule without an empty TLS block.                                 *)
Settled(rule) == IF rule.tls = EmptyTLS THEN [rule EXCEPT !.tls = None] ELSE rule

(* What was accepted once is accepted again and stays as it is, whatever     *)
(* form it was sent in, an empty TLS block apart, which goes: else an update *)
(* of one part would be refused, or would change the others, because of what *)
(* an earlier request had stored (service.go's UpdateEgressRule passes the   *)
(* stored parts through validateRuleInput).                                  *)
Stable == Accepted => ValidateRuleInput(verdict) = Settled(verdict)

BelowReserved(host) ==
  \E s \in ReservedSuffixes : IsSuffix(s, host) /\ s # host

IsReservedAddress(host) ==
  host \in DOMAIN ParseIP /\ Covers(CarrierGradeNAT, ParseIP[host])

InBlock(host, pattern) ==
  /\ host \in DOMAIN ParseIP /\ pattern \in DOMAIN ParseCIDR
  /\ Covers(ParseCIDR[pattern], ParseIP[host])

(* How far rejectReservedDomainPattern protects the platform's own names and *)
(* OpenZiti's intercept addresses.  No accepted pattern catches a host below *)
(* a reserved suffix, nor is one a block with a reserved address in it.  A   *)
(* reserved suffix itself and a reserved address are caught by wildcards     *)
(* only, and by some they are: *.local is accepted and catches cluster.local *)
(* and *.64.0.1, which is neither an address nor a block, catches 100.64.0.1 *)
(* (domainPatternMatchesHost).                                               *)
ReservedOnlyByWildcard ==
  Accepted /\ verdict.matcher.resource = None =>
    LET pattern == verdict.matcher.pattern IN
    \A host \in Hosts :
      /\ DomainPatternMatchesHost(pattern, host) =>
           /\ ~BelowReserved(host)
           /\ host \in ReservedSuffixes \/ IsReservedAddress(host) =>
                IsWildcard(pattern)
      /\ InBlock(host, pattern) => ~IsReservedAddress(host)

(* The secrets a write resolves are the secrets the Secrets service is later *)
(* told of: no secret is stored unchecked, none is checked and then free to  *)
(* go while the rule names it (validateSecrets against                       *)
(* CountRulesReferencingSecret).                                             *)
CheckedIsCounted ==
  Accepted =>
    SecretIDs(verdict) = {s \in SecretIds : ReferencesSecret(verdict, s)}

(* The ports of an accepted public rule are the intercept's, never none, and *)
(* those of a private rule are its resource's; every stored rule has an      *)
(* effect and one destination.                                               *)
ValidationTypeOK ==
  Accepted =>
    /\ (verdict.matcher.pattern = None) # (verdict.matcher.resource = None)
    /\ verdict.matcher.ports \subseteq Ports
    /\ (verdict.matcher.ports = {}) <=> (verdict.matcher.pattern = None)
    /\ verdict.tls # None => verdict.matcher.resource \in ResourceIds
    /\ SecretIDs(verdict) \subseteq SecretIds

=============================================================================
