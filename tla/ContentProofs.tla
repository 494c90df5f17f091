--------------------------- MODULE ContentProofs ---------------------------
(* What validation accepts, and what rules say while they are written and    *)
(* while what they name comes and goes.                                      *)
EXTENDS RuleContent, RequestValidation, TLAPS

---------------------------------------------------------------------------
(* What validation accepts it accepts again, and leaves as it is.            *)

LEMMA MethodsStable ==
  ASSUME NEW ms \in SUBSET (DOMAIN Upper \cup {None}),
         NEW v, v = ValidateMethods(ms), v # Refused
  PROVE  /\ v \in SUBSET (DOMAIN Upper \cup {None})
         /\ ValidateMethods(v) = v
<1>1. None \notin ms /\ v = {Upper[m] : m \in ms}
  BY DEF ValidateMethods
<1>2. \A m \in ms : Upper[m] \in DOMAIN Upper /\ Upper[Upper[m]] = Upper[m]
  BY <1>1, ValidationAssumption DEF ValidationAssumption
<1>3. None \notin v /\ v \subseteq DOMAIN Upper
  BY <1>1, <1>2, ValidationAssumption DEF ValidationAssumption
<1>4. {Upper[m] : m \in v} = v
  BY <1>1, <1>2
<1> QED BY <1>3, <1>4 DEF ValidateMethods

LEMMA PortsStable ==
  ASSUME NEW ps, NEW v, v = ValidatePorts(ps), v # Refused
  PROVE  /\ v \subseteq Ports /\ v # {}
         /\ ValidatePorts(v) = v
BY ZenonT(60) DEF ValidatePorts, ServiceDefaultPorts

LEMMA PortsAreNumbers == Ports \subseteq Int
BY DEF Ports

LEMMA LoweredStable ==
  ASSUME NEW p \in PatternForm
  PROVE  Lowered(p) \in PatternForm /\ Lowered(Lowered(p)) = Lowered(p)
<1> DEFINE low == [i \in DOMAIN p |-> Lower[p[i]]]
<1>1. /\ low \in Seq(DOMAIN Lower) /\ DOMAIN low = DOMAIN p
      /\ \A i \in DOMAIN p : low[i] = Lower[p[i]] /\ Lower[low[i]] = low[i]
  BY ValidationAssumption DEF ValidationAssumption, PatternForm
<1>2. [i \in DOMAIN low |-> Lower[low[i]]] = low
  BY <1>1
<1>3. Lowered(p) = low
  BY DEF Lowered
<1> HIDE DEF low
<1>4. Lowered(low) = low
  BY <1>2 DEF Lowered
<1> QED BY <1>1, <1>3, <1>4 DEF PatternForm

LEMMA MatcherStable ==
  ASSUME NEW m \in MatcherForm \cup {None}, NEW v, v = ValidateMatcher(m), v # Refused
  PROVE  /\ v \in MatcherForm /\ m \in MatcherForm
         /\ ValidateMatcher(v) = v
         /\ v.resource = m.resource
         /\ (v.pattern = None) # (v.resource = None)
         /\ v.resource = None => /\ v.pattern \in PatternForm
                                 /\ ~IsReserved(v.pattern)
                                 /\ v.ports # {}
         /\ v.resource # None => v.resource \in ResourceIds /\ v.ports = {}
         /\ v.ports \subseteq Ports
<1>1. /\ m \in MatcherForm
      /\ (m.pattern = None) # (m.resource = None)
  BY DEF ValidateMatcher
<1>2. /\ m.pattern \in PatternForm \cup {None}
      /\ m.resource \in STRING \cup {None}
      /\ m.ports \in SUBSET Int
      /\ m.methods \in SUBSET (DOMAIN Upper \cup {None})
  BY <1>1 DEF MatcherForm
<1> DEFINE ms == ValidateMethods(m.methods)
<1>3. CASE m.resource = None
  <2> DEFINE ps == ValidatePorts(m.ports)
             pt == Lowered(m.pattern)
  <2>1. v = ValidatePublicMatcher(m)
    BY <1>1, <1>3, ValidationAssumption DEF ValidateMatcher, ValidationAssumption
  <2>2. /\ ps # Refused /\ ms # Refused /\ ~IsReserved(pt)
        /\ v = [pattern |-> pt, resource |-> None, ports |-> ps, methods |-> ms]
    BY <2>1 DEF ValidatePublicMatcher
  <2>3. pt \in PatternForm /\ Lowered(pt) = pt
    BY <1>1, <1>2, <1>3, LoweredStable
  <2>4. ps \in SUBSET Ports /\ ps # {} /\ ValidatePorts(ps) = ps
    BY <1>2, <2>2, PortsStable
  <2>5. ms \in SUBSET (DOMAIN Upper \cup {None}) /\ ValidateMethods(ms) = ms
    BY <1>2, <2>2, MethodsStable
  <2> HIDE DEF ps, pt, ms
  <2>6. v \in MatcherForm
    <3>1. ps \in SUBSET Int
      BY <2>4, PortsAreNumbers
    <3> QED BY <2>2, <2>3, <2>5, <3>1 DEF MatcherForm
  <2>7. /\ v.pattern = pt /\ v.resource = None /\ v.ports = ps /\ v.methods = ms
        /\ v # None /\ pt # None
    BY <2>2, <2>3, <2>6, ValidationAssumption DEF ValidationAssumption
  <2>8. ValidatePublicMatcher(v) = v
    BY <2>2, <2>3, <2>4, <2>5, <2>7 DEF ValidatePublicMatcher
  <2>9. ValidateMatcher(v) = v
    BY <2>7, <2>8 DEF ValidateMatcher
  <2> QED BY <1>1, <1>3, <2>2, <2>3, <2>4, <2>6, <2>7, <2>9
<1>4. CASE m.resource # None
  <2>1. v = ValidatePrivateMatcher(m)
    BY <1>1, <1>4, ValidationAssumption DEF ValidateMatcher, ValidationAssumption
  <2>2. /\ m.resource \in ResourceIds /\ m.ports = {} /\ ms # Refused
        /\ v = [m EXCEPT !.methods = ms]
    BY <2>1 DEF ValidatePrivateMatcher
  <2>3. ms \in SUBSET (DOMAIN Upper \cup {None}) /\ ValidateMethods(ms) = ms
    BY <1>2, <2>2, MethodsStable
  <2> HIDE DEF ms
  <2>4. /\ v \in MatcherForm /\ v.pattern = m.pattern /\ v.resource = m.resource
        /\ v.ports = m.ports /\ v.methods = ms
        /\ [v EXCEPT !.methods = ms] = v
    BY <1>1, <2>2, <2>3 DEF MatcherForm
  <2>5. v # None
    BY <2>4, ValidationAssumption DEF ValidationAssumption
  <2>6. ValidatePrivateMatcher(v) = v
    BY <2>2, <2>3, <2>4 DEF ValidatePrivateMatcher
  <2>7. ValidateMatcher(v) = v
    BY <1>1, <1>4, <2>4, <2>5, <2>6 DEF ValidateMatcher
  <2> QED BY <1>1, <1>4, <2>2, <2>4, <2>7
<1> QED BY <1>3, <1>4
LEMMA EffectChecked ==
  ASSUME NEW e \in EffectForm \cup {None}, ~IsNoopEffect(e), ValidateEffect(e) # Refused
  PROVE  /\ e \in EffectForm /\ ValidateEffect(e) = e
         /\ \A i \in DOMAIN e.inject :
              e.inject[i].credential = "secret" => e.inject[i].value \in SecretIds
<1>1. e \in EffectForm
  BY DEF IsNoopEffect
<1>2. ValidateEffect(e) = e /\ \A i \in DOMAIN e.inject : ValidHeader(e.inject[i])
  BY DEF ValidateEffect
<1>3. \A h : ValidHeader(h) /\ h.credential = "secret" => h.value \in SecretIds
  BY DEF ValidHeader
<1> QED BY <1>1, <1>2, <1>3

(* Of the matcher it looks at nothing but whether there is a resource.       *)
LEMMA TLSStable ==
  ASSUME NEW t \in TLSForm \cup {None}, NEW m,
         NEW v, v = ValidateUpstreamTLS(t, m), v # Refused
  PROVE  /\ v \in TLSForm \cup {None}
         /\ t = None => v = None
         /\ v # None => m.resource # None
         /\ v # None /\ v.trust = "ca_bundle" => v.ca \in SecretIds
         /\ \A n : (n.resource = None) = (m.resource = None) =>
              ValidateUpstreamTLS(v, n) = WithoutEmptyTLS(v)
<1>1. CASE t = None
  <2>1. v = None
    BY <1>1 DEF ValidateUpstreamTLS
  <2> QED BY <1>1, <2>1 DEF ValidateUpstreamTLS, WithoutEmptyTLS
<1>2. CASE t # None
  <2>1. /\ t.server \in STRING \cup {None}
        /\ t.trust \in {"absent", "ca_bundle", "insecure", "verify"}
        /\ t.ca \in STRING \cup {None}
        /\ t = [server |-> t.server, trust |-> t.trust, ca |-> t.ca]
        /\ t \in TLSForm
    BY <1>2 DEF TLSForm
  <2>2. m.resource # None
    BY <1>2 DEF ValidateUpstreamTLS
  <2>3. CASE t.trust = "ca_bundle"
    <3>1. v = t /\ t.ca \in SecretIds
      BY <1>2, <2>2, <2>3 DEF ValidateUpstreamTLS
    <3>2. v # EmptyTLS
      BY <2>3, <3>1 DEF EmptyTLS
    <3> QED BY <1>2, <2>1, <2>2, <2>3, <3>1, <3>2 DEF ValidateUpstreamTLS, WithoutEmptyTLS
  <2>4. CASE t.trust = "insecure"
    <3>1. v = t
      BY <1>2, <2>2, <2>4 DEF ValidateUpstreamTLS
    <3>2. v # EmptyTLS
      BY <2>4, <3>1 DEF EmptyTLS
    <3> QED BY <1>2, <2>1, <2>2, <2>4, <3>1, <3>2 DEF ValidateUpstreamTLS, WithoutEmptyTLS
  <2>5. ASSUME v \in TLSForm, v.trust = "absent", v.ca = None \/ v.server # None
        PROVE  \A n : (n.resource = None) = (m.resource = None) =>
                 ValidateUpstreamTLS(v, n) = WithoutEmptyTLS(v)
    <3>1. v # None
      BY <2>5, ValidationAssumption DEF ValidationAssumption
    <3>2. v = [server |-> v.server, trust |-> "absent", ca |-> v.ca]
      BY <2>5 DEF TLSForm
    <3>3. v = EmptyTLS <=> v.server = None
      <4>1. EmptyTLS.server = None
        BY DEF EmptyTLS
      <4>2. ASSUME v.server = None PROVE v = EmptyTLS
        <5>1. v.ca = None
          BY <2>5, <4>2
        <5> QED BY <3>2, <4>2, <5>1 DEF EmptyTLS
      <4> QED BY <4>1, <4>2
    <3>4. WithoutEmptyTLS(v) = IF v.server = None THEN None ELSE v
      BY <3>3 DEF WithoutEmptyTLS
    <3>5. ASSUME NEW n, (n.resource = None) = (m.resource = None)
          PROVE  ValidateUpstreamTLS(v, n) = IF v.server = None THEN None ELSE v
      <4>1. n.resource # None
        BY <2>2, <3>5
      <4> QED BY <2>5, <3>1, <4>1 DEF ValidateUpstreamTLS
    <3> QED BY <3>4, <3>5
  <2>6. CASE t.trust = "verify"
    <3>1. v = [server |-> t.server, trust |-> "absent", ca |-> None]
      BY <1>2, <2>1, <2>2, <2>6 DEF ValidateUpstreamTLS
    <3>2. v \in TLSForm /\ v.trust = "absent" /\ v.ca = None
      BY <2>1, <3>1 DEF TLSForm
    <3> QED BY <1>2, <2>2, <2>5, <3>2
  <2>7. CASE t.trust = "absent"
    <3>1. CASE t.server = None
      <4>1. v = None
        BY <1>2, <2>2, <2>7, <3>1 DEF ValidateUpstreamTLS
      <4>2. None # EmptyTLS
        <5>1. EmptyTLS \in TLSForm
          BY DEF EmptyTLS, TLSForm
        <5> QED BY <5>1, ValidationAssumption DEF ValidationAssumption
      <4> QED BY <1>2, <4>1, <4>2 DEF ValidateUpstreamTLS, WithoutEmptyTLS
    <3>2. CASE t.server # None
      <4>1. v = t
        BY <1>2, <2>2, <2>7, <3>2 DEF ValidateUpstreamTLS
      <4> QED BY <1>2, <2>1, <2>2, <2>5, <2>7, <3>2, <4>1
    <3> QED BY <3>1, <3>2
  <2> QED BY <2>1, <2>3, <2>4, <2>6, <2>7
<1> QED BY <1>1, <1>2

(* What every rule is that validation let through.                           *)
Checked(rule) ==
  /\ rule \in [matcher : MatcherForm, effect : EffectForm, tls : TLSForm \cup {None}]
  /\ ValidateMatcher(rule.matcher) = rule.matcher
  /\ ValidateEffect(rule.effect) = rule.effect
  /\ Refused \notin {rule.matcher, rule.effect, rule.tls}
  /\ ~IsNoopEffect(rule.effect)
  /\ \A n : (n.resource = None) = (rule.matcher.resource = None) =>
       ValidateUpstreamTLS(rule.tls, n) = WithoutEmptyTLS(rule.tls)
  /\ \A i \in DOMAIN rule.effect.inject :
       rule.effect.inject[i].credential = "secret"
         => rule.effect.inject[i].value \in SecretIds
  /\ rule.tls # None => rule.matcher.resource # None
  /\ rule.tls # None /\ rule.tls.trust = "ca_bundle" => rule.tls.ca \in SecretIds

LEMMA AcceptedIsChecked ==
  ASSUME NEW rule \in RuleForm, NEW v, v = ValidateRuleInput(rule), v # Refused
  PROVE  /\ Checked(v)
         /\ v.matcher = ValidateMatcher(rule.matcher)
         /\ v.effect = rule.effect
         /\ v.tls = ValidateUpstreamTLS(rule.tls, v.matcher)
         /\ rule.matcher \in MatcherForm
         /\ v.matcher.resource = rule.matcher.resource
<1> DEFINE m == ValidateMatcher(rule.matcher)
           e == ValidateEffect(rule.effect)
           t == ValidateUpstreamTLS(rule.tls, m)
<1>1. /\ m # Refused /\ e # Refused /\ t # Refused
      /\ ~IsNoopEffect(rule.effect)
      /\ v = [matcher |-> m, effect |-> e, tls |-> t]
  BY DEF ValidateRuleInput
<1>2. /\ rule.matcher \in MatcherForm \cup {None}
      /\ rule.effect \in EffectForm \cup {None}
      /\ rule.tls \in TLSForm \cup {None}
  BY DEF RuleForm
<1>3. /\ m \in MatcherForm /\ rule.matcher \in MatcherForm
      /\ ValidateMatcher(m) = m
      /\ m.resource = rule.matcher.resource
  BY <1>1, <1>2, MatcherStable
<1>4. /\ e \in EffectForm /\ e = rule.effect /\ ValidateEffect(e) = e
      /\ \A i \in DOMAIN e.inject :
           e.inject[i].credential = "secret" => e.inject[i].value \in SecretIds
  BY <1>1, <1>2, EffectChecked
<1>5. /\ t \in TLSForm \cup {None}
      /\ t # None => m.resource # None
      /\ t # None /\ t.trust = "ca_bundle" => t.ca \in SecretIds
      /\ \A n : (n.resource = None) = (m.resource = None) =>
           ValidateUpstreamTLS(t, n) = WithoutEmptyTLS(t)
  BY <1>1, <1>2, TLSStable
<1> HIDE DEF m, e, t
<1>6. /\ v.matcher = m /\ v.effect = e /\ v.tls = t
      /\ v \in [matcher : MatcherForm, effect : EffectForm, tls : TLSForm \cup {None}]
  BY <1>1, <1>3, <1>4, <1>5
<1>7. Checked(v)
  BY <1>1, <1>3, <1>4, <1>5, <1>6 DEF Checked
<1> QED BY <1>3, <1>4, <1>6, <1>7 DEF m, t
LEMMA CheckedSecrets ==
  ASSUME NEW rule, Checked(rule)
  PROVE  /\ SecretIDs(rule) \subseteq SecretIds
         /\ \A s : s \in SecretIDs(rule) <=> ReferencesSecret(rule, s)
<1>1. InjectedSecrets(rule) \subseteq SecretIds
  BY DEF Checked, InjectedSecrets
<1>2. SecretIDs(rule) \subseteq SecretIds
  BY <1>1 DEF Checked, SecretIDs
<1>3. ASSUME NEW s
      PROVE  s \in SecretIDs(rule) <=> ReferencesSecret(rule, s)
  BY DEF SecretIDs, InjectedSecrets, ReferencesSecret
<1> QED BY <1>2, <1>3

(* Both kinds of matcher, once checked.                                      *)
LEMMA CheckedMatcher ==
  ASSUME NEW rule, Checked(rule)
  PROVE  LET m == rule.matcher IN
         /\ (m.pattern = None) # (m.resource = None)
         /\ m.resource = None => /\ m.pattern \in PatternForm
                                 /\ ~IsReserved(m.pattern)
                                 /\ m.ports # {}
         /\ m.resource # None => m.resource \in ResourceIds /\ m.ports = {}
         /\ m.ports \subseteq Ports
<1> DEFINE m == rule.matcher
<1>1. m \in MatcherForm /\ m = ValidateMatcher(m) /\ m # Refused
  BY DEF Checked
<1> HIDE DEF m
<1>2. /\ (m.pattern = None) # (m.resource = None)
      /\ m.resource = None => /\ m.pattern \in PatternForm
                              /\ ~IsReserved(m.pattern)
                              /\ m.ports # {}
      /\ m.resource # None => m.resource \in ResourceIds /\ m.ports = {}
      /\ m.ports \subseteq Ports
  BY <1>1, MatcherStable
<1> QED BY <1>2 DEF m

---------------------------------------------------------------------------
(* One request after another.                                                *)

ValidationInv ==
  /\ input \in Inputs \cup {None}
  /\ Accepted => Checked(verdict)

LEMMA ValidationInvHolds == ValidationSpec => []ValidationInv
<1>1. ValidationInit => ValidationInv
  BY DEF ValidationInit, ValidationInv, Accepted
<1>2. ASSUME ValidationInv, Validate
      PROVE  ValidationInv'
  <2>1. input \in RuleForm
    BY <1>2, RequestAssumption DEF ValidationInv, Validate, RequestAssumption
  <2>2. verdict' = ValidateRuleInput(input)
    BY <1>2 DEF Validate
  <2>3. \A v : v = verdict' /\ v # Refused => Checked(v)
    BY <2>1, <2>2, AcceptedIsChecked
  <2>4. Accepted' => Checked(verdict)'
    BY <2>3 DEF Accepted, Checked
  <2> QED BY <1>2, <2>4 DEF ValidationInv, Validate
<1>3. ValidationInv /\ [ValidationNext]_validationVars => ValidationInv'
  BY <1>2 DEF ValidationInv, ValidationNext, validationVars, Send, Answer,
     Accepted, Checked
<1> QED BY <1>1, <1>3, PTL DEF ValidationSpec

(* Every stored rule has one destination, an effect, ports of its own or     *)
(* those of its resource, and names secrets by well-formed ids               *)
(* (validateRuleInput).                                                      *)
THEOREM ValidationTypeCorrect == ValidationSpec => []ValidationTypeOK
<1>1. ValidationInv => ValidationTypeOK
  <2> SUFFICES ASSUME ValidationInv, Accepted PROVE ValidationTypeOK
    BY DEF ValidationTypeOK
  <2>1. Checked(verdict)
    BY DEF ValidationInv
  <2>2. verdict.tls # None => verdict.matcher.resource # None
    BY <2>1 DEF Checked
  <2> QED BY <2>1, <2>2, CheckedMatcher, CheckedSecrets DEF ValidationTypeOK
<1> QED BY <1>1, ValidationInvHolds, PTL

(* A rule that was accepted is accepted again and stays as it is, an empty   *)
(* TLS block apart (UpdateEgressRule validates what is stored once more).    *)
THEOREM AcceptedIsStable == ValidationSpec => []Stable
<1>1. ValidationInv => Stable
  <2> SUFFICES ASSUME ValidationInv, Accepted
               PROVE  ValidateRuleInput(verdict) = Settled(verdict)
    BY DEF Stable
  <2> DEFINE m == verdict.matcher
             e == verdict.effect
             t == verdict.tls
  <2>1. Checked(verdict)
    BY DEF ValidationInv
  <2>2. /\ ValidateMatcher(m) = m /\ ValidateEffect(e) = e
        /\ m # Refused /\ e # Refused /\ t # Refused /\ ~IsNoopEffect(e)
        /\ ValidateUpstreamTLS(t, m) = WithoutEmptyTLS(t)
        /\ verdict = [matcher |-> m, effect |-> e, tls |-> t]
    BY <2>1 DEF Checked
  <2>3. WithoutEmptyTLS(t) # Refused
    BY <2>2, ValidationAssumption DEF ValidationAssumption, WithoutEmptyTLS
  <2> HIDE DEF m, e, t
  <2>4. ValidateRuleInput(verdict)
          = [matcher |-> m, effect |-> e, tls |-> WithoutEmptyTLS(t)]
    BY <2>2, <2>3 DEF ValidateRuleInput, m, e, t
  <2>5. Settled(verdict) = [matcher |-> m, effect |-> e, tls |-> WithoutEmptyTLS(t)]
    BY <2>2 DEF Settled, WithoutEmptyTLS, t
  <2> QED BY <2>4, <2>5
<1> QED BY <1>1, ValidationInvHolds, PTL

(* What a write resolves and what the Secrets service is told of are the     *)
(* same secrets (validateSecrets, CountRulesReferencingSecret).              *)
THEOREM CheckedSecretsAreCounted == ValidationSpec => []CheckedIsCounted
<1>1. ValidationInv => CheckedIsCounted
  BY CheckedSecrets DEF ValidationInv, CheckedIsCounted
<1> QED BY <1>1, ValidationInvHolds, PTL
---------------------------------------------------------------------------
(* Reserved names and addresses.                                             *)

LEMMA PrefixIs ==
  ASSUME NEW S, NEW s \in Seq(S), NEW t \in Seq(S)
  PROVE  IsPrefix(s, t) <=> /\ Len(s) <= Len(t)
                            /\ \A i \in 1..Len(s) : s[i] = t[i]
<1>1. Len(s) \in Nat /\ Len(t) \in Nat
  OBVIOUS
<1>2. SubSeq(s, 1, Len(s)) = [i \in 1..Len(s) |-> s[i]]
  BY <1>1
<1>3. SubSeq(t, 1, Len(s)) = [i \in 1..Len(s) |-> t[i]]
  BY <1>1
<1> QED BY <1>1, <1>2, <1>3 DEF IsPrefix

LEMMA ReverseType ==
  ASSUME NEW S, NEW s \in Seq(S)
  PROVE  /\ Reverse(s) \in Seq(S) /\ Len(Reverse(s)) = Len(s)
         /\ \A i \in 1..Len(s) : Reverse(s)[i] = s[Len(s) - i + 1]
BY DEF Reverse

LEMMA SuffixIs ==
  ASSUME NEW S, NEW s \in Seq(S), NEW t \in Seq(S)
  PROVE  IsSuffix(s, t) <=> /\ Len(s) <= Len(t)
                            /\ \A i \in 1..Len(s) :
                                 s[i] = t[Len(t) - Len(s) + i]
<1> DEFINE r == Reverse(s)
           q == Reverse(t)
<1>1. /\ r \in Seq(S) /\ Len(r) = Len(s)
      /\ \A i \in 1..Len(s) : r[i] = s[Len(s) - i + 1]
      /\ q \in Seq(S) /\ Len(q) = Len(t)
      /\ \A i \in 1..Len(t) : q[i] = t[Len(t) - i + 1]
      /\ Len(s) \in Nat /\ Len(t) \in Nat
  BY ReverseType
<1> HIDE DEF r, q
<1>2. IsPrefix(r, q) <=> /\ Len(s) <= Len(t)
                         /\ \A i \in 1..Len(s) : r[i] = q[i]
  BY <1>1, PrefixIs
<1>3. ASSUME Len(s) <= Len(t), \A i \in 1..Len(s) : r[i] = q[i],
             NEW i \in 1..Len(s)
      PROVE  s[i] = t[Len(t) - Len(s) + i]
  <2> DEFINE j == Len(s) - i + 1
  <2>1. j \in 1..Len(s) /\ j \in 1..Len(t)
    BY <1>1, <1>3
  <2>2. r[j] = q[j] /\ Len(s) - j + 1 = i /\ Len(t) - j + 1 = Len(t) - Len(s) + i
    BY <1>1, <1>3, <2>1
  <2> HIDE DEF j
  <2>3. r[j] = s[Len(s) - j + 1] /\ q[j] = t[Len(t) - j + 1]
    BY <1>1, <2>1
  <2> QED BY <2>2, <2>3
<1>4. ASSUME Len(s) <= Len(t),
             \A i \in 1..Len(s) : s[i] = t[Len(t) - Len(s) + i],
             NEW i \in 1..Len(s)
      PROVE  r[i] = q[i]
  <2> DEFINE j == Len(s) - i + 1
  <2>1. j \in 1..Len(s) /\ i \in 1..Len(t)
    BY <1>1, <1>4
  <2>2. Len(t) - Len(s) + j = Len(t) - i + 1
    BY <1>1
  <2>3. s[j] = t[Len(t) - Len(s) + j]
    <3> HIDE DEF j
    <3> QED BY <1>4, <2>1
  <2>4. r[i] = s[j] /\ q[i] = t[Len(t) - i + 1]
    BY <1>1, <2>1
  <2> HIDE DEF j
  <2> QED BY <2>2, <2>3, <2>4
<1> QED BY <1>2, <1>3, <1>4 DEF IsSuffix, r, q

(* A suffix of a longer sequence is one of its tail.                         *)
LEMMA SuffixOfTail ==
  ASSUME NEW S, NEW s \in Seq(S), NEW t \in Seq(S), t # <<>>,
         IsSuffix(s, t), s # t
  PROVE  IsSuffix(s, Tail(t))
<1>1. /\ Len(s) \in Nat /\ Len(t) \in Nat /\ Len(t) > 0
      /\ Tail(t) \in Seq(S) /\ Len(Tail(t)) = Len(t) - 1
      /\ \A i \in 1..(Len(t) - 1) : Tail(t)[i] = t[i + 1]
  OBVIOUS
<1>2. /\ Len(s) <= Len(t)
      /\ \A i \in 1..Len(s) : s[i] = t[Len(t) - Len(s) + i]
  BY SuffixIs
<1>3. Len(s) # Len(t)
  <2> SUFFICES ASSUME Len(s) = Len(t) PROVE s = t
    OBVIOUS
  <2>1. \A i \in 1..Len(s) : s[i] = t[i]
    BY <1>1, <1>2
  <2> QED BY <2>1
<1> DEFINE u == Tail(t)
<1>4. Len(s) <= Len(u)
  BY <1>1, <1>2, <1>3
<1>5. ASSUME NEW i \in 1..Len(s)
      PROVE  s[i] = u[Len(u) - Len(s) + i]
  <2>1. Len(u) - Len(s) + i \in 1..(Len(t) - 1)
    BY <1>1, <1>4
  <2>2. u[Len(u) - Len(s) + i] = t[(Len(u) - Len(s) + i) + 1]
    BY <1>1, <2>1
  <2>3. (Len(u) - Len(s) + i) + 1 = Len(t) - Len(s) + i
    BY <1>1
  <2> QED BY <1>2, <2>2, <2>3
<1> HIDE DEF u
<1>6. u \in Seq(S)
  BY <1>1 DEF u
<1>7. IsSuffix(s, u)
  BY <1>4, <1>5, <1>6, SuffixIs
<1> QED BY <1>7 DEF u

LEMMA NamesOutOfReach ==
  ASSUME NEW p \in PatternForm, ~IsReserved(p), NEW host \in Seq(STRING),
         DomainPatternMatchesHost(p, host)
  PROVE  ~BelowReserved(host)
<1> SUFFICES ASSUME NEW s \in ReservedSuffixes,
                    IsSuffix(s, host), s # host
             PROVE  FALSE
  BY DEF BelowReserved
<1> DEFINE Labels == STRING \cup {"agyn", "svc", "cluster", "local"}
<1>1. s \in Seq(Labels)
  <2>1. \A x \in Labels, y \in Labels :
          <<x>> \in Seq(Labels) /\ <<x, y>> \in Seq(Labels)
    <3> HIDE DEF Labels
    <3> QED OBVIOUS
  <2>2. \/ s = <<"agyn">> \/ s = <<"svc">> \/ s = <<"cluster", "local">>
    BY DEF ReservedSuffixes
  <2> QED BY <2>1, <2>2
<1>2. host \in Seq(Labels)
  <2>1. \A t \in Seq(STRING) : t \in Seq(Labels)
    OBVIOUS
  <2> QED BY <2>1
<1> HIDE DEF Labels
<1>3. CASE IsWildcard(p)
  <2>1. TrimmedWildcard(p) = Tail(p) /\ host # <<>> /\ Tail(host) = Tail(p)
    <3>1. Len(host) > 1 /\ Tail(host) = Tail(p)
      BY ONLY <1>3, DomainPatternMatchesHost(p, host) DEF DomainPatternMatchesHost
    <3>2. host # <<>>
      BY <1>2, <3>1
    <3> QED BY <1>3, <3>1, <3>2 DEF TrimmedWildcard
  <2>2. IsSuffix(s, Tail(host))
    BY <1>1, <1>2, <2>1, SuffixOfTail
  <2> QED BY <2>1, <2>2 DEF IsReserved
<1>4. CASE ~IsWildcard(p)
  BY <1>4 DEF DomainPatternMatchesHost, TrimmedWildcard, IsReserved
<1> QED BY <1>3, <1>4

(* A reserved suffix itself and a reserved address are left to wildcards.    *)
LEMMA ReservedIsLeftToWildcards ==
  ASSUME NEW p \in PatternForm, ~IsReserved(p), NEW host \in Seq(STRING),
         DomainPatternMatchesHost(p, host),
         host \in ReservedSuffixes \/ IsReservedAddress(host)
  PROVE  IsWildcard(p)
<1> SUFFICES ASSUME ~IsWildcard(p) PROVE FALSE
  OBVIOUS
<1>1. p = host /\ TrimmedWildcard(p) = host
  BY DEF DomainPatternMatchesHost, TrimmedWildcard
<1>2. CASE host \in ReservedSuffixes
  <2>1. IsSuffix(host, host)
    BY SuffixIs
  <2> QED BY <1>1, <1>2, <2>1 DEF IsReserved
<1>3. CASE IsReservedAddress(host)
  BY <1>1, <1>3 DEF IsReservedAddress, IsReserved, OverlapsCarrierGradeNAT
<1> QED BY <1>2, <1>3

LEMMA BlocksOutOfReach ==
  ASSUME NEW p \in PatternForm, ~IsReserved(p), NEW host, InBlock(host, p)
  PROVE  ~IsReservedAddress(host)
<1> SUFFICES ASSUME IsReservedAddress(host) PROVE FALSE
  OBVIOUS
<1> DEFINE r == CarrierGradeNAT
           a == ParseIP[host]
           b == ParseCIDR[p]
<1>1. /\ AddressBits \in Nat /\ r \in Seq(Bit) /\ Len(r) <= AddressBits
      /\ a \in Seq(Bit) /\ Len(a) = AddressBits
  <2>1. AddressBits \in Nat /\ a \in [1..AddressBits -> Bit]
    BY ValidationAssumption DEF ValidationAssumption, InBlock
  <2> HIDE DEF a
  <2> QED BY <2>1, ValidationAssumption DEF ValidationAssumption
<1>2. IsPrefix(b, a) /\ IsPrefix(r, a)
  BY DEF InBlock, IsReservedAddress, Covers
<1>3. b \in Seq(Bit) /\ Len(b) <= AddressBits
  <2>1. b \in UNION {[1..n -> Bit] : n \in 0..AddressBits}
    BY ValidationAssumption DEF ValidationAssumption, InBlock
  <2> HIDE DEF b
  <2>2. PICK n \in 0..AddressBits : b \in [1..n -> Bit]
    BY <2>1
  <2> QED BY <1>1, <2>2
<1> HIDE DEF r, a, b
<1>4. /\ \A i \in 1..Len(r) : r[i] = a[i]
      /\ \A i \in 1..Len(b) : b[i] = a[i]
      /\ Len(r) \in Nat /\ Len(b) \in Nat
  BY <1>1, <1>2, <1>3, PrefixIs
<1>5. ASSUME NEW c \in Seq(Bit), NEW d \in Seq(Bit), Len(c) <= Len(d),
             Len(d) <= AddressBits,
             \A i \in 1..Len(c) : c[i] = a[i], \A i \in 1..Len(d) : d[i] = a[i]
      PROVE  Covers(c, FirstAddress(d))
  <2> DEFINE f == FirstAddress(d)
  <2>1. /\ f = [i \in 1..AddressBits |-> IF i <= Len(d) THEN d[i] ELSE 0]
        /\ Len(c) \in Nat /\ Len(d) \in Nat
    BY DEF FirstAddress
  <2>2. \A i \in 1..AddressBits : f[i] \in Bit
    <3> SUFFICES ASSUME NEW i \in 1..AddressBits PROVE f[i] \in Bit
      OBVIOUS
    <3>1. CASE i <= Len(d)
      <4>1. i \in 1..Len(d)
        BY <1>1, <2>1, <3>1
      <4> QED BY <2>1, <3>1, <4>1
    <3>2. CASE ~(i <= Len(d))
      BY <2>1, <3>2 DEF Bit
    <3> QED BY <3>1, <3>2
  <2>3. \A i \in 1..Len(c) : f[i] = c[i]
    <3> SUFFICES ASSUME NEW i \in 1..Len(c) PROVE f[i] = c[i]
      OBVIOUS
    <3>1. i \in 1..Len(d) /\ i \in 1..AddressBits /\ i <= Len(d)
      BY <1>1, <1>5, <2>1
    <3> QED BY <1>5, <2>1, <3>1
  <2> HIDE DEF f
  <2>4. f \in Seq(Bit) /\ Len(f) = AddressBits
    BY <1>1, <2>1, <2>2
  <2>5. Len(c) <= Len(f) /\ \A i \in 1..Len(c) : c[i] = f[i]
    BY <1>1, <1>5, <2>1, <2>3, <2>4
  <2>6. IsPrefix(c, f)
    BY <2>4, <2>5, PrefixIs
  <2> QED BY <2>6 DEF Covers, f
<1>6. Covers(r, FirstAddress(b)) \/ Covers(b, FirstAddress(r))
  <2>1. CASE Len(r) <= Len(b)
    BY <1>1, <1>3, <1>4, <1>5, <2>1
  <2>2. CASE Len(b) <= Len(r)
    BY <1>1, <1>3, <1>4, <1>5, <2>2
  <2> QED BY <1>4, <2>1, <2>2
<1>7. p \notin DOMAIN ParseIP /\ p \in DOMAIN ParseCIDR
  BY ValidationAssumption DEF ValidationAssumption, InBlock
<1> QED BY <1>6, <1>7
        DEF IsReserved, OverlapsCarrierGradeNAT, CidrOverlap, r, b

(* What is reserved is out of reach of every accepted pattern but a wildcard *)
(* and, below a reserved suffix, of wildcards too, whatever the names, the   *)
(* addresses and the reserved block (rejectReservedDomainPattern).           *)
THEOREM ReservedIsOutOfReach == ValidationSpec => []ReservedOnlyByWildcard
<1>1. ValidationInv => ReservedOnlyByWildcard
  <2> SUFFICES ASSUME ValidationInv, Accepted, verdict.matcher.resource = None,
                      NEW host \in Hosts
               PROVE  LET pattern == verdict.matcher.pattern IN
                      /\ DomainPatternMatchesHost(pattern, host) =>
                           /\ ~BelowReserved(host)
                           /\ host \in ReservedSuffixes \/ IsReservedAddress(host)
                                => IsWildcard(pattern)
                      /\ InBlock(host, pattern) => ~IsReservedAddress(host)
    BY DEF ReservedOnlyByWildcard
  <2>1. verdict.matcher.pattern \in PatternForm /\ ~IsReserved(verdict.matcher.pattern)
    BY CheckedMatcher DEF ValidationInv
  <2>2. host \in Seq(STRING)
    BY RequestAssumption DEF RequestAssumption
  <2> QED BY <2>1, <2>2, NamesOutOfReach, ReservedIsLeftToWildcards, BlocksOutOfReach
<1> QED BY <1>1, ValidationInvHolds, PTL

---------------------------------------------------------------------------
(* Writes: what is stored is checked, and so is what is about to be.         *)

CheckedRules ==
  {rule \in [matcher : MatcherForm, effect : EffectForm, tls : TLSForm \cup {None}] :
     Checked(rule)}

LEMMA MergedForm ==
  ASSUME NEW stored \in CheckedRules, NEW change \in RuleForm
  PROVE  /\ Merged(stored, change) \in RuleForm
         /\ \A part \in {"matcher", "effect", "tls"} :
              Merged(stored, change)[part]
                = IF change[part] = None THEN stored[part] ELSE change[part]
<1> DEFINE M == [part \in {"matcher", "effect", "tls"} |->
                   IF change[part] = None THEN stored[part] ELSE change[part]]
<1>1. /\ stored.matcher \in MatcherForm /\ stored.effect \in EffectForm
      /\ stored.tls \in TLSForm \cup {None}
      /\ change.matcher \in MatcherForm \cup {None}
      /\ change.effect \in EffectForm \cup {None}
      /\ change.tls \in TLSForm \cup {None}
  BY DEF CheckedRules, RuleForm
<1>2. M = [matcher |-> M["matcher"], effect |-> M["effect"], tls |-> M["tls"]]
  OBVIOUS
<1>3. /\ M["matcher"] \in MatcherForm \cup {None}
      /\ M["effect"] \in EffectForm \cup {None}
      /\ M["tls"] \in TLSForm \cup {None}
  BY <1>1
<1>4. \A part \in {"matcher", "effect", "tls"} :
        M[part] = IF change[part] = None THEN stored[part] ELSE change[part]
  OBVIOUS
<1> HIDE DEF M
<1>5. M \in RuleForm
  BY <1>2, <1>3 DEF RuleForm
<1> QED BY <1>4, <1>5 DEF Merged, M
Parts == {"matcher", "effect", "tls"}

(* What was not brought is as it was read.                                   *)
KeepsParts(c) ==
  \A part \in Parts :
    c.change[part] = None =>
      WithoutEmptyTLS(c.content[part]) = WithoutEmptyTLS(c.read[part])

(* What a write under way names is there, or its absence is accounted for,   *)
(* or it is going to be found out.                                           *)
Vouched(c, x) ==
  Names(c.content, x) /\ ~Usable(x) =>
    \/ <<c.rule, x>> \in raced
    \/ c.at = "secrets" /\ x \in c.todo
    \/ /\ c.at \in {"secrets", "target"} /\ c.read = None
       /\ x = c.content.matcher.resource

TLSVouched(c, x) ==
  /\ c.content.tls # None /\ c.content.matcher.resource = x /\ resources[x] = "http"
  => \/ x \in turned
     \/ c.at \in {"secrets", "target"} /\ AsksForTarget(c)

Writes == [at : {"secrets", "target", "write"}, rule : RuleIds,
           read : CheckedRules \cup {None}, change : RuleForm,
           content : CheckedRules, todo : SUBSET SecretIds]

WriterOK(c) ==
  /\ c.at = "target" => c.content.matcher.resource # None
  /\ c.read # None => KeepsParts(c)
  /\ \A x \in Refs : Vouched(c, x)
  /\ \A x \in ResourceIds : TLSVouched(c, x)

(* Since the count that let x go, every rule stored with its name is known.  *)
SeenSinceCount ==
  \A r \in RuleIds, x \in Refs :
    counted[x] # None /\ content[r] # None /\ Names(content[r], x)
      => r \in counted[x]

ContentTypes ==
  /\ content \in [RuleIds -> CheckedRules \cup {None}]
  /\ writer \in [Writers -> Writes \cup {IdleWriter}]
  /\ secrets \subseteq SecretIds
  /\ resources \in [ResourceIds -> {"http", "https", "tcp", None}]
  /\ counted \in [Refs -> (SUBSET RuleIds) \cup {None}]
  /\ raced \subseteq RuleIds \X Refs

ContentInv ==
  /\ ContentTypes
  /\ DanglingIsRaced /\ TLSNeedsHttps /\ SeenSinceCount
  /\ \A w \in Writers : writer[w].at # "idle" => WriterOK(writer[w])

LEMMA CheckedParts ==
  ASSUME NEW rule \in CheckedRules
  PROVE  /\ rule.matcher \in MatcherForm /\ rule.effect \in EffectForm
         /\ rule.tls \in TLSForm \cup {None}
         /\ ValidateMatcher(rule.matcher) = rule.matcher
         /\ \A n : (n.resource = None) = (rule.matcher.resource = None) =>
              ValidateUpstreamTLS(rule.tls, n) = WithoutEmptyTLS(rule.tls)
         /\ rule.matcher.resource \in ResourceIds \cup {None}
         /\ SecretIDs(rule) \subseteq SecretIds
         /\ \A x \in Refs : Names(rule, x) <=> Counted(rule, x)
<1>1. Checked(rule)
  BY DEF CheckedRules
<1>2. /\ rule.matcher \in MatcherForm /\ rule.effect \in EffectForm
      /\ rule.tls \in TLSForm \cup {None}
      /\ ValidateMatcher(rule.matcher) = rule.matcher
      /\ \A n : (n.resource = None) = (rule.matcher.resource = None) =>
           ValidateUpstreamTLS(rule.tls, n) = WithoutEmptyTLS(rule.tls)
  BY <1>1 DEF Checked
<1>3. rule.matcher.resource \in ResourceIds \cup {None}
  BY <1>1, CheckedMatcher
<1>4. /\ SecretIDs(rule) \subseteq SecretIds
      /\ \A s : s \in SecretIDs(rule) <=> ReferencesSecret(rule, s)
  BY <1>1, CheckedSecrets
<1>5. ASSUME NEW x \in Refs
      PROVE  Names(rule, x) <=> Counted(rule, x)
  <2>1. SecretIds \cap ResourceIds = {} /\ None \notin SecretIds
    BY ContentAssumption, ValidationAssumption
       DEF ContentAssumption, ValidationAssumption
  <2> QED BY <1>3, <1>4, <2>1 DEF Refs, Names, Counted, ReferencesResource
<1> QED BY <1>2, <1>3, <1>4, <1>5

LEMMA WritesFields ==
  ASSUME NEW c \in Writes
  PROVE  /\ c.at \in {"secrets", "target", "write"} /\ c.rule \in RuleIds
         /\ c.read \in CheckedRules \cup {None} /\ c.change \in RuleForm
         /\ c.content \in CheckedRules /\ c.todo \in SUBSET SecretIds
BY DEF Writes

LEMMA WriterType ==
  ASSUME ContentTypes, NEW w \in Writers, writer[w].at # "idle"
  PROVE  writer[w] \in Writes
BY DEF ContentTypes, IdleWriter

---------------------------------------------------------------------------
(* A write begins.                                                           *)

LEMMA CreateBegins ==
  ASSUME ContentInv, NEW r \in RuleIds, NEW new \in NewRules,
         NEW rule, rule = ValidateRuleInput(new), rule # Refused,
         NEW c, c = [at |-> "secrets", rule |-> r, read |-> None, change |-> new,
                     content |-> rule, todo |-> SecretIDs(rule)]
  PROVE  c \in Writes /\ WriterOK(c)
<1>1. new \in RuleForm
  BY ContentAssumption DEF ContentAssumption
<1>2. Checked(rule)
  BY <1>1, AcceptedIsChecked
<1>3. rule \in CheckedRules
  BY <1>2 DEF CheckedRules, Checked
<1>4. c \in Writes
  BY <1>1, <1>3, CheckedParts DEF Writes
<1>5. /\ c.at = "secrets" /\ c.read = None /\ c.content = rule
      /\ c.todo = SecretIDs(rule)
  OBVIOUS
<1>6. \A x \in Refs : Vouched(c, x)
  BY <1>5 DEF Vouched, Names
<1>7. \A x \in ResourceIds : TLSVouched(c, x)
  <2>1. None \notin ResourceIds
    BY ValidationAssumption DEF ValidationAssumption
  <2> QED BY <1>5, <2>1 DEF TLSVouched, AsksForTarget
<1> QED BY <1>4, <1>5, <1>6, <1>7 DEF WriterOK

LEMMA NameUpdateBegins ==
  ASSUME ContentInv, NEW r \in RuleIds, content[r] # None,
         NEW c, c = [at |-> "write", rule |-> r, read |-> content[r],
                     change |-> NoChange, content |-> content[r],
                     todo |-> SecretIDs(content[r])]
  PROVE  c \in Writes /\ WriterOK(c)
<1>1. content[r] \in CheckedRules
  BY DEF ContentInv, ContentTypes
<1>2. NoChange \in RuleForm
  BY DEF NoChange, RuleForm
<1>3. c \in Writes
  BY <1>1, <1>2, CheckedParts DEF Writes
<1>4. /\ c.at = "write" /\ c.read = content[r] /\ c.content = content[r]
      /\ c.rule = r
  OBVIOUS
<1>5. \A x \in Refs : Vouched(c, x)
  BY <1>4 DEF Vouched, ContentInv, DanglingIsRaced
<1>6. \A x \in ResourceIds : TLSVouched(c, x)
  BY <1>4 DEF TLSVouched, ContentInv, TLSNeedsHttps
<1> QED BY <1>3, <1>4, <1>5, <1>6 DEF WriterOK, KeepsParts

LEMMA UpdateBegins ==
  ASSUME ContentInv, NEW r \in RuleIds, content[r] # None, NEW change \in Changes,
         NEW rule, rule = ValidateRuleInput(Merged(content[r], change)),
         rule # Refused,
         rule.matcher.resource = content[r].matcher.resource,
         NEW c, c = [at |-> "secrets", rule |-> r, read |-> content[r],
                     change |-> change, content |-> rule,
                     todo |-> SecretIDs(rule)]
  PROVE  c \in Writes /\ WriterOK(c)
<1> DEFINE stored == content[r]
           merged == Merged(stored, change)
<1>1. stored \in CheckedRules /\ change \in RuleForm
  BY ContentAssumption DEF ContentInv, ContentTypes, ContentAssumption
<1>2. /\ merged \in RuleForm
      /\ \A part \in Parts :
           merged[part] = IF change[part] = None THEN stored[part] ELSE change[part]
  BY <1>1, MergedForm DEF Parts
<1>3. /\ Checked(rule)
      /\ rule.matcher = ValidateMatcher(merged.matcher)
      /\ rule.effect = merged.effect
      /\ rule.tls = ValidateUpstreamTLS(merged.tls, rule.matcher)
  <2> HIDE DEF merged
  <2> QED BY <1>2, AcceptedIsChecked DEF merged
<1>4. rule \in CheckedRules
  BY <1>3 DEF CheckedRules, Checked
<1>5. c \in Writes
  BY <1>1, <1>4, CheckedParts DEF Writes
<1>6. /\ c.at = "secrets" /\ c.read = stored /\ c.content = rule /\ c.rule = r
      /\ c.change = change /\ c.todo = SecretIDs(rule)
  OBVIOUS
<1>7. /\ ValidateMatcher(stored.matcher) = stored.matcher
      /\ ValidateUpstreamTLS(stored.tls, rule.matcher) = WithoutEmptyTLS(stored.tls)
  BY <1>1, CheckedParts
<1>8. /\ change.matcher = None => merged.matcher = stored.matcher
      /\ change.effect = None => merged.effect = stored.effect
      /\ change.tls = None => merged.tls = stored.tls
  BY <1>2 DEF Parts
<1> HIDE DEF stored, merged
<1>9. /\ change.matcher = None => rule.matcher = stored.matcher
      /\ change.effect = None => rule.effect = stored.effect
      /\ change.tls = None => rule.tls = WithoutEmptyTLS(stored.tls)
  BY <1>3, <1>7, <1>8
<1>10. KeepsParts(c)
  <2>1. \A t : WithoutEmptyTLS(WithoutEmptyTLS(t)) = WithoutEmptyTLS(t)
    BY DEF WithoutEmptyTLS
  <2>2. ASSUME NEW part \in Parts, change[part] = None
        PROVE  WithoutEmptyTLS(rule[part]) = WithoutEmptyTLS(stored[part])
    <3>1. CASE part = "matcher"
      BY <1>9, <2>2, <3>1
    <3>2. CASE part = "effect"
      BY <1>9, <2>2, <3>2
    <3>3. CASE part = "tls"
      BY <1>9, <2>1, <2>2, <3>3
    <3> QED BY <3>1, <3>2, <3>3 DEF Parts
  <2> QED BY <1>6, <2>2 DEF KeepsParts
<1>11. ASSUME NEW x \in Refs
       PROVE  Vouched(c, x)
  <2>1. x = rule.matcher.resource /\ ~Usable(x) => <<r, x>> \in raced
    BY DEF ContentInv, DanglingIsRaced, Names
  <2> QED BY <1>6, <2>1 DEF Vouched, Names
<1>12. ASSUME NEW x \in ResourceIds, rule.tls # None, rule.matcher.resource = x,
              resources[x] = "http"
       PROVE  x \in turned \/ AsksForTarget(c)
  <2>1. CASE change.tls # None
    <3>1. x # None
      BY ValidationAssumption DEF ValidationAssumption
    <3> QED BY <1>6, <1>12, <2>1, <3>1 DEF AsksForTarget
  <2>2. CASE change.tls = None
    <3>1. stored.tls # None
      BY <1>9, <1>12, <2>2 DEF WithoutEmptyTLS
    <3> QED BY <1>12, <3>1 DEF ContentInv, TLSNeedsHttps, stored
  <2> QED BY <2>1, <2>2
<1>13. \A x \in ResourceIds : TLSVouched(c, x)
  BY <1>6, <1>12 DEF TLSVouched
<1> QED BY <1>5, <1>6, <1>10, <1>11, <1>13 DEF WriterOK
---------------------------------------------------------------------------
(* A write goes on.                                                          *)

LEMMA SecretResolved ==
  ASSUME NEW c \in Writes, WriterOK(c), c.at = "secrets", NEW s \in secrets,
         secrets \subseteq SecretIds, NEW n, n = [c EXCEPT !.todo = @ \ {s}]
  PROVE  n \in Writes /\ WriterOK(n)
<1>1. n \in Writes
  BY DEF Writes
<1>2. /\ n.at = "secrets" /\ n.rule = c.rule /\ n.read = c.read
      /\ n.change = c.change /\ n.content = c.content /\ n.todo = c.todo \ {s}
  BY DEF Writes
<1>3. Usable(s)
  BY DEF Usable
<1>4. \A x \in Refs : Vouched(c, x) => Vouched(n, x)
  BY <1>2, <1>3 DEF Vouched
<1>5. \A x \in ResourceIds : TLSVouched(c, x) => TLSVouched(n, x)
  BY <1>2 DEF TLSVouched, AsksForTarget
<1> QED BY <1>1, <1>2, <1>4, <1>5 DEF WriterOK, KeepsParts

LEMMA AllResolved ==
  ASSUME NEW c \in Writes, WriterOK(c), c.at = "secrets", c.todo = {},
         NEW n, n = [c EXCEPT !.at = IF AsksForTarget(c) THEN "target" ELSE "write"]
  PROVE  n \in Writes /\ WriterOK(n)
<1>1. n \in Writes
  BY DEF Writes
<1>2. /\ n.at = IF AsksForTarget(c) THEN "target" ELSE "write"
      /\ n.rule = c.rule /\ n.read = c.read
      /\ n.change = c.change /\ n.content = c.content /\ n.todo = c.todo
  BY DEF Writes
<1>3. AsksForTarget(n) = AsksForTarget(c)
  BY <1>2 DEF AsksForTarget
<1>4. ASSUME NEW x \in Refs
      PROVE  Vouched(n, x)
  <2>1. c.read = None /\ x = c.content.matcher.resource => AsksForTarget(c)
    <3>1. None \notin Refs
      BY ValidationAssumption DEF ValidationAssumption, Refs
    <3> QED BY <3>1 DEF AsksForTarget
  <2>2. Vouched(c, x)
    BY DEF WriterOK
  <2> QED BY <1>2, <2>1, <2>2 DEF Vouched
<1>5. \A x \in ResourceIds : TLSVouched(n, x)
  BY <1>2, <1>3 DEF WriterOK, TLSVouched
<1>6. n.at = "target" => n.content.matcher.resource # None
  BY <1>2 DEF AsksForTarget
<1> QED BY <1>1, <1>2, <1>4, <1>5, <1>6 DEF WriterOK, KeepsParts

LEMMA TargetValidated ==
  ASSUME NEW c \in Writes, WriterOK(c), c.at = "target",
         \/ resources[c.content.matcher.resource] = "https"
         \/ /\ resources[c.content.matcher.resource] = "http"
            /\ c.content.tls = None,
         NEW n, n = [c EXCEPT !.at = "write"]
  PROVE  n \in Writes /\ WriterOK(n)
<1>1. n \in Writes
  BY DEF Writes
<1>2. /\ n.at = "write" /\ n.rule = c.rule /\ n.read = c.read
      /\ n.change = c.change /\ n.content = c.content /\ n.todo = c.todo
  BY DEF Writes
<1>3. ASSUME NEW x \in Refs
      PROVE  Vouched(n, x)
  <2>1. c.content \in CheckedRules
    BY DEF Writes
  <2>2. c.content.matcher.resource \in ResourceIds
    BY <2>1, CheckedParts DEF WriterOK
  <2>3. Usable(c.content.matcher.resource)
    <3>1. SecretIds \cap ResourceIds = {}
      BY ContentAssumption DEF ContentAssumption
    <3> QED BY <2>2, <3>1 DEF Usable
  <2>4. Vouched(c, x)
    BY DEF WriterOK
  <2> QED BY <1>2, <2>3, <2>4 DEF Vouched
<1>4. \A x \in ResourceIds : TLSVouched(n, x)
  BY <1>2 DEF TLSVouched
<1> QED BY <1>1, <1>2, <1>3, <1>4 DEF WriterOK, KeepsParts

(* Nothing that writes rely on is forgotten when the peers move: what is     *)
(* newly gone raced the writes under way that name it, what is newly http    *)
(* was https.                                                                *)
LEMMA WriterStays ==
  ASSUME NEW c \in Writes, WriterOK(c), raced \subseteq raced', turned \subseteq turned',
         \A x \in Refs : ~Usable(x)' =>
           ~Usable(x) \/ (Names(c.content, x) => <<c.rule, x>> \in raced'),
         \A x \in ResourceIds :
           resources'[x] = "http" => resources[x] = "http" \/ x \in turned'
  PROVE  WriterOK(c)'
<1>1. ASSUME NEW x \in Refs
      PROVE  Vouched(c, x)'
  <2>1. Vouched(c, x)
    BY DEF WriterOK
  <2> QED BY <2>1 DEF Vouched, Names
<1>2. ASSUME NEW x \in ResourceIds
      PROVE  TLSVouched(c, x)'
  <2>1. TLSVouched(c, x)
    BY DEF WriterOK
  <2> QED BY <2>1 DEF TLSVouched, AsksForTarget
<1> QED BY <1>1, <1>2 DEF WriterOK, KeepsParts, WithoutEmptyTLS, EmptyTLS
---------------------------------------------------------------------------
(* The invariant is kept.                                                    *)

LEMMA WritersKept ==
  ASSUME ContentInv, NEW w \in Writers,
         NEW n, n = IdleWriter \/ (n \in Writes /\ WriterOK(n)),
         writer' = [writer EXCEPT ![w] = n],
         UNCHANGED <<secrets, resources, raced, turned>>
  PROVE  /\ writer' \in [Writers -> Writes \cup {IdleWriter}]
         /\ \A v \in Writers : writer'[v].at # "idle" => WriterOK(writer[v])'
<1>1. writer' \in [Writers -> Writes \cup {IdleWriter}]
  BY DEF ContentInv, ContentTypes
<1>2. ASSUME NEW v \in Writers, writer'[v].at # "idle", NEW c, c = writer'[v]
      PROVE  WriterOK(c)'
  <2>1. WriterOK(c)
    <3>1. CASE v = w
      <4>1. c = n
        BY <1>2, <3>1 DEF ContentInv, ContentTypes
      <4> QED BY <1>2, <4>1 DEF IdleWriter
    <3>2. CASE v # w
      <4>1. c = writer[v]
        BY <1>2, <3>2 DEF ContentInv, ContentTypes
      <4> QED BY <1>2, <4>1 DEF ContentInv
    <3> QED BY <3>1, <3>2
  <2> QED BY <2>1 DEF WriterOK, KeepsParts, Vouched, TLSVouched, Usable, Names,
          WithoutEmptyTLS, EmptyTLS, AsksForTarget
<1> QED BY <1>1, <1>2

LEMMA WritesAside ==
  ASSUME ContentInv, NEW w \in Writers,
         NEW n, n = IdleWriter \/ (n \in Writes /\ WriterOK(n)),
         writer' = [writer EXCEPT ![w] = n],
         UNCHANGED <<content, counted, secrets, resources, raced, turned>>
  PROVE  ContentInv'
<1>1. /\ writer' \in [Writers -> Writes \cup {IdleWriter}]
      /\ \A v \in Writers : writer'[v].at # "idle" => WriterOK(writer[v])'
  BY WritersKept
<1>2. ContentTypes'
  BY <1>1 DEF ContentInv, ContentTypes
<1>3. DanglingIsRaced' /\ TLSNeedsHttps' /\ SeenSinceCount'
  BY DEF ContentInv, DanglingIsRaced, TLSNeedsHttps, SeenSinceCount, Names, Usable
<1> QED BY <1>1, <1>2, <1>3 DEF ContentInv

LEMMA WriteKeeps ==
  ASSUME ContentInv, NEW w \in Writers, Write(w)
  PROVE  ContentInv'
<1> DEFINE c == writer[w]
<1>1. /\ c.at = "write" /\ writer' = [writer EXCEPT ![w] = IdleWriter]
      /\ UNCHANGED <<secrets, resources, raced, turned>>
  BY DEF Write, WriterAt, Returns, histories
<1>2. c \in Writes /\ WriterOK(c)
  BY <1>1, WriterType DEF ContentInv
<1>3. CASE UNCHANGED <<content, counted>>
  BY <1>1, <1>3, WritesAside
<1>4. CASE ~UNCHANGED <<content, counted>>
  <2> DEFINE r == c.rule
             new == c.content
  <2>1. /\ content' = [content EXCEPT ![r] = new]
        /\ counted' = [x \in Refs |->
             IF counted[x] # None /\ Names(new, x)
             THEN counted[x] \cup {r} ELSE counted[x]]
    BY <1>4 DEF Write
  <2>2. r \in RuleIds /\ new \in CheckedRules
    BY <1>2, WritesFields
  <2>3. /\ writer' \in [Writers -> Writes \cup {IdleWriter}]
        /\ \A v \in Writers : writer'[v].at # "idle" => WriterOK(writer[v])'
    BY <1>1, WritersKept
  <2>4. /\ \A x \in Refs : Names(new, x) /\ ~Usable(x) => <<r, x>> \in raced
        /\ \A x \in ResourceIds :
             /\ new.tls # None /\ new.matcher.resource = x /\ resources[x] = "http"
             => x \in turned
    BY <1>1, <1>2 DEF WriterOK, Vouched, TLSVouched
  <2> HIDE DEF c, r, new
  <2>5. ContentTypes'
    <3>1. content' \in [RuleIds -> CheckedRules \cup {None}]
      BY <2>1, <2>2 DEF ContentInv, ContentTypes
    <3>2. counted' \in [Refs -> (SUBSET RuleIds) \cup {None}]
      BY <2>1, <2>2 DEF ContentInv, ContentTypes
    <3> QED BY <1>1, <2>3, <3>1, <3>2 DEF ContentInv, ContentTypes
  <2>6. \A s \in RuleIds : content'[s] = IF s = r THEN new ELSE content[s]
    BY <2>1 DEF ContentInv, ContentTypes
  <2>7. DanglingIsRaced'
    <3>1. ASSUME NEW s \in RuleIds, NEW x \in Refs, content'[s] # None,
                 Names(content'[s], x), ~Usable(x)
          PROVE  <<s, x>> \in raced
      BY <2>4, <2>6, <3>1 DEF ContentInv, DanglingIsRaced
    <3> QED BY <1>1, <3>1 DEF DanglingIsRaced, Names, Usable
  <2>8. TLSNeedsHttps'
    <3>1. ASSUME NEW s \in RuleIds, NEW x \in ResourceIds, content'[s] # None,
                 content'[s].tls # None, content'[s].matcher.resource = x,
                 resources[x] = "http"
          PROVE  x \in turned
      BY <2>4, <2>6, <3>1 DEF ContentInv, TLSNeedsHttps
    <3> QED BY <1>1, <3>1 DEF TLSNeedsHttps
  <2>9. SeenSinceCount'
    <3>1. ASSUME NEW s \in RuleIds, NEW x \in Refs, counted'[x] # None,
                 content'[s] # None, Names(content'[s], x)
          PROVE  s \in counted'[x]
      <4>1. counted[x] # None
        BY <2>1, <3>1
      <4>2. CASE s = r
        BY <2>1, <2>6, <3>1, <4>1, <4>2
      <4>3. CASE s # r
        <5>1. s \in counted[x]
          BY <2>6, <3>1, <4>1, <4>3 DEF ContentInv, SeenSinceCount
        <5> QED BY <2>1, <5>1
      <4> QED BY <4>2, <4>3
    <3> QED BY <3>1 DEF SeenSinceCount, Names
  <2> QED BY <2>3, <2>5, <2>7, <2>8, <2>9 DEF ContentInv
<1> QED BY <1>3, <1>4

LEMMA WriterStepKeeps ==
  ASSUME ContentInv, NEW w \in Writers, WriterStep(w)
  PROVE  ContentInv'
<1> DEFINE c == writer[w]
<1>1. CASE Create(w)
  <2>1. PICK r \in RuleIds \ minted, new \in NewRules :
          /\ ValidateRuleInput(new) # Refused
          /\ StartWrite(w, r, None, new, ValidateRuleInput(new), "secrets")
    BY <1>1 DEF Create
  <2> DEFINE rule == ValidateRuleInput(new)
             n == [at |-> "secrets", rule |-> r, read |-> None, change |-> new,
                   content |-> rule, todo |-> SecretIDs(rule)]
  <2>2. n \in Writes /\ WriterOK(n)
    BY <2>1, CreateBegins
  <2>3. /\ writer' = [writer EXCEPT ![w] = n]
        /\ UNCHANGED <<content, counted, secrets, resources, raced, turned>>
    BY <2>1 DEF StartWrite
  <2> HIDE DEF n
  <2> QED BY <2>2, <2>3, WritesAside
<1>2. CASE Update(w)
  <2>1. PICK r \in RuleIds, change \in Changes :
          LET rule == ValidateRuleInput(Merged(content[r], change)) IN
          /\ content[r] # None
          /\ rule # Refused
          /\ rule.matcher.resource = content[r].matcher.resource
          /\ StartWrite(w, r, content[r], change, rule, "secrets")
    BY <1>2 DEF Update
  <2> DEFINE rule == ValidateRuleInput(Merged(content[r], change))
             n == [at |-> "secrets", rule |-> r, read |-> content[r],
                   change |-> change, content |-> rule, todo |-> SecretIDs(rule)]
  <2>2. n \in Writes /\ WriterOK(n)
    BY <2>1, UpdateBegins
  <2>3. /\ writer' = [writer EXCEPT ![w] = n]
        /\ UNCHANGED <<content, counted, secrets, resources, raced, turned>>
    BY <2>1 DEF StartWrite
  <2> HIDE DEF n
  <2> QED BY <2>2, <2>3, WritesAside
<1>3. CASE UpdateNameOnly(w)
  <2>1. PICK r \in RuleIds :
          /\ content[r] # None
          /\ StartWrite(w, r, content[r], NoChange, content[r], "write")
    BY <1>3 DEF UpdateNameOnly
  <2> DEFINE n == [at |-> "write", rule |-> r, read |-> content[r],
                   change |-> NoChange, content |-> content[r],
                   todo |-> SecretIDs(content[r])]
  <2>2. n \in Writes /\ WriterOK(n)
    BY <2>1, NameUpdateBegins
  <2>3. /\ writer' = [writer EXCEPT ![w] = n]
        /\ UNCHANGED <<content, counted, secrets, resources, raced, turned>>
    BY <2>1 DEF StartWrite
  <2> HIDE DEF n
  <2> QED BY <2>2, <2>3, WritesAside
<1>4. CASE ResolveSecret(w)
  <2>1. /\ c.at = "secrets" /\ c \in Writes /\ WriterOK(c)
        /\ UNCHANGED <<content, counted, secrets, resources, raced, turned>>
    BY <1>4, WriterType DEF ResolveSecret, WriterAt, ContentInv, histories
  <2>2. PICK s \in c.todo :
          IF s \in secrets
          THEN writer' = [writer EXCEPT ![w].todo = @ \ {s}]
          ELSE Returns(w)
    BY <1>4 DEF ResolveSecret
  <2>3. CASE s \in secrets
    <3> DEFINE n == [c EXCEPT !.todo = @ \ {s}]
    <3>1. n \in Writes /\ WriterOK(n)
      BY <2>1, <2>3, SecretResolved DEF ContentInv, ContentTypes
    <3>2. writer' = [writer EXCEPT ![w] = n]
      BY <2>2, <2>3
    <3> HIDE DEF n
    <3> QED BY <2>1, <3>1, <3>2, WritesAside
  <2>4. CASE s \notin secrets
    BY <2>1, <2>2, <2>4, WritesAside DEF Returns
  <2> QED BY <2>3, <2>4
<1>5. CASE SecretsResolved(w)
  <2> DEFINE n == [c EXCEPT !.at = IF AsksForTarget(c) THEN "target" ELSE "write"]
  <2>1. /\ c.at = "secrets" /\ c.todo = {} /\ c \in Writes /\ WriterOK(c)
        /\ UNCHANGED <<content, counted, secrets, resources, raced, turned>>
        /\ writer' = [writer EXCEPT ![w] = n]
    BY <1>5, WriterType DEF SecretsResolved, WriterAt, ContentInv, histories
  <2>2. n \in Writes /\ WriterOK(n)
    BY <2>1, AllResolved
  <2> HIDE DEF n
  <2> QED BY <2>1, <2>2, WritesAside
<1>6. CASE ValidatePrivateTarget(w)
  <2> DEFINE n == [c EXCEPT !.at = "write"]
             p == resources[c.content.matcher.resource]
  <2>1. /\ c.at = "target" /\ c \in Writes /\ WriterOK(c)
        /\ UNCHANGED <<content, counted, secrets, resources, raced, turned>>
    BY <1>6, WriterType DEF ValidatePrivateTarget, WriterAt, ContentInv, histories
  <2>2. CASE p = "https" \/ (p = "http" /\ c.content.tls = None)
    <3>1. writer' = [writer EXCEPT ![w] = n]
      BY <1>6, <2>2 DEF ValidatePrivateTarget
    <3>2. n \in Writes /\ WriterOK(n)
      BY <2>1, <2>2, TargetValidated
    <3> HIDE DEF n
    <3> QED BY <2>1, <3>1, <3>2, WritesAside
  <2>3. CASE ~(p = "https" \/ (p = "http" /\ c.content.tls = None))
    <3>1. Returns(w)
      BY <1>6, <2>3 DEF ValidatePrivateTarget
    <3> QED BY <2>1, <3>1, WritesAside DEF Returns
  <2> QED BY <2>2, <2>3
<1> HIDE DEF c
<1> QED BY <1>1, <1>2, <1>3, <1>4, <1>5, <1>6, WriteKeeps DEF WriterStep
LEMMA DeleteKeeps ==
  ASSUME ContentInv, NEW r \in RuleIds, Delete(r)
  PROVE  ContentInv'
<1>1. /\ content' = [content EXCEPT ![r] = None]
      /\ UNCHANGED <<writer, secrets, resources, counted, raced, turned>>
  BY DEF Delete, histories
<1>2. ContentTypes'
  BY <1>1 DEF ContentInv, ContentTypes
<1>3. \A s \in RuleIds : content'[s] # None => content'[s] = content[s]
  BY <1>1 DEF ContentInv, ContentTypes
<1>4. DanglingIsRaced' /\ TLSNeedsHttps' /\ SeenSinceCount'
  BY <1>1, <1>3 DEF ContentInv, DanglingIsRaced, TLSNeedsHttps, SeenSinceCount,
     Names, Usable
<1>5. \A w \in Writers : writer'[w].at # "idle" => WriterOK(writer[w])'
  BY <1>1 DEF ContentInv, WriterOK, KeepsParts, Vouched, TLSVouched, Usable, Names,
     WithoutEmptyTLS, EmptyTLS, AsksForTarget
<1> QED BY <1>2, <1>4, <1>5 DEF ContentInv

LEMMA CountKeeps ==
  ASSUME ContentInv, NEW x \in Refs, Count(x)
  PROVE  ContentInv'
<1>1. /\ counted' = [counted EXCEPT ![x] = {}]
      /\ UNCHANGED <<content, writer, secrets, resources, raced, turned>>
      /\ \A r \in RuleIds : content[r] # None => ~Counted(content[r], x)
  BY DEF Count, histories
<1>2. ContentTypes'
  BY <1>1 DEF ContentInv, ContentTypes
<1>3. \A r \in RuleIds : content[r] # None => ~Names(content[r], x)
  BY <1>1, CheckedParts DEF ContentInv, ContentTypes
<1>4. DanglingIsRaced' /\ TLSNeedsHttps'
  BY <1>1 DEF ContentInv, DanglingIsRaced, TLSNeedsHttps, Names, Usable
<1>5. SeenSinceCount'
  <2>1. \A y \in Refs : y # x => counted'[y] = counted[y]
    BY <1>1 DEF ContentInv, ContentTypes
  <2> QED BY <1>1, <1>3, <2>1 DEF ContentInv, SeenSinceCount, Names
<1>6. \A w \in Writers : writer'[w].at # "idle" => WriterOK(writer[w])'
  BY <1>1 DEF ContentInv, WriterOK, KeepsParts, Vouched, TLSVouched, Usable, Names,
     WithoutEmptyTLS, EmptyTLS, AsksForTarget
<1> QED BY <1>2, <1>4, <1>5, <1>6 DEF ContentInv

(* Whoever stored a rule naming x since the count, or is about to, raced.    *)
LEMMA LetGoKeeps ==
  ASSUME ContentInv, NEW x \in Refs, LetGo(x)
  PROVE  ContentInv'
<1>1. /\ counted[x] # None
      /\ raced' = raced \cup ((counted[x] \cup OnItsWay(x)) \X {x})
      /\ counted' = [counted EXCEPT ![x] = None]
      /\ UNCHANGED <<content, writer, turned>>
  BY DEF LetGo
<1>2. \/ secrets' = secrets \ {x} /\ UNCHANGED resources
      \/ /\ x \in ResourceIds /\ UNCHANGED secrets
         /\ \E gone \in {None, "tcp"} : resources' = [resources EXCEPT ![x] = gone]
  BY DEF LetGo
<1>3. \A y \in Refs : ~Usable(y)' => ~Usable(y) \/ y = x
  <2> SUFFICES ASSUME NEW y \in Refs, y # x, Usable(y) PROVE Usable(y)'
    OBVIOUS
  <2>1. y \in secrets => y \in secrets'
    BY <1>2
  <2>2. y \in ResourceIds => resources'[y] = resources[y]
    BY <1>2 DEF ContentInv, ContentTypes
  <2> QED BY <2>1, <2>2 DEF Usable, Refs
<1>4. \A y \in ResourceIds : resources'[y] = "http" => resources[y] = "http"
  <2>1. None # "http"
    BY ContentAssumption DEF ContentAssumption
  <2>2. \A y \in ResourceIds :
          \/ resources'[y] = resources[y]
          \/ resources'[y] \in {None, "tcp"}
    BY <1>2 DEF ContentInv, ContentTypes
  <2> QED BY <2>1, <2>2
<1>5. counted[x] \subseteq RuleIds /\ OnItsWay(x) \subseteq RuleIds
  <2>1. counted[x] \subseteq RuleIds
    <3>1. counted[x] \in (SUBSET RuleIds) \cup {None}
      BY DEF ContentInv, ContentTypes
    <3> QED BY <1>1, <3>1
  <2>2. \A w \in Writers : writer[w].at # "idle" => writer[w].rule \in RuleIds
    BY WriterType, WritesFields DEF ContentInv
  <2> QED BY <2>1, <2>2 DEF OnItsWay
<1>6. ContentTypes'
  <2>1. raced' \subseteq RuleIds \X Refs
    BY <1>1, <1>5 DEF ContentInv, ContentTypes
  <2>2. counted' \in [Refs -> (SUBSET RuleIds) \cup {None}]
    BY <1>1 DEF ContentInv, ContentTypes
  <2>3. /\ secrets' \subseteq SecretIds
        /\ resources' \in [ResourceIds -> {"http", "https", "tcp", None}]
    BY <1>2 DEF ContentInv, ContentTypes
  <2> QED BY <1>1, <2>1, <2>2, <2>3 DEF ContentInv, ContentTypes
<1>7. DanglingIsRaced'
  <2> SUFFICES ASSUME NEW r \in RuleIds, NEW y \in Refs, content[r] # None,
                      Names(content[r], y), ~Usable(y)'
               PROVE  <<r, y>> \in raced'
    BY <1>1 DEF DanglingIsRaced, Names
  <2>1. CASE ~Usable(y)
    BY <1>1, <2>1 DEF ContentInv, DanglingIsRaced
  <2>2. CASE y = x
    <3>1. r \in counted[x]
      BY <1>1, <2>2 DEF ContentInv, SeenSinceCount
    <3> QED BY <1>1, <2>2, <3>1
  <2> QED BY <1>3, <2>1, <2>2
<1>8. TLSNeedsHttps'
  BY <1>1, <1>4 DEF ContentInv, TLSNeedsHttps
<1>9. SeenSinceCount'
  <2>1. \A y \in Refs : counted'[y] = IF y = x THEN None ELSE counted[y]
    BY <1>1 DEF ContentInv, ContentTypes
  <2> QED BY <1>1, <2>1 DEF ContentInv, SeenSinceCount, Names
<1>10. ASSUME NEW w \in Writers, writer[w].at # "idle", NEW c, c = writer[w]
       PROVE  WriterOK(c)'
  <2>1. c \in Writes /\ WriterOK(c)
    BY <1>10, WriterType DEF ContentInv
  <2>2. Names(c.content, x) => <<c.rule, x>> \in raced'
    BY <1>1, <1>10 DEF OnItsWay
  <2>3. raced \subseteq raced' /\ turned \subseteq turned'
    BY <1>1
  <2>4. \A y \in Refs : ~Usable(y)' =>
          ~Usable(y) \/ (Names(c.content, y) => <<c.rule, y>> \in raced')
    BY <1>3, <2>2
  <2> QED BY <1>4, <2>1, <2>3, <2>4, WriterStays
<1>11. \A w \in Writers : writer'[w].at # "idle" => WriterOK(writer[w])'
  BY <1>1, <1>10
<1> QED BY <1>6, <1>7, <1>8, <1>9, <1>11 DEF ContentInv

LEMMA ChangeProtocolKeeps ==
  ASSUME ContentInv, NEW x \in ResourceIds, ChangeProtocol(x)
  PROVE  ContentInv'
<1>1. /\ resources[x] \in {"http", "https"}
      /\ resources' = [resources EXCEPT ![x] = IF @ = "http" THEN "https" ELSE "http"]
      /\ turned' = IF resources[x] = "https" THEN turned \cup {x} ELSE turned
      /\ UNCHANGED <<content, writer, secrets, counted, raced>>
  BY DEF ChangeProtocol
<1>2. \A y \in Refs : ~Usable(y)' => ~Usable(y)
  BY <1>1 DEF Usable, Refs, ContentInv, ContentTypes
<1>3. /\ turned \subseteq turned'
      /\ \A y \in ResourceIds :
           resources'[y] = "http" => resources[y] = "http" \/ y \in turned'
  BY <1>1 DEF ContentInv, ContentTypes
<1>4. ContentTypes'
  BY <1>1 DEF ContentInv, ContentTypes
<1>5. DanglingIsRaced'
  BY <1>1, <1>2 DEF ContentInv, DanglingIsRaced, Names
<1>6. TLSNeedsHttps'
  BY <1>1, <1>3 DEF ContentInv, TLSNeedsHttps
<1>7. SeenSinceCount'
  BY <1>1 DEF ContentInv, SeenSinceCount, Names
<1>8. ASSUME NEW w \in Writers, writer[w].at # "idle", NEW c, c = writer[w]
      PROVE  WriterOK(c)'
  <2>1. c \in Writes /\ WriterOK(c)
    BY <1>8, WriterType DEF ContentInv
  <2>2. raced \subseteq raced'
    BY <1>1
  <2> QED BY <1>2, <1>3, <2>1, <2>2, WriterStays
<1>9. \A w \in Writers : writer'[w].at # "idle" => WriterOK(writer[w])'
  BY <1>1, <1>8
<1> QED BY <1>4, <1>5, <1>6, <1>7, <1>9 DEF ContentInv

LEMMA ContentInvHolds == ContentSpec => []ContentInv
<1>1. ContentInit => ContentInv
  <2> SUFFICES ASSUME ContentInit PROVE ContentInv
    OBVIOUS
  <2>1. \A w \in Writers : writer[w] = IdleWriter /\ writer[w].at = "idle"
    BY DEF ContentInit, IdleWriter
  <2>2. ContentTypes
    BY DEF ContentInit, ContentTypes
  <2>3. DanglingIsRaced /\ TLSNeedsHttps /\ SeenSinceCount
    BY DEF ContentInit, DanglingIsRaced, TLSNeedsHttps, SeenSinceCount
  <2> QED BY <2>1, <2>2, <2>3 DEF ContentInv
<1>2. ASSUME ContentInv, [ContentNext]_contentVars
      PROVE  ContentInv'
  <2>1. CASE UNCHANGED contentVars
    <3>1. UNCHANGED <<content, writer, secrets, resources, counted, raced, turned>>
      BY <2>1 DEF contentVars, histories
    <3>2. ContentTypes'
      BY <1>2, <3>1 DEF ContentInv, ContentTypes
    <3>3. DanglingIsRaced' /\ TLSNeedsHttps' /\ SeenSinceCount'
      BY <1>2, <3>1 DEF ContentInv, DanglingIsRaced, TLSNeedsHttps,
         SeenSinceCount, Names, Usable
    <3>4. \A w \in Writers : writer'[w].at # "idle" => WriterOK(writer[w])'
      BY <1>2, <3>1 DEF ContentInv, WriterOK, KeepsParts, Vouched, TLSVouched,
         Usable, Names, WithoutEmptyTLS, EmptyTLS, AsksForTarget
    <3> QED BY <3>2, <3>3, <3>4 DEF ContentInv
  <2> QED BY <1>2, <2>1, WriterStepKeeps, DeleteKeeps, CountKeeps, LetGoKeeps,
          ChangeProtocolKeeps DEF ContentNext, PeerStep
<1> QED BY <1>1, <1>2, PTL DEF ContentSpec

---------------------------------------------------------------------------
(* Theorems.                                                                 *)

(* A write has well-formed secrets to ask Secrets for, and a resource when   *)
(* it asks Networks (validateSecrets, validatePrivateTarget).                *)
THEOREM ContentTypeCorrect == ContentSpec => []ContentTypeOK
<1>1. ContentInv => ContentTypeOK
  <2> SUFFICES ASSUME ContentInv PROVE ContentTypeOK
    OBVIOUS
  <2>1. ASSUME NEW w \in Writers
        PROVE  /\ writer[w].at \in WriterSteps
               /\ writer[w].at # "idle" =>
                    SecretIDs(writer[w].content) \subseteq SecretIds
               /\ writer[w].at = "target" =>
                    writer[w].content.matcher.resource \in ResourceIds
    <3>1. CASE writer[w].at = "idle"
      BY <3>1 DEF WriterSteps
    <3>2. CASE writer[w].at # "idle"
      <4> DEFINE c == writer[w]
      <4>1. c \in Writes /\ WriterOK(c)
        BY <3>2, WriterType DEF ContentInv
      <4>2. c.content \in CheckedRules /\ c.at \in WriterSteps
        BY <4>1, WritesFields DEF WriterSteps
      <4> HIDE DEF c
      <4>3. /\ SecretIDs(c.content) \subseteq SecretIds
            /\ c.content.matcher.resource \in ResourceIds \cup {None}
        BY <4>2, CheckedParts
      <4> QED BY <4>1, <4>2, <4>3 DEF c, WriterOK
    <3> QED BY <3>1, <3>2
  <2> QED BY <2>1 DEF ContentInv, ContentTypes, ContentTypeOK
<1> QED BY <1>1, ContentInvHolds, PTL

(* A stored rule whose secret or resource is gone was being written while it *)
(* went (validateSecrets, validatePrivateTarget and the two counts).         *)
THEOREM DanglingRulesRaced == ContentSpec => []DanglingIsRaced
<1>1. ContentInv => DanglingIsRaced
  BY DEF ContentInv
<1> QED BY <1>1, ContentInvHolds, PTL

(* A TLS block is on a resource that is or was https                         *)
(* (validatePrivateTarget).                                                  *)
THEOREM TLSOnlyWhereHttps == ContentSpec => []TLSNeedsHttps
<1>1. ContentInv => TLSNeedsHttps
  BY DEF ContentInv
<1> QED BY <1>1, ContentInvHolds, PTL

(* An update that nothing overtakes leaves what it does not bring            *)
(* (UpdateEgressRule).                                                       *)
THEOREM UpdatesKeepOtherParts == ContentSpec => UpdateKeepsOtherParts
<1>1. ASSUME ContentInv, [ContentNext]_contentVars, NEW w \in Writers,
             NEW c, c = writer[w],
             c.at = "write", writer'[w].at = "idle",
             c.read # None, content[c.rule] = c.read,
             NEW part \in {"matcher", "effect", "tls"}, c.change[part] = None
      PROVE  WithoutEmptyTLS(content'[c.rule][part]) = WithoutEmptyTLS(c.read[part])
  <2>1. c \in Writes /\ WriterOK(c)
    BY <1>1, WriterType DEF ContentInv
  <2>2. WithoutEmptyTLS(c.content[part]) = WithoutEmptyTLS(c.read[part])
    BY <1>1, <2>1 DEF WriterOK, KeepsParts, Parts
  <2>3. Write(w)
    <3>1. writer' # writer
      BY <1>1
    <3>2. PICK v \in Writers : WriterStep(v)
      BY <1>1, <3>1 DEF ContentNext, PeerStep, Delete, Count, LetGo,
         ChangeProtocol, contentVars
    <3>3. v = w
      BY <1>1, <3>2 DEF WriterStep, Create, Update, UpdateNameOnly, StartWrite,
         ResolveSecret, SecretsResolved, ValidatePrivateTarget, Write, Returns,
         ContentInv, ContentTypes
    <3> QED BY <1>1, <3>2, <3>3 DEF WriterStep, Create, Update, UpdateNameOnly,
            StartWrite, ResolveSecret, SecretsResolved, ValidatePrivateTarget,
            WriterAt
  <2>4. content' = [content EXCEPT ![c.rule] = c.content]
    BY <1>1, <2>3 DEF Write
  <2>5. content'[c.rule] = c.content
    BY <2>1, <2>4, WritesFields, <1>1 DEF ContentInv, ContentTypes
  <2> QED BY <2>2, <2>5
<1>2. ContentInv /\ [ContentNext]_contentVars =>
        [\A w \in Writers :
           LET c == writer[w] IN
           /\ c.at = "write" /\ writer'[w].at = "idle"
           /\ c.read # None /\ content[c.rule] = c.read
           => \A part \in {"matcher", "effect", "tls"} :
                c.change[part] = None =>
                  WithoutEmptyTLS(content'[c.rule][part])
                    = WithoutEmptyTLS(c.read[part])]_contentVars
  BY <1>1
<1> QED BY <1>2, ContentInvHolds, PTL DEF ContentSpec, UpdateKeepsOtherParts

=============================================================================
