------------------------------ MODULE MCContent ----------------------------
(* Instances of RequestValidation and RuleContent, one at a time in one run: *)
(* requests of every form while nothing is written, and writes of a few      *)
(* rules while no request is looked at by itself.                            *)
EXTENDS RuleContent, RequestValidation

RequestsAndContentInit == ContentInit /\ ValidationInit

RequestsAndContentNext ==
  \/ /\ writes = 0 /\ \A x \in Refs : Usable(x) /\ counted[x] = None
     /\ ValidationNext /\ UNCHANGED contentVars
  \/ input = None /\ ContentNext /\ UNCHANGED validationVars

RequestsAndContentSpec ==
  /\ RequestsAndContentInit
  /\ [][RequestsAndContentNext]_<<contentVars, validationVars>>

---------------------------------------------------------------------------
(* Header names X and x differ in case only; names have up to three labels;  *)
(* an address has two octets of two bits each and the reserved block, of     *)
(* 1.2 and 1.3, a prefix of three.                                           *)

Labels == {"*", "", "AGYN", "agyn", "svc", "cluster", "local", "api"}

Octets == [o \in {"0", "1", "2", "3"} |->
             CASE o = "0" -> <<0, 0>> [] o = "1" -> <<0, 1>>
               [] o = "2" -> <<1, 0>> [] o = "3" -> <<1, 1>>]

PrefixLengths == [n \in {"/0", "/1", "/2", "/3", "/4"} |->
                    CASE n = "/0" -> 0 [] n = "/1" -> 1 [] n = "/2" -> 2
                      [] n = "/3" -> 3 [] n = "/4" -> 4]

Dotted == (DOMAIN Octets) \X (DOMAIN Octets)

MCParseIP == [d \in Dotted |-> Octets[d[1]] \o Octets[d[2]]]

(* The last label of a block: its last octet and the length of its prefix.   *)
LastOfBlock == {o \o n : o \in DOMAIN Octets, n \in DOMAIN PrefixLengths}

MCParseCIDR ==
  [b \in (DOMAIN Octets) \X LastOfBlock |->
     LET last == CHOOSE l \in (DOMAIN Octets) \X DOMAIN PrefixLengths :
                   b[2] = l[1] \o l[2]
     IN SubSeq(MCParseIP[<<b[1], last[1]>>], 1, PrefixLengths[last[2]])]

MCLower == [l \in Labels \cup DOMAIN Octets \cup LastOfBlock |->
              IF l = "AGYN" THEN "agyn" ELSE l]

MCUpper == [m \in {"get", "GET"} |-> "GET"]

MCFoldName == [n \in {"X", "x", "y"} |-> IF n = "X" THEN "x" ELSE n]

MCCarrierGradeNAT == <<0, 1, 1>>

SequencesUpTo(S, n) == UNION {[1..k -> S] : k \in 1..n}

MCHosts == (SequencesUpTo(Labels \ {"*", "AGYN"}, 3) \ {<<"">>}) \cup Dotted

Patterns ==
  (SequencesUpTo(Labels, 3) \ {<<"">>})
  \cup Dotted \cup DOMAIN MCParseCIDR
  \cup {"*"} \X (DOMAIN Octets \cup LastOfBlock)

---------------------------------------------------------------------------
(* Parts of requests.                                                        *)

Matcher(pattern, resource, ports, methods) ==
  [pattern |-> pattern, resource |-> resource, ports |-> ports,
   methods |-> methods]

Public == Matcher(<<"api", "AGYN", "local">>, None, {443}, {})

Private == Matcher(None, "x1", {}, {"get"})

Deny == [action |-> "deny", inject |-> <<>>]

Inject(headers) == [action |-> "absent", inject |-> headers]

Block(server, trust, ca) == [server |-> server, trust |-> trust, ca |-> ca]

Rule(matcher, effect, tls) == [matcher |-> matcher, effect |-> effect, tls |-> tls]

---------------------------------------------------------------------------
(* For RequestValidation: every pattern, ports at their bounds, and for a    *)
(* few matchers every effect of up to two headers and every TLS block.       *)

MatchersSent ==
  {Matcher(pattern, None, {}, {"get", "GET"}) : pattern \in Patterns}
  \cup {Matcher(pattern, resource, ports, methods) :
          pattern \in {None, Public.pattern},
          resource \in {None, "x1", "garbage"},
          ports \in SUBSET {0, 1, 65535, 65536},
          methods \in SUBSET {"get", "GET", None}}
  \cup {None}

Headers ==
  {[name |-> name, scheme |-> scheme, username |-> username,
    credential |-> credential, value |-> value] :
     name \in {"X", "x", None}, scheme \in {"bearer", "basic", "other"},
     username \in {None, "joe", "a:b"},
     credential \in {"value", "secret", "absent"}, value \in {None, "s1"}}

ProperHeaders == {h \in Headers : ValidHeader(h)}

EffectsSent ==
  {None}
  \cup {[action |-> action, inject |-> inject] :
          action \in {"absent", "unspecified", "allow", "other"},
          inject \in {<<>>} \cup {<<h>> : h \in Headers \cup {None}}}
  \cup {Inject(<<h, g>>) : h, g \in ProperHeaders}

FewEffects == {Deny} \cup {Inject(<<h>>) : h \in ProperHeaders}

BlocksSent ==
  {None} \cup {Block(server, trust, ca) :
                 server \in {None, "gitlab"},
                 trust \in {"absent", "ca_bundle", "insecure", "verify"},
                 ca \in {None, "s1", "garbage"}}

MCInputs ==
  {Rule(m, Deny, None) : m \in MatchersSent}
  \cup {Rule(Public, e, None) : e \in EffectsSent}
  \cup {Rule(m, e, t) :
          m \in {Public, Private}, e \in FewEffects, t \in BlocksSent}

---------------------------------------------------------------------------
(* For RuleContent: one resource or a public name, a secret in a header and  *)
(* in a TLS block.                                                           *)

Secret == Inject(<<[name |-> "X", scheme |-> "bearer", username |-> None,
                    credential |-> "secret", value |-> "s1"]>>)

MCNewRules ==
  {Rule(Public, Secret, None)}
  \cup {Rule([Private EXCEPT !.methods = {}], Deny, block) :
          block \in {None, Block(None, "verify", None),
                     Block(None, "ca_bundle", "s1")}}

MCChanges ==
  {Rule(Private, None, None), Rule(None, Secret, None), Rule(None, Deny, None)}
  \cup {Rule(None, None, block) :
          block \in {Block(None, "ca_bundle", "s1"),
                     Block(None, "absent", None)}}
=============================================================================
