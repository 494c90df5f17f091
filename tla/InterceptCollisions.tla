------------------------- MODULE InterceptCollisions -----------------------
(* Agents whose dials are ambiguous: authorized both for a public rule's     *)
(* domain and for a private resource that intercepts the same host and port. *)
(* Attaches check for it before they insert (rejectInterceptCollision of     *)
(* private_targets.go), so does Networks before it grants, and each          *)
(* reconciler pass reports what is there all the same (collisions.go).       *)
(*                                                                           *)
(* External, from what this service asks of them: Networks (grants to agents *)
(* and environments, and through groups, unchecked) and Agents (the          *)
(* environment an agent runs).  One organization, whose rules exist already; *)
(* an update gives a public rule another matcher and checks nothing here.    *)
EXTENDS Interception, FiniteSets

CONSTANTS PublicRules, PrivateRules,
          ResourceOf,    \* the private resource each private rule names
          ResourceIds,
          InterceptOf,   \* host and ports of each private resource
          Matchers,      \* patterns and ports public rules may have
          Agents, Environments,
          Callers,       \* attaches in flight
          None,
          MaxWrites,     \* bound: writes of any kind
          MaxFaults      \* bound: failed lookups and passes

ASSUME CollisionsAssumption ==
  /\ ResourceOf \in [PrivateRules -> ResourceIds]
  /\ PublicRules \cap PrivateRules = {} /\ Agents \cap Environments = {}
  /\ None \notin (PublicRules \cup PrivateRules) \X (Agents \cup Environments)
  /\ \A x \in ResourceIds : InterceptOf[x].host \in Seq(STRING)
  /\ \A m \in Matchers : m.pattern \in Seq(STRING)
  /\ MaxWrites \in Nat /\ MaxFaults \in Nat

VARIABLES matcher,      \* of each public rule
          attached,     \* rules and the agents and environments they are on
          environment,  \* the environment each agent runs, or None
          grants,       \* agents and environments and resources given to them
          attach,       \* attaches that passed their check, or None
          granting,     \* a grant Networks has checked, or None
          pass,         \* the report being made
          report,       \* the last one made
          calm,         \* nothing written and nothing failed since it began
          quiet,        \* the same since each attach made its check
          writes, faults

rest == <<writes, faults>>
tables == <<matcher, attached, environment, grants>>
collisionVars == <<tables, attach, granting, pass, report, calm, quiet, rest>>

Targets == Agents \cup Environments
Rules == PublicRules \cup PrivateRules

IdlePass == [at |-> "idle", matcher |-> None, attached |-> {},
             agents |-> {}, found |-> {}]

CollisionsInit ==
  /\ matcher \in [PublicRules -> Matchers]
  /\ attached = {} /\ grants = {}
  /\ environment = [a \in Agents |-> None]
  /\ attach = [c \in Callers |-> None]
  /\ granting = None
  /\ pass = IdlePass
  /\ report = {}
  /\ calm = FALSE
  /\ quiet = [c \in Callers |-> FALSE]
  /\ writes = 0 /\ faults = 0

---------------------------------------------------------------------------
(* Lookups.                                                                  *)

Overlap(m, x) ==
  /\ DomainPatternMatchesHost(m.pattern, InterceptOf[x].host)
  /\ PortsOverlap(m.ports, InterceptOf[x].ports)

(* ListRulesByAgent and ListRulesByEnvironment.                              *)
RulesAttachedTo(t) == {r \in Rules : <<r, t>> \in attached}

(* An agent and the environment it runs.                                     *)
Principals(agent, env) == {agent} \cup ({env} \ {None})

PrincipalsOf(t) ==
  IF t \in Agents THEN Principals(t, environment[t]) ELSE {t}

(* ListPrivateResourcesReachableBy: grants only.                             *)
ReachableBy(t) == {x \in ResourceIds : \E p \in PrincipalsOf(t) : <<p, x>> \in grants}

---------------------------------------------------------------------------
(* Writes.                                                                   *)

(* A change of the tables disturbs the pass and every attach under way.      *)
Written ==
  /\ writes < MaxWrites
  /\ writes' = writes + 1
  /\ calm' = FALSE
  /\ quiet' = [c \in Callers |-> FALSE]
  /\ UNCHANGED faults

(* rejectInterceptCollision and, for a private rule,                         *)
(* rejectPrivateAttachmentCollision: what is refused.                        *)
Collides(r, t) ==
  IF r \in PublicRules
  THEN \E x \in ReachableBy(t) : Overlap(matcher[r], x)
  ELSE \E other \in RulesAttachedTo(t) \cap PublicRules :
         Overlap(matcher[other], ResourceOf[r])

(* Mutation: private rules are not checked.                                  *)
AttachCheck_PublicOnly(c) ==
  /\ attach[c] = None
  /\ \E r \in Rules, t \in Targets :
       /\ <<r, t>> \notin attached
       /\ r \in PublicRules => ~Collides(r, t)
       /\ attach' = [attach EXCEPT ![c] = <<r, t>>]
  /\ quiet' = [quiet EXCEPT ![c] = TRUE]
  /\ UNCHANGED <<tables, granting, pass, report, calm, rest>>

AttachCheck(c) ==
  /\ attach[c] = None
  /\ \E r \in Rules, t \in Targets :
       /\ <<r, t>> \notin attached
       /\ ~Collides(r, t)
       /\ attach' = [attach EXCEPT ![c] = <<r, t>>]
  /\ quiet' = [quiet EXCEPT ![c] = TRUE]
  /\ UNCHANGED <<tables, granting, pass, report, calm, rest>>

(* A lookup of the check fails: the check is skipped.                        *)
AttachCheckFails(c) ==
  /\ attach[c] = None
  /\ faults < MaxFaults
  /\ faults' = faults + 1
  /\ \E r \in Rules, t \in Targets :
       /\ <<r, t>> \notin attached
       /\ attach' = [attach EXCEPT ![c] = <<r, t>>]
  /\ quiet' = [quiet EXCEPT ![c] = FALSE]
  /\ UNCHANGED <<tables, granting, pass, report, calm, writes>>

AttachInsert(c) ==
  /\ attach[c] # None
  /\ attached' = attached \cup {attach[c]}
  /\ attach' = [attach EXCEPT ![c] = None]
  /\ Written
  /\ UNCHANGED <<matcher, environment, grants, granting, pass, report>>

Detach ==
  /\ \E pair \in attached : attached' = attached \ {pair}
  /\ Written
  /\ UNCHANGED <<matcher, environment, grants, attach, granting, pass, report>>

UpdateMatcher ==
  /\ \E r \in PublicRules : \E m \in Matchers \ {matcher[r]} :
       matcher' = [matcher EXCEPT ![r] = m]
  /\ Written
  /\ UNCHANGED <<attached, environment, grants, attach, granting, pass, report>>

MoveAgent ==
  /\ \E a \in Agents : \E e \in (Environments \cup {None}) \ {environment[a]} :
       environment' = [environment EXCEPT ![a] = e]
  /\ Written
  /\ UNCHANGED <<matcher, attached, grants, attach, granting, pass, report>>

(* ListAttachedRuleDomains, for each principal Networks asks about.          *)
AttachedRuleDomains(t) ==
  {matcher[r] : r \in PublicRules \cap
                      UNION {RulesAttachedTo(p) : p \in PrincipalsOf(t)}}

GrantCheck ==
  /\ granting = None
  /\ \E t \in Targets, x \in ResourceIds :
       /\ <<t, x>> \notin grants
       /\ ~\E m \in AttachedRuleDomains(t) : Overlap(m, x)
       /\ granting' = <<t, x>>
  /\ UNCHANGED <<tables, attach, pass, report, calm, quiet, rest>>

Grant ==
  /\ granting # None
  /\ grants' = grants \cup {granting}
  /\ granting' = None
  /\ Written
  /\ UNCHANGED <<matcher, attached, environment, attach, pass, report>>

(* A group write gives a resource to the group's agents, or takes it back,   *)
(* with no check.                                                            *)
GroupWrite ==
  /\ \E a \in Agents, x \in ResourceIds :
       grants' = IF <<a, x>> \in grants THEN grants \ {<<a, x>>}
                                        ELSE grants \cup {<<a, x>>}
  /\ Written
  /\ UNCHANGED <<matcher, attached, environment, attach, granting, pass, report>>

---------------------------------------------------------------------------
(* The report at the end of a reconciler pass: collectInterceptCollisions    *)
(* over the snapshots the pass has worked from.                              *)

PassMoves(next) ==
  /\ pass' = next
  /\ UNCHANGED <<tables, attach, granting, report, quiet, rest>>

ListAllRules ==
  /\ pass.at = "idle"
  /\ calm' = TRUE
  /\ PassMoves([IdlePass EXCEPT !.at = "attachments", !.matcher = matcher])

ListAllAttachments ==
  /\ pass.at = "attachments"
  /\ PassMoves([pass EXCEPT !.at = "agents", !.attached = attached])
  /\ UNCHANGED calm

(* listAgents: each with its environment.                                    *)
ListAgents ==
  /\ pass.at = "agents"
  /\ PassMoves([pass EXCEPT !.at = "walk",
                            !.agents = {<<a, environment[a]>> : a \in Agents}])
  /\ UNCHANGED calm

(* The rules reaching an agent, by the snapshot.                             *)
Effective(agent, env) ==
  {r \in Rules : \E p \in Principals(agent, env) : <<r, p>> \in pass.attached}

ResourcesOf(rules) == {ResourceOf[r] : r \in rules \cap PrivateRules}

(* Mutation: grants only.                                                    *)
ReachableResources_Granted(agent, rules) == ReachableBy(agent)

(* reachableResources: grants as they are now, and resources of private      *)
(* rules.                                                                    *)
ReachableResources(agent, rules) ==
  ReachableBy(agent) \cup ResourcesOf(rules)

(* The collisions of one agent, of the resources that were resolved.         *)
CollisionsAmong(agent, rules, resources) ==
  {c \in {agent} \X (rules \cap PublicRules) \X resources :
     Overlap(pass.matcher[c[2]], c[3])}

WalkAgent ==
  /\ pass.at = "walk"
  /\ \E a \in pass.agents :
       LET rules == Effective(a[1], a[2]) IN
       PassMoves([pass EXCEPT !.agents = @ \ {a},
         !.found = @ \cup
            CollisionsAmong(a[1], rules, ReachableResources(a[1], rules))])
  /\ UNCHANGED calm

(* Mutation: a collision once found is reported for ever.                    *)
PassDone_Accumulating ==
  /\ pass.at = "walk" /\ pass.agents = {}
  /\ report' = report \cup pass.found
  /\ pass' = IdlePass
  /\ UNCHANGED <<tables, attach, granting, calm, quiet, rest>>

PassDone ==
  /\ pass.at = "walk" /\ pass.agents = {}
  /\ report' = pass.found
  /\ pass' = IdlePass
  /\ UNCHANGED <<tables, attach, granting, calm, quiet, rest>>

(* A failed lookup shrinks the report: some agents or some resources of one  *)
(* are missing.  Or the pass fails before it comes to report.                *)
PassFault ==
  /\ faults < MaxFaults
  /\ faults' = faults + 1
  /\ calm' = FALSE
  /\ \/ /\ pass.at = "agents"
        /\ \E some \in SUBSET {<<a, environment[a]>> : a \in Agents} :
             pass' = [pass EXCEPT !.at = "walk", !.agents = some]
     \/ /\ pass.at = "walk"
        /\ \E a \in pass.agents, granted \in BOOLEAN, some \in SUBSET ResourceIds :
             LET rules == Effective(a[1], a[2]) IN
             pass' = [pass EXCEPT !.agents = @ \ {a},
               !.found = @ \cup CollisionsAmong(a[1], rules,
                 (IF granted THEN ReachableBy(a[1]) ELSE {}) \cup
                 (some \cap ResourcesOf(rules)))]
     \/ pass.at # "idle" /\ pass' = IdlePass
  /\ UNCHANGED <<tables, attach, granting, report, quiet, writes>>

---------------------------------------------------------------------------

PassStep ==
  ListAllRules \/ ListAllAttachments \/ ListAgents \/ WalkAgent \/ PassDone

WriteStep ==
  \/ \E c \in Callers : AttachCheck(c) \/ AttachCheckFails(c) \/ AttachInsert(c)
  \/ Detach \/ UpdateMatcher \/ MoveAgent
  \/ GrantCheck \/ Grant \/ GroupWrite

CollisionsNext == WriteStep \/ PassStep \/ PassFault

CollisionsSpec == CollisionsInit /\ [][CollisionsNext]_collisionVars

(* The ticker starts pass after pass; nothing is assumed of anybody else.    *)
CollisionsFairSpec == CollisionsSpec /\ WF_collisionVars(PassStep)

---------------------------------------------------------------------------
(* Properties.                                                               *)

(* What a sidecar is told to intercept for an agent, rule by rule and        *)
(* resource by resource, dial by dial.                                       *)
Intercepts(m, host, port) ==
  /\ port \in m.ports
  /\ IF IsWildcard(m.pattern)
     THEN /\ Len(host) = Len(m.pattern) /\ host[1] # ""
          /\ \A i \in 2..Len(host) : host[i] = m.pattern[i]
     ELSE host = m.pattern

Holds(agent, r) == \E p \in PrincipalsOf(agent) : <<r, p>> \in attached

CanDial(agent, x) ==
  \/ \E p \in PrincipalsOf(agent) : <<p, x>> \in grants
  \/ \E r \in PrivateRules : Holds(agent, r) /\ ResourceOf[r] = x

Ambiguous ==
  {c \in Agents \X PublicRules \X ResourceIds :
     /\ Holds(c[1], c[2]) /\ CanDial(c[1], c[3])
     /\ \E port \in InterceptOf[c[3]].ports :
          Intercepts(matcher[c[2]], InterceptOf[c[3]].host, port)}

(* A pass that nothing disturbs reports each ambiguity, whichever of the     *)
(* paths on either side made it, and nothing else.                           *)
CalmPassIsExact ==
  pass.at = "walk" /\ pass.agents = {} /\ calm => pass.found = Ambiguous

(* Detection is what holds (private_targets.go): once writes and failures    *)
(* cease, whatever checks were skipped or raced, every pass reports exactly  *)
(* the ambiguities there are.                                                *)
DetectionHolds == <>[](report = Ambiguous)

Quietly(c, r, t) == quiet[c] /\ attach[c] = <<r, t>> /\ attach'[c] = None

(* An attach to an agent that nothing overtakes since its check adds no      *)
(* ambiguity out of the rules attached to that agent and the grants that     *)
(* reach it, except of a public rule with the resource of a private rule,    *)
(* which only the opposite order of the two attaches is checked for.         *)
AttachAddsNoAmbiguity ==
  [][\A c \in Callers, r \in Rules, t \in Agents :
       Quietly(c, r, t) =>
         \A u \in PublicRules, x \in ResourceIds :
           /\ <<t, u, x>> \in Ambiguous' \ Ambiguous
           => \/ u = r /\ ~\E p \in PrincipalsOf(t) : <<p, x>> \in grants
              \/ u # r /\ <<u, t>> \notin attached]_collisionVars

=============================================================================
