--------------------------- MODULE CollisionProofs --------------------------
(* The report of a pass that nothing disturbs is exact, and what an attach   *)
(* that nothing overtakes may add, for any rules, resources and agents.      *)
EXTENDS InterceptCollisions, TLAPS

---------------------------------------------------------------------------
(* What the service compares is what a sidecar intercepts.                   *)

(* One label under a wildcard is agreement on every label but the first.     *)
LEMMA SameTails ==
  ASSUME NEW s \in Seq(STRING), NEW t \in Seq(STRING), Len(t) > 1
  PROVE  Len(s) > 1 /\ Tail(s) = Tail(t)
           <=> Len(s) = Len(t) /\ \A i \in 2..Len(s) : s[i] = t[i]
<1>1. ASSUME Len(s) > 1, Tail(s) = Tail(t)
      PROVE  Len(s) = Len(t) /\ \A i \in 2..Len(s) : s[i] = t[i]
  <2>1. Len(Tail(s)) = Len(s) - 1 /\ Len(Tail(t)) = Len(t) - 1
    BY <1>1
  <2>2. Len(s) = Len(t)
    BY <1>1, <2>1
  <2>3. ASSUME NEW i \in 2..Len(s)
        PROVE  s[i] = t[i]
    <3>1. s[i] = Tail(s)[i - 1] /\ t[i] = Tail(t)[i - 1]
      BY <1>1, <2>2
    <3> QED BY <1>1, <3>1
  <2> QED BY <2>2, <2>3
<1>2. ASSUME Len(s) = Len(t), \A i \in 2..Len(s) : s[i] = t[i]
      PROVE  Len(s) > 1 /\ Tail(s) = Tail(t)
  <2>1. /\ Tail(s) \in Seq(STRING) /\ Tail(t) \in Seq(STRING)
        /\ Len(Tail(s)) = Len(Tail(t)) /\ Len(Tail(s)) = Len(s) - 1
    BY <1>2
  <2>2. ASSUME NEW i \in 1..Len(Tail(s))
        PROVE  Tail(s)[i] = Tail(t)[i]
    <3>1. Tail(s)[i] = s[i + 1] /\ Tail(t)[i] = t[i + 1] /\ i + 1 \in 2..Len(s)
      BY <1>2, <2>1
    <3> QED BY <1>2, <3>1
  <2> QED BY <1>2, <2>1, <2>2
<1> QED BY <1>1, <1>2

LEMMA OverlapIsIntercepted ==
  ASSUME NEW m \in Matchers, NEW x \in ResourceIds
  PROVE  Overlap(m, x) <=> \E port \in InterceptOf[x].ports :
                             Intercepts(m, InterceptOf[x].host, port)
<1> DEFINE host == InterceptOf[x].host
<1>1. host \in Seq(STRING) /\ m.pattern \in Seq(STRING)
  BY CollisionsAssumption DEF CollisionsAssumption
<1>2. CASE IsWildcard(m.pattern)
  <2>1. Len(m.pattern) > 1
    BY <1>2 DEF IsWildcard
  <2>2. Len(host) > 1 /\ Tail(host) = Tail(m.pattern)
          <=> /\ Len(host) = Len(m.pattern)
              /\ \A i \in 2..Len(host) : host[i] = m.pattern[i]
    BY <1>1, <2>1, SameTails
  <2>3. Len(host) > 1 => Head(host) = host[1]
    BY <1>1
  <2>4. DomainPatternMatchesHost(m.pattern, host)
          <=> /\ Len(host) = Len(m.pattern) /\ host[1] # ""
              /\ \A i \in 2..Len(host) : host[i] = m.pattern[i]
    BY <1>2, <2>1, <2>2, <2>3 DEF DomainPatternMatchesHost
  <2> QED BY <1>2, <2>4 DEF Overlap, Intercepts, PortsOverlap
<1>3. CASE ~IsWildcard(m.pattern)
  BY <1>3 DEF Overlap, Intercepts, DomainPatternMatchesHost, PortsOverlap
<1> QED BY <1>2, <1>3

---------------------------------------------------------------------------
(* The pass.                                                                 *)

PassStates ==
  [at : {"idle", "attachments", "agents", "walk"},
   matcher : [PublicRules -> Matchers] \cup {None},
   attached : SUBSET (Rules \X Targets),
   agents : SUBSET (Agents \X (Environments \cup {None})),
   found : SUBSET (Agents \X PublicRules \X ResourceIds)]

CollisionTypes ==
  /\ matcher \in [PublicRules -> Matchers]
  /\ attached \in SUBSET (Rules \X Targets)
  /\ environment \in [Agents -> Environments \cup {None}]
  /\ attach \in [Callers -> (Rules \X Targets) \cup {None}]
  /\ pass \in PassStates
  /\ quiet \in [Callers -> BOOLEAN]

Current(a) == <<a, environment[a]>>

(* A calm pass has in hand what is stored, and has found the ambiguities of  *)
(* the agents it has walked.                                                 *)
CalmOK ==
  calm =>
    /\ pass.at # "idle" => pass.matcher = matcher
    /\ pass.at \in {"attachments", "agents"} => pass.found = {}
    /\ pass.at \in {"agents", "walk"} => pass.attached = attached
    /\ pass.at = "walk" =>
         /\ pass.agents \subseteq {Current(a) : a \in Agents}
         /\ pass.found = {c \in Ambiguous : Current(c[1]) \notin pass.agents}

(* An attach that nothing overtook still passes its check.                   *)
QuietOK ==
  \A c \in Callers, r \in Rules, t \in Targets :
    quiet[c] /\ attach[c] = <<r, t>> => ~Collides(r, t)

CollisionInv == CollisionTypes /\ CalmOK /\ QuietOK

(* What a walk finds of an agent is what is ambiguous for it.                *)
LEMMA WalkFindsAmbiguities ==
  ASSUME CollisionTypes, pass.matcher = matcher, pass.attached = attached,
         NEW a \in Agents
  PROVE  LET rules == Effective(a, environment[a])
         IN  CollisionsAmong(a, rules, ReachableResources(a, rules))
               = {c \in Ambiguous : c[1] = a}
<1> DEFINE rules == Effective(a, environment[a])
           found == CollisionsAmong(a, rules, ReachableResources(a, rules))
<1>1. \A r : r \in rules <=> r \in Rules /\ Holds(a, r)
  BY DEF Effective, Holds, PrincipalsOf
<1>2. \A x : x \in ReachableResources(a, rules) <=>
               \/ x \in ReachableBy(a)
               \/ \E r \in PrivateRules : r \in rules /\ ResourceOf[r] = x
  BY DEF ReachableResources, ResourcesOf
<1>3. \A x : x \in ReachableBy(a) <=>
               x \in ResourceIds /\ \E p \in PrincipalsOf(a) : <<p, x>> \in grants
  BY DEF ReachableBy
<1>4. \A r \in PrivateRules : r \in Rules /\ ResourceOf[r] \in ResourceIds
  BY CollisionsAssumption DEF CollisionsAssumption, Rules
<1> HIDE DEF rules
<1>5. \A x : x \in ReachableResources(a, rules) <=>
               x \in ResourceIds /\ CanDial(a, x)
  BY <1>1, <1>2, <1>3, <1>4 DEF CanDial
<1>6. \A u \in PublicRules, x \in ResourceIds :
        Overlap(pass.matcher[u], x) <=>
          \E port \in InterceptOf[x].ports :
             Intercepts(matcher[u], InterceptOf[x].host, port)
  BY OverlapIsIntercepted DEF CollisionTypes
<1>7. \A u \in PublicRules : u \in rules <=> Holds(a, u)
  BY <1>1 DEF Rules
<1>8. ASSUME NEW u, NEW x
      PROVE  <<a, u, x>> \in found <=> <<a, u, x>> \in Ambiguous
  <2>1. <<a, u, x>> \in found <=>
          /\ u \in rules \cap PublicRules /\ x \in ReachableResources(a, rules)
          /\ Overlap(pass.matcher[u], x)
    BY DEF CollisionsAmong
  <2>2. <<a, u, x>> \in Ambiguous <=>
          /\ u \in PublicRules /\ x \in ResourceIds
          /\ Holds(a, u) /\ CanDial(a, x)
          /\ \E port \in InterceptOf[x].ports :
               Intercepts(matcher[u], InterceptOf[x].host, port)
    BY DEF Ambiguous
  <2> QED BY <1>5, <1>6, <1>7, <2>1, <2>2
<1>9. \A c \in found : \E u, x : c = <<a, u, x>>
  BY DEF CollisionsAmong
<1>10. \A c \in Ambiguous : c[1] = a => \E u, x : c = <<a, u, x>>
  BY DEF Ambiguous
<1>11. \A c \in found : c[1] = a
  BY <1>9
<1> HIDE DEF found
<1>12. found = {c \in Ambiguous : c[1] = a}
  BY <1>8, <1>9, <1>10, <1>11
<1> QED BY <1>12 DEF found, rules
---------------------------------------------------------------------------
(* Steps.                                                                    *)

LEMMA CollisionInvInit == CollisionsInit => CollisionInv
<1> SUFFICES ASSUME CollisionsInit PROVE CollisionInv
  OBVIOUS
<1>1. IdlePass \in PassStates
  <2>1. {} \in SUBSET (Rules \X Targets)
        /\ {} \in SUBSET (Agents \X (Environments \cup {None}))
        /\ {} \in SUBSET (Agents \X PublicRules \X ResourceIds)
    OBVIOUS
  <2> QED BY <2>1 DEF IdlePass, PassStates
<1>2. CollisionTypes
  BY <1>1 DEF CollisionsInit, CollisionTypes
<1>3. CalmOK /\ QuietOK
  BY DEF CollisionsInit, CalmOK, QuietOK
<1> QED BY <1>2, <1>3 DEF CollisionInv

(* What no write touches keeps an attach's check valid.                      *)
LEMMA ChecksStayValid ==
  ASSUME CollisionInv, UNCHANGED tables,
         \A c \in Callers : quiet'[c] /\ attach'[c] # None =>
            quiet[c] /\ attach'[c] = attach[c]
  PROVE  QuietOK'
<1> SUFFICES ASSUME NEW c \in Callers, NEW r \in Rules, NEW t \in Targets,
                    quiet'[c], attach'[c] = <<r, t>>
             PROVE  ~Collides(r, t)'
  BY DEF QuietOK
<1>1. <<r, t>> # None
  BY CollisionsAssumption DEF CollisionsAssumption, Rules, Targets
<1>2. quiet[c] /\ attach[c] = <<r, t>>
  BY <1>1
<1>3. ~Collides(r, t)
  BY <1>2 DEF CollisionInv, QuietOK
<1>4. Collides(r, t)' = Collides(r, t)
  BY DEF tables, Collides, ReachableBy, PrincipalsOf, RulesAttachedTo
<1> QED BY <1>3, <1>4

LEMMA WriteKeepsInv ==
  ASSUME CollisionInv,
         \/ \E c \in Callers : AttachInsert(c)
         \/ Detach \/ UpdateMatcher \/ MoveAgent \/ Grant \/ GroupWrite
  PROVE  CollisionInv'
<1>1. /\ calm' = FALSE /\ quiet' = [c \in Callers |-> FALSE] /\ pass' = pass
  BY DEF AttachInsert, Detach, UpdateMatcher, MoveAgent, Grant, GroupWrite, Written
<1>2. CollisionTypes'
  <2>1. CASE \E c \in Callers : AttachInsert(c)
    <3>1. PICK c \in Callers : AttachInsert(c)
      BY <2>1
    <3>2. attach[c] \in Rules \X Targets
      BY <3>1 DEF AttachInsert, CollisionInv, CollisionTypes
    <3> QED BY <1>1, <3>1, <3>2 DEF AttachInsert, CollisionInv, CollisionTypes
  <2>2. CASE Detach
    BY <1>1, <2>2 DEF Detach, CollisionInv, CollisionTypes
  <2>3. CASE UpdateMatcher
    BY <1>1, <2>3 DEF UpdateMatcher, CollisionInv, CollisionTypes
  <2>4. CASE MoveAgent
    BY <1>1, <2>4 DEF MoveAgent, CollisionInv, CollisionTypes
  <2>5. CASE Grant \/ GroupWrite
    BY <1>1, <2>5 DEF Grant, GroupWrite, CollisionInv, CollisionTypes
  <2> QED BY <2>1, <2>2, <2>3, <2>4, <2>5
<1>3. CalmOK' /\ QuietOK'
  BY <1>1 DEF CalmOK, QuietOK
<1> QED BY <1>2, <1>3 DEF CollisionInv

LEMMA CheckKeepsInv ==
  ASSUME CollisionInv, NEW c \in Callers, AttachCheck(c) \/ AttachCheckFails(c)
  PROVE  CollisionInv'
<1>1. UNCHANGED <<tables, pass, calm>>
  BY DEF AttachCheck, AttachCheckFails
<1>2. PICK r \in Rules, t \in Targets :
        /\ attach' = [attach EXCEPT ![c] = <<r, t>>]
        /\ \/ quiet' = [quiet EXCEPT ![c] = TRUE] /\ ~Collides(r, t)
           \/ quiet' = [quiet EXCEPT ![c] = FALSE]
  BY DEF AttachCheck, AttachCheckFails
<1>3. CollisionTypes'
  BY <1>1, <1>2 DEF CollisionInv, CollisionTypes, tables
<1>4. CalmOK'
  BY <1>1 DEF CollisionInv, CalmOK, tables, Current, Ambiguous, Holds, CanDial,
     PrincipalsOf
<1>5. QuietOK'
  <2> SUFFICES ASSUME NEW d \in Callers, NEW u \in Rules, NEW v \in Targets,
                      quiet'[d], attach'[d] = <<u, v>>
               PROVE  ~Collides(u, v)
    <3>1. \A u, v : Collides(u, v)' = Collides(u, v)
      BY <1>1 DEF tables, Collides, ReachableBy, PrincipalsOf, RulesAttachedTo
    <3> QED BY <3>1 DEF QuietOK
  <2>1. CASE d = c
    <3>1. attach'[c] = <<r, t>>
      BY <1>2 DEF CollisionInv, CollisionTypes
    <3>2. u = r /\ v = t
      BY <2>1, <3>1
    <3>3. ~Collides(r, t)
      BY <1>2, <2>1 DEF CollisionInv, CollisionTypes
    <3> QED BY <3>2, <3>3
  <2>2. CASE d # c
    <3>1. quiet[d] /\ attach[d] = <<u, v>>
      BY <1>2, <2>2 DEF CollisionInv, CollisionTypes
    <3> QED BY <3>1 DEF CollisionInv, QuietOK
  <2> QED BY <2>1, <2>2
<1> QED BY <1>3, <1>4, <1>5 DEF CollisionInv

(* A walk of one agent.                                                      *)
LEMMA WalkKeepsInv ==
  ASSUME CollisionInv, WalkAgent
  PROVE  CollisionInv'
<1> DEFINE Among(a) == CollisionsAmong(a[1], Effective(a[1], a[2]),
                         ReachableResources(a[1], Effective(a[1], a[2])))
<1>1. PICK a \in pass.agents :
        pass' = [pass EXCEPT !.agents = pass.agents \ {a},
                             !.found = pass.found \cup Among(a)]
  BY DEF WalkAgent, PassMoves
<1>2. UNCHANGED <<tables, attach, quiet, calm>> /\ pass.at = "walk"
  BY DEF WalkAgent, PassMoves
<1>3. /\ a \in Agents \X (Environments \cup {None})
      /\ \A r \in PrivateRules : ResourceOf[r] \in ResourceIds
  BY CollisionsAssumption
     DEF CollisionInv, CollisionTypes, PassStates, CollisionsAssumption
<1>4. Among(a) \in SUBSET (Agents \X PublicRules \X ResourceIds)
  BY <1>3 DEF CollisionsAmong, ReachableResources, ReachableBy, ResourcesOf
<1> HIDE DEF Among
<1>5. /\ pass.agents \ {a} \in SUBSET (Agents \X (Environments \cup {None}))
      /\ pass.found \cup Among(a) \in SUBSET (Agents \X PublicRules \X ResourceIds)
  BY <1>4 DEF CollisionInv, CollisionTypes, PassStates
<1>6. /\ pass' \in PassStates /\ pass'.at = "walk"
      /\ pass'.matcher = pass.matcher /\ pass'.attached = pass.attached
      /\ pass'.agents = pass.agents \ {a}
      /\ pass'.found = pass.found \cup Among(a)
  BY <1>1, <1>2, <1>5 DEF CollisionInv, CollisionTypes, PassStates
<1>7. CollisionTypes'
  BY <1>2, <1>6 DEF CollisionInv, CollisionTypes, tables
<1>8. CalmOK'
  <2> SUFFICES ASSUME calm
               PROVE  /\ pass'.matcher = matcher /\ pass'.attached = attached
                      /\ pass'.agents \subseteq {Current(b) : b \in Agents}
                      /\ pass'.found =
                           {c \in Ambiguous : Current(c[1]) \notin pass'.agents}
    <3>1. Ambiguous' = Ambiguous /\ \A b : Current(b)' = Current(b)
      BY <1>2 DEF tables, Ambiguous, Current, Holds, CanDial, PrincipalsOf
    <3> QED BY <1>2, <1>6, <3>1 DEF CalmOK, tables
  <2>1. /\ pass.matcher = matcher /\ pass.attached = attached
        /\ pass.agents \subseteq {Current(b) : b \in Agents}
        /\ pass.found = {c \in Ambiguous : Current(c[1]) \notin pass.agents}
    BY <1>2 DEF CollisionInv, CalmOK
  <2>2. PICK b \in Agents : a = Current(b)
    BY <2>1
  <2>3. a[1] = b /\ a[2] = environment[b]
    BY <2>2 DEF Current
  <2>4. Among(a) = {c \in Ambiguous : c[1] = b}
    BY <2>1, <2>3, WalkFindsAmbiguities DEF Among, CollisionInv
  <2>5. \A d : Current(d) = a <=> d = b
    BY <2>2 DEF Current
  <2>6. pass'.found = {c \in Ambiguous : Current(c[1]) \notin pass'.agents}
    BY <1>6, <2>1, <2>4, <2>5
  <2> QED BY <1>6, <2>1, <2>6
<1>9. QuietOK'
  BY <1>2, ChecksStayValid
<1> QED BY <1>7, <1>8, <1>9 DEF CollisionInv

(* The snapshots of a pass.                                                  *)
LEMMA SnapshotsKeepInv ==
  ASSUME CollisionInv, ListAllRules \/ ListAllAttachments \/ ListAgents
  PROVE  CollisionInv'
<1>1. UNCHANGED <<tables, attach, quiet>>
  BY DEF ListAllRules, ListAllAttachments, ListAgents, PassMoves
<1>2. /\ matcher \in [PublicRules -> Matchers] /\ pass \in PassStates
      /\ attached \in SUBSET (Rules \X Targets)
      /\ {Current(a) : a \in Agents} \in SUBSET (Agents \X (Environments \cup {None}))
  BY DEF CollisionInv, CollisionTypes, Current
<1>3. Ambiguous' = Ambiguous /\ \A a : Current(a)' = Current(a)
  BY <1>1 DEF tables, Ambiguous, Current, Holds, CanDial, PrincipalsOf
<1>4. QuietOK'
  BY <1>1, ChecksStayValid
<1>5. CASE ListAllRules
  <2>1. /\ pass' = [IdlePass EXCEPT !.at = "attachments", !.matcher = matcher]
        /\ calm' = TRUE
    BY <1>5 DEF ListAllRules, PassMoves
  <2>2. /\ pass' \in PassStates /\ pass'.at = "attachments"
        /\ pass'.matcher = matcher /\ pass'.found = {}
    BY <1>2, <2>1 DEF IdlePass, PassStates
  <2>3. CollisionTypes'
    BY <1>1, <2>2 DEF CollisionInv, CollisionTypes, tables
  <2>4. CalmOK'
    BY <1>1, <2>2 DEF CalmOK, tables
  <2> QED BY <1>4, <2>3, <2>4 DEF CollisionInv
<1>6. CASE ListAllAttachments
  <2>1. /\ pass' = [pass EXCEPT !.at = "agents", !.attached = attached]
        /\ pass.at = "attachments" /\ calm' = calm
    BY <1>6 DEF ListAllAttachments, PassMoves
  <2>2. /\ pass' \in PassStates /\ pass'.at = "agents"
        /\ pass'.matcher = pass.matcher /\ pass'.found = pass.found
        /\ pass'.attached = attached
    BY <1>2, <2>1 DEF PassStates
  <2>3. CollisionTypes'
    BY <1>1, <2>2 DEF CollisionInv, CollisionTypes, tables
  <2>4. CalmOK'
    BY <1>1, <2>1, <2>2 DEF CollisionInv, CalmOK, tables
  <2> QED BY <1>4, <2>3, <2>4 DEF CollisionInv
<1>7. CASE ListAgents
  <2>1. /\ pass' = [pass EXCEPT !.at = "walk",
                                !.agents = {Current(a) : a \in Agents}]
        /\ pass.at = "agents" /\ calm' = calm
    BY <1>7 DEF ListAgents, PassMoves, Current
  <2>2. /\ pass' \in PassStates /\ pass'.at = "walk"
        /\ pass'.matcher = pass.matcher /\ pass'.found = pass.found
        /\ pass'.attached = pass.attached
        /\ pass'.agents = {Current(a) : a \in Agents}
    BY <1>2, <2>1 DEF PassStates
  <2>3. CollisionTypes'
    BY <1>1, <2>2 DEF CollisionInv, CollisionTypes, tables
  <2>4. \A c \in Ambiguous : Current(c[1]) \in {Current(a) : a \in Agents}
    BY DEF Ambiguous
  <2>5. CalmOK'
    BY <1>1, <1>3, <2>1, <2>2, <2>4 DEF CollisionInv, CalmOK, tables
  <2> QED BY <1>4, <2>3, <2>5 DEF CollisionInv
<1> QED BY <1>5, <1>6, <1>7
LEMMA PassEndsKeepInv ==
  ASSUME CollisionInv, PassDone
  PROVE  CollisionInv'
<1>1. UNCHANGED <<tables, attach, quiet, calm>> /\ pass' = IdlePass
  BY DEF PassDone
<1>2. IdlePass \in PassStates /\ IdlePass.at = "idle"
  <2>1. {} \in SUBSET (Rules \X Targets)
        /\ {} \in SUBSET (Agents \X (Environments \cup {None}))
        /\ {} \in SUBSET (Agents \X PublicRules \X ResourceIds)
    OBVIOUS
  <2> QED BY <2>1 DEF IdlePass, PassStates
<1>3. CollisionTypes'
  BY <1>1, <1>2 DEF CollisionInv, CollisionTypes, tables
<1>4. CalmOK'
  BY <1>1, <1>2 DEF CalmOK
<1>5. QuietOK'
  BY <1>1, ChecksStayValid
<1> QED BY <1>3, <1>4, <1>5 DEF CollisionInv

(* A failed pass is not calm.                                                *)
LEMMA FaultKeepsInv ==
  ASSUME CollisionInv, PassFault
  PROVE  CollisionInv'
<1>1. UNCHANGED <<tables, attach, quiet>> /\ calm' = FALSE
  BY DEF PassFault
<1>2. pass \in PassStates
  BY DEF CollisionInv, CollisionTypes
<1>3. pass' \in PassStates
  <2>1. CASE \E some \in SUBSET {<<a, environment[a]>> : a \in Agents} :
               pass' = [pass EXCEPT !.at = "walk", !.agents = some]
    <3>1. PICK some \in SUBSET {<<a, environment[a]>> : a \in Agents} :
            pass' = [pass EXCEPT !.at = "walk", !.agents = some]
      BY <2>1
    <3>2. some \in SUBSET (Agents \X (Environments \cup {None}))
      BY DEF CollisionInv, CollisionTypes
    <3> QED BY <1>2, <3>1, <3>2 DEF PassStates
  <2>2. CASE \E a \in pass.agents, resources \in SUBSET ResourceIds :
               pass' = [pass EXCEPT !.agents = pass.agents \ {a},
                          !.found = pass.found \cup
                             CollisionsAmong(a[1], Effective(a[1], a[2]), resources)]
    <3>1. PICK a \in pass.agents, resources \in SUBSET ResourceIds :
            pass' = [pass EXCEPT !.agents = pass.agents \ {a},
                       !.found = pass.found \cup
                          CollisionsAmong(a[1], Effective(a[1], a[2]), resources)]
      BY <2>2
    <3>2. a[1] \in Agents
      BY <1>2 DEF PassStates
    <3>3. CollisionsAmong(a[1], Effective(a[1], a[2]), resources)
            \in SUBSET (Agents \X PublicRules \X ResourceIds)
      BY <3>2 DEF CollisionsAmong
    <3>4. /\ pass.agents \ {a} \in SUBSET (Agents \X (Environments \cup {None}))
          /\ pass.found \cup CollisionsAmong(a[1], Effective(a[1], a[2]), resources)
               \in SUBSET (Agents \X PublicRules \X ResourceIds)
      BY <1>2, <3>3 DEF PassStates
    <3> QED BY <1>2, <3>1, <3>4 DEF PassStates
  <2>3. CASE pass' = IdlePass
    <3>1. {} \in SUBSET (Rules \X Targets)
          /\ {} \in SUBSET (Agents \X (Environments \cup {None}))
          /\ {} \in SUBSET (Agents \X PublicRules \X ResourceIds)
      OBVIOUS
    <3> QED BY <2>3, <3>1 DEF IdlePass, PassStates
  <2>4. ASSUME NEW a \in pass.agents, NEW granted \in BOOLEAN,
               NEW some \in SUBSET ResourceIds
        PROVE  (IF granted THEN ReachableBy(a[1]) ELSE {}) \cup
                  (some \cap ResourcesOf(Effective(a[1], a[2])))
                 \in SUBSET ResourceIds
    BY DEF ReachableBy
  <2>5. \/ \E some \in SUBSET {<<a, environment[a]>> : a \in Agents} :
             pass' = [pass EXCEPT !.at = "walk", !.agents = some]
        \/ \E a \in pass.agents, granted \in BOOLEAN, some \in SUBSET ResourceIds :
             pass' = [pass EXCEPT !.agents = pass.agents \ {a},
               !.found = pass.found \cup CollisionsAmong(a[1], Effective(a[1], a[2]),
                 (IF granted THEN ReachableBy(a[1]) ELSE {}) \cup
                 (some \cap ResourcesOf(Effective(a[1], a[2]))))]
        \/ pass' = IdlePass
    BY DEF PassFault
  <2> QED BY <2>1, <2>2, <2>3, <2>4, <2>5
<1>4. CollisionTypes'
  BY <1>1, <1>3 DEF CollisionInv, CollisionTypes, tables
<1>5. CalmOK'
  BY <1>1 DEF CalmOK
<1>6. QuietOK'
  BY <1>1, ChecksStayValid
<1> QED BY <1>4, <1>5, <1>6 DEF CollisionInv

LEMMA CollisionInvHolds == CollisionsSpec => []CollisionInv
<1>1. ASSUME CollisionInv, [CollisionsNext]_collisionVars
      PROVE  CollisionInv'
  <2>1. CASE GrantCheck \/ UNCHANGED collisionVars
    <3>1. UNCHANGED <<tables, attach, pass, calm, quiet>>
      BY <2>1 DEF GrantCheck, collisionVars
    <3>2. CollisionTypes'
      BY <1>1, <3>1 DEF CollisionInv, CollisionTypes, tables
    <3>3. CalmOK'
      BY <1>1, <3>1 DEF CollisionInv, CalmOK, tables, Current, Ambiguous, Holds,
         CanDial, PrincipalsOf
    <3>4. QuietOK'
      BY <1>1, <3>1, ChecksStayValid
    <3> QED BY <3>2, <3>3, <3>4 DEF CollisionInv
  <2>2. CASE \/ \E c \in Callers : AttachInsert(c)
             \/ Detach \/ UpdateMatcher \/ MoveAgent \/ Grant \/ GroupWrite
    BY <1>1, <2>2, WriteKeepsInv
  <2>3. CASE \E c \in Callers : AttachCheck(c) \/ AttachCheckFails(c)
    BY <1>1, <2>3, CheckKeepsInv
  <2>4. CASE PassStep
    BY <1>1, <2>4, SnapshotsKeepInv, WalkKeepsInv, PassEndsKeepInv DEF PassStep
  <2>5. CASE PassFault
    BY <1>1, <2>5, FaultKeepsInv
  <2> QED BY <1>1, <2>1, <2>2, <2>3, <2>4, <2>5 DEF CollisionsNext, WriteStep
<1> QED BY <1>1, CollisionInvInit, PTL DEF CollisionsSpec

(* The report that a pass ends with, when nothing was written and nothing    *)
(* failed since it began, is exactly the ambiguities there are, whichever    *)
(* attachments, grants and environments made them                            *)
(* (collectInterceptCollisions).                                             *)
THEOREM CalmPassesAreExact == CollisionsSpec => []CalmPassIsExact
<1>1. CollisionInv => CalmPassIsExact
  <2> SUFFICES ASSUME CollisionInv, pass.at = "walk", pass.agents = {}, calm
               PROVE  pass.found = Ambiguous
    BY DEF CalmPassIsExact
  <2> QED BY DEF CollisionInv, CalmOK
<1> QED BY <1>1, CollisionInvHolds, PTL

---------------------------------------------------------------------------
(* Attaches.                                                                 *)

(* An attach whose check still holds, of a rule to an agent.                 *)
LEMMA CheckedAttachAdds ==
  ASSUME CollisionInv, NEW r \in Rules, NEW t \in Agents, ~Collides(r, t),
         attached' = attached \cup {<<r, t>>},
         UNCHANGED <<matcher, environment, grants>>,
         NEW u \in PublicRules, NEW x \in ResourceIds,
         <<t, u, x>> \in Ambiguous', <<t, u, x>> \notin Ambiguous
  PROVE  \/ u = r /\ ~\E p \in PrincipalsOf(t) : <<p, x>> \in grants
         \/ u # r /\ <<u, t>> \notin attached
<1>1. /\ Holds(t, u)' /\ CanDial(t, x)'
      /\ \E port \in InterceptOf[x].ports :
           Intercepts(matcher[u], InterceptOf[x].host, port)
  BY DEF Ambiguous
<1>2. ~(Holds(t, u) /\ CanDial(t, x))
  BY <1>1 DEF Ambiguous
<1>3. Overlap(matcher[u], x)
  BY <1>1, OverlapIsIntercepted DEF CollisionInv, CollisionTypes
<1>4. /\ PrincipalsOf(t)' = PrincipalsOf(t)
      /\ t \in PrincipalsOf(t)
  BY DEF PrincipalsOf, Principals
<1>5. \A v : v # r => (Holds(t, v)' <=> Holds(t, v))
  BY <1>4 DEF Holds
<1>6. CASE r \in PublicRules
  <2>1. CanDial(t, x)' <=> CanDial(t, x)
    BY <1>4, <1>5, <1>6, CollisionsAssumption DEF CanDial, CollisionsAssumption
  <2>2. u = r
    BY <1>1, <1>2, <1>5, <2>1
  <2>3. x \notin ReachableBy(t)
    BY <1>3, <1>6, <2>2 DEF Collides
  <2> QED BY <2>2, <2>3 DEF ReachableBy
<1>7. CASE r \in PrivateRules
  <2>1. u # r
    BY <1>7, CollisionsAssumption DEF CollisionsAssumption
  <2>2. Holds(t, u) /\ ~CanDial(t, x)
    BY <1>1, <1>2, <1>5, <2>1
  <2>3. x = ResourceOf[r]
    BY <1>1, <1>4, <1>5, <2>2 DEF CanDial
  <2>4. r \notin PublicRules
    BY <1>7, CollisionsAssumption DEF CollisionsAssumption
  <2>5. u \notin RulesAttachedTo(t)
    BY <1>3, <2>3, <2>4 DEF Collides
  <2> QED BY <2>1, <2>5 DEF RulesAttachedTo, Rules
<1> QED BY <1>6, <1>7 DEF Rules

(* An attach to an agent that nothing overtakes since its check adds no      *)
(* ambiguity that the check looks for, whatever is stored by then            *)
(* (rejectInterceptCollision, rejectPrivateAttachmentCollision).             *)
THEOREM QuietAttachesAreChecked == CollisionsSpec => AttachAddsNoAmbiguity
<1>1. ASSUME CollisionInv, [CollisionsNext]_collisionVars, NEW c \in Callers,
             NEW r \in Rules, NEW t \in Agents, Quietly(c, r, t)
      PROVE  \A u \in PublicRules, x \in ResourceIds :
               /\ <<t, u, x>> \in Ambiguous' \ Ambiguous
               => \/ u = r /\ ~\E p \in PrincipalsOf(t) : <<p, x>> \in grants
                  \/ u # r /\ <<u, t>> \notin attached
  <2>1. attach[c] = <<r, t>> /\ attach'[c] = None /\ quiet[c] /\ t \in Targets
    BY <1>1 DEF Quietly, Targets
  <2>2. <<r, t>> # None
    BY <2>1, CollisionsAssumption DEF CollisionsAssumption, Rules, Targets
  <2>3. attach'[c] # attach[c]
    BY <2>1, <2>2
  <2>4. AttachInsert(c)
    <3>1. attach' # attach
      BY <2>3
    <3>2. PICK d \in Callers :
            AttachCheck(d) \/ AttachCheckFails(d) \/ AttachInsert(d)
      BY <1>1, <3>1 DEF CollisionsNext, WriteStep, PassStep, collisionVars, Detach,
         UpdateMatcher, MoveAgent, GrantCheck, Grant, GroupWrite, PassMoves,
         ListAllRules, ListAllAttachments, ListAgents, WalkAgent, PassDone,
         PassFault
    <3>3. d = c
      BY <1>1, <2>3, <3>2 DEF AttachCheck, AttachCheckFails, AttachInsert,
         CollisionInv, CollisionTypes
    <3>4. attach[c] # None
      BY <2>1, <2>2
    <3> QED BY <3>2, <3>3, <3>4 DEF AttachCheck, AttachCheckFails
  <2>5. ~Collides(r, t)
    BY <1>1, <2>1 DEF CollisionInv, QuietOK
  <2>6. attached' = attached \cup {<<r, t>>}
        /\ UNCHANGED <<matcher, environment, grants>>
    BY <2>1, <2>4 DEF AttachInsert
  <2> QED BY <1>1, <2>5, <2>6, CheckedAttachAdds
<1>2. CollisionInv /\ [CollisionsNext]_collisionVars =>
        [\A c \in Callers, r \in Rules, t \in Agents :
           Quietly(c, r, t) =>
             \A u \in PublicRules, x \in ResourceIds :
               /\ <<t, u, x>> \in Ambiguous' \ Ambiguous
               => \/ u = r /\ ~\E p \in PrincipalsOf(t) : <<p, x>> \in grants
                  \/ u # r /\ <<u, t>> \notin attached]_collisionVars
  BY <1>1
<1> QED BY <1>2, CollisionInvHolds, PTL DEF CollisionsSpec, AttachAddsNoAmbiguity

=============================================================================
