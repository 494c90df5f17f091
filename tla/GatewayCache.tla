---------------------------- MODULE GatewayCache ---------------------------
(* The egress gateway's cache of the rules of each agent and environment,    *)
(* filled by ListEgressRulesByAgent and ListEgressRulesByEnvironment on a    *)
(* miss and kept until an event of this service names its target or a rule   *)
(* in it (notifications.go).  Answers and events travel; an answer may be    *)
(* stored after the event that was to drop it.                               *)
(*                                                                           *)
(* External: the gateway, from the payloads of the events and the comments   *)
(* on the two lookups, and the delivery of events, in any order or never.    *)
EXTENDS EgressServer

VARIABLES cache,   \* of each target: the answer kept, or None
          fetch,   \* of each target: the answer on its way, or None
          place,   \* of each attachment stored so far: its rule and target
          events,  \* changes published and not delivered yet
          lost     \* changes whose event was never delivered

gatewayVars == <<cache, fetch, place, events, lost>>
cacheVars == <<allVars, gatewayVars>>

(* `overtaken': an event reached the gateway while the answer was on its way.*)
Answer == [rules : SUBSET (RuleIds \X Matchers), overtaken : BOOLEAN]

CacheInit ==
  /\ Init
  /\ cache = [t \in Targets |-> None]
  /\ fetch = [t \in Targets |-> None]
  /\ place = [a \in AttachmentIds |-> None]
  /\ events = {}
  /\ lost = {}

CacheTypeOK ==
  /\ TypeOK
  /\ cache \in [Targets -> Answer \cup {None}]
  /\ fetch \in [Targets -> Answer \cup {None}]
  /\ place \in [AttachmentIds ->
                [rule : RuleIds, target : Targets] \cup {None}]
  /\ events \subseteq RuleIds \cup AttachmentIds
  /\ lost \subseteq RuleIds \cup AttachmentIds

---------------------------------------------------------------------------
(* Lookups.                                                                  *)

(* ListRulesByAgent, ListRulesByEnvironment: one statement.                  *)
RulesOf(t) ==
  {<<r, rules[r].matcher>> :
     r \in {q \in RuleIds : RuleExists(q) /\ Attached(q, t)}}

(* What privateResourceInfos adds to the answer belongs to Networks and is   *)
(* left out.                                                                 *)
ListEgressRules(t) ==
  /\ cache[t] = None /\ fetch[t] = None
  /\ fetch' = [fetch EXCEPT ![t] = [rules |-> RulesOf(t), overtaken |-> FALSE]]
  /\ UNCHANGED <<allVars, cache, place, events, lost>>

Fill(t) ==
  /\ fetch[t] # None
  /\ cache' = [cache EXCEPT ![t] = fetch[t]]
  /\ fetch' = [fetch EXCEPT ![t] = None]
  /\ UNCHANGED <<allVars, place, events, lost>>

---------------------------------------------------------------------------
(* Events.                                                                   *)

Publishing(p) == call[p].at \in {"rule.publish", "attachment.publish"}

Place ==
  place' = [a \in AttachmentIds |->
    IF attachments'[a] = None THEN place[a]
    ELSE [rule |-> attachments'[a].rule, target |-> attachments'[a].target]]

(* A step of a handler; one that publishes puts its change on the way.       *)
CallerStep(p) ==
  /\ \/ /\ PublishRuleUpdated(p) \/ PublishAttachmentUpdated(p)
        /\ events' = events \cup {Subject(call[p])}
     \/ /\ CallFails(p)
        /\ UNCHANGED events
     \/ /\ ~Publishing(p)
        /\ RuleStep(p) \/ AttachmentStep(p)
        /\ UNCHANGED events
  /\ Place
  /\ UNCHANGED <<cache, fetch, lost>>

(* The entries an event drops: those that hold the rule, or the target's.    *)
Dropped(t, x) ==
  IF x \in RuleIds
  THEN cache[t] # None /\ \E pair \in cache[t].rules : pair[1] = x
  ELSE place[x] # None /\ place[x].target = t

Deliver ==
  /\ \E x \in events :
       /\ events' = events \ {x}
       /\ cache' = [t \in Targets |-> IF Dropped(t, x) THEN None ELSE cache[t]]
  /\ fetch' = [t \in Targets |-> IF fetch[t] = None THEN None
                                 ELSE [fetch[t] EXCEPT !.overtaken = TRUE]]
  /\ UNCHANGED <<allVars, place, lost>>

Lose ==
  /\ faults < MaxFaults
  /\ faults' = faults + 1
  /\ \E x \in events : events' = events \ {x} /\ lost' = lost \cup {x}
  /\ UNCHANGED <<storeVars, zitiVars, call, calls, historyVars, mediated,
                 eventVars, cache, fetch, place>>

(* The gateway loses its cache.                                              *)
GatewayRestart ==
  /\ faults < MaxFaults
  /\ faults' = faults + 1
  /\ cache' = [t \in Targets |-> None]
  /\ fetch' = [t \in Targets |-> None]
  /\ UNCHANGED <<storeVars, zitiVars, call, calls, historyVars, mediated,
                 eventVars, place, events, lost>>

ServerCrash == Crash /\ UNCHANGED gatewayVars

---------------------------------------------------------------------------

CacheNext ==
  \/ \E p \in Callers : CallerStep(p)
  \/ ServerCrash
  \/ \E t \in Targets : ListEgressRules(t) \/ Fill(t)
  \/ Deliver \/ Lose \/ GatewayRestart

CacheSpec == CacheInit /\ [][CacheNext]_cacheVars

---------------------------------------------------------------------------
(* Properties.                                                               *)

(* What explains that the cache knows other things of a rule than the table: *)
(* a change of the rule, or of an attachment of it to the target, that a     *)
(* call is yet to publish, whose call was abandoned, or whose event is on    *)
(* its way or lost.                                                          *)
Untold ==
  {Subject(call[p]) : p \in {q \in Callers : call[q].at \in Committed}}
    \cup abandoned \cup events \cup lost

Explained(r, t) ==
  \/ r \in Untold
  \/ \E a \in AttachmentIds \cap Untold :
       place[a] = [rule |-> r, target |-> t]

(* A cached answer is what the lookup would say now, rule for rule, or there *)
(* is an explanation of each difference: the handlers announce every change  *)
(* a lookup shows after it is stored and under an id that drops the entries  *)
(* that show it.  Only an answer an event overtook may be wrong for good.    *)
StaleOnlyUntold ==
  \A t \in Targets : cache[t] # None /\ ~cache[t].overtaken =>
    \A r \in RuleIds :
      Explained(r, t) \/ \A m \in Matchers :
        <<r, m>> \in cache[t].rules <=> <<r, m>> \in RulesOf(t)

=============================================================================
