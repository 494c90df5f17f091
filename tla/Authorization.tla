---------------------------- MODULE Authorization --------------------------
(* Who may do what: the questions each handler asks the Authorization        *)
(* service (authz.go) between the row it reads and the effect it has, while  *)
(* relations are granted and revoked and rows come and go.                   *)
(*                                                                           *)
(* External: the Authorization service, a set of tuples, of which those that *)
(* place an agent or environment in its organization never change.  Rows     *)
(* keep what is asked about: a rule its organization, an attachment its rule *)
(* and target, none of which an update changes.                              *)
EXTENDS FiniteSets, Naturals, Sequences

CONSTANTS Identities, Organizations, Agents, Environments,
          HomeOf,         \* organization of each agent and environment
          RuleIds, AttachmentIds, Callers, None,
          MaxCalls, MaxChanges  \* bounds: calls, grants and revocations

Targets == Agents \cup Environments

ASSUME AuthorizationAssumption ==
  /\ HomeOf \in [Targets -> Organizations]
  /\ Agents \cap Environments = {}
  /\ None \notin RuleIds \cup AttachmentIds \cup Targets \cup Organizations
  /\ MaxCalls \in Nat /\ MaxChanges \in Nat

VARIABLES tuples,       \* relations identities hold now
          rules,        \* organization of each rule, or None
          attachments,  \* rule and target of each attachment, or None
          minted,       \* uuids given out so far
          call,         \* requests in progress, or None
          calls, changes

authVars == <<tuples, rules, attachments, minted, call, calls, changes>>

Tuple(user, relation, object) ==
  [user |-> user, relation |-> relation, object |-> object]

Member(i, org) == Tuple(i, "member", org)
Owner(i, org) == Tuple(i, "owner", org)
CanEdit(i, target) == Tuple(i, "can_edit_config", target)
CanRead(i, agent) == Tuple(i, "can_read_config", agent)
InOrganization(org, target) == Tuple(org, "org", target)

Grantable ==
  {Member(i, o) : i \in Identities, o \in Organizations} \cup
  {Owner(i, o) : i \in Identities, o \in Organizations} \cup
  {CanEdit(i, t) : i \in Identities, t \in Targets} \cup
  {CanRead(i, a) : i \in Identities, a \in Agents}

Placed == {InOrganization(HomeOf[t], t) : t \in Targets}

(* Check of the Authorization service.                                       *)
Allowed(tuple) == tuple \in tuples \cup Placed

(* Rows the service may hold when the calls begin.                           *)
AuthInit ==
  /\ tuples \in SUBSET Grantable
  /\ rules \in [RuleIds -> Organizations \cup {None}]
  /\ attachments \in [AttachmentIds ->
                       [rule : RuleIds, target : Targets] \cup {None}]
  /\ \A a \in AttachmentIds : attachments[a] # None =>
       rules[attachments[a].rule] = HomeOf[attachments[a].target]
  /\ minted = {r \in RuleIds : rules[r] # None} \cup
              {a \in AttachmentIds : attachments[a] # None}
  /\ call = [c \in Callers |-> None]
  /\ calls = 0 /\ changes = 0

---------------------------------------------------------------------------
(* Requests: each reads its row, then asks its questions in this order.      *)

Request == [op : {"create", "rule.write", "rule.get", "attach", "detach",
                  "attachments.list"},
            by : Identities,
            org : Organizations \cup {None},
            rule : RuleIds \cup {None},
            attachment : AttachmentIds \cup {None},
            target : Targets \cup {None}]

(* Mutation: the target's organization is not compared with the rule's.      *)
Attach_AnyOrganization(q) ==
  <<Member(q.by, rules[q.rule]), CanEdit(q.by, q.target)>>

Attach(q) ==
  <<Member(q.by, rules[q.rule]), CanEdit(q.by, q.target),
    InOrganization(rules[q.rule], q.target)>>

(* Mutation: membership is enough.                                           *)
Detach_MemberOnly(q) ==
  <<Member(q.by, rules[attachments[q.attachment].rule])>>

Detach(q) ==
  LET row == attachments[q.attachment] IN
  <<Member(q.by, rules[row.rule]), CanEdit(q.by, row.target)>>

(* Mutation: an agent filter replaces no question, and a rule filter all.    *)
ListAttachments_Unasked(q) ==
  IF q.rule # None THEN <<>>
  ELSE IF q.target # None THEN <<CanRead(q.by, q.target)>>
  ELSE <<Member(q.by, q.org)>>

(* With a rule, with an agent, with both or with neither.                    *)
ListAttachments(q) ==
  (IF q.rule # None THEN <<Member(q.by, q.org)>> ELSE <<>>) \o
  (IF q.target # None THEN <<CanRead(q.by, q.target)>> ELSE <<>>) \o
  (IF q.rule = None /\ q.target = None THEN <<Member(q.by, q.org)>> ELSE <<>>)

(* The row a request names exists, and for a listing by rule it is of the    *)
(* organization asked for; else the answer is NotFound.                      *)
Found(q) ==
  CASE q.op = "create" -> TRUE
    [] q.op = "detach" -> attachments[q.attachment] # None
    [] q.op = "attachments.list" -> q.rule # None => rules[q.rule] = q.org
    [] OTHER -> rules[q.rule] # None

Questions(q) ==
  CASE q.op = "create" -> <<Owner(q.by, q.org)>>
    [] q.op = "rule.write" -> <<Owner(q.by, rules[q.rule])>>
    [] q.op = "rule.get" -> <<Member(q.by, rules[q.rule])>>
    [] q.op = "attach" -> Attach(q)
    [] q.op = "detach" -> Detach(q)
    [] q.op = "attachments.list" -> ListAttachments(q)

WellFormed(q) ==
  CASE q.op = "create" -> q.org # None /\ {q.rule, q.attachment, q.target} = {None}
    [] q.op \in {"rule.write", "rule.get"} ->
         q.rule # None /\ {q.org, q.attachment, q.target} = {None}
    [] q.op = "attach" ->
         q.rule # None /\ q.target # None /\ {q.org, q.attachment} = {None}
    [] q.op = "detach" ->
         q.attachment # None /\ {q.org, q.rule, q.target} = {None}
    [] q.op = "attachments.list" ->
         q.org # None /\ q.attachment = None /\ q.target \in Agents \cup {None}

Requests == {q \in Request : WellFormed(q)}

---------------------------------------------------------------------------

Rows == <<rules, attachments, minted>>

Return(c) == call' = [call EXCEPT ![c] = None]

(* `held': what has held at some time since the request came in.             *)
Receive(c) ==
  /\ call[c] = None
  /\ calls < MaxCalls
  /\ calls' = calls + 1
  /\ \E q \in {r \in Requests : Found(r)} :
       call' = [call EXCEPT ![c] =
         [request |-> q, ask |-> Questions(q), held |-> tuples]]
  /\ UNCHANGED <<tuples, Rows, changes>>

(* requireRelation, requireAgentInOrganization and                           *)
(* requireEnvironmentInOrganization: denied, or the Authorization service    *)
(* fails, and the request is over.                                           *)
Ask(c) ==
  /\ call[c] # None
  /\ call[c].ask # <<>>
  /\ \/ /\ Allowed(Head(call[c].ask))
        /\ call' = [call EXCEPT ![c].ask = Tail(@)]
     \/ Return(c)
  /\ UNCHANGED <<tuples, Rows, calls, changes>>

Granted(c, op) ==
  call[c] # None /\ call[c].ask = <<>> /\ call[c].request.op = op

CreateRule(c) ==
  /\ Granted(c, "create")
  /\ \E r \in RuleIds \ minted :
       /\ rules' = [rules EXCEPT ![r] = call[c].request.org]
       /\ minted' = minted \cup {r}
  /\ Return(c)
  /\ UNCHANGED <<tuples, attachments, calls, changes>>

(* An update leaves the row as it is here; a delete is refused while there   *)
(* are attachments.                                                          *)
WriteRule(c) ==
  LET r == call[c].request.rule IN
  /\ Granted(c, "rule.write")
  /\ \/ UNCHANGED rules
     \/ /\ ~\E a \in AttachmentIds :
               attachments[a] # None /\ attachments[a].rule = r
        /\ rules' = [rules EXCEPT ![r] = None]
  /\ Return(c)
  /\ UNCHANGED <<tuples, attachments, minted, calls, changes>>

InsertAttachment(c) ==
  LET row == [rule |-> call[c].request.rule, target |-> call[c].request.target] IN
  /\ Granted(c, "attach")
  /\ IF rules[row.rule] # None /\ \A a \in AttachmentIds : attachments[a] # row
     THEN \E a \in AttachmentIds \ minted :
            /\ attachments' = [attachments EXCEPT ![a] = row]
            /\ minted' = minted \cup {a}
     ELSE UNCHANGED <<attachments, minted>>
  /\ Return(c)
  /\ UNCHANGED <<tuples, rules, calls, changes>>

DeleteAttachment(c) ==
  /\ Granted(c, "detach")
  /\ attachments' = [attachments EXCEPT ![call[c].request.attachment] = None]
  /\ Return(c)
  /\ UNCHANGED <<tuples, rules, minted, calls, changes>>

(* ListAttachments' filters.                                                 *)
Listed(q) ==
  {a \in AttachmentIds :
     /\ attachments[a] # None
     /\ rules[attachments[a].rule] = q.org
     /\ q.rule # None => attachments[a].rule = q.rule
     /\ q.target # None => attachments[a].target = q.target}

AnswerRead(c) ==
  /\ Granted(c, "rule.get") \/ Granted(c, "attachments.list")
  /\ Return(c)
  /\ UNCHANGED <<tuples, Rows, calls, changes>>

---------------------------------------------------------------------------

(* A relation is granted or revoked.                                         *)
Relate ==
  /\ changes < MaxChanges
  /\ changes' = changes + 1
  /\ \E tuple \in Grantable :
       tuples' = IF tuple \in tuples THEN tuples \ {tuple} ELSE tuples \cup {tuple}
  /\ call' = [c \in Callers |-> IF call[c] = None THEN None
                                ELSE [call[c] EXCEPT !.held = @ \cup tuples']]
  /\ UNCHANGED <<Rows, calls>>

AuthNext ==
  \/ Relate
  \/ \E c \in Callers :
       \/ Receive(c) \/ Ask(c)
       \/ CreateRule(c) \/ WriteRule(c) \/ InsertAttachment(c)
       \/ DeleteAttachment(c) \/ AnswerRead(c)

AuthSpec == AuthInit /\ [][AuthNext]_authVars

---------------------------------------------------------------------------
(* Properties.                                                               *)

(* An attachment binds a rule to an agent or environment of the rule's own   *)
(* organization, also when the rule or the relations changed between the     *)
(* questions and the INSERT (requireTargetInOrganization).                   *)
AttachedAtHome ==
  \A a \in AttachmentIds : attachments[a] # None =>
    rules[attachments[a].rule] = HomeOf[attachments[a].target]

(* Rows change only on behalf of somebody who held, at some time since the   *)
(* request came in, what the change takes: nothing is decided on relations   *)
(* of an earlier request.                                                    *)
Did(c, tuple) == call[c] # None /\ call'[c] = None /\ tuple \in call[c].held

ChangesAreHeld ==
  [][/\ \A r \in RuleIds : rules'[r] # rules[r] =>
          LET org == IF rules[r] = None THEN rules'[r] ELSE rules[r] IN
          \E c \in Callers, i \in Identities : Did(c, Owner(i, org))
     /\ \A a \in AttachmentIds : attachments'[a] # attachments[a] =>
          LET row == IF attachments[a] = None THEN attachments'[a]
                                              ELSE attachments[a] IN
          \E c \in Callers, i \in Identities :
            Did(c, Member(i, rules[row.rule])) /\ Did(c, CanEdit(i, row.target))
    ]_authVars

(* A listing gives the caller only attachments of rules of an organization   *)
(* the caller was a member of, or to an agent whose configuration the caller *)
(* could read, at some time since the request came in, however filters are   *)
(* combined (ListEgressRuleAttachments).                                     *)
ListingsAreHeld ==
  \A c \in Callers : Granted(c, "attachments.list") =>
    LET q == call[c].request IN
    \A a \in Listed(q) :
      \/ Member(q.by, rules[attachments[a].rule]) \in call[c].held
      \/ CanRead(q.by, attachments[a].target) \in call[c].held

=============================================================================
