---------------------------- MODULE EgressStore ----------------------------
(* The two Postgres tables of the service (internal/store/store.go and       *)
(* migrations) and the statements the handlers and the       *)
(* reconciler run on them.  Every operator is one SQL statement, so one      *)
(* atomic step; its enabling condition is the statement's success.           *)
(*                                                                           *)
(* A row keeps the columns the service acts on.  `matcher' is either a       *)
(* domain (with its ports: what interceptV1Config is computed from) or a     *)
(* private resource.  `service' and `policy' are the OpenZiti ids stored     *)
(* with the row, with NoId for the empty string.                             *)
EXTENDS Naturals, FiniteSets

CONSTANTS RuleIds,        \* uuids of egress_rules rows
          AttachmentIds,  \* uuids of egress_rule_attachments rows
          Targets,        \* agents and environments a rule is attached to
          Domains,        \* public matchers: domain pattern and ports
          Resources,      \* private resources a matcher may name
          None            \* no row, no value

ASSUME StoreAssumption ==
  /\ None \notin RuleIds \cup AttachmentIds \cup Targets
  /\ None \notin Domains \cup Resources
  /\ Domains \cap Resources = {}
  /\ RuleIds \cap AttachmentIds = {}

VARIABLES rules,       \* egress_rules, by id
          attachments  \* egress_rule_attachments, by id

storeVars == <<rules, attachments>>

NoId == 0

Matchers == Domains \cup Resources

Row == [matcher : Matchers, service : Nat]

AttachmentRow == [rule : RuleIds, target : Targets, policy : Nat]

ASSUME RowAssumption == None \notin Row \cup AttachmentRow

IsPrivateTarget(row) == row.matcher \in Resources

(* GetPrivateResourceId of a matcher: None for a public one.                 *)
PrivateResourceOf(matcher) == IF matcher \in Resources THEN matcher ELSE None

StoreTypeOK ==
  /\ rules \in [RuleIds -> Row \cup {None}]
  /\ attachments \in [AttachmentIds -> AttachmentRow \cup {None}]

StoreInit ==
  /\ rules = [r \in RuleIds |-> None]
  /\ attachments = [a \in AttachmentIds |-> None]

---------------------------------------------------------------------------
(* Queries.                                                                  *)

RuleExists(r) == rules[r] # None

AttachmentExists(a) == attachments[a] # None

(* GetAttachmentByRuleAndTarget.                                             *)
Attached(r, t) ==
  \E a \in AttachmentIds : /\ attachments[a] # None
                           /\ attachments[a].rule = r
                           /\ attachments[a].target = t

(* CountAttachmentsByRule > 0, and what the foreign key looks at.            *)
HasAttachments(r) ==
  \E a \in AttachmentIds : attachments[a] # None /\ attachments[a].rule = r

(* CountRulesReferencingPrivateResource > 0.                                 *)
Referenced(resource) ==
  \E r \in RuleIds : rules[r] # None /\ rules[r].matcher = resource

---------------------------------------------------------------------------
(* Statements.                                                               *)

InsertRule(r, row) ==
  /\ rules[r] = None
  /\ rules' = [rules EXCEPT ![r] = row]
  /\ UNCHANGED attachments

(* Mutation: an upsert, which would revive a deleted row.                    *)
UpdateRule_Upsert(r, row) ==
  /\ rules' = [rules EXCEPT ![r] = row]
  /\ UNCHANGED attachments

(* UPDATE ... WHERE id = $1: every mutable column, service id included.      *)
UpdateRule(r, row) ==
  /\ RuleExists(r)
  /\ rules' = [rules EXCEPT ![r] = row]
  /\ UNCHANGED attachments

UpdateRuleServiceID(r, id) ==
  /\ RuleExists(r)
  /\ rules' = [rules EXCEPT ![r].service = id]
  /\ UNCHANGED attachments

(* DELETE ... WHERE id = $1 under the foreign key ON DELETE RESTRICT, which  *)
(* refuses it while an attachment refers to the rule.                        *)
DeleteRule(r) ==
  /\ RuleExists(r)
  /\ ~HasAttachments(r)
  /\ rules' = [rules EXCEPT ![r] = None]
  /\ UNCHANGED attachments

(* Mutation: neither foreign key nor unique index.                           *)
InsertAttachment_Unchecked(a, row) ==
  /\ attachments[a] = None
  /\ attachments' = [attachments EXCEPT ![a] = row]
  /\ UNCHANGED rules

(* INSERT under the foreign key to egress_rules and the unique (rule, agent) *)
(* and (rule, environment) indexes.                                          *)
InsertAttachment(a, row) ==
  /\ attachments[a] = None
  /\ RuleExists(row.rule)
  /\ ~Attached(row.rule, row.target)
  /\ attachments' = [attachments EXCEPT ![a] = row]
  /\ UNCHANGED rules

UpdateAttachmentPolicyID(a, id) ==
  /\ AttachmentExists(a)
  /\ attachments' = [attachments EXCEPT ![a].policy = id]
  /\ UNCHANGED rules

DeleteAttachment(a) ==
  /\ AttachmentExists(a)
  /\ attachments' = [attachments EXCEPT ![a] = None]
  /\ UNCHANGED rules

=============================================================================
