---------------------------- MODULE EgressServer ---------------------------
(* The mutating gRPC handlers of internal/server/service.go, run by any      *)
(* number of concurrent callers.  A handler is cut where it calls another    *)
(* process: each step is one SQL statement, one OpenZiti request, one        *)
(* Networks request or one published event, so steps of different calls      *)
(* interleave exactly at the calls the code makes.  A call keeps the rows it *)
(* has read, which may be stale by the time they are used.                   *)
(*                                                                           *)
(* A call may be abandoned between any two steps: a request that fails, a    *)
(* cancelled context (the clean-up uses the same context), a lost response,  *)
(* or a crash of the process, which abandons all of them.                    *)
EXTENDS ZitiManagement

CONSTANTS Callers,    \* concurrent requests in flight
          Requests,   \* the operations clients send
          MaxCalls,   \* bound: calls started
          MaxFaults   \* bound: failures injected

ASSUME ServerAssumption ==
  /\ MaxCalls \in Nat
  /\ MaxFaults \in Nat
  /\ Requests \subseteq {"create", "update", "delete", "attach", "detach"}

VARIABLES call,         \* the calls in progress, by caller
          calls,        \* calls started so far
          faults,       \* failures injected so far
          origin,       \* the matcher each minted rule id was minted for
          minted,       \* attachment ids minted so far
          mediated,     \* private resources Networks routes to the gateway
          unannounced,  \* rows committed with no event published since
          abandoned     \* rows whose call was abandoned after its commit

budgetVars == <<calls, faults>>
historyVars == <<origin, minted>>
eventVars == <<unannounced, abandoned>>
serverVars == <<call, calls, faults, origin, minted, mediated,
                unannounced, abandoned>>
allVars == <<storeVars, zitiVars, serverVars>>

(* Steps a call waits at; the call has committed its change in Committed.    *)
Committed == {"create.readback", "update.readback", "delete.service",
              "sync.count", "sync.set", "rule.publish", "attach.readback",
              "detach.policy", "attachment.publish"}

Steps == Committed \cup
  {"idle", "create.service", "create.insert", "create.undo",
   "update.service", "update.write", "delete.count", "delete.row",
   "attach.check", "attach.service", "attach.serviceid", "attach.policy",
   "attach.insert", "attach.undo", "detach.row"}

Call == [at : Steps, rule : RuleIds \cup {None}, row : Row \cup {None},
         attachment : AttachmentIds \cup {None},
         target : Targets \cup {None}, policy : Nat, mediate : BOOLEAN]

Idle == [at |-> "idle", rule |-> None, row |-> None, attachment |-> None,
         target |-> None, policy |-> NoId, mediate |-> FALSE]

(* Steps with a row in hand; those of them where it is of a public rule, and *)
(* of a private one.                                                         *)
PublicSteps == {"create.service", "update.service", "attach.service",
                "attach.serviceid"}

PrivateSteps == {"sync.count", "sync.set"}

RowSteps == PublicSteps \cup PrivateSteps \cup
  {"create.insert", "create.undo", "update.write", "delete.count",
   "delete.row", "delete.service", "attach.check", "attach.policy"}

RuleSteps == RowSteps \cup {"create.readback", "update.readback",
                            "rule.publish", "attach.insert", "attach.undo"}

TargetSteps == {"attach.check", "attach.service", "attach.serviceid",
                "attach.policy", "attach.insert", "attach.undo"}

AttachmentSteps == {"attach.insert", "attach.undo", "attach.readback",
                    "detach.row", "detach.policy", "attachment.publish"}

CallOK(c) ==
  /\ c \in Call
  /\ c.at \in RuleSteps => c.rule \in RuleIds
  /\ c.at \in RowSteps => c.row \in Row
  /\ c.at \in PublicSteps => c.row.matcher \in Domains
  /\ c.at \in PrivateSteps => c.row.matcher \in Resources
  /\ c.at \in TargetSteps => c.target \in Targets
  /\ c.at \in AttachmentSteps => c.attachment \in AttachmentIds

ServerTypeOK ==
  /\ call \in [Callers -> Call]
  /\ \A p \in Callers : CallOK(call[p])
  /\ calls \in Nat
  /\ faults \in Nat
  /\ origin \in [RuleIds -> Matchers \cup {None}]
  /\ minted \subseteq AttachmentIds
  /\ mediated \subseteq Resources
  /\ unannounced \subseteq RuleIds \cup AttachmentIds
  /\ abandoned \subseteq RuleIds \cup AttachmentIds

TypeOK == StoreTypeOK /\ ZitiTypeOK /\ ServerTypeOK

ServerInit ==
  /\ call = [p \in Callers |-> Idle]
  /\ calls = 0
  /\ faults = 0
  /\ origin = [r \in RuleIds |-> None]
  /\ minted = {}
  /\ mediated = {}
  /\ unannounced = {}
  /\ abandoned = {}

Init == StoreInit /\ ZitiInit /\ ServerInit

---------------------------------------------------------------------------
(* Moving a call.                                                            *)

At(p, step) == call[p].at = step

Goto(p, step) == call' = [call EXCEPT ![p].at = step]

Return(p) == call' = [call EXCEPT ![p] = Idle]

(* Past its commit a call needs only the id it announces.                    *)
GotoPublishRule(p) ==
  call' = [call EXCEPT ![p] = [Idle EXCEPT !.at = "rule.publish",
                                           !.rule = call[p].rule]]

Receive(p, request) ==
  /\ At(p, "idle")
  /\ request \in Requests
  /\ calls < MaxCalls
  /\ calls' = calls + 1

(* The row a call changes and announces.                                     *)
Subject(c) == IF c.attachment # None THEN c.attachment ELSE c.rule

Commit(p) ==
  /\ unannounced' = unannounced \cup {Subject(call[p])}
  /\ UNCHANGED abandoned

(* The call ends early, its later steps not taken.                           *)
Abandon(p) ==
  /\ Return(p)
  /\ abandoned' = IF call[p].at \in Committed
                  THEN abandoned \cup {Subject(call[p])} ELSE abandoned
  /\ UNCHANGED unannounced

---------------------------------------------------------------------------
(* Provisioning: internal/server/provisioning.go.                            *)

(* reconcileRuleService.  An id that still exists carries the rule's own     *)
(* name and the constant role attribute, which is all serviceMatchesRule     *)
(* looks at, so it is kept whatever it intercepts; an empty or missing id    *)
(* makes the service anew.  Asking and creating are one step: an id that is  *)
(* missing when asked for stays missing.                                     *)
ReconcileRuleService(r, row) ==
  IF ServiceHasId(r, row.service) THEN UNCHANGED zitiVars
  ELSE CreateService(r, row.matcher)

(* The id reconcileRuleService returns.                                      *)
ReconciledServiceId(r, row) ==
  IF ServiceHasId(r, row.service) THEN row.service ELSE CreatedServiceId(r)

(* Mutation: every rule is named by its service id.                          *)
AttachmentServiceRole_ById(row) == <<"@", row.service>>

(* Mutation: the policy of any rule selects by resource attribute.           *)
AttachmentServiceRole_ByAttribute(row) == <<"#", row.matcher>>

(* attachmentServiceRole.                                                    *)
AttachmentServiceRole(row) ==
  IF IsPrivateTarget(row) THEN <<"#", row.matcher>> ELSE <<"@", row.service>>

---------------------------------------------------------------------------
(* CreateEgressRule.                                                         *)

(* Mutation: a private rule is provisioned like a public one.                *)
CreateEgressRule_AlwaysProvision(p) ==
  /\ Receive(p, "create")
  /\ \E r \in RuleIds, m \in Matchers :
       /\ origin[r] = None
       /\ origin' = [origin EXCEPT ![r] = m]
       /\ call' = [call EXCEPT ![p] = [Idle EXCEPT
            !.at = "create.service", !.rule = r,
            !.row = [matcher |-> m, service |-> NoId]]]
  /\ UNCHANGED <<storeVars, zitiVars, faults, minted, mediated, eventVars>>

(* The request is valid; a new uuid is minted.                               *)
CreateEgressRule(p) ==
  /\ Receive(p, "create")
  /\ \E r \in RuleIds, m \in Matchers :
       /\ origin[r] = None
       /\ origin' = [origin EXCEPT ![r] = m]
       /\ call' = [call EXCEPT ![p] = [Idle EXCEPT
            !.at = IF m \in Resources THEN "create.insert"
                                      ELSE "create.service",
            !.rule = r,
            !.row = [matcher |-> m, service |-> NoId]]]
  /\ UNCHANGED <<storeVars, zitiVars, faults, minted, mediated, eventVars>>

CreateEgressRule_Service(p) ==
  LET r == call[p].rule IN
  /\ At(p, "create.service")
  /\ CreateService(r, call[p].row.matcher)
  /\ call' = [call EXCEPT ![p].at = "create.insert",
                          ![p].row.service = CreatedServiceId(r)]
  /\ UNCHANGED <<storeVars, budgetVars, historyVars, mediated, eventVars>>

CreateEgressRule_Insert(p) ==
  /\ At(p, "create.insert")
  /\ InsertRule(call[p].rule, call[p].row)
  /\ Commit(p)
  /\ Goto(p, "create.readback")
  /\ UNCHANGED <<zitiVars, budgetVars, historyVars, mediated>>

(* The INSERT reports an error: nothing was stored, or it was and only the   *)
(* answer was lost.                                                          *)
CreateEgressRule_InsertError(p) ==
  /\ At(p, "create.insert")
  /\ faults < MaxFaults
  /\ faults' = faults + 1
  /\ \/ UNCHANGED <<storeVars, eventVars>>
     \/ /\ InsertRule(call[p].rule, call[p].row)
        /\ unannounced' = unannounced \cup {call[p].rule}
        /\ abandoned' = abandoned \cup {call[p].rule}
  /\ Goto(p, "create.undo")
  /\ UNCHANGED <<zitiVars, calls, historyVars, mediated>>

(* deleteRuleService of the service provisioned for the failed INSERT; the   *)
(* caller gets an error either way.                                          *)
CreateEgressRule_Undo(p) ==
  /\ At(p, "create.undo")
  /\ DeleteService(call[p].row.service)
  /\ Return(p)
  /\ UNCHANGED <<storeVars, budgetVars, historyVars, mediated, eventVars>>

(* GetRule after the INSERT: a rule deleted meanwhile is NotFound.           *)
CreateEgressRule_ReadBack(p) ==
  LET r == call[p].rule IN
  /\ At(p, "create.readback")
  /\ \/ /\ RuleExists(r) /\ IsPrivateTarget(rules[r])
        /\ call' = [call EXCEPT ![p].at = "sync.count", ![p].row = rules[r]]
     \/ /\ RuleExists(r) /\ ~IsPrivateTarget(rules[r])
        /\ GotoPublishRule(p)
     \/ /\ ~RuleExists(r)
        /\ Return(p)
  /\ UNCHANGED <<storeVars, zitiVars, budgetVars, historyVars, mediated,
                 eventVars>>

---------------------------------------------------------------------------
(* syncPrivateResourceMediation: count in one call, set in another.          *)

SyncPrivateResourceMediation_Count(p) ==
  /\ At(p, "sync.count")
  /\ call' = [call EXCEPT ![p].at = "sync.set",
                          ![p].mediate = Referenced(call[p].row.matcher)]
  /\ UNCHANGED <<storeVars, zitiVars, budgetVars, historyVars, mediated,
                 eventVars>>

SyncPrivateResourceMediation_Set(p) ==
  /\ At(p, "sync.set")
  /\ mediated' = IF call[p].mediate THEN mediated \cup {call[p].row.matcher}
                                    ELSE mediated \ {call[p].row.matcher}
  /\ GotoPublishRule(p)
  /\ UNCHANGED <<storeVars, zitiVars, budgetVars, historyVars, eventVars>>

(* Either call fails: logged, and the handler carries on.                    *)
SyncPrivateResourceMediation_Error(p) ==
  /\ call[p].at \in {"sync.count", "sync.set"}
  /\ faults < MaxFaults
  /\ faults' = faults + 1
  /\ GotoPublishRule(p)
  /\ UNCHANGED <<storeVars, zitiVars, calls, historyVars, mediated,
                 eventVars>>

---------------------------------------------------------------------------
(* UpdateEgressRule.                                                         *)

(* Mutation: a matcher may change the destination.                           *)
MayRepoint_Anywhere(existing, matcher) == TRUE

(* The destination kind is immutable and a private rule stays on its         *)
(* resource.                                                                 *)
MayRepoint(existing, matcher) ==
  PrivateResourceOf(matcher) = PrivateResourceOf(existing.matcher)

(* The row as read, with the request's matcher if it has one.                *)
UpdateEgressRule(p) ==
  /\ Receive(p, "update")
  /\ \E r \in RuleIds, want \in Matchers \cup {None} :
       /\ RuleExists(r)
       /\ want # None => MayRepoint(rules[r], want)
       /\ call' = [call EXCEPT ![p] = [Idle EXCEPT
            !.at = IF want \in Domains /\ want # rules[r].matcher
                   THEN "update.service" ELSE "update.write",
            !.rule = r,
            !.row = IF want = None THEN rules[r]
                    ELSE [rules[r] EXCEPT !.matcher = want]]]
  /\ UNCHANGED <<storeVars, zitiVars, faults, historyVars, mediated,
                 eventVars>>

(* updateRuleService by the id read; a service that is gone is an error.  A  *)
(* public rule never has the empty id (ServiceIdIffPublic), for which the    *)
(* code would make a service.                                                *)
UpdateEgressRule_Service(p) ==
  LET row == call[p].row IN
  /\ At(p, "update.service")
  /\ \/ /\ UpdateService(row.service, row.matcher)
        /\ Goto(p, "update.write")
     \/ /\ ~ServiceIdExists(row.service)
        /\ Return(p)
        /\ UNCHANGED zitiVars
  /\ UNCHANGED <<storeVars, budgetVars, historyVars, mediated, eventVars>>

UpdateEgressRule_Write(p) ==
  /\ At(p, "update.write")
  /\ \/ /\ UpdateRule(call[p].rule, call[p].row)
        /\ Commit(p)
        /\ Goto(p, "update.readback")
     \/ /\ ~RuleExists(call[p].rule)
        /\ Return(p)
        /\ UNCHANGED <<storeVars, eventVars>>
  /\ UNCHANGED <<zitiVars, budgetVars, historyVars, mediated>>

UpdateEgressRule_ReadBack(p) ==
  /\ At(p, "update.readback")
  /\ IF RuleExists(call[p].rule) THEN GotoPublishRule(p) ELSE Return(p)
  /\ UNCHANGED <<storeVars, zitiVars, budgetVars, historyVars, mediated,
                 eventVars>>

---------------------------------------------------------------------------
(* DeleteEgressRule.                                                         *)

DeleteEgressRule(p) ==
  /\ Receive(p, "delete")
  /\ \E r \in RuleIds :
       /\ RuleExists(r)
       /\ call' = [call EXCEPT ![p] = [Idle EXCEPT
            !.at = "delete.count", !.rule = r, !.row = rules[r]]]
  /\ UNCHANGED <<storeVars, zitiVars, faults, historyVars, mediated,
                 eventVars>>

DeleteEgressRule_Count(p) ==
  /\ At(p, "delete.count")
  /\ IF HasAttachments(call[p].rule) THEN Return(p) ELSE Goto(p, "delete.row")
  /\ UNCHANGED <<storeVars, zitiVars, budgetVars, historyVars, mediated,
                 eventVars>>

(* Mutation: the foreign key's refusal is taken for success.                 *)
DeleteEgressRule_Row_Careless(p) ==
  LET r == call[p].rule IN
  /\ At(p, "delete.row")
  /\ \/ DeleteRule(r)
     \/ (~RuleExists(r) \/ HasAttachments(r)) /\ UNCHANGED storeVars
  /\ Commit(p)
  /\ Goto(p, "delete.service")
  /\ UNCHANGED <<zitiVars, budgetVars, historyVars, mediated>>

(* NotFound and the foreign key's refusal end the call.                      *)
DeleteEgressRule_Row(p) ==
  LET r == call[p].rule IN
  /\ At(p, "delete.row")
  /\ \/ /\ DeleteRule(r)
        /\ Commit(p)
        /\ Goto(p, "delete.service")
     \/ /\ ~RuleExists(r) \/ HasAttachments(r)
        /\ Return(p)
        /\ UNCHANGED <<storeVars, eventVars>>
  /\ UNCHANGED <<zitiVars, budgetVars, historyVars, mediated>>

(* deleteRuleService skips the empty id; of an id that is gone the           *)
(* controller may say NotFound, which ends the call before its event.        *)
DeleteEgressRule_Service(p) ==
  LET row == call[p].row IN
  /\ At(p, "delete.service")
  /\ \/ /\ DeleteService(row.service)
        /\ IF IsPrivateTarget(row) THEN Goto(p, "sync.count")
                                   ELSE GotoPublishRule(p)
        /\ UNCHANGED eventVars
     \/ /\ row.service # NoId /\ ~ServiceIdExists(row.service)
        /\ Abandon(p)
        /\ UNCHANGED zitiVars
  /\ UNCHANGED <<storeVars, budgetVars, historyVars, mediated>>

PublishRuleUpdated(p) ==
  /\ At(p, "rule.publish")
  /\ unannounced' = unannounced \ {call[p].rule}
  /\ abandoned' = abandoned \ {call[p].rule}
  /\ Return(p)
  /\ UNCHANGED <<storeVars, zitiVars, budgetVars, historyVars, mediated>>

---------------------------------------------------------------------------
(* CreateEgressRuleAttachment.                                               *)

CreateEgressRuleAttachment(p) ==
  /\ Receive(p, "attach")
  /\ \E r \in RuleIds, t \in Targets :
       /\ RuleExists(r)
       /\ call' = [call EXCEPT ![p] = [Idle EXCEPT
            !.at = "attach.check", !.rule = r, !.row = rules[r],
            !.target = t]]
  /\ UNCHANGED <<storeVars, zitiVars, faults, historyVars, mediated,
                 eventVars>>

(* Already attached ends the call; a private rule has no service to          *)
(* reconcile.                                                                *)
CreateEgressRuleAttachment_Check(p) ==
  LET c == call[p] IN
  /\ At(p, "attach.check")
  /\ IF Attached(c.rule, c.target) THEN Return(p)
     ELSE Goto(p, IF IsPrivateTarget(c.row) THEN "attach.policy"
                                            ELSE "attach.service")
  /\ UNCHANGED <<storeVars, zitiVars, budgetVars, historyVars, mediated,
                 eventVars>>

CreateEgressRuleAttachment_Service(p) ==
  LET r   == call[p].rule
      row == call[p].row
      id  == ReconciledServiceId(r, row) IN
  /\ At(p, "attach.service")
  /\ ReconcileRuleService(r, row)
  /\ call' = [call EXCEPT
       ![p].at = IF id = row.service THEN "attach.policy"
                                     ELSE "attach.serviceid",
       ![p].row.service = id]
  /\ UNCHANGED <<storeVars, budgetVars, historyVars, mediated, eventVars>>

CreateEgressRuleAttachment_SaveServiceId(p) ==
  LET c == call[p] IN
  /\ At(p, "attach.serviceid")
  /\ \/ /\ UpdateRuleServiceID(c.rule, c.row.service)
        /\ Goto(p, "attach.policy")
     \/ /\ ~RuleExists(c.rule)
        /\ Return(p)
        /\ UNCHANGED storeVars
  /\ UNCHANGED <<zitiVars, budgetVars, historyVars, mediated, eventVars>>

(* provisionAttachmentPolicy, then a new uuid.                               *)
CreateEgressRuleAttachment_Policy(p) ==
  LET name == <<call[p].rule, call[p].target>> IN
  /\ At(p, "attach.policy")
  /\ CreateServicePolicy(name, AttachmentServiceRole(call[p].row))
  /\ \E a \in AttachmentIds \ minted :
       /\ minted' = minted \cup {a}
       /\ call' = [call EXCEPT ![p] = [Idle EXCEPT
            !.at = "attach.insert", !.rule = call[p].rule,
            !.attachment = a, !.target = call[p].target,
            !.policy = CreatedPolicyId(name)]]
  /\ UNCHANGED <<storeVars, budgetVars, origin, mediated, eventVars>>

NewAttachment(c) ==
  [rule |-> c.rule, target |-> c.target, policy |-> c.policy]

(* A duplicate or a rule deleted meanwhile fails the INSERT.                 *)
CreateEgressRuleAttachment_Insert(p) ==
  LET c == call[p] IN
  /\ At(p, "attach.insert")
  /\ \/ /\ InsertAttachment(c.attachment, NewAttachment(c))
        /\ Commit(p)
        /\ Goto(p, "attach.readback")
     \/ /\ ~RuleExists(c.rule) \/ Attached(c.rule, c.target)
        /\ Goto(p, "attach.undo")
        /\ UNCHANGED <<storeVars, eventVars>>
  /\ UNCHANGED <<zitiVars, budgetVars, historyVars, mediated>>

CreateEgressRuleAttachment_InsertError(p) ==
  LET c == call[p] IN
  /\ At(p, "attach.insert")
  /\ faults < MaxFaults
  /\ faults' = faults + 1
  /\ \/ UNCHANGED <<storeVars, eventVars>>
     \/ /\ InsertAttachment(c.attachment, NewAttachment(c))
        /\ unannounced' = unannounced \cup {c.attachment}
        /\ abandoned' = abandoned \cup {c.attachment}
  /\ Goto(p, "attach.undo")
  /\ UNCHANGED <<zitiVars, calls, historyVars, mediated>>

(* deleteAttachmentPolicy of the policy the failed INSERT was to hold, which *)
(* ReturnExisting may have taken from another attachment.                    *)
CreateEgressRuleAttachment_Undo(p) ==
  /\ At(p, "attach.undo")
  /\ DeleteServicePolicy(call[p].policy)
  /\ Return(p)
  /\ UNCHANGED <<storeVars, budgetVars, historyVars, mediated, eventVars>>

CreateEgressRuleAttachment_ReadBack(p) ==
  /\ At(p, "attach.readback")
  /\ IF AttachmentExists(call[p].attachment)
     THEN Goto(p, "attachment.publish") ELSE Return(p)
  /\ UNCHANGED <<storeVars, zitiVars, budgetVars, historyVars, mediated,
                 eventVars>>

---------------------------------------------------------------------------
(* DeleteEgressRuleAttachment.                                               *)

(* GetAttachment, and GetRule of a rule the foreign key keeps as long as the *)
(* attachment is there.                                                      *)
DeleteEgressRuleAttachment(p) ==
  /\ Receive(p, "detach")
  /\ \E a \in AttachmentIds :
       /\ AttachmentExists(a)
       /\ call' = [call EXCEPT ![p] = [Idle EXCEPT
            !.at = "detach.row", !.attachment = a,
            !.policy = attachments[a].policy]]
  /\ UNCHANGED <<storeVars, zitiVars, faults, historyVars, mediated,
                 eventVars>>

DeleteEgressRuleAttachment_Row(p) ==
  LET a == call[p].attachment IN
  /\ At(p, "detach.row")
  /\ \/ /\ DeleteAttachment(a)
        /\ Commit(p)
        /\ Goto(p, "detach.policy")
     \/ /\ ~AttachmentExists(a)
        /\ Return(p)
        /\ UNCHANGED <<storeVars, eventVars>>
  /\ UNCHANGED <<zitiVars, budgetVars, historyVars, mediated>>

(* Mutation: no event when the policy is gone already.                       *)
DeleteEgressRuleAttachment_Policy_Silent(p) ==
  LET id == call[p].policy IN
  /\ At(p, "detach.policy")
  /\ DeleteServicePolicy(id)
  /\ IF PolicyIdExists(id) THEN Goto(p, "attachment.publish") ELSE Return(p)
  /\ UNCHANGED <<storeVars, budgetVars, historyVars, mediated, eventVars>>

(* Of a policy that is gone the controller may say NotFound.                 *)
DeleteEgressRuleAttachment_Policy(p) ==
  LET id == call[p].policy IN
  /\ At(p, "detach.policy")
  /\ \/ /\ DeleteServicePolicy(id)
        /\ Goto(p, "attachment.publish")
        /\ UNCHANGED eventVars
     \/ /\ ~PolicyIdExists(id)
        /\ Abandon(p)
        /\ UNCHANGED zitiVars
  /\ UNCHANGED <<storeVars, budgetVars, historyVars, mediated>>

PublishAttachmentUpdated(p) ==
  /\ At(p, "attachment.publish")
  /\ unannounced' = unannounced \ {call[p].attachment}
  /\ abandoned' = abandoned \ {call[p].attachment}
  /\ Return(p)
  /\ UNCHANGED <<storeVars, zitiVars, budgetVars, historyVars, mediated>>

---------------------------------------------------------------------------
(* Failures.                                                                 *)

(* A request fails, its response is lost, or the context is cancelled.       *)
CallFails(p) ==
  /\ ~At(p, "idle")
  /\ faults < MaxFaults
  /\ faults' = faults + 1
  /\ Abandon(p)
  /\ UNCHANGED <<storeVars, zitiVars, calls, historyVars, mediated>>

(* The process crashes and is restarted.                                     *)
Crash ==
  /\ \E p \in Callers : ~At(p, "idle")
  /\ faults < MaxFaults
  /\ faults' = faults + 1
  /\ call' = [p \in Callers |-> Idle]
  /\ abandoned' = abandoned \cup
       {Subject(call[p]) : p \in {q \in Callers : call[q].at \in Committed}}
  /\ UNCHANGED <<storeVars, zitiVars, calls, historyVars, mediated,
                 unannounced>>

---------------------------------------------------------------------------

RuleStep(p) ==
  \/ CreateEgressRule(p) \/ CreateEgressRule_Service(p)
  \/ CreateEgressRule_Insert(p) \/ CreateEgressRule_InsertError(p)
  \/ CreateEgressRule_Undo(p) \/ CreateEgressRule_ReadBack(p)
  \/ SyncPrivateResourceMediation_Count(p)
  \/ SyncPrivateResourceMediation_Set(p)
  \/ SyncPrivateResourceMediation_Error(p)
  \/ UpdateEgressRule(p) \/ UpdateEgressRule_Service(p)
  \/ UpdateEgressRule_Write(p) \/ UpdateEgressRule_ReadBack(p)
  \/ DeleteEgressRule(p) \/ DeleteEgressRule_Count(p)
  \/ DeleteEgressRule_Row(p) \/ DeleteEgressRule_Service(p)
  \/ PublishRuleUpdated(p)

AttachmentStep(p) ==
  \/ CreateEgressRuleAttachment(p) \/ CreateEgressRuleAttachment_Check(p)
  \/ CreateEgressRuleAttachment_Service(p)
  \/ CreateEgressRuleAttachment_SaveServiceId(p)
  \/ CreateEgressRuleAttachment_Policy(p)
  \/ CreateEgressRuleAttachment_Insert(p)
  \/ CreateEgressRuleAttachment_InsertError(p)
  \/ CreateEgressRuleAttachment_Undo(p)
  \/ CreateEgressRuleAttachment_ReadBack(p)
  \/ DeleteEgressRuleAttachment(p) \/ DeleteEgressRuleAttachment_Row(p)
  \/ DeleteEgressRuleAttachment_Policy(p) \/ PublishAttachmentUpdated(p)

CallStep(p) == RuleStep(p) \/ AttachmentStep(p) \/ CallFails(p)

ServerNext == Crash \/ \E p \in Callers : CallStep(p)

ServerSpec == Init /\ [][ServerNext]_allVars

---------------------------------------------------------------------------
(* Properties.                                                               *)

(* Every row of a rule, stored or in the hands of a call however stale, has  *)
(* the destination kind, and for a private rule the resource, the rule was   *)
(* created with, and a service id exactly if it is public; the row a create  *)
(* is still provisioning for has none yet.                                   *)
OfKind(row, r) ==
  /\ origin[r] # None
  /\ PrivateResourceOf(row.matcher) = PrivateResourceOf(origin[r])

RowsAgree ==
  /\ \A r \in RuleIds : RuleExists(r) =>
       /\ OfKind(rules[r], r)
       /\ IsPrivateTarget(rules[r]) <=> rules[r].service = NoId
  /\ \A p \in Callers : call[p].at \in RowSteps =>
       /\ OfKind(call[p].row, call[p].rule)
       /\ ~At(p, "create.service") =>
            (IsPrivateTarget(call[p].row) <=> call[p].row.service = NoId)

(* A private rule owns no OpenZiti service, at no time and under no          *)
(* interleaving, and a stored rule has a service id exactly when it is       *)
(* public: what the branches on IsPrivateTarget in service.go,               *)
(* reconciler.go and attachmentServiceRole assume of every row they read.    *)
ServiceIdIffPublic ==
  \A r \in RuleIds :
    /\ origin[r] \in Resources => services[r] = None
    /\ RuleExists(r) => (IsPrivateTarget(rules[r]) <=>
                         rules[r].service = NoId)

(* A dial policy never admits its target to anything but the rule's own      *)
(* destination: the private resource the rule was created for, or, by a      *)
(* proper id, a service that is no other rule's, even when the rule's        *)
(* service was deleted and made anew while the policy was computed from a    *)
(* stale row (attachmentServiceRole, createAttachmentPolicy).                *)
PolicyScope ==
  \A n \in PolicyNames : policies[n] # None =>
    LET r == n[1] role == policies[n].role IN
    IF origin[r] \in Resources THEN role = <<"#", origin[r]>>
    ELSE /\ role[1] = "@" /\ role[2] # NoId
         /\ \A q \in RuleIds \ {r} : ~ServiceHasId(q, role[2])

(* Every committed change is followed by its cache-invalidation event: a row *)
(* with a change nobody was told of has a call on its way to publish it, or  *)
(* one that was abandoned after its commit.  A handler that finds its row    *)
(* gone when it reads it back may return without an event only because the   *)
(* call that deleted the row announces it.                                   *)
Announced ==
  \A x \in unannounced :
    \/ x \in abandoned
    \/ \E p \in Callers : call[p].at \in Committed /\ Subject(call[p]) = x

(* The destination of a stored rule never changes: no interleaving of        *)
(* updates, each checked against the row it read, turns a public rule        *)
(* private, back, or to another resource (service.go, "the target kind is    *)
(* immutable").                                                              *)
TargetImmutable ==
  [][\A r \in RuleIds : RuleExists(r) /\ rules'[r] # None =>
       PrivateResourceOf(rules'[r].matcher)
         = PrivateResourceOf(rules[r].matcher)]_allVars

(* A deleted rule stays deleted, whatever updates and service-id write-backs *)
(* computed from its row are still under way.                                *)
BeingCreated(r) ==
  \E p \in Callers : /\ call[p].rule = r
                     /\ call[p].at \in {"create.service", "create.insert"}

NoResurrection ==
  [][\A r \in RuleIds :
       origin[r] # None /\ ~RuleExists(r) /\ ~BeingCreated(r)
         => rules'[r] = None]_allVars

(* No handler takes the service from under a stored rule, except the         *)
(* clean-up of that rule's own INSERT whose answer was lost: a delete that   *)
(* the foreign key refuses, because an attach overtook its count, leaves the *)
(* service alone.                                                            *)
LiveRuleKeepsService ==
  [][\A r \in RuleIds :
       /\ RuleExists(r) /\ rules'[r] # None /\ services[r] # None
       /\ ~\E p \in Callers : At(p, "create.undo") /\ call[p].rule = r
       => services'[r] # None]_allVars

(* An attach never removes the policy of a stored attachment.                *)
AttachKeepsPolicies ==
  [][\A a \in AttachmentIds :
       /\ AttachmentExists(a) /\ attachments'[a] = attachments[a]
       /\ PolicyIdExists(attachments[a].policy)
       /\ \E p \in Callers : At(p, "attach.undo") /\ call'[p].at = "idle"
       => PolicyIdExists(attachments[a].policy)']_allVars

=============================================================================
