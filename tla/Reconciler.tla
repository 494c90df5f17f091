----------------------------- MODULE Reconciler ----------------------------
(* The reconciler goroutine (internal/server/reconciler.go) running beside   *)
(* the handlers.  A pass works from two snapshots taken one after the other, *)
(* brings every rule's service and every attachment's policy in line with    *)
(* them, stores the ids that changed, and deletes what OpenZiti holds under  *)
(* a name the snapshots do not account for.  Any error ends the pass; the    *)
(* next tick starts another from nothing.  Snapshots, ids and orphan lists   *)
(* are stale as soon as they are taken.                                      *)
(*                                                                           *)
(* A page of a list request holds everything (reconciliationPageSize is      *)
(* 100).  Rules and attachments are taken in any order, where the code goes  *)
(* by uuid.                                                                  *)
EXTENDS EgressServer

VARIABLE pass

vars == <<allVars, pass>>

PassSteps == {"idle", "attachments", "reconcile", "serviceid", "policyid",
              "replace.delete", "replace.create", "services", "policies"}

(* What a pass holds: its snapshots, what is left to reconcile, the rule or  *)
(* attachment in hand with the id found for it, and the ids to sweep.        *)
Pass == [at : PassSteps,
         rules : [RuleIds -> Row \cup {None}],
         attachments : [AttachmentIds -> AttachmentRow \cup {None}],
         todoRules : SUBSET RuleIds, todoAttachments : SUBSET AttachmentIds,
         current : RuleIds \cup AttachmentIds \cup {None},
         id : Nat, orphans : SUBSET Nat]

IdlePass == [at |-> "idle",
             rules |-> [r \in RuleIds |-> None],
             attachments |-> [a \in AttachmentIds |-> None],
             todoRules |-> {}, todoAttachments |-> {},
             current |-> None, id |-> NoId, orphans |-> {}]

(* What is in hand is in the snapshots.                                      *)
PassOK ==
  /\ pass \in Pass
  /\ pass.at \in {"idle", "attachments"} =>
       pass.todoRules = {} /\ pass.todoAttachments = {}
  /\ \A r \in pass.todoRules :
       pass.rules[r] # None /\ pass.rules[r].matcher \in Domains
  /\ \A a \in pass.todoAttachments : pass.attachments[a] # None
  /\ pass.at = "serviceid" => pass.current \in pass.todoRules
  /\ pass.at \in {"policyid", "replace.delete", "replace.create"} =>
       /\ pass.current \in pass.todoAttachments
       /\ pass.rules[pass.attachments[pass.current].rule] # None

ReconcilerTypeOK == TypeOK /\ PassOK

ReconcilerInit == Init /\ pass = IdlePass

PassAt(step) == pass.at = step

(* An error is logged and the pass is over.                                  *)
PassEnds == pass' = IdlePass

---------------------------------------------------------------------------
(* Snapshots.                                                                *)

ListAllRules ==
  /\ PassAt("idle")
  /\ pass' = [pass EXCEPT !.at = "attachments", !.rules = rules]
  /\ UNCHANGED allVars

(* Mutation: private rules are reconciled too.                               *)
ListAllAttachments_EveryRule ==
  /\ PassAt("attachments")
  /\ pass' = [pass EXCEPT
       !.at = "reconcile",
       !.attachments = attachments,
       !.todoRules = {r \in RuleIds : pass.rules[r] # None},
       !.todoAttachments = {a \in AttachmentIds : attachments[a] # None}]
  /\ UNCHANGED allVars

ListAllAttachments ==
  /\ PassAt("attachments")
  /\ pass' = [pass EXCEPT
       !.at = "reconcile",
       !.attachments = attachments,
       !.todoRules = {r \in RuleIds : /\ pass.rules[r] # None
                                      /\ ~IsPrivateTarget(pass.rules[r])},
       !.todoAttachments = {a \in AttachmentIds : attachments[a] # None}]
  /\ UNCHANGED allVars

---------------------------------------------------------------------------
(* Rules.                                                                    *)

ReconcileRule(r) ==
  LET row == pass.rules[r]
      id  == ReconciledServiceId(r, row) IN
  /\ PassAt("reconcile")
  /\ r \in pass.todoRules
  /\ ReconcileRuleService(r, row)
  /\ pass' = IF id = row.service
             THEN [pass EXCEPT !.todoRules = @ \ {r}]
             ELSE [pass EXCEPT !.at = "serviceid", !.current = r, !.id = id]
  /\ UNCHANGED <<storeVars, serverVars>>

(* The snapshot takes the new id once the row has it; a rule deleted         *)
(* meanwhile is NotFound.                                                    *)
SaveServiceId ==
  LET r == pass.current IN
  /\ PassAt("serviceid")
  /\ \/ /\ UpdateRuleServiceID(r, pass.id)
        /\ pass' = [pass EXCEPT !.at = "reconcile",
                                !.rules[r].service = pass.id,
                                !.todoRules = @ \ {r},
                                !.current = None, !.id = NoId]
     \/ /\ ~RuleExists(r)
        /\ PassEnds
        /\ UNCHANGED storeVars
  /\ UNCHANGED <<zitiVars, serverVars>>

---------------------------------------------------------------------------
(* Attachments, once the rules are done.                                     *)

AttachmentTurn(a) ==
  PassAt("reconcile") /\ pass.todoRules = {} /\ a \in pass.todoAttachments

PolicyName(a) == <<pass.attachments[a].rule, pass.attachments[a].target>>

PassRow(a) == pass.rules[pass.attachments[a].rule]

(* Mutation: the service role is not compared.                               *)
PolicyMatches_AnyRole(a) ==
  PolicyHasId(PolicyName(a), pass.attachments[a].policy)

(* servicePolicyMatchesAttachment of the policy that has the stored id.      *)
PolicyMatches(a) ==
  /\ PolicyHasId(PolicyName(a), pass.attachments[a].policy)
  /\ policies[PolicyName(a)].role = AttachmentServiceRole(PassRow(a))

(* The rule was stored after the snapshot of the rules was taken.            *)
UnknownRule(a) ==
  /\ AttachmentTurn(a)
  /\ PassRow(a) = None
  /\ PassEnds
  /\ UNCHANGED allVars

AttachmentInLine(a) ==
  /\ AttachmentTurn(a)
  /\ PassRow(a) # None
  /\ PolicyMatches(a)
  /\ pass' = [pass EXCEPT !.todoAttachments = @ \ {a}]
  /\ UNCHANGED allVars

(* No policy has the stored id; as with services, asking and creating are    *)
(* one step.                                                                 *)
ProvisionPolicy(a) ==
  /\ AttachmentTurn(a)
  /\ PassRow(a) # None
  /\ ~PolicyIdExists(pass.attachments[a].policy)
  /\ CreateServicePolicy(PolicyName(a), AttachmentServiceRole(PassRow(a)))
  /\ pass' = [pass EXCEPT !.at = "policyid", !.current = a,
                          !.id = CreatedPolicyId(PolicyName(a))]
  /\ UNCHANGED <<storeVars, serverVars>>

(* replaceAttachmentPolicy: delete the policy that does not match, then      *)
(* create one in its place.                                                  *)
PolicyDiffers(a) ==
  /\ AttachmentTurn(a)
  /\ PassRow(a) # None
  /\ PolicyIdExists(pass.attachments[a].policy)
  /\ ~PolicyMatches(a)
  /\ pass' = [pass EXCEPT !.at = "replace.delete", !.current = a]
  /\ UNCHANGED allVars

ReplacePolicy_Delete ==
  LET id == pass.attachments[pass.current].policy IN
  /\ PassAt("replace.delete")
  /\ \/ /\ DeleteServicePolicy(id)
        /\ pass' = [pass EXCEPT !.at = "replace.create"]
     \/ /\ ~PolicyIdExists(id)
        /\ PassEnds
        /\ UNCHANGED zitiVars
  /\ UNCHANGED <<storeVars, serverVars>>

(* Not with ReturnExisting: a name taken meanwhile is a conflict.            *)
ReplacePolicy_Create ==
  LET a == pass.current IN
  /\ PassAt("replace.create")
  /\ \/ /\ policies[PolicyName(a)] = None
        /\ CreateServicePolicy(PolicyName(a),
                               AttachmentServiceRole(PassRow(a)))
        /\ pass' = [pass EXCEPT !.at = "policyid",
                                !.id = CreatedPolicyId(PolicyName(a))]
     \/ /\ policies[PolicyName(a)] # None
        /\ PassEnds
        /\ UNCHANGED zitiVars
  /\ UNCHANGED <<storeVars, serverVars>>

(* The id is saved only if it changed; an attachment deleted meanwhile is    *)
(* NotFound.                                                                 *)
SavePolicyId ==
  LET a == pass.current IN
  /\ PassAt("policyid")
  /\ \/ /\ UpdateAttachmentPolicyID(a, pass.id)
        /\ pass' = [pass EXCEPT !.at = "reconcile",
                                !.todoAttachments = @ \ {a},
                                !.current = None, !.id = NoId]
     \/ /\ ~AttachmentExists(a)
        /\ PassEnds
        /\ UNCHANGED storeVars
  /\ UNCHANGED <<zitiVars, serverVars>>

---------------------------------------------------------------------------
(* Sweeps.                                                                   *)

(* Mutation: only services somebody dials are kept.                          *)
ManagedServices_Attached ==
  {pass.attachments[a].rule :
     a \in {b \in AttachmentIds : pass.attachments[b] # None}}

(* Mutation: every policy of a known rule is kept.                           *)
ManagedPolicies_ByRule == {n \in PolicyNames : pass.rules[n[1]] # None}

(* managedNames of deleteOrphanServices and deleteOrphanServicePolicies.     *)
ManagedServices == {r \in RuleIds : pass.rules[r] # None}

ManagedPolicies ==
  {PolicyName(a) : a \in {b \in AttachmentIds : pass.attachments[b] # None}}

OrphanServices == {r \in RuleIds \ ManagedServices : services[r] # None}

OrphanPolicies == {n \in PolicyNames \ ManagedPolicies : policies[n] # None}

ListServices ==
  /\ PassAt("reconcile")
  /\ pass.todoRules = {} /\ pass.todoAttachments = {}
  /\ pass' = [pass EXCEPT
       !.at = "services",
       !.orphans = {services[r].id : r \in OrphanServices}]
  /\ UNCHANGED allVars

DeleteOrphanService ==
  /\ PassAt("services")
  /\ \E id \in pass.orphans :
       \/ /\ DeleteService(id)
          /\ pass' = [pass EXCEPT !.orphans = @ \ {id}]
       \/ /\ ~ServiceIdExists(id)
          /\ PassEnds
          /\ UNCHANGED zitiVars
  /\ UNCHANGED <<storeVars, serverVars>>

ListServicePolicies ==
  /\ PassAt("services")
  /\ pass.orphans = {}
  /\ pass' = [pass EXCEPT
       !.at = "policies",
       !.orphans = {policies[n].id : n \in OrphanPolicies}]
  /\ UNCHANGED allVars

DeleteOrphanServicePolicy ==
  /\ PassAt("policies")
  /\ \E id \in pass.orphans :
       \/ /\ DeleteServicePolicy(id)
          /\ pass' = [pass EXCEPT !.orphans = @ \ {id}]
       \/ /\ ~PolicyIdExists(id)
          /\ PassEnds
          /\ UNCHANGED zitiVars
  /\ UNCHANGED <<storeVars, serverVars>>

(* What is left, reportInterceptCollisions, only reads and logs.             *)
PassDone ==
  /\ PassAt("policies")
  /\ pass.orphans = {}
  /\ PassEnds
  /\ UNCHANGED allVars

---------------------------------------------------------------------------

PassStep ==
  \/ ListAllRules \/ ListAllAttachments
  \/ \E r \in RuleIds : ReconcileRule(r)
  \/ SaveServiceId
  \/ \E a \in AttachmentIds :
       \/ UnknownRule(a) \/ AttachmentInLine(a)
       \/ ProvisionPolicy(a) \/ PolicyDiffers(a)
  \/ ReplacePolicy_Delete \/ ReplacePolicy_Create \/ SavePolicyId
  \/ ListServices \/ DeleteOrphanService
  \/ ListServicePolicies \/ DeleteOrphanServicePolicy
  \/ PassDone

(* A request of the pass fails, or its response is lost.                     *)
PassFails ==
  /\ ~PassAt("idle")
  /\ faults < MaxFaults
  /\ faults' = faults + 1
  /\ PassEnds
  /\ UNCHANGED <<storeVars, zitiVars, call, calls, historyVars, mediated,
                 eventVars>>

(* A crash also takes the pass under way with it.                            *)
ProcessCrash == Crash /\ PassEnds

HandlerStep == \E p \in Callers : CallStep(p) /\ UNCHANGED pass

Next == HandlerStep \/ PassStep \/ PassFails \/ ProcessCrash

Spec == ReconcilerInit /\ [][Next]_vars

(* The ticker starts pass after pass and a pass takes its steps; nothing is  *)
(* assumed of the handlers, any of which may hang for good.                  *)
FairSpec == Spec /\ WF_vars(PassStep)

(* Besides, every call that was received runs to its end.                    *)
CompleteCall(p) == ~At(p, "idle") /\ CallStep(p) /\ UNCHANGED pass

CompletingSpec == FairSpec /\ \A p \in Callers : WF_vars(CompleteCall(p))

---------------------------------------------------------------------------
(* Properties.                                                               *)

(* OpenZiti holds what the tables say: the service of every public rule and  *)
(* the policy of every attachment, under the stored ids and with the right   *)
(* service role, and nothing else.  What a service intercepts is left out:   *)
(* the reconciler does not compare it.                                       *)
InSync ==
  /\ \A r \in RuleIds :
       IF RuleExists(r) /\ ~IsPrivateTarget(rules[r])
       THEN ServiceHasId(r, rules[r].service) ELSE services[r] = None
  /\ \A a \in AttachmentIds : AttachmentExists(a) =>
       LET n == <<attachments[a].rule, attachments[a].target>> IN
       /\ PolicyHasId(n, attachments[a].policy)
       /\ policies[n].role = AttachmentServiceRole(rules[attachments[a].rule])
  /\ \A n \in PolicyNames : policies[n] # None => Attached(n[1], n[2])

(* Whatever the handlers did, in whatever order and however many of them     *)
(* failed or were cut short, passes bring OpenZiti in line with the tables   *)
(* once requests and failures cease: orphans of failed creates and deletes   *)
(* go, services and policies deleted under a stored row come back, stale     *)
(* stored ids are corrected.                                                 *)
Converges == <>[]InSync

(* The rows of a snapshot, however old, are of the kind their rules were     *)
(* created with, and an id found for a rule is a proper one: a pass that     *)
(* outlives the rules it has seen never makes a service for a private rule   *)
(* and never empties a public rule's service id.                             *)
SnapshotAgrees ==
  /\ \A r \in RuleIds : pass.rules[r] # None =>
       /\ OfKind(pass.rules[r], r)
       /\ IsPrivateTarget(pass.rules[r]) <=> pass.rules[r].service = NoId
  /\ pass.at = "serviceid" => pass.id # NoId

(* While a pass sweeps, no failure so far, every public rule it has seen and *)
(* that is still stored has a service: the handlers running beside it and    *)
(* its own deletions of orphans take none away.                              *)
SweepSparesKnownRules ==
  pass.at \in {"services", "policies"} /\ faults = 0 =>
    \A r \in RuleIds :
      RuleExists(r) /\ pass.rules[r] # None /\ ~IsPrivateTarget(rules[r])
        => services[r] # None

(* Finally every service intercepts what its rule's stored matcher says,     *)
(* as TestUpdateEgressRuleUpdatesZitiWhenMatcherInterceptChanges             *)
(* (service_test.go) has it after one update.                                *)
InterceptConverges ==
  <>[](\A r \in RuleIds : RuleExists(r) /\ services[r] # None =>
         services[r].intercept = rules[r].matcher)

=============================================================================
