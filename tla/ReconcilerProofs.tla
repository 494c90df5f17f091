-------------------------- MODULE ReconcilerProofs -------------------------
(* Theorems about the handlers and the reconciler running together.          *)
EXTENDS Reconciler, EgressServerProofs

USE DEF NoId

---------------------------------------------------------------------------
(* Type correctness: the handlers' steps by ServerNextType, the pass's steps *)
(* here.                                                                     *)

LEMMA IdlePassType == IdlePass \in Pass
<1>1. [r \in RuleIds |-> None] \in [RuleIds -> Row \cup {None}]
  OBVIOUS
<1>2. [a \in AttachmentIds |-> None] \in [AttachmentIds -> AttachmentRow \cup {None}]
  OBVIOUS
<1>3. "idle" \in PassSteps
  BY DEF PassSteps
<1> HIDE DEF PassSteps
<1> QED BY <1>1, <1>2, <1>3 DEF IdlePass, Pass

LEMMA IdlePassOK ==
  ASSUME PassEnds
  PROVE  PassOK'
<1>1. pass' \in Pass
  BY IdlePassType DEF PassEnds
<1>2. /\ pass'.todoRules = {} /\ pass'.todoAttachments = {}
      /\ pass'.at = "idle"
  BY DEF PassEnds, IdlePass
<1> QED BY <1>1, <1>2 DEF PassOK

LEMMA InitReconcilerType == ReconcilerInit => ReconcilerTypeOK
<1> SUFFICES ASSUME ReconcilerInit PROVE ReconcilerTypeOK
  OBVIOUS
<1>1. PassOK
  <2>1. pass \in Pass
    BY IdlePassType DEF ReconcilerInit
  <2>2. pass.todoRules = {} /\ pass.todoAttachments = {} /\ pass.at = "idle"
    BY DEF ReconcilerInit, IdlePass
  <2> QED BY <2>1, <2>2 DEF PassOK
<1> QED BY <1>1, InitType DEF ReconcilerInit, ReconcilerTypeOK

LEMMA ServerVarsType ==
  ASSUME TypeOK, StoreTypeOK', ZitiTypeOK', UNCHANGED serverVars
  PROVE  TypeOK'
BY DEF TypeOK, ServerTypeOK, serverVars

LEMMA ListsType ==
  ASSUME ReconcilerTypeOK,
         \/ ListAllRules \/ ListAllAttachments
         \/ ListServices \/ ListServicePolicies \/ PassDone
  PROVE  ReconcilerTypeOK'
<1>1. TypeOK'
  BY ServerNextType DEF ReconcilerTypeOK, ListAllRules, ListAllAttachments,
     ListServices, ListServicePolicies, PassDone
<1>2. ASSUME ListAllRules PROVE PassOK'
  BY <1>2 DEF ListAllRules, ReconcilerTypeOK, PassOK, Pass, PassSteps, PassAt,
     TypeOK, StoreTypeOK
<1>3. ASSUME ListAllAttachments PROVE PassOK'
  BY <1>3 DEF ListAllAttachments, ReconcilerTypeOK, PassOK, Pass, PassSteps,
     PassAt, TypeOK, StoreTypeOK, IsPrivateTarget, Row, Matchers
<1>4. ASSUME ListServices PROVE PassOK'
  <2>1. \A r \in OrphanServices : services[r].id \in Nat
    BY DEF OrphanServices, ReconcilerTypeOK, TypeOK, ZitiTypeOK, Service
  <2>2. PICK orphans \in SUBSET Nat :
          pass' = [pass EXCEPT !.at = "services", !.orphans = orphans]
    BY <1>4, <2>1 DEF ListServices
  <2> QED BY <1>4, <2>2
          DEF ListServices, ReconcilerTypeOK, PassOK, Pass, PassSteps, PassAt
<1>5. ASSUME ListServicePolicies PROVE PassOK'
  <2>1. \A r \in OrphanPolicies : policies[r].id \in Nat
    BY DEF OrphanPolicies, ReconcilerTypeOK, TypeOK, ZitiTypeOK, Policy
  <2>2. PICK orphans \in SUBSET Nat :
          pass' = [pass EXCEPT !.at = "policies", !.orphans = orphans]
    BY <1>5, <2>1 DEF ListServicePolicies
  <2> QED BY <1>5, <2>2
          DEF ListServicePolicies, ReconcilerTypeOK, PassOK, Pass, PassSteps, PassAt
<1>6. ASSUME PassDone PROVE PassOK'
  BY <1>6, IdlePassOK DEF PassDone
<1> QED BY <1>1, <1>2, <1>3, <1>4, <1>5, <1>6 DEF ReconcilerTypeOK

LEMMA ReconcileRuleType ==
  ASSUME ReconcilerTypeOK, NEW r \in RuleIds, ReconcileRule(r)
  PROVE  ReconcilerTypeOK'
<1> DEFINE row == pass.rules[r]
           id  == ReconciledServiceId(r, row)
<1>1. row \in Row /\ row.matcher \in Domains
  BY DEF ReconcilerTypeOK, PassOK, Pass, ReconcileRule
<1>2. ZitiTypeOK' /\ id \in Nat
  BY <1>1, ReconcileRuleServiceType
     DEF ReconcilerTypeOK, TypeOK, ReconcileRule
<1>3. TypeOK'
  BY <1>2, UnchangedType, ServerVarsType
     DEF ReconcilerTypeOK, TypeOK, ReconcileRule
<1>4. pass' = IF id = row.service
              THEN [pass EXCEPT !.todoRules = @ \ {r}]
              ELSE [pass EXCEPT !.at = "serviceid", !.current = r, !.id = id]
  BY DEF ReconcileRule
<1>5. PassAt("reconcile") /\ r \in pass.todoRules
  BY DEF ReconcileRule
<1> HIDE DEF id
<1>6. PassOK'
  <2>1. CASE pass' = [pass EXCEPT !.todoRules = @ \ {r}]
    BY <1>5, <2>1 DEF ReconcilerTypeOK, PassOK, Pass, PassSteps, PassAt
  <2>2. CASE pass' = [pass EXCEPT !.at = "serviceid", !.current = r, !.id = id]
    BY <1>2, <1>5, <2>2 DEF ReconcilerTypeOK, PassOK, Pass, PassSteps, PassAt
  <2> QED BY <1>4, <2>1, <2>2
<1> QED BY <1>3, <1>6 DEF ReconcilerTypeOK

LEMMA SaveServiceIdType ==
  ASSUME ReconcilerTypeOK, SaveServiceId
  PROVE  ReconcilerTypeOK'
<1> DEFINE r == pass.current
<1>1. r \in RuleIds /\ r \in pass.todoRules /\ pass.id \in Nat
  BY DEF ReconcilerTypeOK, PassOK, Pass, SaveServiceId, PassAt
<1>2. StoreTypeOK'
  BY <1>1, UpdateRuleServiceIDType, UnchangedType
     DEF ReconcilerTypeOK, TypeOK, SaveServiceId
<1>3. TypeOK'
  BY <1>2, UnchangedType, ServerVarsType
     DEF ReconcilerTypeOK, TypeOK, SaveServiceId
<1>4. CASE pass' = [pass EXCEPT !.at = "reconcile",
                                !.rules[r].service = pass.id,
                                !.todoRules = @ \ {r},
                                !.current = None, !.id = NoId]
  <2> DEFINE row == [pass.rules[r] EXCEPT !.service = pass.id]
  <2>1. pass.rules[r] \in Row
    BY <1>1 DEF ReconcilerTypeOK, PassOK, Pass
  <2>2. row \in Row
    BY <1>1, <2>1 DEF Row
  <2>3. pass' = [pass EXCEPT !.at = "reconcile",
                             !.rules = [pass.rules EXCEPT ![r] = row],
                             !.todoRules = @ \ {r},
                             !.current = None, !.id = NoId]
    BY <1>1, <1>4 DEF ReconcilerTypeOK, PassOK, Pass
  <2> HIDE DEF row
  <2>4. [pass.rules EXCEPT ![r] = row] \in [RuleIds -> Row \cup {None}]
    BY <2>2 DEF ReconcilerTypeOK, PassOK, Pass
  <2>5. pass' \in Pass
    BY <2>3, <2>4 DEF ReconcilerTypeOK, PassOK, Pass, PassSteps
  <2>6. /\ pass'.at = "reconcile" /\ pass'.todoRules = pass.todoRules \ {r}
        /\ pass'.todoAttachments = pass.todoAttachments
        /\ pass'.attachments = pass.attachments
        /\ pass'.rules = [pass.rules EXCEPT ![r] = row]
    BY <2>3 DEF ReconcilerTypeOK, PassOK, Pass
  <2> QED BY <1>1, <1>3, <2>5, <2>6 DEF ReconcilerTypeOK, PassOK, Pass
<1>5. CASE PassEnds
  BY <1>3, <1>5, IdlePassOK DEF ReconcilerTypeOK
<1> QED BY <1>4, <1>5 DEF SaveServiceId

(* An attachment in its turn, and its rule in the snapshot.                  *)
LEMMA TurnType ==
  ASSUME ReconcilerTypeOK, NEW a \in AttachmentIds,
         a \in pass.todoAttachments
  PROVE  /\ pass.attachments[a] \in AttachmentRow
         /\ PolicyName(a) \in PolicyNames
         /\ PassRow(a) \in Row \cup {None}
BY DEF ReconcilerTypeOK, PassOK, Pass, AttachmentRow, PolicyName,
       PolicyNames, PassRow

LEMMA AttachmentLooksType ==
  ASSUME ReconcilerTypeOK, NEW a \in AttachmentIds,
         UnknownRule(a) \/ AttachmentInLine(a) \/ PolicyDiffers(a)
  PROVE  ReconcilerTypeOK'
<1>1. TypeOK'
  BY ServerNextType
     DEF ReconcilerTypeOK, UnknownRule, AttachmentInLine, PolicyDiffers
<1>2. ASSUME UnknownRule(a) PROVE PassOK'
  BY <1>2, IdlePassOK DEF UnknownRule
<1>3. ASSUME AttachmentInLine(a) PROVE PassOK'
  BY <1>3 DEF AttachmentInLine, AttachmentTurn, PassAt, ReconcilerTypeOK,
     PassOK, Pass, PassSteps
<1>4. ASSUME PolicyDiffers(a) PROVE PassOK'
  BY <1>4 DEF PolicyDiffers, AttachmentTurn, PassAt, PassRow,
     ReconcilerTypeOK, PassOK, Pass, PassSteps
<1> QED BY <1>1, <1>2, <1>3, <1>4 DEF ReconcilerTypeOK

LEMMA ProvisionPolicyType ==
  ASSUME ReconcilerTypeOK, NEW a \in AttachmentIds, ProvisionPolicy(a)
  PROVE  ReconcilerTypeOK'
<1>1. a \in pass.todoAttachments /\ PassAt("reconcile") /\ PassRow(a) # None
  BY DEF ProvisionPolicy, AttachmentTurn
<1>2. ZitiTypeOK' /\ CreatedPolicyId(PolicyName(a)) \in Nat
  BY <1>1, TurnType, AttachmentServiceRoleType, CreateServicePolicyType
     DEF ReconcilerTypeOK, TypeOK, ProvisionPolicy
<1>3. TypeOK'
  BY <1>2, UnchangedType, ServerVarsType
     DEF ReconcilerTypeOK, TypeOK, ProvisionPolicy
<1>4. PICK id \in Nat :
        pass' = [pass EXCEPT !.at = "policyid", !.current = a, !.id = id]
  BY <1>2 DEF ProvisionPolicy
<1>5. PassOK'
  BY <1>1, <1>4 DEF ReconcilerTypeOK, PassOK, Pass, PassSteps, PassAt, PassRow
<1> QED BY <1>3, <1>5 DEF ReconcilerTypeOK

LEMMA ReplaceDeleteType ==
  ASSUME ReconcilerTypeOK, ReplacePolicy_Delete
  PROVE  ReconcilerTypeOK'
<1>1. /\ pass.current \in AttachmentIds
      /\ pass.attachments[pass.current].policy \in Nat
      /\ PassAt("replace.delete")
  BY DEF ReplacePolicy_Delete, PassAt, ReconcilerTypeOK, PassOK, Pass,
     AttachmentRow
<1>2. ZitiTypeOK'
  BY <1>1, DeleteServicePolicyType, UnchangedType
     DEF ReplacePolicy_Delete, ReconcilerTypeOK, TypeOK
<1>3. TypeOK'
  BY <1>2, UnchangedType, ServerVarsType
     DEF ReconcilerTypeOK, TypeOK, ReplacePolicy_Delete
<1>4. CASE pass' = [pass EXCEPT !.at = "replace.create"]
  BY <1>1, <1>3, <1>4 DEF ReconcilerTypeOK, PassOK, Pass, PassSteps, PassAt
<1>5. CASE PassEnds
  BY <1>3, <1>5, IdlePassOK DEF ReconcilerTypeOK
<1> QED BY <1>4, <1>5 DEF ReplacePolicy_Delete

LEMMA ReplaceCreateType ==
  ASSUME ReconcilerTypeOK, ReplacePolicy_Create
  PROVE  ReconcilerTypeOK'
<1> DEFINE a == pass.current
<1>1. /\ a \in AttachmentIds /\ a \in pass.todoAttachments
      /\ PassRow(a) # None /\ PassAt("replace.create")
  BY DEF ReplacePolicy_Create, PassAt, ReconcilerTypeOK, PassOK, Pass, PassRow
<1>2. CASE /\ CreateServicePolicy(PolicyName(a),
                                  AttachmentServiceRole(PassRow(a)))
           /\ pass' = [pass EXCEPT !.at = "policyid",
                                   !.id = CreatedPolicyId(PolicyName(a))]
  <2>1. ZitiTypeOK' /\ CreatedPolicyId(PolicyName(a)) \in Nat
    BY <1>1, <1>2, TurnType, AttachmentServiceRoleType,
       CreateServicePolicyType DEF ReconcilerTypeOK, TypeOK
  <2>2. TypeOK'
    BY <2>1, UnchangedType, ServerVarsType
       DEF ReconcilerTypeOK, TypeOK, ReplacePolicy_Create
  <2>3. PICK id \in Nat :
          pass' = [pass EXCEPT !.at = "policyid", !.id = id]
    BY <1>2, <2>1
  <2>4. PassOK'
    BY <1>1, <2>3 DEF ReconcilerTypeOK, PassOK, Pass, PassSteps, PassAt
  <2> QED BY <2>2, <2>4 DEF ReconcilerTypeOK
<1>3. CASE PassEnds /\ UNCHANGED zitiVars
  BY <1>3, IdlePassOK, UnchangedType, ServerVarsType
     DEF ReconcilerTypeOK, TypeOK, ReplacePolicy_Create
<1> QED BY <1>2, <1>3 DEF ReplacePolicy_Create

LEMMA SavePolicyIdType ==
  ASSUME ReconcilerTypeOK, SavePolicyId
  PROVE  ReconcilerTypeOK'
<1> DEFINE a == pass.current
<1>1. /\ a \in AttachmentIds /\ pass.id \in Nat /\ PassAt("policyid")
  BY DEF SavePolicyId, PassAt, ReconcilerTypeOK, PassOK, Pass
<1>2. StoreTypeOK'
  BY <1>1, UpdateAttachmentPolicyIDType, UnchangedType
     DEF ReconcilerTypeOK, TypeOK, SavePolicyId
<1>3. TypeOK'
  BY <1>2, UnchangedType, ServerVarsType
     DEF ReconcilerTypeOK, TypeOK, SavePolicyId
<1>4. CASE pass' = [pass EXCEPT !.at = "reconcile",
                                !.todoAttachments = @ \ {a},
                                !.current = None, !.id = NoId]
  BY <1>3, <1>4 DEF ReconcilerTypeOK, PassOK, Pass, PassSteps
<1>5. CASE PassEnds
  BY <1>3, <1>5, IdlePassOK DEF ReconcilerTypeOK
<1> QED BY <1>4, <1>5 DEF SavePolicyId

LEMMA OrphanServiceType ==
  ASSUME ReconcilerTypeOK, DeleteOrphanService
  PROVE  ReconcilerTypeOK'
<1>1. PICK id \in pass.orphans :
        \/ /\ DeleteService(id)
           /\ pass' = [pass EXCEPT !.orphans = @ \ {id}]
        \/ PassEnds /\ UNCHANGED zitiVars
  BY DEF DeleteOrphanService
<1>2. id \in Nat
  BY <1>1 DEF ReconcilerTypeOK, PassOK, Pass
<1>3. ZitiTypeOK'
  BY <1>1, <1>2, DeleteServiceType, UnchangedType
     DEF ReconcilerTypeOK, TypeOK
<1>4. TypeOK'
  BY <1>3, UnchangedType, ServerVarsType
     DEF ReconcilerTypeOK, TypeOK, DeleteOrphanService
<1>5. CASE pass' = [pass EXCEPT !.orphans = @ \ {id}]
  BY <1>4, <1>5 DEF ReconcilerTypeOK, PassOK, Pass
<1>6. CASE PassEnds
  BY <1>4, <1>6, IdlePassOK DEF ReconcilerTypeOK
<1> QED BY <1>1, <1>5, <1>6

LEMMA OrphanPolicyType ==
  ASSUME ReconcilerTypeOK, DeleteOrphanServicePolicy
  PROVE  ReconcilerTypeOK'
<1>1. PICK id \in pass.orphans :
        \/ /\ DeleteServicePolicy(id)
           /\ pass' = [pass EXCEPT !.orphans = @ \ {id}]
        \/ PassEnds /\ UNCHANGED zitiVars
  BY DEF DeleteOrphanServicePolicy
<1>2. id \in Nat
  BY <1>1 DEF ReconcilerTypeOK, PassOK, Pass
<1>3. ZitiTypeOK'
  BY <1>1, <1>2, DeleteServicePolicyType, UnchangedType
     DEF ReconcilerTypeOK, TypeOK
<1>4. TypeOK'
  BY <1>3, UnchangedType, ServerVarsType
     DEF ReconcilerTypeOK, TypeOK, DeleteOrphanServicePolicy
<1>5. CASE pass' = [pass EXCEPT !.orphans = @ \ {id}]
  BY <1>4, <1>5 DEF ReconcilerTypeOK, PassOK, Pass
<1>6. CASE PassEnds
  BY <1>4, <1>6, IdlePassOK DEF ReconcilerTypeOK
<1> QED BY <1>1, <1>5, <1>6

LEMMA PassFailsType ==
  ASSUME ReconcilerTypeOK, PassFails
  PROVE  ReconcilerTypeOK'
<1>1. TypeOK'
  BY UnchangedType DEF ReconcilerTypeOK, TypeOK, ServerTypeOK, PassFails,
     historyVars, eventVars
<1> QED BY <1>1, IdlePassOK DEF PassFails, ReconcilerTypeOK

(* Every step of the handlers and of the reconciler keeps the types.         *)
LEMMA NextType ==
  ASSUME ReconcilerTypeOK, [Next]_vars
  PROVE  ReconcilerTypeOK'
<1>1. CASE HandlerStep
  BY <1>1, ServerNextType
     DEF HandlerStep, ServerNext, ReconcilerTypeOK, PassOK
<1>2. CASE PassStep
  BY <1>2, ListsType, ReconcileRuleType, SaveServiceIdType,
     AttachmentLooksType, ProvisionPolicyType, ReplaceDeleteType,
     ReplaceCreateType, SavePolicyIdType, OrphanServiceType,
     OrphanPolicyType
     DEF PassStep
<1>3. CASE ProcessCrash
  BY <1>3, CrashType, IdlePassOK DEF ProcessCrash, ReconcilerTypeOK
<1>4. CASE UNCHANGED vars
  BY <1>4, ServerNextType DEF vars, ReconcilerTypeOK, PassOK
<1> QED BY <1>1, <1>2, <1>3, <1>4, PassFailsType DEF Next

(* The whole system keeps its types: in particular a pass only ever handles  *)
(* rules and attachments of its snapshots, with the rule of an attachment it *)
(* is replacing the policy of among them.                                    *)
THEOREM TypeCorrect == Spec => []ReconcilerTypeOK
<1>1. ReconcilerInit => ReconcilerTypeOK
  BY InitReconcilerType
<1>2. ReconcilerTypeOK /\ [Next]_vars => ReconcilerTypeOK'
  BY NextType
<1> QED BY <1>1, <1>2, PTL DEF Spec

---------------------------------------------------------------------------
(* The destination kind, with the reconciler running.                        *)

SystemKindInv == ReconcilerTypeOK /\ KindInv /\ SnapshotAgrees

LEMMA SnapshotAgreesDef ==
  SnapshotAgrees <=>
    /\ \A r \in RuleIds : pass.rules[r] # None => RowOK(pass.rules[r], r)
    /\ pass.at = "serviceid" => pass.id # NoId
BY DEF SnapshotAgrees, RowOK

(* A pass keeps the snapshot's rows and the rule ids' matchers.              *)
LEMMA SnapshotKept ==
  ASSUME SnapshotAgrees, UNCHANGED <<origin, pass>>
  PROVE  SnapshotAgrees'
BY DEF SnapshotAgrees, OfKind

LEMMA IdleSnapshot ==
  ASSUME PassEnds
  PROVE  SnapshotAgrees'
BY DEF PassEnds, IdlePass, SnapshotAgrees

LEMMA InitSystemKind == ReconcilerInit => SystemKindInv
<1> SUFFICES ASSUME ReconcilerInit PROVE SystemKindInv
  OBVIOUS
<1>1. SnapshotAgrees
  BY DEF ReconcilerInit, IdlePass, SnapshotAgrees
<1> QED BY <1>1, InitReconcilerType, InitKind DEF SystemKindInv, ReconcilerInit

(* A handler's step leaves the pass alone, and what it does to the matcher   *)
(* of a rule id is to mint it.                                               *)
LEMMA OriginStable ==
  ASSUME TypeOK, [ServerNext]_allVars
  PROVE  \A r \in RuleIds : origin[r] # None => origin'[r] = origin[r]
<1>1. ASSUME NEW p \in Callers, CreateEgressRule(p)
      PROVE  \A r \in RuleIds : origin[r] # None => origin'[r] = origin[r]
  BY SMTT(30), <1>1 DEF CreateEgressRule, TypeOK, ServerTypeOK
<1>2. ASSUME NEW p \in Callers, CallStep(p), ~CreateEgressRule(p)
      PROVE  UNCHANGED origin
  BY <1>2 DEF CallStep, RuleStep, AttachmentStep, historyVars,
     CreateEgressRule_Service, CreateEgressRule_Insert,
     CreateEgressRule_InsertError, CreateEgressRule_Undo,
     CreateEgressRule_ReadBack, SyncPrivateResourceMediation_Count,
     SyncPrivateResourceMediation_Set, SyncPrivateResourceMediation_Error,
     UpdateEgressRule, UpdateEgressRule_Service, UpdateEgressRule_Write,
     UpdateEgressRule_ReadBack, DeleteEgressRule, DeleteEgressRule_Count,
     DeleteEgressRule_Row, DeleteEgressRule_Service, PublishRuleUpdated,
     CreateEgressRuleAttachment, CreateEgressRuleAttachment_Check,
     CreateEgressRuleAttachment_Service,
     CreateEgressRuleAttachment_SaveServiceId,
     CreateEgressRuleAttachment_Policy, CreateEgressRuleAttachment_Insert,
     CreateEgressRuleAttachment_InsertError,
     CreateEgressRuleAttachment_Undo, CreateEgressRuleAttachment_ReadBack,
     DeleteEgressRuleAttachment, DeleteEgressRuleAttachment_Row,
     DeleteEgressRuleAttachment_Policy, PublishAttachmentUpdated, CallFails
<1>3. CASE Crash
  BY <1>3 DEF Crash, historyVars
<1>4. CASE UNCHANGED allVars
  BY <1>4 DEF allVars, serverVars
<1> QED BY <1>1, <1>2, <1>3, <1>4 DEF ServerNext

LEMMA SnapshotOriginStable ==
  ASSUME SnapshotAgrees, UNCHANGED pass,
         \A r \in RuleIds : origin[r] # None => origin'[r] = origin[r]
  PROVE  SnapshotAgrees'
BY DEF SnapshotAgrees, OfKind

(* What a step of the pass must do to OpenZiti and to the rules.             *)
LEMMA PassKindStep ==
  ASSUME SystemKindInv, ReconcilerTypeOK', UNCHANGED serverVars,
         \A r \in RuleIds : rules'[r] = rules[r] \/ RowOK(rules'[r], r),
         \A r \in RuleIds : services'[r] \in {services[r], None}
                              \/ /\ services'[r].id # NoId
                                 /\ origin[r] # None
                                 /\ origin[r] \notin Resources,
         \A r \in RuleIds : pass'.rules[r] # None =>
           pass'.rules[r] = pass.rules[r] \/ RowOK(pass'.rules[r], r),
         pass'.at = "serviceid" => pass'.id # NoId
  PROVE  SystemKindInv'
<1>1. \A r \in RuleIds : RuleExists(r)' => RowOK(rules[r], r)'
  BY DEF SystemKindInv, KindInv, RowsAgree, RuleExists, RowOK, OfKind,
         serverVars
<1>2. \A q \in Callers : CallRowOK(call[q])'
  BY RowsAgreeDef DEF SystemKindInv, KindInv, CallRowOK, OfKind, serverVars
<1>3. RowsAgree'
  BY <1>1, <1>2 DEF RowsAgree, RowOK, CallRowOK, At
<1>4. ServicesPublic'
  BY DEF SystemKindInv, KindInv, ServicesPublic, serverVars
<1>5. \A r \in RuleIds : pass'.rules[r] # None => RowOK(pass.rules[r], r)'
  BY SnapshotAgreesDef DEF SystemKindInv, RowOK, OfKind, serverVars
<1>6. SnapshotAgrees'
  BY <1>5 DEF SnapshotAgrees, RowOK
<1> QED BY <1>3, <1>4, <1>6 DEF SystemKindInv, KindInv, ReconcilerTypeOK

LEMMA ListAllRulesKind ==
  ASSUME SystemKindInv, ListAllRules
  PROVE  SystemKindInv'
<1>1. ReconcilerTypeOK'
  BY ListsType DEF SystemKindInv
<1>2. pass'.rules = rules /\ pass'.at = "attachments"
  BY DEF ListAllRules, SystemKindInv, ReconcilerTypeOK, PassOK, Pass
<1>3. UNCHANGED <<serverVars, rules, services>>
  BY DEF ListAllRules, allVars, storeVars, zitiVars
<1> QED BY <1>1, <1>2, <1>3, RowsAgreeDef, PassKindStep
        DEF SystemKindInv, KindInv, RuleExists

(* Steps that touch neither the rules nor the services, nor the snapshot of  *)
(* the rules.                                                                *)
LEMMA PolicyStepsKind ==
  ASSUME SystemKindInv,
         \/ ListAllAttachments \/ ListServices \/ ListServicePolicies
         \/ PassDone \/ ReplacePolicy_Delete \/ ReplacePolicy_Create
         \/ SavePolicyId \/ DeleteOrphanServicePolicy
         \/ \E a \in AttachmentIds :
              \/ UnknownRule(a) \/ AttachmentInLine(a)
              \/ ProvisionPolicy(a) \/ PolicyDiffers(a)
  PROVE  SystemKindInv'
<1>1. ReconcilerTypeOK'
  BY ListsType, AttachmentLooksType, ProvisionPolicyType, ReplaceDeleteType,
     ReplaceCreateType, SavePolicyIdType, OrphanPolicyType DEF SystemKindInv
<1>2. UNCHANGED <<serverVars, rules, services>>
  BY DEF ListAllAttachments, ListServices, ListServicePolicies, PassDone,
     ReplacePolicy_Delete, ReplacePolicy_Create, SavePolicyId,
     DeleteOrphanServicePolicy, UnknownRule, AttachmentInLine,
     ProvisionPolicy, PolicyDiffers, allVars, storeVars, zitiVars,
     DeleteServicePolicy, CreateServicePolicy, UpdateAttachmentPolicyID
<1>3. \/ pass'.rules = pass.rules /\ pass'.at # "serviceid"
      \/ PassEnds
  BY ZenonT(60)
     DEF ListAllAttachments, ListServices, ListServicePolicies, PassDone,
     ReplacePolicy_Delete, ReplacePolicy_Create, SavePolicyId,
     DeleteOrphanServicePolicy, UnknownRule, AttachmentInLine,
     ProvisionPolicy, PolicyDiffers, PassAt, AttachmentTurn,
     SystemKindInv, ReconcilerTypeOK, PassOK, Pass
<1>4. /\ \A r \in RuleIds : pass'.rules[r] # None =>
             pass'.rules[r] = pass.rules[r]
      /\ pass'.at # "serviceid"
  BY <1>3 DEF PassEnds, IdlePass
<1> QED BY <1>1, <1>2, <1>4, PassKindStep

LEMMA ReconcileRuleKind ==
  ASSUME SystemKindInv, NEW r \in RuleIds, ReconcileRule(r)
  PROVE  SystemKindInv'
<1> DEFINE row == pass.rules[r]
           id  == ReconciledServiceId(r, row)
<1>1. ReconcilerTypeOK'
  BY ReconcileRuleType DEF SystemKindInv
<1>2. row \in Row /\ row.matcher \in Domains /\ RowOK(row, r)
  BY SnapshotAgreesDef
     DEF SystemKindInv, ReconcilerTypeOK, PassOK, Pass, ReconcileRule
<1>3. /\ id # NoId
      /\ \A q \in RuleIds : services'[q] = services[q]
                              \/ /\ services'[q].id # NoId
                                 /\ origin[q] # None
                                 /\ origin[q] \notin Resources
  BY <1>2, ReconcileRuleServiceKind DEF ReconcileRule, SystemKindInv
<1>4. UNCHANGED <<serverVars, rules>>
  BY DEF ReconcileRule, storeVars
<1>5. PassAt("reconcile") /\ pass' = IF id = row.service
              THEN [pass EXCEPT !.todoRules = @ \ {r}]
              ELSE [pass EXCEPT !.at = "serviceid", !.current = r, !.id = id]
  BY DEF ReconcileRule
<1> HIDE DEF id
<1>6. pass'.rules = pass.rules /\ (pass'.at = "serviceid" => pass'.id # NoId)
  BY <1>3, <1>5 DEF PassAt, SystemKindInv, ReconcilerTypeOK, PassOK, Pass
<1> QED BY <1>1, <1>3, <1>4, <1>6, PassKindStep

LEMMA SaveServiceIdKind ==
  ASSUME SystemKindInv, SaveServiceId
  PROVE  SystemKindInv'
<1> DEFINE r == pass.current
<1>1. ReconcilerTypeOK'
  BY SaveServiceIdType DEF SystemKindInv
<1>2. UNCHANGED <<serverVars, services>>
  BY DEF SaveServiceId, zitiVars
<1>3. CASE PassEnds /\ UNCHANGED storeVars
  BY <1>1, <1>2, <1>3, PassKindStep DEF PassEnds, IdlePass, storeVars
<1>4. CASE /\ UpdateRuleServiceID(r, pass.id)
           /\ pass' = [pass EXCEPT !.at = "reconcile",
                                   !.rules[r].service = pass.id,
                                   !.todoRules = @ \ {r},
                                   !.current = None, !.id = NoId]
  <2>1. /\ r \in RuleIds /\ pass.id # NoId
        /\ pass.rules[r] \in Row /\ RowOK(pass.rules[r], r)
        /\ pass.rules[r].matcher \in Domains
    BY SnapshotAgreesDef DEF SystemKindInv, ReconcilerTypeOK, PassOK, Pass,
       SaveServiceId, PassAt
  <2>2. rules[r] \in Row /\ RowOK(rules[r], r)
    BY <1>4, <2>1, RowsAgreeDef DEF SystemKindInv, KindInv, TypeOK,
       StoreTypeOK, UpdateRuleServiceID, RuleExists
  <2>3. /\ rules' = [rules EXCEPT ![r].service = pass.id]
        /\ rules'[r].matcher = rules[r].matcher
        /\ rules'[r].service = pass.id
    BY <1>4, <2>1, <2>2 DEF SystemKindInv, KindInv, TypeOK, StoreTypeOK,
       UpdateRuleServiceID, Row
  <2>4. RowOK(rules'[r], r)
    BY <2>1, <2>2, <2>3, StoreAssumption
       DEF RowOK, OfKind, IsPrivateTarget, PrivateResourceOf, Row, Matchers,
           StoreAssumption
  <2>5. \A q \in RuleIds : rules'[q] = rules[q] \/ RowOK(rules'[q], q)
    BY <2>3, <2>4 DEF SystemKindInv, KindInv, TypeOK, StoreTypeOK
  <2>6. /\ pass'.at = "reconcile"
        /\ pass'.rules = [pass.rules EXCEPT ![r].service = pass.id]
    BY <1>4 DEF SystemKindInv, ReconcilerTypeOK, PassOK, Pass
  <2>7. /\ pass'.rules[r].matcher = pass.rules[r].matcher
        /\ pass'.rules[r].service = pass.id
    BY <2>1, <2>6 DEF SystemKindInv, ReconcilerTypeOK, PassOK, Pass, Row
  <2>8. RowOK(pass'.rules[r], r)
    BY <2>1, <2>7, StoreAssumption
       DEF RowOK, OfKind, IsPrivateTarget, StoreAssumption
  <2>9. \A q \in RuleIds : pass'.rules[q] = pass.rules[q]
                             \/ RowOK(pass'.rules[q], q)
    BY <2>6, <2>8 DEF SystemKindInv, ReconcilerTypeOK, PassOK, Pass
  <2> QED BY <1>1, <1>2, <2>5, <2>6, <2>9, PassKindStep
<1> QED BY <1>3, <1>4 DEF SaveServiceId

LEMMA OrphanServiceKind ==
  ASSUME SystemKindInv, DeleteOrphanService
  PROVE  SystemKindInv'
<1>1. ReconcilerTypeOK'
  BY OrphanServiceType DEF SystemKindInv
<1>2. UNCHANGED <<serverVars, rules>>
  BY DEF DeleteOrphanService, storeVars
<1>3. \A r \in RuleIds : services'[r] \in {services[r], None}
  BY DEF DeleteOrphanService, DeleteService, zitiVars
<1>4. \/ pass'.rules = pass.rules /\ pass'.at # "serviceid"
      \/ PassEnds
  BY DEF DeleteOrphanService, PassAt, SystemKindInv, ReconcilerTypeOK,
     PassOK, Pass
<1>5. /\ \A r \in RuleIds : pass'.rules[r] # None =>
             pass'.rules[r] = pass.rules[r]
      /\ pass'.at # "serviceid"
  BY <1>4 DEF PassEnds, IdlePass
<1> QED BY <1>1, <1>2, <1>3, <1>5, PassKindStep

LEMMA NextKind ==
  ASSUME SystemKindInv, [Next]_vars
  PROVE  SystemKindInv'
<1>1. ReconcilerTypeOK'
  BY NextType DEF SystemKindInv
<1>2. CASE HandlerStep
  <2>1. [ServerNext]_allVars /\ UNCHANGED pass
    BY <1>2 DEF HandlerStep, ServerNext
  <2> QED BY <1>1, <2>1, ServerNextKind, OriginStable, SnapshotOriginStable
          DEF SystemKindInv, KindInv
<1>3. CASE PassStep
  BY <1>3, ListAllRulesKind, PolicyStepsKind, ReconcileRuleKind,
     SaveServiceIdKind, OrphanServiceKind DEF PassStep
<1>4. CASE ProcessCrash
  BY <1>1, <1>4, CrashKind, IdleSnapshot DEF ProcessCrash, SystemKindInv
<1>5. CASE PassFails
  <2>1. KindInv'
    BY <1>1, <1>5 DEF PassFails, SystemKindInv, KindInv, RowsAgree, OfKind,
       RuleExists, At, ServicesPublic, ReconcilerTypeOK, storeVars, zitiVars,
       historyVars
  <2> QED BY <1>1, <1>5, <2>1, IdleSnapshot DEF PassFails, SystemKindInv
<1>6. CASE UNCHANGED vars
  BY <1>1, <1>6, ServerNextKind, SnapshotKept
     DEF vars, allVars, serverVars, SystemKindInv
<1> QED BY <1>2, <1>3, <1>4, <1>5, <1>6 DEF Next

LEMMA SystemKindInvariant == Spec => []SystemKindInv
<1>1. ReconcilerInit => SystemKindInv
  BY InitSystemKind
<1>2. SystemKindInv /\ [Next]_vars => SystemKindInv'
  BY NextKind
<1> QED BY <1>1, <1>2, PTL DEF Spec

(* With the reconciler writing service ids back from its snapshots, too, no  *)
(* private rule ever owns a service, and a stored rule has a service id      *)
(* exactly if it is public.                                                  *)
THEOREM SystemPrivateOwnsNoService == Spec => []ServiceIdIffPublic
<1>1. SystemKindInv => ServiceIdIffPublic
  BY KindImpliesServiceIdIffPublic DEF SystemKindInv
<1> QED BY <1>1, SystemKindInvariant, PTL

(* The snapshot of a pass never disagrees with the kind a rule was created   *)
(* with, however long the pass takes.                                        *)
THEOREM SnapshotAlwaysAgrees == Spec => []SnapshotAgrees
<1>1. SystemKindInv => SnapshotAgrees
  BY DEF SystemKindInv
<1> QED BY <1>1, SystemKindInvariant, PTL

(* A matcher minted for a rule id stays.                                     *)
LEMMA SystemOriginStable ==
  ASSUME ReconcilerTypeOK, [Next]_vars
  PROVE  \A r \in RuleIds : origin[r] # None => origin'[r] = origin[r]
<1>1. CASE HandlerStep \/ ProcessCrash
  BY SMTT(30), <1>1, OriginStable
     DEF HandlerStep, ProcessCrash, ServerNext, ReconcilerTypeOK
<1>2. CASE PassStep
  BY <1>2 DEF PassStep, ListAllRules, ListAllAttachments, ReconcileRule,
     SaveServiceId, UnknownRule, AttachmentInLine, ProvisionPolicy,
     PolicyDiffers, ReplacePolicy_Delete, ReplacePolicy_Create, SavePolicyId,
     ListServices, DeleteOrphanService, ListServicePolicies,
     DeleteOrphanServicePolicy, PassDone, allVars, serverVars
<1>3. CASE PassFails \/ UNCHANGED vars
  BY <1>3 DEF PassFails, historyVars, vars, allVars, serverVars
<1> QED BY <1>1, <1>2, <1>3 DEF Next

(* No interleaving of updates, write-backs and passes changes the            *)
(* destination kind of a stored rule or moves it to another resource.        *)
THEOREM TargetNeverChanges == Spec => TargetImmutable
<1>1. ASSUME SystemKindInv, SystemKindInv', [Next]_vars
      PROVE  \A r \in RuleIds : RuleExists(r) /\ rules'[r] # None =>
               PrivateResourceOf(rules'[r].matcher)
                 = PrivateResourceOf(rules[r].matcher)
  <2> SUFFICES ASSUME NEW r \in RuleIds, RuleExists(r), rules'[r] # None
               PROVE  PrivateResourceOf(rules'[r].matcher)
                        = PrivateResourceOf(rules[r].matcher)
    OBVIOUS
  <2>1. OfKind(rules[r], r)
    BY <1>1 DEF SystemKindInv, KindInv, RowsAgree
  <2>2. OfKind(rules[r], r)'
    BY <1>1 DEF SystemKindInv, KindInv, RowsAgree, RuleExists
  <2>3. origin'[r] = origin[r]
    BY <1>1, <2>1, SystemOriginStable DEF OfKind, SystemKindInv
  <2> QED BY <2>1, <2>2, <2>3 DEF OfKind, PrivateResourceOf
<1>2. SystemKindInv /\ SystemKindInv' /\ [Next]_vars =>
        [\A r \in RuleIds : RuleExists(r) /\ rules'[r] # None =>
           PrivateResourceOf(rules'[r].matcher)
             = PrivateResourceOf(rules[r].matcher)]_allVars
  BY <1>1
<1> QED BY <1>2, SystemKindInvariant, PTL DEF Spec, TargetImmutable

---------------------------------------------------------------------------
(* Which service ids belong to which rule.  An id the controller issued for  *)
(* one rule is never held on behalf of another, wherever it is kept: in the  *)
(* rule's row, in a copy of the row some call or the pass works from, in the *)
(* role of a dial policy or in OpenZiti itself.                              *)

(* Where an id is held for a rule.                                           *)

InRow(r, id) == RuleExists(r) /\ rules[r].service = id

InCall(r, id) ==
  \E p \in Callers : /\ call[p].at \in RowSteps
                     /\ call[p].rule = r /\ call[p].row.service = id

InPolicy(r, id) ==
  \E t \in Targets : /\ policies[<<r, t>>] # None
                     /\ policies[<<r, t>>].role = <<"@", id>>

Held(r, id) ==
  InRow(r, id) \/ ServiceHasId(r, id) \/ InCall(r, id) \/ InPolicy(r, id)

HeldByPass(r, id) ==
  \/ pass.rules[r] # None /\ pass.rules[r].service = id
  \/ pass.at = "serviceid" /\ pass.current = r /\ pass.id = id

ServiceIds == Nat \ {NoId}

(* An id is held for one rule, which was issued it.                          *)
IdsOwned ==
  \A r \in RuleIds, id \in ServiceIds : Held(r, id) =>
    /\ id <= serviceIds
    /\ \A q \in RuleIds : Held(q, id) => q = r

(* A step that hands ids only to whom they belong: nobody gets an id the     *)
(* rule did not have, unless the controller has just issued it for owner.    *)
IdsKept ==
  /\ serviceIds' = serviceIds
  /\ \A r \in RuleIds, id \in ServiceIds : Held(r, id)' => Held(r, id)

IdIssued(owner) ==
  /\ serviceIds' = serviceIds + 1
  /\ \A r \in RuleIds, id \in ServiceIds : Held(r, id)' =>
       Held(r, id) \/ (r = owner /\ id = serviceIds + 1)

IdsFlow == IdsKept \/ \E owner \in RuleIds : IdIssued(owner)

LEMMA IdsOwnedStep ==
  ASSUME ZitiTypeOK, IdsOwned, IdsFlow
  PROVE  IdsOwned'
<1>1. CASE IdsKept
  BY <1>1 DEF IdsOwned, IdsKept
<1>2. ASSUME NEW owner \in RuleIds, IdIssued(owner)
      PROVE  IdsOwned'
  <2>1. serviceIds \in Nat
    BY DEF ZitiTypeOK
  <2>2. \A r \in RuleIds : ~Held(r, serviceIds + 1)
    BY <2>1 DEF IdsOwned, ServiceIds
  <2>3. SUFFICES ASSUME NEW r \in RuleIds, NEW id \in ServiceIds, Held(r, id)'
                 PROVE  /\ id <= serviceIds'
                        /\ \A q \in RuleIds : Held(q, id)' => q = r
    BY DEF IdsOwned
  <2>4. CASE id = serviceIds + 1
    BY <1>2, <2>1, <2>2, <2>3, <2>4 DEF IdIssued
  <2>5. CASE id # serviceIds + 1
    BY <1>2, <2>1, <2>3, <2>5 DEF IdIssued, IdsOwned, ServiceIds
  <2> QED BY <2>4, <2>5
<1> QED BY <1>1, <1>2 DEF IdsFlow

---------------------------------------------------------------------------
(* How the parts of a step hand ids on.                                      *)

(* A call that moves to c hands on no id but one held for its rule.          *)
HoldsNoMore(c) ==
  c.at \in RowSteps => c.row.service = NoId \/ Held(c.rule, c.row.service)

CallKeeps(p) == \E c : HoldsNoMore(c) /\ call' = [call EXCEPT ![p] = c]

LEMMA CallKeepsIds ==
  ASSUME TypeOK, NEW p \in Callers, CallKeeps(p)
  PROVE  \A r \in RuleIds, id \in ServiceIds : InCall(r, id)' => Held(r, id)
<1>1. PICK c : HoldsNoMore(c) /\ call' = [call EXCEPT ![p] = c]
  BY DEF CallKeeps
<1>2. SUFFICES ASSUME NEW r \in RuleIds, NEW id \in ServiceIds, InCall(r, id)'
               PROVE  Held(r, id)
  OBVIOUS
<1>3. PICK q \in Callers : /\ call'[q].at \in RowSteps
                           /\ call'[q].rule = r /\ call'[q].row.service = id
  BY <1>2 DEF InCall
<1>4. CASE q = p
  <2>1. call'[q] = c
    BY <1>1, <1>4 DEF TypeOK, ServerTypeOK
  <2> QED BY <1>1, <1>3, <2>1 DEF HoldsNoMore, ServiceIds
<1>5. CASE q # p
  <2>1. call'[q] = call[q]
    BY <1>1, <1>5 DEF TypeOK, ServerTypeOK
  <2> QED BY <1>3, <2>1 DEF Held, InCall
<1> QED BY <1>4, <1>5

LEMMA ReturnKeeps ==
  ASSUME NEW p \in Callers, Return(p)
  PROVE  CallKeeps(p)
BY DEF Return, CallKeeps, HoldsNoMore, Idle, RowSteps, PublicSteps, PrivateSteps

LEMMA PublishKeeps ==
  ASSUME NEW p \in Callers, GotoPublishRule(p)
  PROVE  CallKeeps(p)
<1> DEFINE c == [Idle EXCEPT !.at = "rule.publish", !.rule = call[p].rule]
<1>1. c.at = "rule.publish"
  BY DEF Idle
<1>2. call' = [call EXCEPT ![p] = c]
  BY DEF GotoPublishRule
<1> HIDE DEF c
<1>3. HoldsNoMore(c)
  BY <1>1 DEF HoldsNoMore, RowSteps, PublicSteps, PrivateSteps
<1> QED BY <1>2, <1>3 DEF CallKeeps

LEMMA GotoKeeps ==
  ASSUME TypeOK, NEW p \in Callers, NEW step, Goto(p, step),
         call[p].at \in RowSteps \/ step \notin RowSteps
  PROVE  CallKeeps(p)
<1> DEFINE c == [call[p] EXCEPT !.at = step]
<1>1. call' = [call EXCEPT ![p] = c]
  BY DEF Goto, TypeOK, ServerTypeOK
<1>2. c.at = step /\ c.row = call[p].row /\ c.rule = call[p].rule
  BY DEF TypeOK, ServerTypeOK, Call
<1> HIDE DEF c
<1>3. HoldsNoMore(c)
  BY <1>2 DEF HoldsNoMore, Held, InCall
<1> QED BY <1>1, <1>3 DEF CallKeeps

(* What the other parts of the system hold is what they held, or less.       *)
RowsKeep ==
  \A r \in RuleIds : /\ rules'[r] # None
                     /\ rules'[r] # rules[r]
                     /\ rules'[r].service # NoId
                     => Held(r, rules'[r].service)

ServicesKeep ==
  \A r \in RuleIds : services'[r] # None =>
    services[r] # None /\ services'[r].id = services[r].id

PoliciesKeep ==
  \A r \in RuleIds, t \in Targets, id \in ServiceIds :
    /\ policies'[<<r, t>>] # None
    /\ policies'[<<r, t>>] # policies[<<r, t>>]
    /\ policies'[<<r, t>>].role = <<"@", id>>
    => Held(r, id)

LEMMA PartsKeepIds ==
  ASSUME TypeOK, RowsKeep, ServicesKeep, PoliciesKeep,
         \/ UNCHANGED call
         \/ \E p \in Callers : CallKeeps(p)
         \/ \A p \in Callers : call'[p].at \notin RowSteps,
         serviceIds' = serviceIds
  PROVE  IdsKept
<1>1. SUFFICES ASSUME NEW r \in RuleIds, NEW id \in ServiceIds, Held(r, id)'
               PROVE  Held(r, id)
  BY DEF IdsKept
<1>2. InRow(r, id)' => Held(r, id)
  BY DEF RowsKeep, InRow, RuleExists, Held, ServiceIds
<1>3. ServiceHasId(r, id)' => Held(r, id)
  BY DEF ServicesKeep, ServiceHasId, Held
<1>4. InPolicy(r, id)' => Held(r, id)
  BY DEF PoliciesKeep, InPolicy, Held
<1>5. InCall(r, id)' => Held(r, id)
  <2>1. CASE UNCHANGED call
    BY <2>1 DEF InCall, Held
  <2>2. CASE \E p \in Callers : CallKeeps(p)
    BY <2>2, CallKeepsIds
  <2>3. CASE \A p \in Callers : call'[p].at \notin RowSteps
    BY <2>3 DEF InCall
  <2> QED BY <2>1, <2>2, <2>3
<1> QED BY <1>1, <1>2, <1>3, <1>4, <1>5 DEF Held

---------------------------------------------------------------------------
(* The handlers' steps, in groups that change the same things.               *)

(* Steps that change neither the rules nor OpenZiti.                         *)
LEMMA LocalIds ==
  ASSUME TypeOK, UNCHANGED <<rules, zitiVars>>,
         \E p \in Callers : CallKeeps(p)
  PROVE  IdsFlow
<1>1. UNCHANGED <<rules, services, policies, serviceIds>>
  BY DEF zitiVars
<1>2. RowsKeep /\ ServicesKeep /\ PoliciesKeep
  BY <1>1 DEF RowsKeep, ServicesKeep, PoliciesKeep
<1> QED BY <1>1, <1>2, PartsKeepIds DEF IdsFlow

LEMMA EndingsIds ==
  ASSUME TypeOK, NEW p \in Callers,
         \/ SyncPrivateResourceMediation_Set(p)
         \/ SyncPrivateResourceMediation_Error(p)
         \/ UpdateEgressRule_ReadBack(p)
         \/ PublishRuleUpdated(p)
         \/ PublishAttachmentUpdated(p)
         \/ CallFails(p)
  PROVE  IdsFlow
<1>1. CallKeeps(p)
  BY ReturnKeeps, PublishKeeps
     DEF SyncPrivateResourceMediation_Set, SyncPrivateResourceMediation_Error,
         UpdateEgressRule_ReadBack, PublishRuleUpdated,
         PublishAttachmentUpdated, CallFails, Abandon
<1>2. UNCHANGED <<rules, zitiVars>>
  BY DEF SyncPrivateResourceMediation_Set, SyncPrivateResourceMediation_Error,
         UpdateEgressRule_ReadBack, PublishRuleUpdated,
         PublishAttachmentUpdated, CallFails, storeVars
<1> QED BY <1>1, <1>2, LocalIds

LEMMA GotosIds ==
  ASSUME TypeOK, NEW p \in Callers,
         \/ DeleteEgressRule_Count(p)
         \/ CreateEgressRuleAttachment_ReadBack(p)
         \/ CreateEgressRuleAttachment_Check(p)
         \/ CreateEgressRuleAttachment_Insert(p)
         \/ CreateEgressRuleAttachment_InsertError(p)
         \/ DeleteEgressRuleAttachment_Row(p)
  PROVE  IdsFlow
<1>1. CallKeeps(p)
  BY ReturnKeeps, GotoKeeps
     DEF DeleteEgressRule_Count, CreateEgressRuleAttachment_ReadBack,
         CreateEgressRuleAttachment_Check, CreateEgressRuleAttachment_Insert,
         CreateEgressRuleAttachment_InsertError,
         DeleteEgressRuleAttachment_Row, At, RowSteps, PublicSteps,
         PrivateSteps
<1>2. UNCHANGED <<rules, zitiVars>>
  BY DEF DeleteEgressRule_Count, CreateEgressRuleAttachment_ReadBack,
         CreateEgressRuleAttachment_Check, CreateEgressRuleAttachment_Insert,
         CreateEgressRuleAttachment_InsertError,
         DeleteEgressRuleAttachment_Row, InsertAttachment, DeleteAttachment,
         storeVars
<1> QED BY <1>1, <1>2, LocalIds

(* A request that reads a row holds the id the row has.                      *)
LEMMA ReadersIds ==
  ASSUME TypeOK, NEW p \in Callers,
         \/ CreateEgressRule(p) \/ UpdateEgressRule(p)
         \/ DeleteEgressRule(p) \/ CreateEgressRuleAttachment(p)
         \/ DeleteEgressRuleAttachment(p)
  PROVE  IdsFlow
<1>1. UNCHANGED <<rules, zitiVars>>
  BY DEF CreateEgressRule, UpdateEgressRule, DeleteEgressRule,
         CreateEgressRuleAttachment, DeleteEgressRuleAttachment, storeVars
<1>2. CASE CreateEgressRule(p)
  <2>1. PICK c : c.row.service = NoId /\ call' = [call EXCEPT ![p] = c]
    BY <1>2 DEF CreateEgressRule, Idle
  <2> QED BY <1>1, <2>1, LocalIds DEF CallKeeps, HoldsNoMore
<1>3. CASE UpdateEgressRule(p)
  <2>1. PICK r, want, c :
          /\ r \in RuleIds /\ want \in Matchers \cup {None}
          /\ RuleExists(r)
          /\ c.rule = r
          /\ c.row = IF want = None THEN rules[r]
                     ELSE [rules[r] EXCEPT !.matcher = want]
          /\ call' = [call EXCEPT ![p] = c]
    BY <1>3 DEF UpdateEgressRule, Idle
  <2>2. c.row.service = rules[r].service
    BY <2>1 DEF TypeOK, StoreTypeOK, RuleExists, Row
  <2>3. HoldsNoMore(c)
    BY <2>1, <2>2 DEF HoldsNoMore, Held, InRow
  <2> QED BY <1>1, <2>1, <2>3, LocalIds DEF CallKeeps
<1>4. CASE DeleteEgressRule(p) \/ CreateEgressRuleAttachment(p)
  <2>1. PICK r, c :
          /\ r \in RuleIds /\ RuleExists(r) /\ c.rule = r /\ c.row = rules[r]
          /\ call' = [call EXCEPT ![p] = c]
    BY <1>4 DEF DeleteEgressRule, CreateEgressRuleAttachment, Idle
  <2>2. HoldsNoMore(c)
    BY <2>1 DEF HoldsNoMore, Held, InRow
  <2> QED BY <1>1, <2>1, <2>2, LocalIds DEF CallKeeps
<1>5. CASE DeleteEgressRuleAttachment(p)
  <2>1. PICK c : c.at = "detach.row" /\ call' = [call EXCEPT ![p] = c]
    BY <1>5 DEF DeleteEgressRuleAttachment, Idle
  <2>2. HoldsNoMore(c)
    BY <2>1 DEF HoldsNoMore, RowSteps, PublicSteps, PrivateSteps
  <2> QED BY <1>1, <2>1, <2>2, LocalIds DEF CallKeeps
<1> QED BY <1>2, <1>3, <1>4, <1>5

LEMMA SyncReadsIds ==
  ASSUME TypeOK, NEW p \in Callers,
         CreateEgressRule_ReadBack(p) \/ SyncPrivateResourceMediation_Count(p)
  PROVE  IdsFlow
<1>1. UNCHANGED <<rules, zitiVars>>
  BY DEF CreateEgressRule_ReadBack, SyncPrivateResourceMediation_Count,
         storeVars
<1> DEFINE r == call[p].rule
           c == [call[p] EXCEPT !.at = "sync.count", !.row = rules[r]]
           d == [call[p] EXCEPT !.at = "sync.set",
                                !.mediate = Referenced(call[p].row.matcher)]
<1>2. CASE GotoPublishRule(p) \/ Return(p)
  BY <1>1, <1>2, ReturnKeeps, PublishKeeps, LocalIds
<1>3. CASE RuleExists(r) /\ call' = [call EXCEPT ![p].at = "sync.count",
                                                ![p].row = rules[r]]
  <2>1. call' = [call EXCEPT ![p] = c]
    BY <1>3 DEF TypeOK, ServerTypeOK
  <2>2. c.rule = r /\ c.row = rules[r]
    BY DEF TypeOK, ServerTypeOK, Call
  <2> HIDE DEF c
  <2>3. HoldsNoMore(c)
    BY <1>3, <2>2 DEF HoldsNoMore, Held, InRow
  <2> QED BY <1>1, <2>1, <2>3, LocalIds DEF CallKeeps
<1>4. CASE SyncPrivateResourceMediation_Count(p)
  <2>1. call' = [call EXCEPT ![p] = d]
    BY <1>4 DEF TypeOK, ServerTypeOK, SyncPrivateResourceMediation_Count
  <2>2. d.rule = r /\ d.row = call[p].row
    BY DEF TypeOK, ServerTypeOK, Call
  <2> HIDE DEF d
  <2>3. HoldsNoMore(d)
    BY <1>4, <2>2 DEF HoldsNoMore, Held, InCall, At, RowSteps, PrivateSteps,
       SyncPrivateResourceMediation_Count
  <2> QED BY <1>1, <2>1, <2>3, LocalIds DEF CallKeeps
<1> QED BY <1>2, <1>3, <1>4 DEF CreateEgressRule_ReadBack

(* Steps that write a row store an id held for the rule already.             *)
LEMMA WritersIds ==
  ASSUME TypeOK, NEW p \in Callers,
         \/ CreateEgressRule_Insert(p) \/ CreateEgressRule_InsertError(p)
         \/ UpdateEgressRule_Write(p) \/ DeleteEgressRule_Row(p)
         \/ CreateEgressRuleAttachment_SaveServiceId(p)
  PROVE  IdsFlow
<1> DEFINE r == call[p].rule
           row == call[p].row
<1>1. call[p].at \in RowSteps /\ r \in RuleIds /\ row \in Row
  BY DEF TypeOK, ServerTypeOK, CallOK, RuleSteps, RowSteps, PublicSteps,
         CreateEgressRule_Insert, CreateEgressRule_InsertError,
         UpdateEgressRule_Write, DeleteEgressRule_Row,
         CreateEgressRuleAttachment_SaveServiceId, At
<1>2. CallKeeps(p)
  BY <1>1, ReturnKeeps, GotoKeeps
     DEF CreateEgressRule_Insert, CreateEgressRule_InsertError,
         UpdateEgressRule_Write, DeleteEgressRule_Row,
         CreateEgressRuleAttachment_SaveServiceId
<1>3. UNCHANGED zitiVars
  BY DEF CreateEgressRule_Insert, CreateEgressRule_InsertError,
         UpdateEgressRule_Write, DeleteEgressRule_Row,
         CreateEgressRuleAttachment_SaveServiceId
<1>4. Held(r, row.service)
  BY <1>1 DEF Held, InCall
<1>5. \A q \in RuleIds \ {r} : rules'[q] = rules[q]
  BY <1>1
     DEF CreateEgressRule_Insert, CreateEgressRule_InsertError,
         UpdateEgressRule_Write, DeleteEgressRule_Row,
         CreateEgressRuleAttachment_SaveServiceId, InsertRule, UpdateRule,
         DeleteRule, UpdateRuleServiceID, storeVars, TypeOK, StoreTypeOK
<1>6. \/ rules'[r] \in {rules[r], None}
      \/ rules'[r].service = row.service
  <2>1. CASE UpdateRuleServiceID(r, row.service)
    BY <1>1, <2>1
       DEF UpdateRuleServiceID, RuleExists, TypeOK, StoreTypeOK, Row
  <2>2. CASE InsertRule(r, row) \/ UpdateRule(r, row) \/ DeleteRule(r)
             \/ UNCHANGED storeVars
    BY <1>1, <2>2
       DEF InsertRule, UpdateRule, DeleteRule, storeVars, TypeOK, StoreTypeOK
  <2> QED BY <2>1, <2>2
     DEF CreateEgressRule_Insert, CreateEgressRule_InsertError,
         UpdateEgressRule_Write, DeleteEgressRule_Row,
         CreateEgressRuleAttachment_SaveServiceId
<1>7. RowsKeep
  BY <1>4, <1>5, <1>6 DEF RowsKeep
<1>8. ServicesKeep /\ PoliciesKeep /\ serviceIds' = serviceIds
  BY <1>3 DEF ServicesKeep, PoliciesKeep, zitiVars
<1> QED BY <1>2, <1>7, <1>8, PartsKeepIds DEF IdsFlow

(* Requests that delete or update in OpenZiti.                               *)
LEMMA DeletersIds ==
  ASSUME TypeOK, NEW p \in Callers,
         \/ CreateEgressRule_Undo(p) \/ UpdateEgressRule_Service(p)
         \/ DeleteEgressRule_Service(p) \/ CreateEgressRuleAttachment_Undo(p)
         \/ DeleteEgressRuleAttachment_Policy(p)
  PROVE  IdsFlow
<1>1. CallKeeps(p)
  BY ReturnKeeps, GotoKeeps, PublishKeeps
     DEF CreateEgressRule_Undo, UpdateEgressRule_Service,
         DeleteEgressRule_Service, CreateEgressRuleAttachment_Undo,
         DeleteEgressRuleAttachment_Policy, Abandon, At, RowSteps,
         PublicSteps, PrivateSteps
<1>2. UNCHANGED <<rules, serviceIds>>
  BY DEF CreateEgressRule_Undo, UpdateEgressRule_Service,
         DeleteEgressRule_Service, CreateEgressRuleAttachment_Undo,
         DeleteEgressRuleAttachment_Policy, DeleteService, UpdateService,
         DeleteServicePolicy, storeVars, zitiVars
<1>3. ServicesKeep
  BY DEF CreateEgressRule_Undo, UpdateEgressRule_Service,
         DeleteEgressRule_Service, CreateEgressRuleAttachment_Undo,
         DeleteEgressRuleAttachment_Policy, DeleteService, UpdateService,
         DeleteServicePolicy, ServiceHasId, ServicesKeep, zitiVars
<1>4. \A n \in PolicyNames : policies'[n] \in {policies[n], None}
  BY DEF CreateEgressRule_Undo, UpdateEgressRule_Service,
         DeleteEgressRule_Service, CreateEgressRuleAttachment_Undo,
         DeleteEgressRuleAttachment_Policy, DeleteService, UpdateService,
         DeleteServicePolicy, zitiVars
<1>5. PoliciesKeep
  BY <1>4 DEF PoliciesKeep, PolicyNames
<1>6. RowsKeep
  BY <1>2 DEF RowsKeep
<1> QED BY <1>1, <1>2, <1>3, <1>5, <1>6, PartsKeepIds DEF IdsFlow

(* A policy is given a role by a row in hand.                                *)
LEMMA RoleIds ==
  ASSUME TypeOK, NEW r \in RuleIds, NEW t \in Targets, NEW role,
         CreateServicePolicy(<<r, t>>, role)
  PROVE  \A n \in PolicyNames :
           \/ policies'[n] = policies[n]
           \/ n = <<r, t>> /\ policies'[n].role = role
<1>1. policies \in [PolicyNames -> Policy \cup {None}]
  BY DEF TypeOK, ZitiTypeOK
<1>2. CASE policies[<<r, t>>] = None
  <2>1. policies' = [policies EXCEPT ![<<r, t>>] =
           [id |-> policyIds + 1, role |-> role]]
    BY <1>2 DEF CreateServicePolicy
  <2> QED BY <1>1, <2>1
<1>3. CASE policies[<<r, t>>] # None
  BY <1>3 DEF CreateServicePolicy
<1> QED BY <1>2, <1>3

LEMMA RowOfRole ==
  ASSUME NEW row, NEW id, AttachmentServiceRole(row) = <<"@", id>>
  PROVE  row.service = id
BY DEF AttachmentServiceRole

LEMMA AttachPolicyIds ==
  ASSUME TypeOK, NEW p \in Callers, CreateEgressRuleAttachment_Policy(p)
  PROVE  IdsFlow
<1> DEFINE r == call[p].rule
           row == call[p].row
<1>1. /\ call[p].at \in RowSteps /\ r \in RuleIds /\ row \in Row
      /\ call[p].target \in Targets
  BY DEF TypeOK, ServerTypeOK, CallOK, RuleSteps, RowSteps, TargetSteps,
         CreateEgressRuleAttachment_Policy, At
<1>2. Held(r, row.service)
  BY <1>1 DEF Held, InCall
<1>3. CreateServicePolicy(<<r, call[p].target>>, AttachmentServiceRole(row))
  BY DEF CreateEgressRuleAttachment_Policy
<1>4. PoliciesKeep
  <2>1. \A n \in PolicyNames :
          \/ policies'[n] = policies[n]
          \/ /\ n = <<r, call[p].target>>
             /\ policies'[n].role = AttachmentServiceRole(row)
    BY <1>1, <1>3, RoleIds
  <2> QED BY <1>2, <2>1, RowOfRole DEF PoliciesKeep, PolicyNames
<1>5. PICK c : c.at = "attach.insert" /\ call' = [call EXCEPT ![p] = c]
  BY DEF CreateEgressRuleAttachment_Policy, Idle
<1>6. CallKeeps(p)
  BY <1>5 DEF CallKeeps, HoldsNoMore, RowSteps, PublicSteps, PrivateSteps
<1>7. RowsKeep /\ ServicesKeep /\ serviceIds' = serviceIds
  BY DEF CreateEgressRuleAttachment_Policy, CreateServicePolicy, storeVars,
         RowsKeep, ServicesKeep
<1> QED BY <1>4, <1>6, <1>7, PartsKeepIds DEF IdsFlow

LEMMA CrashIds ==
  ASSUME TypeOK, Crash
  PROVE  IdsFlow
<1>1. \A p \in Callers : call'[p].at \notin RowSteps
  BY DEF Crash, Idle, RowSteps, PublicSteps, PrivateSteps
<1>2. UNCHANGED <<rules, services, policies, serviceIds>>
  BY DEF Crash, storeVars, zitiVars
<1>3. RowsKeep /\ ServicesKeep /\ PoliciesKeep
  BY <1>2 DEF RowsKeep, ServicesKeep, PoliciesKeep
<1> QED BY <1>1, <1>2, <1>3, PartsKeepIds DEF IdsFlow

---------------------------------------------------------------------------
(* The steps that may be issued an id.                                       *)

LEMMA CreateServiceIds ==
  ASSUME TypeOK, NEW r \in RuleIds, NEW d \in Domains, CreateService(r, d)
  PROVE  /\ services'[r] # None /\ services'[r].id = CreatedServiceId(r)
         /\ \/ /\ UNCHANGED <<services, serviceIds>>
               /\ ServiceHasId(r, CreatedServiceId(r))
            \/ /\ serviceIds' = serviceIds + 1
               /\ CreatedServiceId(r) = serviceIds + 1
               /\ \A q \in RuleIds \ {r} : services'[q] = services[q]
<1>1. services \in [RuleIds -> Service \cup {None}] /\ serviceIds \in Nat
  BY DEF TypeOK, ZitiTypeOK
<1>2. CASE services[r] = None
  <2> DEFINE made == [id |-> serviceIds + 1, intercept |-> d]
  <2>1. services' = [services EXCEPT ![r] = made]
    BY <1>2 DEF CreateService
  <2>2. serviceIds' = serviceIds + 1
    BY <1>2 DEF CreateService
  <2>3. made # None
    BY <1>1, ZitiAssumption DEF Service
  <2> QED BY <1>1, <2>1, <2>2, <2>3 DEF ServiceHasId, CreatedServiceId
<1>3. CASE services[r] # None
  BY <1>3 DEF CreateService, ServiceHasId, CreatedServiceId
<1> QED BY <1>2, <1>3

(* The id is handed to nobody but the rule's call, if to anybody.            *)
LEMMA MadeIdsFlow ==
  ASSUME TypeOK, NEW r \in RuleIds, NEW d \in Domains, CreateService(r, d),
         UNCHANGED rules,
         \A q \in RuleIds, id \in ServiceIds : InCall(q, id)' =>
           Held(q, id) \/ (q = r /\ id = CreatedServiceId(r))
  PROVE  IdsFlow
<1>1. UNCHANGED policies
  BY DEF CreateService
<1>2. \A q \in RuleIds, id \in ServiceIds :
        InRow(q, id)' \/ InPolicy(q, id)' => Held(q, id)
  BY <1>1 DEF InRow, RuleExists, InPolicy, Held
<1>3. CASE /\ UNCHANGED <<services, serviceIds>>
           /\ ServiceHasId(r, CreatedServiceId(r))
  <2>1. \A q \in RuleIds, id \in ServiceIds :
          ServiceHasId(q, id)' \/ InCall(q, id)' => Held(q, id)
    BY <1>3 DEF ServiceHasId, Held
  <2> QED BY <1>2, <1>3, <2>1 DEF IdsFlow, IdsKept, Held
<1>4. CASE /\ serviceIds' = serviceIds + 1
           /\ CreatedServiceId(r) = serviceIds + 1
           /\ services'[r] # None /\ services'[r].id = CreatedServiceId(r)
           /\ \A q \in RuleIds \ {r} : services'[q] = services[q]
  <2>1. \A q \in RuleIds, id \in ServiceIds :
          ServiceHasId(q, id)' \/ InCall(q, id)' =>
            Held(q, id) \/ (q = r /\ id = serviceIds + 1)
    BY <1>4 DEF ServiceHasId, Held
  <2>2. IdIssued(r)
    BY <1>2, <1>4, <2>1 DEF IdIssued, Held
  <2> QED BY <2>2 DEF IdsFlow
<1> QED BY <1>3, <1>4, CreateServiceIds

(* The call of p goes on with the id its rule was given.                     *)
LEMMA GivenIds ==
  ASSUME TypeOK, NEW p \in Callers, NEW id, NEW c,
         call' = [call EXCEPT ![p] = c],
         c.rule = call[p].rule, c.row.service = id
  PROVE  \A q \in RuleIds, i \in ServiceIds : InCall(q, i)' =>
           Held(q, i) \/ (q = call[p].rule /\ i = id)
<1>1. \A o \in Callers : call'[o] = IF o = p THEN c ELSE call[o]
  BY DEF TypeOK, ServerTypeOK
<1> QED BY <1>1 DEF InCall, Held

LEMMA CreateServiceStepIds ==
  ASSUME TypeOK, NEW p \in Callers, CreateEgressRule_Service(p)
  PROVE  IdsFlow
<1> DEFINE r == call[p].rule
           c == [call[p] EXCEPT !.at = "create.insert",
                                !.row.service = CreatedServiceId(r)]
<1>1. r \in RuleIds /\ call[p].row \in Row /\ call[p].row.matcher \in Domains
  BY DEF CreateEgressRule_Service, At, TypeOK, ServerTypeOK, CallOK,
         RuleSteps, RowSteps, PublicSteps
<1>2. CreateService(r, call[p].row.matcher) /\ UNCHANGED rules
  BY DEF CreateEgressRule_Service, storeVars
<1>3. c.rule = r /\ c.row.service = CreatedServiceId(r)
  BY <1>1 DEF TypeOK, ServerTypeOK, Call, Row
<1>4. call' = [call EXCEPT ![p] = c]
  BY DEF CreateEgressRule_Service, TypeOK, ServerTypeOK
<1> HIDE DEF c
<1>5. \A q \in RuleIds, id \in ServiceIds : InCall(q, id)' =>
        Held(q, id) \/ (q = r /\ id = CreatedServiceId(r))
  BY <1>3, <1>4, GivenIds
<1> HIDE DEF r
<1> QED BY <1>1, <1>2, <1>5, MadeIdsFlow

(* reconcileRuleService hands the id only to whoever asked for the rule's.   *)
LEMMA ReconcileIdsFlow ==
  ASSUME TypeOK, NEW r \in RuleIds, NEW row \in Row, row.matcher \in Domains,
         ReconcileRuleService(r, row), UNCHANGED rules,
         \A q \in RuleIds, id \in ServiceIds : InCall(q, id)' =>
           Held(q, id) \/ (q = r /\ id = ReconciledServiceId(r, row))
  PROVE  /\ IdsFlow
         /\ services'[r] # None
         /\ services'[r].id = ReconciledServiceId(r, row)
<1>1. CASE ServiceHasId(r, row.service)
  <2>1. UNCHANGED <<services, policies, serviceIds>>
    BY <1>1 DEF ReconcileRuleService, zitiVars
  <2>2. ReconciledServiceId(r, row) = row.service
    BY <1>1 DEF ReconciledServiceId
  <2>3. \A q \in RuleIds, id \in ServiceIds :
          /\ InCall(q, id)' => Held(q, id)
          /\ InRow(q, id)' \/ InPolicy(q, id)' \/ ServiceHasId(q, id)'
               => Held(q, id)
    BY <1>1, <2>1, <2>2 DEF InRow, RuleExists, InPolicy, ServiceHasId, Held
  <2>4. IdsKept
    BY <2>1, <2>3 DEF IdsKept, Held
  <2> QED BY <1>1, <2>1, <2>2, <2>4 DEF IdsFlow, ServiceHasId
<1>2. CASE ~ServiceHasId(r, row.service)
  <2>1. CreateService(r, row.matcher)
    BY <1>2 DEF ReconcileRuleService
  <2>2. ReconciledServiceId(r, row) = CreatedServiceId(r)
    BY <1>2 DEF ReconciledServiceId
  <2> QED BY <2>1, <2>2, MadeIdsFlow, CreateServiceIds
<1> QED BY <1>1, <1>2

LEMMA AttachServiceIds ==
  ASSUME TypeOK, NEW p \in Callers, CreateEgressRuleAttachment_Service(p)
  PROVE  IdsFlow
<1> DEFINE r   == call[p].rule
           row == call[p].row
           id  == ReconciledServiceId(r, row)
           c   == [call[p] EXCEPT
                    !.at = IF id = row.service THEN "attach.policy"
                                               ELSE "attach.serviceid",
                    !.row.service = id]
<1>1. r \in RuleIds /\ row \in Row /\ row.matcher \in Domains
  BY DEF CreateEgressRuleAttachment_Service, At, TypeOK, ServerTypeOK, CallOK,
         RuleSteps, RowSteps, PublicSteps
<1>2. ReconcileRuleService(r, row) /\ UNCHANGED rules
  BY DEF CreateEgressRuleAttachment_Service, storeVars
<1>3. call' = [call EXCEPT ![p] = c]
  BY DEF CreateEgressRuleAttachment_Service, TypeOK, ServerTypeOK
<1>4. c.rule = r /\ c.row.service = id
  <2> HIDE DEF id
  <2> QED BY <1>1 DEF TypeOK, ServerTypeOK, Call, Row
<1> HIDE DEF c, id
<1>5. \A q \in RuleIds, i \in ServiceIds : InCall(q, i)' =>
        Held(q, i) \/ (q = r /\ i = id)
  <2>1. \A o \in Callers : call'[o] = IF o = p THEN c ELSE call[o]
    BY <1>3 DEF TypeOK, ServerTypeOK
  <2> QED BY <1>4, <2>1 DEF InCall, Held
<1>6. \A q \in RuleIds, i \in ServiceIds : InCall(q, i)' =>
        Held(q, i) \/ (q = r /\ i = ReconciledServiceId(r, row))
  BY <1>5 DEF id
<1> HIDE DEF r, row
<1> QED BY <1>1, <1>2, <1>6, ReconcileIdsFlow

(* No step of a handler, no failure and no crash passes an id on from one    *)
(* rule to another.                                                          *)
LEMMA ServerNextIds ==
  ASSUME TypeOK, [ServerNext]_allVars
  PROVE  IdsFlow
<1>1. ASSUME NEW p \in Callers, CallStep(p)
      PROVE  IdsFlow
  BY <1>1, EndingsIds, GotosIds, ReadersIds, SyncReadsIds, WritersIds,
     DeletersIds, AttachPolicyIds, CreateServiceStepIds, AttachServiceIds
     DEF CallStep, RuleStep, AttachmentStep
<1>2. CASE UNCHANGED allVars
  <2>1. UNCHANGED <<rules, services, policies, serviceIds, call>>
    BY <1>2 DEF allVars, storeVars, zitiVars, serverVars
  <2>2. RowsKeep /\ ServicesKeep /\ PoliciesKeep
    BY <2>1 DEF RowsKeep, ServicesKeep, PoliciesKeep
  <2> QED BY <2>1, <2>2, PartsKeepIds DEF IdsFlow
<1> QED BY <1>1, <1>2, CrashIds DEF ServerNext
---------------------------------------------------------------------------
(* The same with the reconciler running: an id may also be held by the pass. *)

Known(r, id) == Held(r, id) \/ HeldByPass(r, id)

SystemIdsOwned ==
  \A r \in RuleIds, id \in ServiceIds : Known(r, id) =>
    /\ id <= serviceIds
    /\ \A q \in RuleIds : Known(q, id) => q = r

KnownFlow ==
  \/ /\ serviceIds' = serviceIds
     /\ \A r \in RuleIds, id \in ServiceIds : Known(r, id)' => Known(r, id)
  \/ /\ serviceIds' = serviceIds + 1
     /\ \E owner \in RuleIds : \A r \in RuleIds, id \in ServiceIds :
          Known(r, id)' => Known(r, id) \/ (r = owner /\ id = serviceIds + 1)

LEMMA SystemIdsOwnedStep ==
  ASSUME ZitiTypeOK, SystemIdsOwned, KnownFlow
  PROVE  SystemIdsOwned'
<1>1. CASE /\ serviceIds' = serviceIds
           /\ \A r \in RuleIds, id \in ServiceIds : Known(r, id)' => Known(r, id)
  BY <1>1 DEF SystemIdsOwned
<1>2. ASSUME serviceIds' = serviceIds + 1, NEW owner \in RuleIds,
             \A r \in RuleIds, id \in ServiceIds : Known(r, id)' =>
               Known(r, id) \/ (r = owner /\ id = serviceIds + 1)
      PROVE  SystemIdsOwned'
  <2>1. serviceIds \in Nat
    BY DEF ZitiTypeOK
  <2>2. \A r \in RuleIds : ~Known(r, serviceIds + 1)
    BY <2>1 DEF SystemIdsOwned, ServiceIds
  <2>3. SUFFICES ASSUME NEW r \in RuleIds, NEW id \in ServiceIds, Known(r, id)'
                 PROVE  /\ id <= serviceIds'
                        /\ \A q \in RuleIds : Known(q, id)' => q = r
    BY DEF SystemIdsOwned
  <2>4. CASE id = serviceIds + 1
    BY <1>2, <2>1, <2>2, <2>3, <2>4
  <2>5. CASE id # serviceIds + 1
    BY <1>2, <2>1, <2>3, <2>5 DEF SystemIdsOwned, ServiceIds
  <2> QED BY <2>4, <2>5
<1> QED BY <1>1, <1>2 DEF KnownFlow

(* What the handlers' ids do, with a pass that takes none but held ones.     *)
LEMMA FlowKnown ==
  ASSUME IdsFlow,
         \A r \in RuleIds, id \in ServiceIds :
           HeldByPass(r, id)' => HeldByPass(r, id) \/ Held(r, id)'
  PROVE  KnownFlow
<1>1. CASE IdsKept
  BY <1>1 DEF IdsKept, KnownFlow, Known
<1>2. CASE \E owner \in RuleIds : IdIssued(owner)
  BY <1>2 DEF IdIssued, KnownFlow, Known
<1> QED BY <1>1, <1>2 DEF IdsFlow

(* A step of the pass that is issued no id.                                  *)
RowsKnown ==
  \A r \in RuleIds, id \in ServiceIds : InRow(r, id)' => Known(r, id)

PoliciesKnown ==
  \A r \in RuleIds, id \in ServiceIds : InPolicy(r, id)' => Known(r, id)

PassKnows ==
  \A r \in RuleIds, id \in ServiceIds : HeldByPass(r, id)' => Known(r, id)

LEMMA PassKnownFlow ==
  ASSUME UNCHANGED <<call, serviceIds>>,
         RowsKnown, ServicesKeep, PoliciesKnown, PassKnows
  PROVE  KnownFlow
<1>1. SUFFICES ASSUME NEW r \in RuleIds, NEW id \in ServiceIds, Known(r, id)'
               PROVE  Known(r, id)
  BY DEF KnownFlow
<1>2. InCall(r, id)' => InCall(r, id)
  BY DEF InCall
<1>3. ServiceHasId(r, id)' => ServiceHasId(r, id)
  BY DEF ServicesKeep, ServiceHasId
<1> QED BY <1>1, <1>2, <1>3
        DEF Known, Held, RowsKnown, PoliciesKnown, PassKnows

LEMMA SameRows ==
  ASSUME UNCHANGED rules
  PROVE  RowsKnown
BY DEF RowsKnown, InRow, RuleExists, Known, Held

LEMMA FewerServices ==
  ASSUME UNCHANGED services \/ \E id : DeleteService(id)
  PROVE  ServicesKeep
BY DEF ServicesKeep, DeleteService

LEMMA FewerPolicies ==
  ASSUME UNCHANGED policies \/ \E id : DeleteServicePolicy(id)
  PROVE  PoliciesKnown
<1>1. \A n \in PolicyNames : policies'[n] \in {policies[n], None}
  BY DEF DeleteServicePolicy
<1> QED BY <1>1 DEF PoliciesKnown, InPolicy, Known, Held, PolicyNames

LEMMA SameSnapshot ==
  ASSUME PassEnds \/ (pass'.rules = pass.rules /\ pass'.at # "serviceid")
  PROVE  PassKnows
BY DEF PassEnds, IdlePass, PassKnows, HeldByPass, Known

(* Steps that leave the rows and the snapshot alone and at most delete.      *)
LEMMA PassLooksIds ==
  ASSUME ReconcilerTypeOK,
         \/ ListAllAttachments \/ ListServices \/ ListServicePolicies
         \/ PassDone \/ ReplacePolicy_Delete
         \/ SavePolicyId \/ DeleteOrphanServicePolicy \/ DeleteOrphanService
         \/ \E a \in AttachmentIds :
              UnknownRule(a) \/ AttachmentInLine(a) \/ PolicyDiffers(a)
  PROVE  KnownFlow
<1>1. UNCHANGED <<call, serviceIds, rules>>
  BY DEF ListAllAttachments, ListServices, ListServicePolicies, PassDone,
     ReplacePolicy_Delete, SavePolicyId, DeleteOrphanServicePolicy,
     DeleteOrphanService, UnknownRule, AttachmentInLine, PolicyDiffers,
     allVars, storeVars, zitiVars, serverVars, DeleteServicePolicy,
     DeleteService, UpdateAttachmentPolicyID
<1>2. /\ UNCHANGED services \/ \E id : DeleteService(id)
      /\ UNCHANGED policies \/ \E id : DeleteServicePolicy(id)
  BY DEF ListAllAttachments, ListServices, ListServicePolicies, PassDone,
     ReplacePolicy_Delete, SavePolicyId, DeleteOrphanServicePolicy,
     DeleteOrphanService, UnknownRule, AttachmentInLine, PolicyDiffers,
     allVars, zitiVars, DeleteServicePolicy, DeleteService
<1>3. \/ pass'.rules = pass.rules /\ pass'.at # "serviceid"
      \/ PassEnds
  BY DEF ListAllAttachments, ListServices, ListServicePolicies, PassDone,
     ReplacePolicy_Delete, SavePolicyId, DeleteOrphanServicePolicy,
     DeleteOrphanService, UnknownRule, AttachmentInLine, PolicyDiffers,
     PassAt, AttachmentTurn, ReconcilerTypeOK, PassOK, Pass
<1> QED BY <1>1, <1>2, <1>3, SameRows, FewerServices, FewerPolicies,
           SameSnapshot, PassKnownFlow

LEMMA ListAllRulesIds ==
  ASSUME ReconcilerTypeOK, ListAllRules
  PROVE  KnownFlow
<1>1. UNCHANGED <<call, serviceIds, rules, services, policies>>
  BY DEF ListAllRules, allVars, storeVars, zitiVars, serverVars
<1>2. pass'.rules = rules /\ pass'.at = "attachments"
  BY DEF ListAllRules, ReconcilerTypeOK, PassOK, Pass
<1>3. PassKnows
  BY <1>2 DEF PassKnows, HeldByPass, Known, Held, InRow, RuleExists
<1> QED BY <1>1, <1>3, SameRows, FewerServices, FewerPolicies, PassKnownFlow

(* The role of a new policy is by an id of the snapshot.                     *)
LEMMA PassPolicyIds ==
  ASSUME ReconcilerTypeOK,
         \/ ReplacePolicy_Create
         \/ \E a \in AttachmentIds : ProvisionPolicy(a)
  PROVE  KnownFlow
<1>1. CASE PassEnds /\ UNCHANGED <<storeVars, zitiVars, serverVars>>
  <2>1. UNCHANGED <<call, serviceIds, rules, services, policies>>
    BY <1>1 DEF storeVars, zitiVars, serverVars
  <2> QED BY <1>1, <2>1, SameRows, FewerServices, FewerPolicies,
             SameSnapshot, PassKnownFlow
<1>2. ASSUME NEW a \in AttachmentIds,
             PassRow(a) # None, pass.attachments[a] # None,
             CreateServicePolicy(PolicyName(a), AttachmentServiceRole(PassRow(a))),
             UNCHANGED <<storeVars, serverVars>>,
             pass'.rules = pass.rules, pass'.at = "policyid"
      PROVE  KnownFlow
  <2> DEFINE r == pass.attachments[a].rule
             t == pass.attachments[a].target
             row == pass.rules[r]
  <2>1. r \in RuleIds /\ t \in Targets
    BY <1>2 DEF ReconcilerTypeOK, PassOK, Pass, AttachmentRow
  <2>2. CreateServicePolicy(<<r, t>>, AttachmentServiceRole(row)) /\ row # None
    BY <1>2 DEF PolicyName, PassRow
  <2>3. UNCHANGED <<call, serviceIds, rules, services>>
    BY <1>2 DEF storeVars, serverVars, CreateServicePolicy
  <2> HIDE DEF r, t, row
  <2>4. \A n \in PolicyNames :
          \/ policies'[n] = policies[n]
          \/ n = <<r, t>> /\ policies'[n].role = AttachmentServiceRole(row)
    BY <2>1, <2>2, RoleIds DEF ReconcilerTypeOK
  <2>5. HeldByPass(r, row.service)
    BY <2>2 DEF HeldByPass, row
  <2>6. PoliciesKnown
    BY <2>4, <2>5, RowOfRole
       DEF PoliciesKnown, InPolicy, Known, Held, PolicyNames
  <2> QED BY <1>2, <2>3, <2>6, SameRows, FewerServices, SameSnapshot,
             PassKnownFlow
<1>3. CASE ReplacePolicy_Create
  <2> DEFINE a == pass.current
  <2>1. /\ a \in AttachmentIds /\ pass.attachments[a] # None
        /\ PassRow(a) # None
    BY <1>3 DEF ReplacePolicy_Create, PassAt, ReconcilerTypeOK, PassOK, Pass,
       PassRow
  <2>2. \/ PassEnds /\ UNCHANGED <<storeVars, zitiVars, serverVars>>
        \/ /\ CreateServicePolicy(PolicyName(a), AttachmentServiceRole(PassRow(a)))
           /\ UNCHANGED <<storeVars, serverVars>>
           /\ pass'.rules = pass.rules /\ pass'.at = "policyid"
    BY <1>3 DEF ReplacePolicy_Create, ReconcilerTypeOK, PassOK, Pass
  <2> QED BY <1>1, <1>2, <2>1, <2>2
<1>4. ASSUME NEW a \in AttachmentIds, ProvisionPolicy(a)
      PROVE  KnownFlow
  <2>1. PassRow(a) # None /\ pass.attachments[a] # None
    BY <1>4 DEF ProvisionPolicy, AttachmentTurn, ReconcilerTypeOK, PassOK
  <2>2. pass'.rules = pass.rules /\ pass'.at = "policyid"
    BY <1>4 DEF ProvisionPolicy, ReconcilerTypeOK, PassOK, Pass
  <2> QED BY <1>2, <1>4, <2>1, <2>2 DEF ProvisionPolicy
<1> QED BY <1>3, <1>4

(* reconcileRuleService run by the pass.                                     *)
LEMMA ReconcileRuleIds ==
  ASSUME ReconcilerTypeOK, NEW r \in RuleIds, ReconcileRule(r)
  PROVE  KnownFlow
<1> DEFINE row == pass.rules[r]
           id  == ReconciledServiceId(r, row)
<1>1. row \in Row /\ row.matcher \in Domains
  BY DEF ReconcilerTypeOK, PassOK, Pass, ReconcileRule
<1>2. ReconcileRuleService(r, row) /\ UNCHANGED <<rules, call>>
  BY DEF ReconcileRule, storeVars, serverVars
<1>3. \A q \in RuleIds, i \in ServiceIds : InCall(q, i)' => Held(q, i)
  BY <1>2 DEF InCall, Held
<1>4. /\ IdsFlow
      /\ services'[r] # None
      /\ services'[r].id = id
  BY <1>1, <1>2, <1>3, ReconcileIdsFlow DEF ReconcilerTypeOK
<1>5. PassAt("reconcile") /\ pass' = IF id = row.service
              THEN [pass EXCEPT !.todoRules = @ \ {r}]
              ELSE [pass EXCEPT !.at = "serviceid", !.current = r, !.id = id]
  BY DEF ReconcileRule
<1> HIDE DEF id
<1>6. /\ pass'.rules = pass.rules
      /\ pass'.at = "serviceid" => pass'.current = r /\ pass'.id = id
  BY <1>5 DEF PassAt, ReconcilerTypeOK, PassOK, Pass
<1>7. \A q \in RuleIds, i \in ServiceIds :
        HeldByPass(q, i)' => HeldByPass(q, i) \/ Held(q, i)'
  BY <1>4, <1>6 DEF HeldByPass, Held, ServiceHasId
<1> QED BY <1>4, <1>7, FlowKnown

LEMMA SaveServiceIdIds ==
  ASSUME ReconcilerTypeOK, SaveServiceId
  PROVE  KnownFlow
<1> DEFINE r == pass.current
<1>1. UNCHANGED <<call, serviceIds, services, policies>>
  BY DEF SaveServiceId, zitiVars, serverVars
<1>2. CASE PassEnds /\ UNCHANGED storeVars
  BY <1>1, <1>2, SameRows, FewerServices, FewerPolicies, SameSnapshot,
     PassKnownFlow DEF storeVars
<1>3. CASE /\ UpdateRuleServiceID(r, pass.id)
           /\ pass' = [pass EXCEPT !.at = "reconcile",
                                   !.rules[r].service = pass.id,
                                   !.todoRules = @ \ {r},
                                   !.current = None, !.id = NoId]
  <2>1. /\ r \in RuleIds /\ pass.rules[r] \in Row
        /\ HeldByPass(r, pass.id)
    BY DEF ReconcilerTypeOK, PassOK, Pass, SaveServiceId, PassAt, HeldByPass
  <2>2. /\ rules[r] \in Row
        /\ rules' = [rules EXCEPT ![r].service = pass.id]
    BY <1>3, <2>1 DEF UpdateRuleServiceID, RuleExists, ReconcilerTypeOK,
       TypeOK, StoreTypeOK
  <2>3. /\ rules'[r].service = pass.id
        /\ \A q \in RuleIds \ {r} : rules'[q] = rules[q]
    BY <2>1, <2>2 DEF ReconcilerTypeOK, TypeOK, StoreTypeOK, Row
  <2>4. RowsKnown
    BY <2>1, <2>3 DEF RowsKnown, InRow, RuleExists, Known, Held
  <2>5. /\ pass'.at = "reconcile"
        /\ pass'.rules = [pass.rules EXCEPT ![r].service = pass.id]
    BY <1>3 DEF ReconcilerTypeOK, PassOK, Pass
  <2>6. /\ pass'.rules[r].service = pass.id
        /\ \A q \in RuleIds \ {r} : pass'.rules[q] = pass.rules[q]
    BY <2>1, <2>5 DEF ReconcilerTypeOK, PassOK, Pass, Row
  <2>7. PassKnows
    BY <2>1, <2>5, <2>6 DEF PassKnows, HeldByPass, Known
  <2> QED BY <1>1, <2>4, <2>7, FewerServices, FewerPolicies, PassKnownFlow
<1> QED BY <1>2, <1>3 DEF SaveServiceId

(* No step of the system passes an id on from one rule to another.           *)
LEMMA NextIds ==
  ASSUME ReconcilerTypeOK, [Next]_vars
  PROVE  KnownFlow
<1>1. CASE HandlerStep \/ UNCHANGED vars
  <2>1. [ServerNext]_allVars /\ UNCHANGED pass
    BY <1>1 DEF HandlerStep, ServerNext, vars
  <2> QED BY <2>1, ServerNextIds, FlowKnown DEF ReconcilerTypeOK, HeldByPass
<1>2. CASE PassStep
  BY <1>2, PassLooksIds, ListAllRulesIds, PassPolicyIds, ReconcileRuleIds,
     SaveServiceIdIds DEF PassStep
<1>3. CASE ProcessCrash
  <2>1. IdsFlow
    BY <1>3, CrashIds DEF ProcessCrash, ReconcilerTypeOK
  <2>2. \A r \in RuleIds, id \in ServiceIds : ~HeldByPass(r, id)'
    BY <1>3 DEF ProcessCrash, PassEnds, IdlePass, HeldByPass
  <2> QED BY <2>1, <2>2, FlowKnown
<1>4. CASE PassFails
  <2>1. UNCHANGED <<call, serviceIds, rules, services, policies>> /\ PassEnds
    BY <1>4 DEF PassFails, storeVars, zitiVars
  <2> QED BY <2>1, SameRows, FewerServices, FewerPolicies, SameSnapshot,
             PassKnownFlow
<1> QED BY <1>1, <1>2, <1>3, <1>4 DEF Next
---------------------------------------------------------------------------
(* A policy's role is made by attachmentServiceRole from a row of the rule.  *)

PolicyRoles ==
  \A n \in PolicyNames : policies[n] # None =>
    /\ origin[n[1]] # None
    /\ IF origin[n[1]] \in Resources
       THEN policies[n].role = <<"#", origin[n[1]]>>
       ELSE policies[n].role[1] = "@" /\ policies[n].role[2] \in ServiceIds

RolesFlow ==
  \A n \in PolicyNames :
    \/ policies'[n] \in {policies[n], None}
    \/ \E row \in Row : /\ RowOK(row, n[1])
                        /\ policies'[n].role = AttachmentServiceRole(row)

LEMMA PolicyRolesStep ==
  ASSUME PolicyRoles, RolesFlow,
         \A r \in RuleIds : origin[r] # None => origin'[r] = origin[r]
  PROVE  PolicyRoles'
<1>1. SUFFICES ASSUME NEW n \in PolicyNames, policies'[n] # None
               PROVE  /\ origin'[n[1]] # None
                      /\ IF origin'[n[1]] \in Resources
                         THEN policies'[n].role = <<"#", origin'[n[1]]>>
                         ELSE /\ policies'[n].role[1] = "@"
                              /\ policies'[n].role[2] \in ServiceIds
  BY DEF PolicyRoles
<1> DEFINE r == n[1]
<1>2. r \in RuleIds
  BY DEF PolicyNames
<1>3. CASE policies'[n] \in {policies[n], None}
  BY <1>1, <1>2, <1>3 DEF PolicyRoles
<1>4. CASE \E row \in Row : /\ RowOK(row, r)
                            /\ policies'[n].role = AttachmentServiceRole(row)
  <2>1. PICK row \in Row : /\ RowOK(row, r)
                           /\ policies'[n].role = AttachmentServiceRole(row)
    BY <1>4
  <2>2. /\ origin[r] # None /\ origin'[r] = origin[r]
        /\ PrivateResourceOf(row.matcher) = PrivateResourceOf(origin[r])
        /\ row.matcher \in Resources <=> row.service = NoId
        /\ row.service \in Nat
    BY <1>2, <2>1 DEF RowOK, OfKind, IsPrivateTarget, Row
  <2>3. CASE origin[r] \in Resources
    <3>1. row.matcher = origin[r]
      BY <2>2, <2>3, StoreAssumption DEF PrivateResourceOf, StoreAssumption
    <3> QED BY <2>1, <2>2, <2>3, <3>1 DEF AttachmentServiceRole, IsPrivateTarget
  <2>4. CASE origin[r] \notin Resources
    <3>1. row.matcher \notin Resources
      BY <2>2, <2>4, StoreAssumption DEF PrivateResourceOf, StoreAssumption
    <3>2. policies'[n].role = <<"@", row.service>>
      BY <2>1, <3>1 DEF AttachmentServiceRole, IsPrivateTarget
    <3> QED BY <2>2, <2>4, <3>1, <3>2 DEF ServiceIds
  <2> QED BY <2>3, <2>4
<1> QED BY <1>3, <1>4 DEF RolesFlow

LEMMA FewerRoles ==
  ASSUME UNCHANGED policies \/ \E id : DeleteServicePolicy(id)
  PROVE  RolesFlow
BY DEF RolesFlow, DeleteServicePolicy

LEMMA ServerRoles ==
  ASSUME KindInv, [ServerNext]_allVars
  PROVE  RolesFlow
<1>1. ASSUME NEW p \in Callers, CallStep(p)
      PROVE  RolesFlow
  <2>1. CASE CreateEgressRuleAttachment_Policy(p)
    <3> DEFINE r == call[p].rule
               row == call[p].row
    <3>1. /\ r \in RuleIds /\ row \in Row /\ call[p].target \in Targets
          /\ RowOK(row, r)
      BY <2>1 DEF KindInv, RowsAgree, RowOK, TypeOK, ServerTypeOK, CallOK,
         RuleSteps, RowSteps, TargetSteps, At,
         CreateEgressRuleAttachment_Policy
    <3>2. CreateServicePolicy(<<r, call[p].target>>, AttachmentServiceRole(row))
      BY <2>1 DEF CreateEgressRuleAttachment_Policy
    <3> HIDE DEF r, row
    <3>3. \A n \in PolicyNames :
            \/ policies'[n] = policies[n]
            \/ /\ n = <<r, call[p].target>>
               /\ policies'[n].role = AttachmentServiceRole(row)
      BY <3>1, <3>2, RoleIds DEF KindInv
    <3> QED BY <3>1, <3>3 DEF RolesFlow
  <2>2. CASE CreateEgressRuleAttachment_Undo(p)
             \/ DeleteEgressRuleAttachment_Policy(p)
    <3>1. UNCHANGED policies \/ \E id : DeleteServicePolicy(id)
      BY <2>2 DEF CreateEgressRuleAttachment_Undo, zitiVars,
         DeleteEgressRuleAttachment_Policy
    <3> QED BY <3>1, FewerRoles
  <2>3. CASE UNCHANGED policies
    BY <2>3, FewerRoles
  <2> QED BY <1>1, <2>1, <2>2, <2>3 DEF CallStep, RuleStep, AttachmentStep,
     zitiVars, CreateEgressRule, CreateService, UpdateService, DeleteService,
     CreateEgressRule_Service, CreateEgressRule_Insert,
     CreateEgressRule_InsertError, CreateEgressRule_Undo,
     CreateEgressRule_ReadBack, SyncPrivateResourceMediation_Count,
     SyncPrivateResourceMediation_Set, SyncPrivateResourceMediation_Error,
     UpdateEgressRule, UpdateEgressRule_Service, UpdateEgressRule_Write,
     UpdateEgressRule_ReadBack, DeleteEgressRule, DeleteEgressRule_Count,
     DeleteEgressRule_Row, DeleteEgressRule_Service, PublishRuleUpdated,
     CreateEgressRuleAttachment, CreateEgressRuleAttachment_Check,
     CreateEgressRuleAttachment_Service, ReconcileRuleService,
     CreateEgressRuleAttachment_SaveServiceId,
     CreateEgressRuleAttachment_Insert,
     CreateEgressRuleAttachment_InsertError,
     CreateEgressRuleAttachment_ReadBack,
     DeleteEgressRuleAttachment, DeleteEgressRuleAttachment_Row,
     PublishAttachmentUpdated, CallFails
<1>2. CASE Crash \/ UNCHANGED allVars
  BY <1>2, FewerRoles DEF Crash, allVars, zitiVars
<1> QED BY SMTT(30), <1>1, <1>2 DEF ServerNext

(* The roles of a pass's policies are of the rows in its snapshot.           *)
LEMMA PassPolicyRoles ==
  ASSUME SystemKindInv, NEW a \in AttachmentIds, PassRow(a) # None,
         pass.attachments[a] # None,
         CreateServicePolicy(PolicyName(a), AttachmentServiceRole(PassRow(a)))
  PROVE  RolesFlow
<1> DEFINE r == pass.attachments[a].rule
           t == pass.attachments[a].target
           row == pass.rules[r]
<1>1. r \in RuleIds /\ t \in Targets
  BY DEF SystemKindInv, ReconcilerTypeOK, PassOK, Pass, AttachmentRow
<1>2. row \in Row /\ RowOK(row, r)
  BY <1>1, SnapshotAgreesDef
     DEF SystemKindInv, ReconcilerTypeOK, PassOK, Pass, PassRow
<1>3. CreateServicePolicy(<<r, t>>, AttachmentServiceRole(row))
  BY DEF PolicyName, PassRow
<1> HIDE DEF r, t, row
<1>4. \A n \in PolicyNames :
        \/ policies'[n] = policies[n]
        \/ n = <<r, t>> /\ policies'[n].role = AttachmentServiceRole(row)
  BY <1>1, <1>3, RoleIds DEF SystemKindInv, ReconcilerTypeOK
<1> QED BY <1>2, <1>4 DEF RolesFlow

LEMMA NextRoles ==
  ASSUME SystemKindInv, [Next]_vars
  PROVE  RolesFlow
<1>1. CASE HandlerStep \/ ProcessCrash \/ UNCHANGED vars
  BY <1>1, ServerRoles
     DEF HandlerStep, ProcessCrash, ServerNext, vars, SystemKindInv
<1>2. CASE PassFails
  BY <1>2, FewerRoles DEF PassFails, zitiVars
<1>3. ASSUME NEW a \in AttachmentIds, ProvisionPolicy(a)
      PROVE  RolesFlow
  BY <1>3, PassPolicyRoles
     DEF ProvisionPolicy, AttachmentTurn, SystemKindInv, ReconcilerTypeOK,
         PassOK
<1>4. CASE ReplacePolicy_Create
  <2>1. /\ pass.current \in AttachmentIds
        /\ pass.attachments[pass.current] # None
        /\ PassRow(pass.current) # None
    BY <1>4 DEF ReplacePolicy_Create, PassAt, SystemKindInv,
       ReconcilerTypeOK, PassOK, Pass, PassRow
  <2> QED BY <1>4, <2>1, PassPolicyRoles, FewerRoles
          DEF ReplacePolicy_Create, zitiVars
<1>5. CASE /\ PassStep /\ ~ReplacePolicy_Create
           /\ ~\E a \in AttachmentIds : ProvisionPolicy(a)
  <2>1. UNCHANGED policies \/ \E id : DeleteServicePolicy(id)
    BY <1>5 DEF PassStep, ListAllRules, ListAllAttachments, ReconcileRule,
       ReconcileRuleService, CreateService, SaveServiceId, UnknownRule,
       AttachmentInLine, PolicyDiffers, ReplacePolicy_Delete, SavePolicyId,
       ListServices, DeleteOrphanService, DeleteService,
       ListServicePolicies, DeleteOrphanServicePolicy, PassDone, allVars,
       zitiVars
  <2> QED BY <2>1, FewerRoles
<1> QED BY <1>1, <1>2, <1>3, <1>4, <1>5 DEF Next

---------------------------------------------------------------------------
(* The theorems.                                                             *)

LEMMA OwnedScope ==
  ASSUME ZitiTypeOK, IdsOwned, PolicyRoles
  PROVE  PolicyScope
<1>1. SUFFICES ASSUME NEW n \in PolicyNames, policies[n] # None,
                      origin[n[1]] \notin Resources,
                      NEW q \in RuleIds \ {n[1]}
               PROVE  ~ServiceHasId(q, policies[n].role[2])
  BY DEF PolicyScope, PolicyRoles, ServiceIds
<1> DEFINE id == policies[n].role[2]
<1>2. id \in ServiceIds /\ policies[n].role[1] = "@"
  BY <1>1 DEF PolicyRoles
<1>3. policies[n].role = <<"@", id>>
  BY <1>1, <1>2 DEF ZitiTypeOK, Policy, ServiceRoles
<1>4. n[1] \in RuleIds /\ n[2] \in Targets /\ n = <<n[1], n[2]>>
  BY DEF PolicyNames
<1>5. Held(n[1], id)
  BY <1>1, <1>3, <1>4 DEF Held, InPolicy
<1>6. ~Held(q, id)
  BY <1>1, <1>2, <1>4, <1>5 DEF IdsOwned
<1> QED BY <1>6 DEF Held

LEMMA InitOwned == Init => IdsOwned /\ PolicyRoles
<1> SUFFICES ASSUME Init PROVE IdsOwned /\ PolicyRoles
  OBVIOUS
<1>1. \A r \in RuleIds, id \in ServiceIds : ~Held(r, id)
  BY DEF Init, StoreInit, ZitiInit, ServerInit, Idle, Held, InRow,
     RuleExists, ServiceHasId, InCall, InPolicy, PolicyNames, RowSteps,
     PublicSteps, PrivateSteps
<1> QED BY <1>1 DEF IdsOwned, PolicyRoles, Init, ZitiInit

ServerIdInv == KindInv /\ IdsOwned /\ PolicyRoles

LEMMA ServerIdInvariant == ServerSpec => []ServerIdInv
<1>1. Init => ServerIdInv
  BY InitKind, InitOwned DEF ServerIdInv
<1>2. ServerIdInv /\ [ServerNext]_allVars => ServerIdInv'
  BY ServerNextKind, ServerNextIds, IdsOwnedStep, ServerRoles, OriginStable,
     PolicyRolesStep DEF ServerIdInv, KindInv, TypeOK
<1> QED BY <1>1, <1>2, PTL DEF ServerSpec

(* No interleaving of handlers, no failure and no crash gives a target a     *)
(* policy for anything but its rule's own destination.                       *)
THEOREM PolicyKeepsScope == ServerSpec => []PolicyScope
<1>1. ServerIdInv => PolicyScope
  BY OwnedScope DEF ServerIdInv, KindInv, TypeOK
<1> QED BY <1>1, ServerIdInvariant, PTL

LEMMA SystemOwnedImpliesOwned == SystemIdsOwned => IdsOwned
BY DEF SystemIdsOwned, IdsOwned, Known

SystemIdInv == SystemKindInv /\ SystemIdsOwned /\ PolicyRoles

LEMMA SystemIdInvariant == Spec => []SystemIdInv
<1>1. ReconcilerInit => SystemIdInv
  <2> SUFFICES ASSUME ReconcilerInit PROVE SystemIdInv
    OBVIOUS
  <2>1. \A r \in RuleIds, id \in ServiceIds : ~HeldByPass(r, id)
    BY DEF ReconcilerInit, IdlePass, HeldByPass
  <2> QED BY <2>1, InitSystemKind, InitOwned
          DEF ReconcilerInit, SystemIdInv, SystemIdsOwned, IdsOwned, Known
<1>2. SystemIdInv /\ [Next]_vars => SystemIdInv'
  BY NextKind, NextIds, SystemIdsOwnedStep, NextRoles, SystemOriginStable,
     PolicyRolesStep DEF SystemIdInv, SystemKindInv, ReconcilerTypeOK, TypeOK
<1> QED BY <1>1, <1>2, PTL DEF Spec

(* The same with the reconciler provisioning and replacing policies from its *)
(* snapshots and writing service ids back.                                   *)
THEOREM SystemPolicyKeepsScope == Spec => []PolicyScope
<1>1. SystemIdInv => PolicyScope
  BY OwnedScope, SystemOwnedImpliesOwned
     DEF SystemIdInv, SystemKindInv, ReconcilerTypeOK, TypeOK
<1> QED BY <1>1, SystemIdInvariant, PTL

=============================================================================
