------------------------- MODULE EgressServerProofs ------------------------
(* Theorems about the handlers, for any sets of ids, matchers and callers    *)
(* and any bounds.                                                           *)
EXTENDS EgressServer, TLAPS

USE DEF NoId

---------------------------------------------------------------------------
(* The statements and the requests keep the types of what they change.       *)

LEMMA InsertRuleType ==
  ASSUME StoreTypeOK, NEW r \in RuleIds, NEW row \in Row, InsertRule(r, row)
  PROVE  StoreTypeOK'
BY DEF StoreTypeOK, InsertRule

LEMMA UpdateRuleType ==
  ASSUME StoreTypeOK, NEW r \in RuleIds, NEW row \in Row, UpdateRule(r, row)
  PROVE  StoreTypeOK'
BY DEF StoreTypeOK, UpdateRule

LEMMA UpdateRuleServiceIDType ==
  ASSUME StoreTypeOK, NEW r \in RuleIds, NEW id \in Nat,
         UpdateRuleServiceID(r, id)
  PROVE  StoreTypeOK'
BY DEF StoreTypeOK, UpdateRuleServiceID, RuleExists, Row

LEMMA DeleteRuleType ==
  ASSUME StoreTypeOK, NEW r \in RuleIds, DeleteRule(r)
  PROVE  StoreTypeOK'
BY DEF StoreTypeOK, DeleteRule

LEMMA InsertAttachmentType ==
  ASSUME StoreTypeOK, NEW a \in AttachmentIds, NEW row \in AttachmentRow,
         InsertAttachment(a, row)
  PROVE  StoreTypeOK'
BY DEF StoreTypeOK, InsertAttachment

LEMMA UpdateAttachmentPolicyIDType ==
  ASSUME StoreTypeOK, NEW a \in AttachmentIds, NEW id \in Nat,
         UpdateAttachmentPolicyID(a, id)
  PROVE  StoreTypeOK'
BY DEF StoreTypeOK, UpdateAttachmentPolicyID, AttachmentExists, AttachmentRow

LEMMA DeleteAttachmentType ==
  ASSUME StoreTypeOK, NEW a \in AttachmentIds, DeleteAttachment(a)
  PROVE  StoreTypeOK'
BY DEF StoreTypeOK, DeleteAttachment

LEMMA CreateServiceType ==
  ASSUME ZitiTypeOK, NEW r \in RuleIds, NEW d \in Domains,
         CreateService(r, d)
  PROVE  ZitiTypeOK' /\ CreatedServiceId(r) \in Nat
BY StoreAssumption
   DEF ZitiTypeOK, CreateService, CreatedServiceId, Service, StoreAssumption

LEMMA UpdateServiceType ==
  ASSUME ZitiTypeOK, NEW id \in Nat, NEW d \in Domains, UpdateService(id, d)
  PROVE  ZitiTypeOK'
BY DEF ZitiTypeOK, UpdateService, Service

LEMMA DeleteServiceType ==
  ASSUME ZitiTypeOK, NEW id \in Nat, DeleteService(id)
  PROVE  ZitiTypeOK'
BY DEF ZitiTypeOK, DeleteService

LEMMA CreateServicePolicyType ==
  ASSUME ZitiTypeOK, NEW n \in PolicyNames, NEW role \in ServiceRoles,
         CreateServicePolicy(n, role)
  PROVE  ZitiTypeOK' /\ CreatedPolicyId(n) \in Nat
BY DEF ZitiTypeOK, CreateServicePolicy, CreatedPolicyId, Policy

LEMMA DeleteServicePolicyType ==
  ASSUME ZitiTypeOK, NEW id \in Nat, DeleteServicePolicy(id)
  PROVE  ZitiTypeOK'
BY DEF ZitiTypeOK, DeleteServicePolicy

LEMMA ReconcileRuleServiceType ==
  ASSUME ZitiTypeOK, NEW r \in RuleIds, NEW row \in Row,
         row.matcher \in Domains, ReconcileRuleService(r, row)
  PROVE  ZitiTypeOK' /\ ReconciledServiceId(r, row) \in Nat
<1>1. CASE ServiceHasId(r, row.service)
  BY <1>1 DEF ReconcileRuleService, ReconciledServiceId, zitiVars, ZitiTypeOK,
              Row
<1>2. CASE ~ServiceHasId(r, row.service)
  BY <1>2, CreateServiceType DEF ReconcileRuleService, ReconciledServiceId
<1> QED BY <1>1, <1>2

LEMMA AttachmentServiceRoleType ==
  ASSUME NEW row \in Row
  PROVE  AttachmentServiceRole(row) \in ServiceRoles
BY DEF AttachmentServiceRole, ServiceRoles, IsPrivateTarget, Row

---------------------------------------------------------------------------
(* Type correctness.                                                         *)

LEMMA InitType == Init => TypeOK
BY DEF Init, TypeOK, StoreInit, StoreTypeOK, ZitiInit, ZitiTypeOK,
       ServerInit, ServerTypeOK, Idle, Call, CallOK, Steps, Committed,
       RuleSteps, RowSteps, PublicSteps, PrivateSteps, TargetSteps,
       AttachmentSteps

(* A step that replaces one call by a well-formed one.                       *)
Moves(p) == \E c : CallOK(c) /\ call' = [call EXCEPT ![p] = c]

(* Such a step is type-correct if it keeps the types of the rest of the      *)
(* handlers' variables.                                                      *)
LEMMA ServerStepType ==
  ASSUME ServerTypeOK, NEW p \in Callers, Moves(p),
         calls' \in {calls, calls + 1}, faults' \in {faults, faults + 1},
         origin' \in [RuleIds -> Matchers \cup {None}],
         minted' \subseteq AttachmentIds, mediated' \subseteq Resources,
         unannounced' \subseteq RuleIds \cup AttachmentIds,
         abandoned' \subseteq RuleIds \cup AttachmentIds
  PROVE  ServerTypeOK'
<1>1. PICK c : CallOK(c) /\ call' = [call EXCEPT ![p] = c]
  BY DEF Moves
<1>2. call' \in [Callers -> Call]
  BY <1>1 DEF ServerTypeOK, CallOK
<1>3. \A q \in Callers : CallOK(call[q])'
  BY <1>1 DEF ServerTypeOK, CallOK
<1> QED BY <1>2, <1>3 DEF ServerTypeOK

(* In particular if all it changes besides are the budgets.                  *)
LEMMA CallStepType ==
  ASSUME ServerTypeOK, NEW p \in Callers, Moves(p),
         calls' \in {calls, calls + 1}, faults' \in {faults, faults + 1},
         UNCHANGED <<historyVars, mediated, eventVars>>
  PROVE  ServerTypeOK'
BY ServerStepType DEF ServerTypeOK, historyVars, eventVars

(* The tables and OpenZiti are left alone.                                   *)
LEMMA UnchangedType ==
  /\ StoreTypeOK /\ UNCHANGED storeVars => StoreTypeOK'
  /\ ZitiTypeOK /\ UNCHANGED zitiVars => ZitiTypeOK'
BY DEF storeVars, zitiVars, StoreTypeOK, ZitiTypeOK

LEMMA IdleOK == CallOK(Idle)
BY DEF Idle, Call, CallOK, Steps, Committed, RuleSteps, RowSteps,
       PublicSteps, PrivateSteps, TargetSteps, AttachmentSteps

LEMMA ReturnMoves ==
  ASSUME NEW p \in Callers, Return(p)
  PROVE  Moves(p)
BY IdleOK DEF Moves, Return

LEMMA GotoMoves ==
  ASSUME NEW p \in Callers, NEW step, Goto(p, step), ServerTypeOK,
         CallOK([call[p] EXCEPT !.at = step])
  PROVE  Moves(p)
<1>1. call' = [call EXCEPT ![p] = [call[p] EXCEPT !.at = step]]
  BY DEF Goto, ServerTypeOK
<1> QED BY <1>1 DEF Moves

LEMMA PublishMoves ==
  ASSUME NEW p \in Callers, call[p].rule \in RuleIds, GotoPublishRule(p)
  PROVE  Moves(p)
<1>1. CallOK([Idle EXCEPT !.at = "rule.publish", !.rule = call[p].rule])
  BY DEF Idle, Call, CallOK, Steps, Committed, RuleSteps, RowSteps,
         PublicSteps, PrivateSteps, TargetSteps, AttachmentSteps
<1> QED BY <1>1 DEF Moves, GotoPublishRule

LEMMA CommitType ==
  ASSUME ServerTypeOK, NEW p \in Callers, Commit(p),
         call[p].at \in RuleSteps \cup AttachmentSteps
  PROVE  /\ unannounced' \subseteq RuleIds \cup AttachmentIds
         /\ abandoned' \subseteq RuleIds \cup AttachmentIds
BY DEF ServerTypeOK, Commit, Subject, CallOK, Call

LEMMA AbandonType ==
  ASSUME ServerTypeOK, NEW p \in Callers, Abandon(p)
  PROVE  /\ Moves(p)
         /\ unannounced' \subseteq RuleIds \cup AttachmentIds
         /\ abandoned' \subseteq RuleIds \cup AttachmentIds
<1>1. Moves(p)
  BY ReturnMoves DEF Abandon
<1>2. call[p].at \in Committed => Subject(call[p]) \in RuleIds \cup AttachmentIds
  BY DEF ServerTypeOK, Subject, CallOK, Call, Committed, RuleSteps, RowSteps,
         PublicSteps, PrivateSteps, AttachmentSteps
<1> QED BY <1>1, <1>2 DEF ServerTypeOK, Abandon

---------------------------------------------------------------------------
(* One lemma per action.                                                     *)

LEMMA CreateType ==
  ASSUME TypeOK, NEW p \in Callers, CreateEgressRule(p)
  PROVE  TypeOK'
<1> USE StoreAssumption DEF StoreAssumption
<1>1. PICK r \in RuleIds, m \in Matchers :
        /\ origin' = [origin EXCEPT ![r] = m]
        /\ call' = [call EXCEPT ![p] = [Idle EXCEPT
             !.at = IF m \in Resources THEN "create.insert"
                                       ELSE "create.service",
             !.rule = r,
             !.row = [matcher |-> m, service |-> NoId]]]
  BY DEF CreateEgressRule
<1>2. CallOK([Idle EXCEPT
             !.at = IF m \in Resources THEN "create.insert"
                                       ELSE "create.service",
             !.rule = r,
             !.row = [matcher |-> m, service |-> NoId]])
  BY DEF Idle, Call, CallOK, Steps, Committed, RuleSteps, RowSteps,
         PublicSteps, PrivateSteps, TargetSteps, AttachmentSteps, Row, Matchers
<1>3. /\ calls' = calls + 1
      /\ UNCHANGED <<storeVars, zitiVars, faults, minted, mediated, eventVars>>
  BY DEF CreateEgressRule, Receive
<1>4. ServerTypeOK /\ origin' \in [RuleIds -> Matchers \cup {None}]
  BY <1>1 DEF TypeOK, ServerTypeOK
<1>5. Moves(p)
  BY <1>1, <1>2 DEF Moves
<1>6. ServerTypeOK'
  BY <1>3, <1>4, <1>5, ServerStepType DEF ServerTypeOK, eventVars
<1> QED BY <1>3, <1>6, UnchangedType DEF TypeOK

LEMMA CreateServiceStepType ==
  ASSUME TypeOK, NEW p \in Callers, CreateEgressRule_Service(p)
  PROVE  TypeOK'
<1> DEFINE r == call[p].rule
           c == [call[p] EXCEPT !.at = "create.insert",
                                !.row.service = CreatedServiceId(r)]
<1>1. r \in RuleIds /\ call[p].row \in Row /\ call[p].row.matcher \in Domains
  BY DEF TypeOK, ServerTypeOK, CreateEgressRule_Service, At, CallOK,
         RuleSteps, RowSteps, PublicSteps
<1>2. ZitiTypeOK' /\ CreatedServiceId(r) \in Nat
  BY <1>1, CreateServiceType DEF CreateEgressRule_Service, TypeOK
<1>3. CallOK(c)
  BY ZenonT(60), <1>1, <1>2
     DEF TypeOK, ServerTypeOK, CreateEgressRule_Service, At, Row,
         Idle, Call, CallOK, Steps, Committed, RuleSteps, RowSteps,
         PublicSteps, PrivateSteps, TargetSteps, AttachmentSteps
<1>4. call' = [call EXCEPT ![p] = c]
  BY DEF CreateEgressRule_Service, TypeOK, ServerTypeOK
<1>5. Moves(p)
  BY <1>3, <1>4 DEF Moves
<1> QED BY <1>2, <1>5, CallStepType, UnchangedType
        DEF TypeOK, CreateEgressRule_Service, budgetVars

LEMMA InsertStepType ==
  ASSUME TypeOK, NEW p \in Callers, CreateEgressRule_Insert(p)
  PROVE  TypeOK'
<1>1. call[p].rule \in RuleIds /\ call[p].row \in Row
  BY DEF TypeOK, ServerTypeOK, CreateEgressRule_Insert, At, CallOK, RuleSteps,
         RowSteps
<1>2. StoreTypeOK'
  BY <1>1, InsertRuleType DEF TypeOK, CreateEgressRule_Insert
<1>3. CallOK([call[p] EXCEPT !.at = "create.readback"])
  BY DEF TypeOK, ServerTypeOK, CreateEgressRule_Insert, At,
         Idle, Call, CallOK, Steps, Committed, RuleSteps, RowSteps,
         PublicSteps, PrivateSteps, TargetSteps, AttachmentSteps
<1>4. Moves(p)
  BY <1>3, GotoMoves DEF TypeOK, CreateEgressRule_Insert
<1>5. call[p].at \in RuleSteps
  BY DEF CreateEgressRule_Insert, At, RuleSteps, RowSteps
<1>6. /\ unannounced' \subseteq RuleIds \cup AttachmentIds
      /\ abandoned' \subseteq RuleIds \cup AttachmentIds
  BY <1>5, CommitType DEF TypeOK, CreateEgressRule_Insert
<1> QED BY <1>2, <1>4, <1>6, ServerStepType, UnchangedType
        DEF TypeOK, ServerTypeOK, CreateEgressRule_Insert, budgetVars, historyVars

LEMMA InsertErrorType ==
  ASSUME TypeOK, NEW p \in Callers, CreateEgressRule_InsertError(p)
  PROVE  TypeOK'
<1>1. call[p].rule \in RuleIds /\ call[p].row \in Row
  BY DEF TypeOK, ServerTypeOK, CreateEgressRule_InsertError, At, CallOK,
         RuleSteps, RowSteps
<1>2. StoreTypeOK'
  BY <1>1, InsertRuleType, UnchangedType
     DEF TypeOK, CreateEgressRule_InsertError
<1>3. CallOK([call[p] EXCEPT !.at = "create.undo"])
  BY DEF TypeOK, ServerTypeOK, CreateEgressRule_InsertError, At,
         Idle, Call, CallOK, Steps, Committed, RuleSteps, RowSteps,
         PublicSteps, PrivateSteps, TargetSteps, AttachmentSteps
<1>4. Moves(p)
  BY <1>3, GotoMoves DEF TypeOK, CreateEgressRule_InsertError
<1>5. /\ unannounced' \subseteq RuleIds \cup AttachmentIds
      /\ abandoned' \subseteq RuleIds \cup AttachmentIds
  BY <1>1 DEF TypeOK, ServerTypeOK, CreateEgressRule_InsertError, eventVars
<1> QED BY <1>2, <1>4, <1>5, ServerStepType, UnchangedType
        DEF TypeOK, ServerTypeOK, CreateEgressRule_InsertError, historyVars

LEMMA UndoType ==
  ASSUME TypeOK, NEW p \in Callers, CreateEgressRule_Undo(p)
  PROVE  TypeOK'
<1>1. call[p].row.service \in Nat
  BY DEF TypeOK, ServerTypeOK, CreateEgressRule_Undo, At, CallOK, RowSteps, Row
<1>2. ZitiTypeOK'
  BY <1>1, DeleteServiceType DEF TypeOK, CreateEgressRule_Undo
<1>3. Moves(p)
  BY ReturnMoves DEF CreateEgressRule_Undo
<1> QED BY <1>2, <1>3, CallStepType, UnchangedType
        DEF TypeOK, CreateEgressRule_Undo, budgetVars

LEMMA ReadBackType ==
  ASSUME TypeOK, NEW p \in Callers, CreateEgressRule_ReadBack(p)
  PROVE  TypeOK'
<1> DEFINE r == call[p].rule
           c == [call[p] EXCEPT !.at = "sync.count", !.row = rules[r]]
<1>1. r \in RuleIds
  BY DEF TypeOK, ServerTypeOK, CreateEgressRule_ReadBack, At, CallOK, RuleSteps
<1>2. CASE RuleExists(r) /\ IsPrivateTarget(rules[r])
  <2>1. CallOK(c)
    BY ZenonT(60), <1>1, <1>2 DEF RuleExists, IsPrivateTarget, StoreTypeOK,
         TypeOK, ServerTypeOK, CreateEgressRule_ReadBack, At,
         Idle, Call, CallOK, Steps, Committed, RuleSteps, RowSteps,
         PublicSteps, PrivateSteps, TargetSteps, AttachmentSteps
  <2>2. call' = [call EXCEPT ![p] = c]
    BY <1>1, <1>2 DEF TypeOK, ServerTypeOK, CreateEgressRule_ReadBack
  <2> QED BY <2>1, <2>2, CallStepType, UnchangedType
          DEF Moves, TypeOK, CreateEgressRule_ReadBack, budgetVars
<1>3. CASE GotoPublishRule(p)
  BY <1>1, <1>3, PublishMoves, CallStepType, UnchangedType
     DEF TypeOK, CreateEgressRule_ReadBack, budgetVars
<1>4. CASE Return(p)
  BY <1>4, ReturnMoves, CallStepType, UnchangedType
     DEF TypeOK, CreateEgressRule_ReadBack, budgetVars
<1> QED BY <1>2, <1>3, <1>4 DEF CreateEgressRule_ReadBack

LEMMA SyncCountType ==
  ASSUME TypeOK, NEW p \in Callers, SyncPrivateResourceMediation_Count(p)
  PROVE  TypeOK'
<1> DEFINE c == [call[p] EXCEPT !.at = "sync.set",
                                !.mediate = Referenced(call[p].row.matcher)]
<1>1. Referenced(call[p].row.matcher) \in BOOLEAN
  BY DEF Referenced
<1>2. CallOK(c)
  BY ZenonT(60), <1>1
     DEF TypeOK, ServerTypeOK, SyncPrivateResourceMediation_Count, At,
         Idle, Call, CallOK, Steps, Committed, RuleSteps, RowSteps,
         PublicSteps, PrivateSteps, TargetSteps, AttachmentSteps
<1>3. call' = [call EXCEPT ![p] = c]
  BY DEF TypeOK, ServerTypeOK, SyncPrivateResourceMediation_Count
<1> QED BY <1>2, <1>3, CallStepType, UnchangedType
        DEF Moves, TypeOK, SyncPrivateResourceMediation_Count, budgetVars

LEMMA SyncSetType ==
  ASSUME TypeOK, NEW p \in Callers, SyncPrivateResourceMediation_Set(p)
  PROVE  TypeOK'
<1>1. call[p].rule \in RuleIds /\ call[p].row.matcher \in Resources
  BY DEF TypeOK, ServerTypeOK, SyncPrivateResourceMediation_Set, At,
         Idle, Call, CallOK, Steps, Committed, RuleSteps, RowSteps,
         PublicSteps, PrivateSteps, TargetSteps, AttachmentSteps
<1>2. Moves(p)
  BY <1>1, PublishMoves DEF SyncPrivateResourceMediation_Set
<1>3. mediated' \subseteq Resources
  BY <1>1 DEF TypeOK, ServerTypeOK, SyncPrivateResourceMediation_Set
<1> QED BY <1>2, <1>3, ServerStepType, UnchangedType
        DEF TypeOK, ServerTypeOK, SyncPrivateResourceMediation_Set, budgetVars,
            historyVars, eventVars

LEMMA SyncErrorType ==
  ASSUME TypeOK, NEW p \in Callers, SyncPrivateResourceMediation_Error(p)
  PROVE  TypeOK'
<1>1. call[p].rule \in RuleIds
  BY DEF TypeOK, ServerTypeOK, SyncPrivateResourceMediation_Error, At,
         Idle, Call, CallOK, Steps, Committed, RuleSteps, RowSteps,
         PublicSteps, PrivateSteps, TargetSteps, AttachmentSteps
<1>2. Moves(p)
  BY <1>1, PublishMoves DEF SyncPrivateResourceMediation_Error
<1> QED BY <1>2, CallStepType, UnchangedType
        DEF TypeOK, SyncPrivateResourceMediation_Error

LEMMA UpdateType ==
  ASSUME TypeOK, NEW p \in Callers, UpdateEgressRule(p)
  PROVE  TypeOK'
<1> USE StoreAssumption DEF StoreAssumption
<1>1. PICK r \in RuleIds, want \in Matchers \cup {None} :
        /\ RuleExists(r)
        /\ call' = [call EXCEPT ![p] = [Idle EXCEPT
             !.at = IF want \in Domains /\ want # rules[r].matcher
                    THEN "update.service" ELSE "update.write",
             !.rule = r,
             !.row = IF want = None THEN rules[r]
                     ELSE [rules[r] EXCEPT !.matcher = want]]]
  BY DEF UpdateEgressRule
<1> DEFINE row == IF want = None THEN rules[r]
                  ELSE [rules[r] EXCEPT !.matcher = want]
           step == IF want \in Domains /\ want # rules[r].matcher
                   THEN "update.service" ELSE "update.write"
<1>2. row \in Row /\ (step = "update.service" => row.matcher \in Domains)
  BY <1>1 DEF TypeOK, StoreTypeOK, RuleExists, Row, Matchers
<1>3. call' = [call EXCEPT ![p] = [Idle EXCEPT !.at = step, !.rule = r,
                                               !.row = row]]
  BY <1>1
<1>4. step \in {"update.service", "update.write"}
  OBVIOUS
<1> HIDE DEF row, step
<1>5. CallOK([Idle EXCEPT !.at = step, !.rule = r, !.row = row])
  BY <1>2, <1>4
     DEF Idle, Call, CallOK, Steps, Committed, RuleSteps, RowSteps,
         PublicSteps, PrivateSteps, TargetSteps, AttachmentSteps
<1>6. Moves(p)
  BY <1>3, <1>5 DEF Moves
<1> QED BY <1>6, CallStepType, UnchangedType DEF TypeOK, UpdateEgressRule, Receive

LEMMA UpdateServiceStepType ==
  ASSUME TypeOK, NEW p \in Callers, UpdateEgressRule_Service(p)
  PROVE  TypeOK'
<1> DEFINE row == call[p].row
<1>1. row \in Row /\ row.matcher \in Domains /\ row.service \in Nat
  BY DEF TypeOK, ServerTypeOK, UpdateEgressRule_Service, At, CallOK, RowSteps,
         PublicSteps, Row
<1>2. ZitiTypeOK'
  BY <1>1, UpdateServiceType, UnchangedType
     DEF TypeOK, UpdateEgressRule_Service
<1>3. CallOK([call[p] EXCEPT !.at = "update.write"])
  BY DEF TypeOK, ServerTypeOK, UpdateEgressRule_Service, At,
         Idle, Call, CallOK, Steps, Committed, RuleSteps, RowSteps,
         PublicSteps, PrivateSteps, TargetSteps, AttachmentSteps
<1>4. Moves(p)
  BY <1>3, GotoMoves, ReturnMoves DEF TypeOK, UpdateEgressRule_Service
<1> QED BY <1>2, <1>4, CallStepType, UnchangedType
        DEF TypeOK, UpdateEgressRule_Service, budgetVars

LEMMA WriteType ==
  ASSUME TypeOK, NEW p \in Callers, UpdateEgressRule_Write(p)
  PROVE  TypeOK'
<1>1. call[p].rule \in RuleIds /\ call[p].row \in Row
  BY DEF TypeOK, ServerTypeOK, UpdateEgressRule_Write, At, CallOK, RuleSteps,
         RowSteps
<1>2. StoreTypeOK'
  BY <1>1, UpdateRuleType, UnchangedType DEF TypeOK, UpdateEgressRule_Write
<1>3. CallOK([call[p] EXCEPT !.at = "update.readback"])
  BY DEF TypeOK, ServerTypeOK, UpdateEgressRule_Write, At,
         Idle, Call, CallOK, Steps, Committed, RuleSteps, RowSteps,
         PublicSteps, PrivateSteps, TargetSteps, AttachmentSteps
<1>4. Moves(p)
  BY <1>3, GotoMoves, ReturnMoves DEF TypeOK, UpdateEgressRule_Write
<1>5. call[p].at \in RuleSteps
  BY DEF UpdateEgressRule_Write, At, RuleSteps, RowSteps
<1>6. /\ unannounced' \subseteq RuleIds \cup AttachmentIds
      /\ abandoned' \subseteq RuleIds \cup AttachmentIds
  BY <1>5, CommitType DEF TypeOK, ServerTypeOK, UpdateEgressRule_Write,
     eventVars
<1> QED BY <1>2, <1>4, <1>6, ServerStepType, UnchangedType
        DEF TypeOK, ServerTypeOK, UpdateEgressRule_Write, budgetVars, historyVars

LEMMA UpdateReadBackType ==
  ASSUME TypeOK, NEW p \in Callers, UpdateEgressRule_ReadBack(p)
  PROVE  TypeOK'
<1>1. call[p].rule \in RuleIds
  BY DEF TypeOK, ServerTypeOK, UpdateEgressRule_ReadBack, At, CallOK, RuleSteps
<1>2. Moves(p)
  BY <1>1, PublishMoves, ReturnMoves DEF UpdateEgressRule_ReadBack
<1> QED BY <1>2, CallStepType, UnchangedType
        DEF TypeOK, UpdateEgressRule_ReadBack, budgetVars

LEMMA DeleteType ==
  ASSUME TypeOK, NEW p \in Callers, DeleteEgressRule(p)
  PROVE  TypeOK'
<1>1. PICK r \in RuleIds :
        /\ RuleExists(r)
        /\ call' = [call EXCEPT ![p] = [Idle EXCEPT
             !.at = "delete.count", !.rule = r, !.row = rules[r]]]
  BY DEF DeleteEgressRule
<1>2. CallOK([Idle EXCEPT !.at = "delete.count", !.rule = r,
                          !.row = rules[r]])
  BY <1>1 DEF TypeOK, StoreTypeOK, RuleExists,
         Idle, Call, CallOK, Steps, Committed, RuleSteps, RowSteps,
         PublicSteps, PrivateSteps, TargetSteps, AttachmentSteps
<1>3. Moves(p)
  BY <1>1, <1>2 DEF Moves
<1> QED BY <1>3, CallStepType, UnchangedType DEF TypeOK, DeleteEgressRule, Receive

LEMMA DeleteCountType ==
  ASSUME TypeOK, NEW p \in Callers, DeleteEgressRule_Count(p)
  PROVE  TypeOK'
<1>1. CallOK([call[p] EXCEPT !.at = "delete.row"])
  BY DEF TypeOK, ServerTypeOK, DeleteEgressRule_Count, At,
         Idle, Call, CallOK, Steps, Committed, RuleSteps, RowSteps,
         PublicSteps, PrivateSteps, TargetSteps, AttachmentSteps
<1>2. Moves(p)
  BY <1>1, GotoMoves, ReturnMoves DEF TypeOK, DeleteEgressRule_Count
<1> QED BY <1>2, CallStepType, UnchangedType
        DEF TypeOK, DeleteEgressRule_Count, budgetVars

LEMMA DeleteRowType ==
  ASSUME TypeOK, NEW p \in Callers, DeleteEgressRule_Row(p)
  PROVE  TypeOK'
<1>1. call[p].rule \in RuleIds
  BY DEF TypeOK, ServerTypeOK, DeleteEgressRule_Row, At, CallOK, RuleSteps,
         RowSteps
<1>2. StoreTypeOK'
  BY <1>1, DeleteRuleType, UnchangedType DEF TypeOK, DeleteEgressRule_Row
<1>3. CallOK([call[p] EXCEPT !.at = "delete.service"])
  BY DEF TypeOK, ServerTypeOK, DeleteEgressRule_Row, At,
         Idle, Call, CallOK, Steps, Committed, RuleSteps, RowSteps,
         PublicSteps, PrivateSteps, TargetSteps, AttachmentSteps
<1>4. Moves(p)
  BY <1>3, GotoMoves, ReturnMoves DEF TypeOK, DeleteEgressRule_Row
<1>5. call[p].at \in RuleSteps
  BY DEF DeleteEgressRule_Row, At, RuleSteps, RowSteps
<1>6. /\ unannounced' \subseteq RuleIds \cup AttachmentIds
      /\ abandoned' \subseteq RuleIds \cup AttachmentIds
  BY <1>5, CommitType DEF TypeOK, ServerTypeOK, DeleteEgressRule_Row,
     eventVars
<1> QED BY <1>2, <1>4, <1>6, ServerStepType, UnchangedType
        DEF TypeOK, ServerTypeOK, DeleteEgressRule_Row, budgetVars, historyVars

LEMMA DeleteServiceStepType ==
  ASSUME TypeOK, NEW p \in Callers, DeleteEgressRule_Service(p)
  PROVE  TypeOK'
<1> DEFINE row == call[p].row
<1>1. call[p].rule \in RuleIds /\ row \in Row /\ row.service \in Nat
  BY DEF TypeOK, ServerTypeOK, DeleteEgressRule_Service, At, CallOK, RuleSteps,
         RowSteps, Row
<1>2. CASE DeleteService(row.service) /\ UNCHANGED eventVars
           /\ IF IsPrivateTarget(row) THEN Goto(p, "sync.count")
                                      ELSE GotoPublishRule(p)
  <2>1. ZitiTypeOK'
    BY <1>1, <1>2, DeleteServiceType DEF TypeOK
  <2>2. ASSUME IsPrivateTarget(row)
        PROVE  CallOK([call[p] EXCEPT !.at = "sync.count"])
    BY <2>2 DEF IsPrivateTarget, TypeOK, ServerTypeOK, DeleteEgressRule_Service, At,
         Idle, Call, CallOK, Steps, Committed, RuleSteps, RowSteps,
         PublicSteps, PrivateSteps, TargetSteps, AttachmentSteps
  <2>3. Moves(p)
    BY <1>1, <1>2, <2>2, GotoMoves, PublishMoves DEF TypeOK
  <2> QED BY <1>2, <2>1, <2>3, CallStepType, UnchangedType
          DEF TypeOK, DeleteEgressRule_Service, budgetVars
<1>3. CASE Abandon(p) /\ UNCHANGED zitiVars
  BY <1>3, AbandonType, ServerStepType, UnchangedType
     DEF TypeOK, ServerTypeOK, DeleteEgressRule_Service, budgetVars, historyVars
<1> QED BY <1>2, <1>3 DEF DeleteEgressRule_Service

LEMMA PublishRuleType ==
  ASSUME TypeOK, NEW p \in Callers, PublishRuleUpdated(p)
  PROVE  TypeOK'
<1>1. Moves(p)
  BY ReturnMoves DEF PublishRuleUpdated
<1>2. /\ unannounced' \subseteq RuleIds \cup AttachmentIds
      /\ abandoned' \subseteq RuleIds \cup AttachmentIds
  BY DEF TypeOK, ServerTypeOK, PublishRuleUpdated
<1> QED BY <1>1, <1>2, ServerStepType, UnchangedType
        DEF TypeOK, ServerTypeOK, PublishRuleUpdated, budgetVars, historyVars

LEMMA AttachType ==
  ASSUME TypeOK, NEW p \in Callers, CreateEgressRuleAttachment(p)
  PROVE  TypeOK'
<1>1. PICK r \in RuleIds, t \in Targets :
        /\ RuleExists(r)
        /\ call' = [call EXCEPT ![p] = [Idle EXCEPT
             !.at = "attach.check", !.rule = r, !.row = rules[r],
             !.target = t]]
  BY DEF CreateEgressRuleAttachment
<1>2. CallOK([Idle EXCEPT !.at = "attach.check", !.rule = r,
                          !.row = rules[r], !.target = t])
  BY <1>1 DEF TypeOK, StoreTypeOK, RuleExists,
         Idle, Call, CallOK, Steps, Committed, RuleSteps, RowSteps,
         PublicSteps, PrivateSteps, TargetSteps, AttachmentSteps
<1>3. Moves(p)
  BY <1>1, <1>2 DEF Moves
<1> QED BY <1>3, CallStepType, UnchangedType
        DEF TypeOK, CreateEgressRuleAttachment, Receive

LEMMA AttachCheckType ==
  ASSUME TypeOK, NEW p \in Callers, CreateEgressRuleAttachment_Check(p)
  PROVE  TypeOK'
<1> DEFINE step == IF IsPrivateTarget(call[p].row) THEN "attach.policy"
                   ELSE "attach.service"
<1>1. CallOK([call[p] EXCEPT !.at = step])
  BY DEF IsPrivateTarget, Row, Matchers, TypeOK, ServerTypeOK, CreateEgressRuleAttachment_Check, At,
         Idle, Call, CallOK, Steps, Committed, RuleSteps, RowSteps,
         PublicSteps, PrivateSteps, TargetSteps, AttachmentSteps
<1>2. Moves(p)
  BY <1>1, GotoMoves, ReturnMoves
     DEF TypeOK, CreateEgressRuleAttachment_Check
<1> QED BY <1>2, CallStepType, UnchangedType
        DEF TypeOK, CreateEgressRuleAttachment_Check, budgetVars

LEMMA AttachServiceType ==
  ASSUME TypeOK, NEW p \in Callers, CreateEgressRuleAttachment_Service(p)
  PROVE  TypeOK'
<1> DEFINE r   == call[p].rule
           row == call[p].row
           id  == ReconciledServiceId(r, row)
           c   == [call[p] EXCEPT
                    !.at = IF id = row.service THEN "attach.policy"
                                               ELSE "attach.serviceid",
                    !.row.service = id]
<1>1. r \in RuleIds /\ row \in Row /\ row.matcher \in Domains
  BY DEF TypeOK, ServerTypeOK, CreateEgressRuleAttachment_Service, At, CallOK,
         RuleSteps, RowSteps, PublicSteps
<1>2. ZitiTypeOK' /\ id \in Nat
  BY <1>1, ReconcileRuleServiceType
     DEF TypeOK, CreateEgressRuleAttachment_Service
<1>3. CallOK(c)
  <2>1. call[p] \in Call /\ call[p].target \in Targets
    BY DEF TypeOK, ServerTypeOK, CreateEgressRuleAttachment_Service, At,
           CallOK, TargetSteps
  <2> HIDE DEF id
  <2>2. /\ c \in Call
        /\ c.at \in {"attach.policy", "attach.serviceid"}
        /\ c.rule = r /\ c.target = call[p].target
        /\ c.row \in Row /\ c.row.matcher = row.matcher
    BY <1>1, <1>2, <2>1 DEF Row, Call, Steps
  <2> HIDE DEF c
  <2> QED BY <1>1, <2>1, <2>2
          DEF CallOK, RuleSteps, RowSteps, PublicSteps, PrivateSteps,
              TargetSteps, AttachmentSteps
<1>4. call' = [call EXCEPT ![p] = c]
  BY DEF TypeOK, ServerTypeOK, CreateEgressRuleAttachment_Service
<1>5. Moves(p)
  BY <1>3, <1>4 DEF Moves
<1> QED BY <1>2, <1>5, CallStepType, UnchangedType
        DEF TypeOK, CreateEgressRuleAttachment_Service, budgetVars

LEMMA AttachSaveType ==
  ASSUME TypeOK, NEW p \in Callers, CreateEgressRuleAttachment_SaveServiceId(p)
  PROVE  TypeOK'
<1>1. call[p].rule \in RuleIds /\ call[p].row.service \in Nat
  BY DEF TypeOK, ServerTypeOK, CreateEgressRuleAttachment_SaveServiceId, At,
         CallOK, RuleSteps, RowSteps, PublicSteps, Row
<1>2. StoreTypeOK'
  BY <1>1, UpdateRuleServiceIDType, UnchangedType
     DEF TypeOK, CreateEgressRuleAttachment_SaveServiceId
<1>3. CallOK([call[p] EXCEPT !.at = "attach.policy"])
  BY DEF TypeOK, ServerTypeOK, CreateEgressRuleAttachment_SaveServiceId, At,
         Idle, Call, CallOK, Steps, Committed, RuleSteps, RowSteps,
         PublicSteps, PrivateSteps, TargetSteps, AttachmentSteps
<1>4. Moves(p)
  BY <1>3, GotoMoves, ReturnMoves
     DEF TypeOK, CreateEgressRuleAttachment_SaveServiceId
<1> QED BY <1>2, <1>4, CallStepType, UnchangedType
        DEF TypeOK, CreateEgressRuleAttachment_SaveServiceId, budgetVars

LEMMA AttachPolicyType ==
  ASSUME TypeOK, NEW p \in Callers, CreateEgressRuleAttachment_Policy(p)
  PROVE  TypeOK'
<1> DEFINE name == <<call[p].rule, call[p].target>>
<1>1. /\ call[p].rule \in RuleIds /\ call[p].target \in Targets
      /\ call[p].row \in Row
  BY DEF TypeOK, ServerTypeOK, CreateEgressRuleAttachment_Policy, At, CallOK,
         RuleSteps, RowSteps, TargetSteps
<1>2. name \in PolicyNames
  BY <1>1 DEF PolicyNames
<1>3. ZitiTypeOK' /\ CreatedPolicyId(name) \in Nat
  BY <1>1, <1>2, AttachmentServiceRoleType, CreateServicePolicyType
     DEF TypeOK, CreateEgressRuleAttachment_Policy
<1>4. PICK a \in AttachmentIds \ minted :
        /\ minted' = minted \cup {a}
        /\ call' = [call EXCEPT ![p] = [Idle EXCEPT
             !.at = "attach.insert", !.rule = call[p].rule,
             !.attachment = a, !.target = call[p].target,
             !.policy = CreatedPolicyId(name)]]
  BY DEF CreateEgressRuleAttachment_Policy
<1> HIDE DEF name
<1>5. CallOK([Idle EXCEPT
         !.at = "attach.insert", !.rule = call[p].rule,
         !.attachment = a, !.target = call[p].target,
         !.policy = CreatedPolicyId(name)])
  BY <1>1, <1>3
     DEF Idle, Call, CallOK, Steps, Committed, RuleSteps, RowSteps,
         PublicSteps, PrivateSteps, TargetSteps, AttachmentSteps
<1>6. Moves(p)
  BY <1>4, <1>5 DEF Moves
<1>7. minted' \subseteq AttachmentIds
  BY <1>4 DEF TypeOK, ServerTypeOK
<1> QED BY <1>3, <1>6, <1>7, ServerStepType, UnchangedType
        DEF TypeOK, ServerTypeOK, CreateEgressRuleAttachment_Policy,
            budgetVars, eventVars

LEMMA AttachInsertType ==
  ASSUME TypeOK, NEW p \in Callers, CreateEgressRuleAttachment_Insert(p)
  PROVE  TypeOK'
<1>1. /\ call[p].attachment \in AttachmentIds
      /\ NewAttachment(call[p]) \in AttachmentRow
  BY DEF AttachmentRow, NewAttachment, TypeOK, ServerTypeOK, CreateEgressRuleAttachment_Insert, At,
         Idle, Call, CallOK, Steps, Committed, RuleSteps, RowSteps,
         PublicSteps, PrivateSteps, TargetSteps, AttachmentSteps
<1>2. StoreTypeOK'
  BY <1>1, InsertAttachmentType, UnchangedType
     DEF TypeOK, CreateEgressRuleAttachment_Insert
<1>3. /\ CallOK([call[p] EXCEPT !.at = "attach.readback"])
      /\ CallOK([call[p] EXCEPT !.at = "attach.undo"])
  BY DEF TypeOK, ServerTypeOK, CreateEgressRuleAttachment_Insert, At,
         Idle, Call, CallOK, Steps, Committed, RuleSteps, RowSteps,
         PublicSteps, PrivateSteps, TargetSteps, AttachmentSteps
<1>4. Moves(p)
  BY <1>3, GotoMoves DEF TypeOK, CreateEgressRuleAttachment_Insert
<1>a. call[p].at \in AttachmentSteps
  BY DEF CreateEgressRuleAttachment_Insert, At, AttachmentSteps
<1>5. /\ unannounced' \subseteq RuleIds \cup AttachmentIds
      /\ abandoned' \subseteq RuleIds \cup AttachmentIds
  BY <1>a, CommitType DEF TypeOK, ServerTypeOK,
     CreateEgressRuleAttachment_Insert, eventVars
<1> QED BY <1>2, <1>4, <1>5, ServerStepType, UnchangedType
        DEF TypeOK, ServerTypeOK, CreateEgressRuleAttachment_Insert,
            budgetVars, historyVars

LEMMA AttachInsertErrorType ==
  ASSUME TypeOK, NEW p \in Callers, CreateEgressRuleAttachment_InsertError(p)
  PROVE  TypeOK'
<1>1. /\ call[p].attachment \in AttachmentIds
      /\ NewAttachment(call[p]) \in AttachmentRow
  BY DEF AttachmentRow, NewAttachment, TypeOK, ServerTypeOK, CreateEgressRuleAttachment_InsertError, At,
         Idle, Call, CallOK, Steps, Committed, RuleSteps, RowSteps,
         PublicSteps, PrivateSteps, TargetSteps, AttachmentSteps
<1>2. StoreTypeOK'
  BY <1>1, InsertAttachmentType, UnchangedType
     DEF TypeOK, CreateEgressRuleAttachment_InsertError
<1>3. CallOK([call[p] EXCEPT !.at = "attach.undo"])
  BY DEF TypeOK, ServerTypeOK, CreateEgressRuleAttachment_InsertError, At,
         Idle, Call, CallOK, Steps, Committed, RuleSteps, RowSteps,
         PublicSteps, PrivateSteps, TargetSteps, AttachmentSteps
<1>4. Moves(p)
  BY <1>3, GotoMoves DEF TypeOK, CreateEgressRuleAttachment_InsertError
<1>5. /\ unannounced' \subseteq RuleIds \cup AttachmentIds
      /\ abandoned' \subseteq RuleIds \cup AttachmentIds
  BY <1>1 DEF TypeOK, ServerTypeOK, CreateEgressRuleAttachment_InsertError,
     eventVars
<1> QED BY <1>2, <1>4, <1>5, ServerStepType, UnchangedType
        DEF TypeOK, ServerTypeOK, CreateEgressRuleAttachment_InsertError,
            budgetVars, historyVars

LEMMA AttachUndoType ==
  ASSUME TypeOK, NEW p \in Callers, CreateEgressRuleAttachment_Undo(p)
  PROVE  TypeOK'
<1>1. call[p].policy \in Nat
  BY DEF TypeOK, ServerTypeOK, Call
<1>2. ZitiTypeOK'
  BY <1>1, DeleteServicePolicyType
     DEF TypeOK, CreateEgressRuleAttachment_Undo
<1>3. Moves(p)
  BY ReturnMoves DEF CreateEgressRuleAttachment_Undo
<1> QED BY <1>2, <1>3, CallStepType, UnchangedType
        DEF TypeOK, CreateEgressRuleAttachment_Undo, budgetVars

LEMMA AttachReadBackType ==
  ASSUME TypeOK, NEW p \in Callers, CreateEgressRuleAttachment_ReadBack(p)
  PROVE  TypeOK'
<1>1. CallOK([call[p] EXCEPT !.at = "attachment.publish"])
  BY DEF TypeOK, ServerTypeOK, CreateEgressRuleAttachment_ReadBack, At,
         Idle, Call, CallOK, Steps, Committed, RuleSteps, RowSteps,
         PublicSteps, PrivateSteps, TargetSteps, AttachmentSteps
<1>2. Moves(p)
  BY <1>1, GotoMoves, ReturnMoves
     DEF TypeOK, CreateEgressRuleAttachment_ReadBack
<1> QED BY <1>2, CallStepType, UnchangedType
        DEF TypeOK, CreateEgressRuleAttachment_ReadBack, budgetVars

LEMMA DetachType ==
  ASSUME TypeOK, NEW p \in Callers, DeleteEgressRuleAttachment(p)
  PROVE  TypeOK'
<1>1. PICK a \in AttachmentIds :
        /\ AttachmentExists(a)
        /\ call' = [call EXCEPT ![p] = [Idle EXCEPT
             !.at = "detach.row", !.attachment = a,
             !.policy = attachments[a].policy]]
  BY DEF DeleteEgressRuleAttachment
<1>2. attachments[a].policy \in Nat
  BY <1>1 DEF TypeOK, StoreTypeOK, AttachmentExists, AttachmentRow
<1>3. CallOK([Idle EXCEPT !.at = "detach.row", !.attachment = a,
                          !.policy = attachments[a].policy])
  BY <1>2
     DEF Idle, Call, CallOK, Steps, Committed, RuleSteps, RowSteps,
         PublicSteps, PrivateSteps, TargetSteps, AttachmentSteps
<1>4. Moves(p)
  BY <1>1, <1>3 DEF Moves
<1> QED BY <1>4, CallStepType, UnchangedType
        DEF TypeOK, DeleteEgressRuleAttachment, Receive

LEMMA DetachRowType ==
  ASSUME TypeOK, NEW p \in Callers, DeleteEgressRuleAttachment_Row(p)
  PROVE  TypeOK'
<1>1. call[p].attachment \in AttachmentIds /\ call[p].at \in AttachmentSteps
  BY DEF TypeOK, ServerTypeOK, DeleteEgressRuleAttachment_Row, At, CallOK,
         AttachmentSteps
<1>2. StoreTypeOK'
  BY <1>1, DeleteAttachmentType, UnchangedType
     DEF TypeOK, DeleteEgressRuleAttachment_Row
<1>3. CallOK([call[p] EXCEPT !.at = "detach.policy"])
  BY DEF TypeOK, ServerTypeOK, DeleteEgressRuleAttachment_Row, At,
         Idle, Call, CallOK, Steps, Committed, RuleSteps, RowSteps,
         PublicSteps, PrivateSteps, TargetSteps, AttachmentSteps
<1>4. Moves(p)
  BY <1>3, GotoMoves, ReturnMoves
     DEF TypeOK, DeleteEgressRuleAttachment_Row
<1>5. /\ unannounced' \subseteq RuleIds \cup AttachmentIds
      /\ abandoned' \subseteq RuleIds \cup AttachmentIds
  BY <1>1, CommitType DEF TypeOK, ServerTypeOK,
     DeleteEgressRuleAttachment_Row, eventVars
<1> QED BY <1>2, <1>4, <1>5, ServerStepType, UnchangedType
        DEF TypeOK, ServerTypeOK, DeleteEgressRuleAttachment_Row,
            budgetVars, historyVars

LEMMA DetachPolicyType ==
  ASSUME TypeOK, NEW p \in Callers, DeleteEgressRuleAttachment_Policy(p)
  PROVE  TypeOK'
<1> DEFINE id == call[p].policy
<1>1. id \in Nat
  BY DEF TypeOK, ServerTypeOK, Call
<1>2. CASE /\ DeleteServicePolicy(id)
           /\ Goto(p, "attachment.publish")
           /\ UNCHANGED eventVars
  <2>1. ZitiTypeOK'
    BY <1>1, <1>2, DeleteServicePolicyType DEF TypeOK
  <2>2. CallOK([call[p] EXCEPT !.at = "attachment.publish"])
    BY DEF TypeOK, ServerTypeOK, DeleteEgressRuleAttachment_Policy, At,
         Idle, Call, CallOK, Steps, Committed, RuleSteps, RowSteps,
         PublicSteps, PrivateSteps, TargetSteps, AttachmentSteps
  <2>3. Moves(p)
    BY <1>2, <2>2, GotoMoves DEF TypeOK
  <2> QED BY <1>2, <2>1, <2>3, CallStepType, UnchangedType
          DEF TypeOK, DeleteEgressRuleAttachment_Policy, budgetVars
<1>3. CASE Abandon(p) /\ UNCHANGED zitiVars
  BY <1>3, AbandonType, ServerStepType, UnchangedType
     DEF TypeOK, ServerTypeOK, DeleteEgressRuleAttachment_Policy,
         budgetVars, historyVars
<1> QED BY <1>2, <1>3 DEF DeleteEgressRuleAttachment_Policy

LEMMA PublishAttachmentType ==
  ASSUME TypeOK, NEW p \in Callers, PublishAttachmentUpdated(p)
  PROVE  TypeOK'
<1>1. Moves(p)
  BY ReturnMoves DEF PublishAttachmentUpdated
<1>2. /\ unannounced' \subseteq RuleIds \cup AttachmentIds
      /\ abandoned' \subseteq RuleIds \cup AttachmentIds
  BY DEF TypeOK, ServerTypeOK, PublishAttachmentUpdated
<1> QED BY <1>1, <1>2, ServerStepType, UnchangedType
        DEF TypeOK, ServerTypeOK, PublishAttachmentUpdated, budgetVars,
            historyVars

LEMMA CallFailsType ==
  ASSUME TypeOK, NEW p \in Callers, CallFails(p)
  PROVE  TypeOK'
BY AbandonType, ServerStepType, UnchangedType
   DEF TypeOK, ServerTypeOK, CallFails, historyVars

LEMMA CrashType ==
  ASSUME TypeOK, Crash
  PROVE  TypeOK'
<1>1. call' \in [Callers -> Call] /\ \A p \in Callers : CallOK(call'[p])
  BY IdleOK DEF Crash, CallOK
<1>2. ASSUME NEW p \in Callers, call[p].at \in Committed
      PROVE  Subject(call[p]) \in RuleIds \cup AttachmentIds
  BY <1>2 DEF TypeOK, ServerTypeOK, Subject, CallOK, Call, Committed,
         RuleSteps, RowSteps, PublicSteps, PrivateSteps, AttachmentSteps
<1>3. abandoned' \subseteq RuleIds \cup AttachmentIds
  BY <1>2 DEF TypeOK, ServerTypeOK, Crash
<1>4. ServerTypeOK'
  BY <1>1, <1>3 DEF TypeOK, ServerTypeOK, Crash, historyVars
<1> QED BY <1>4, UnchangedType DEF TypeOK, Crash

(* Every step keeps every variable and every call in its type.               *)
LEMMA ServerNextType ==
  ASSUME TypeOK, [ServerNext]_allVars
  PROVE  TypeOK'
<1>1. ASSUME NEW p \in Callers, RuleStep(p)
      PROVE  TypeOK'
  BY <1>1, CreateType, CreateServiceStepType, InsertStepType,
     InsertErrorType, UndoType, ReadBackType, SyncCountType,
     SyncSetType, SyncErrorType, UpdateType,
     UpdateServiceStepType, WriteType, UpdateReadBackType,
     DeleteType, DeleteCountType, DeleteRowType,
     DeleteServiceStepType, PublishRuleType
     DEF RuleStep
<1>2. ASSUME NEW p \in Callers, AttachmentStep(p)
      PROVE  TypeOK'
  BY <1>2, AttachType, AttachCheckType, AttachServiceType, AttachSaveType,
     AttachPolicyType, AttachInsertType, AttachInsertErrorType,
     AttachUndoType, AttachReadBackType, DetachType,
     DetachRowType, DetachPolicyType, PublishAttachmentType
     DEF AttachmentStep
<1>3. CASE Crash
  BY <1>3, CrashType
<1>4. CASE UNCHANGED allVars
  BY <1>4, UnchangedType
     DEF allVars, serverVars, TypeOK, ServerTypeOK
<1> QED BY <1>1, <1>2, <1>3, <1>4, CallFailsType DEF ServerNext, CallStep

(* The handlers' variables always have their types; in particular a call     *)
(* that holds a row, a target or an attachment at a step that uses it has a  *)
(* proper one.                                                               *)
THEOREM ServerTypeCorrect == ServerSpec => []TypeOK
<1>1. Init => TypeOK
  BY InitType
<1>2. TypeOK /\ [ServerNext]_allVars => TypeOK'
  BY ServerNextType
<1> QED BY <1>1, <1>2, PTL DEF ServerSpec

---------------------------------------------------------------------------
(* The destination kind.  RowsAgree is inductive together with what it needs *)
(* of OpenZiti: a service has a proper id and is of a public rule.           *)

ServicesPublic ==
  \A r \in RuleIds : services[r] # None =>
    /\ services[r].id # NoId
    /\ origin[r] # None /\ origin[r] \notin Resources

KindInv == TypeOK /\ RowsAgree /\ ServicesPublic

(* What RowsAgree says of a stored row and of a call.                        *)
RowOK(row, r) ==
  OfKind(row, r) /\ (IsPrivateTarget(row) <=> row.service = NoId)

CallRowOK(c) ==
  c.at \in RowSteps =>
    /\ OfKind(c.row, c.rule)
    /\ c.at # "create.service" =>
         (IsPrivateTarget(c.row) <=> c.row.service = NoId)

LEMMA RowsAgreeDef ==
  RowsAgree <=> /\ \A r \in RuleIds : RuleExists(r) => RowOK(rules[r], r)
                /\ \A p \in Callers : CallRowOK(call[p])
BY DEF RowsAgree, RowOK, CallRowOK, At

LEMMA InitKind == Init => KindInv
<1> SUFFICES ASSUME Init PROVE KindInv
  OBVIOUS
<1>1. RowsAgree
  BY DEF Init, StoreInit, ServerInit, RowsAgree, RuleExists, Idle, RowSteps,
         PublicSteps, PrivateSteps
<1>2. ServicesPublic
  BY DEF Init, ZitiInit, ServicesPublic
<1> QED BY <1>1, <1>2, InitType DEF KindInv

(* A step that moves one call to a state with a right row.                   *)
RowMoves(p) == \E c : CallRowOK(c) /\ call' = [call EXCEPT ![p] = c]

LEMMA ReturnRow ==
  ASSUME NEW p \in Callers, Return(p)
  PROVE  RowMoves(p)
BY DEF Return, RowMoves, CallRowOK, Idle, RowSteps, PublicSteps, PrivateSteps

LEMMA PublishRow ==
  ASSUME NEW p \in Callers, GotoPublishRule(p)
  PROVE  RowMoves(p)
<1> DEFINE c == [Idle EXCEPT !.at = "rule.publish", !.rule = call[p].rule]
<1>1. c.at = "rule.publish"
  BY DEF Idle
<1> HIDE DEF c
<1>2. CallRowOK(c)
  BY <1>1 DEF CallRowOK, RowSteps, PublicSteps, PrivateSteps
<1>3. call' = [call EXCEPT ![p] = c]
  BY DEF GotoPublishRule, c
<1> QED BY <1>2, <1>3 DEF RowMoves

LEMMA GotoRow ==
  ASSUME TypeOK, RowsAgree, NEW p \in Callers, NEW step, Goto(p, step),
         \/ call[p].at \in RowSteps /\ ~At(p, "create.service")
         \/ step \notin RowSteps,
         step # "create.service"
  PROVE  RowMoves(p)
<1> DEFINE c == [call[p] EXCEPT !.at = step]
<1>1. call' = [call EXCEPT ![p] = c]
  BY DEF Goto, TypeOK, ServerTypeOK
<1>2. c.at = step /\ c.row = call[p].row /\ c.rule = call[p].rule
  BY DEF TypeOK, ServerTypeOK, Call
<1> HIDE DEF c
<1>3. CallRowOK(c)
  BY <1>2 DEF RowsAgree, CallRowOK, At
<1> QED BY <1>1, <1>3 DEF RowMoves

(* The three ways in which the invariant is kept, put together.              *)
LEMMA KindStep ==
  ASSUME KindInv, TypeOK', NEW p \in Callers, RowMoves(p), UNCHANGED origin,
         \A r \in RuleIds : rules'[r] \in {rules[r], None}
                              \/ RowOK(rules'[r], r),
         \A r \in RuleIds : services'[r] \in {services[r], None}
                              \/ /\ services'[r].id # NoId
                                 /\ origin[r] # None
                                 /\ origin[r] \notin Resources
  PROVE  KindInv'
<1>1. \A r \in RuleIds : RuleExists(r)' => RowOK(rules[r], r)'
  BY DEF KindInv, RowsAgree, RuleExists, RowOK, OfKind
<1>2. PICK c : CallRowOK(c) /\ call' = [call EXCEPT ![p] = c]
  BY DEF RowMoves
<1>3. \A q \in Callers : CallRowOK(call[q])'
  BY <1>2 DEF KindInv, TypeOK, ServerTypeOK, RowsAgree, CallRowOK, OfKind, At
<1>4. RowsAgree'
  BY <1>1, <1>3 DEF RowsAgree, RowOK, CallRowOK, At
<1>5. ServicesPublic'
  BY DEF KindInv, ServicesPublic
<1> QED BY <1>4, <1>5 DEF KindInv

(* One lemma per group of actions that change the same things.               *)

LEMMA EndingsKind ==
  ASSUME KindInv, NEW p \in Callers, 
         \/ SyncPrivateResourceMediation_Set(p)
         \/ SyncPrivateResourceMediation_Error(p)
         \/ UpdateEgressRule_ReadBack(p)
         \/ PublishRuleUpdated(p)
         \/ PublishAttachmentUpdated(p)
         \/ CallFails(p)
  PROVE  KindInv'
<1>1. TypeOK'
  BY SyncSetType, SyncErrorType, UpdateReadBackType, PublishRuleType,
     PublishAttachmentType, CallFailsType DEF KindInv
<1>2. RowMoves(p)
  BY ReturnRow, PublishRow
     DEF SyncPrivateResourceMediation_Set, SyncPrivateResourceMediation_Error,
         UpdateEgressRule_ReadBack, PublishRuleUpdated,
         PublishAttachmentUpdated, CallFails, Abandon
<1>3. UNCHANGED <<origin, rules, services>>
  BY DEF SyncPrivateResourceMediation_Set, SyncPrivateResourceMediation_Error,
         UpdateEgressRule_ReadBack, PublishRuleUpdated,
         PublishAttachmentUpdated, CallFails, storeVars, zitiVars,
         historyVars
<1> QED BY <1>1, <1>2, <1>3, KindStep

LEMMA GotosKind ==
  ASSUME KindInv, NEW p \in Callers, 
         \/ DeleteEgressRule_Count(p)
         \/ CreateEgressRuleAttachment_ReadBack(p)
         \/ CreateEgressRuleAttachment_Check(p)
  PROVE  KindInv'
<1>1. TypeOK'
  BY DeleteCountType, AttachReadBackType, AttachCheckType DEF KindInv
<1>2. RowMoves(p)
  BY ReturnRow, GotoRow
     DEF DeleteEgressRule_Count, CreateEgressRuleAttachment_ReadBack,
         CreateEgressRuleAttachment_Check, At, KindInv, RowSteps,
         PublicSteps, PrivateSteps
<1>3. UNCHANGED <<origin, rules, services>>
  BY DEF DeleteEgressRule_Count, CreateEgressRuleAttachment_ReadBack,
         CreateEgressRuleAttachment_Check, storeVars, zitiVars,
         historyVars
<1> QED BY <1>1, <1>2, <1>3, KindStep

LEMMA AttachmentRowsKind ==
  ASSUME KindInv, NEW p \in Callers, 
         \/ CreateEgressRuleAttachment_Insert(p)
         \/ CreateEgressRuleAttachment_InsertError(p)
         \/ DeleteEgressRuleAttachment_Row(p)
  PROVE  KindInv'
<1>1. TypeOK'
  BY AttachInsertType, AttachInsertErrorType, DetachRowType DEF KindInv
<1>2. RowMoves(p)
  BY ReturnRow, GotoRow
     DEF CreateEgressRuleAttachment_Insert,
         CreateEgressRuleAttachment_InsertError,
         DeleteEgressRuleAttachment_Row, At, KindInv, RowSteps,
         PublicSteps, PrivateSteps
<1>3. UNCHANGED <<origin, rules, services>>
  BY DEF CreateEgressRuleAttachment_Insert,
         CreateEgressRuleAttachment_InsertError,
         DeleteEgressRuleAttachment_Row, InsertAttachment,
         DeleteAttachment, storeVars, zitiVars, historyVars
<1> QED BY <1>1, <1>2, <1>3, KindStep

LEMMA PolicyDeletionsKind ==
  ASSUME KindInv, NEW p \in Callers, 
         \/ CreateEgressRuleAttachment_Undo(p)
         \/ DeleteEgressRuleAttachment_Policy(p)
  PROVE  KindInv'
<1>1. TypeOK'
  BY AttachUndoType, DetachPolicyType DEF KindInv
<1>2. RowMoves(p)
  BY ReturnRow, GotoRow
     DEF CreateEgressRuleAttachment_Undo, DeleteEgressRuleAttachment_Policy,
         At, KindInv, Abandon, RowSteps, PublicSteps, PrivateSteps
<1>3. UNCHANGED <<origin, rules, services>>
  BY DEF CreateEgressRuleAttachment_Undo, DeleteEgressRuleAttachment_Policy,
         DeleteServicePolicy, storeVars, zitiVars, historyVars
<1> QED BY <1>1, <1>2, <1>3, KindStep

LEMMA AttachPolicyKind ==
  ASSUME KindInv, NEW p \in Callers, CreateEgressRuleAttachment_Policy(p)
  PROVE  KindInv'
<1>1. TypeOK'
  BY AttachPolicyType DEF KindInv
<1>2. PICK c : c.at = "attach.insert" /\ call' = [call EXCEPT ![p] = c]
  BY DEF CreateEgressRuleAttachment_Policy, Idle
<1>3. RowMoves(p)
  BY <1>2 DEF RowMoves, CallRowOK, RowSteps, PublicSteps, PrivateSteps
<1>4. UNCHANGED <<origin, rules, services>>
  BY DEF CreateEgressRuleAttachment_Policy, CreateServicePolicy, storeVars
<1> QED BY <1>1, <1>3, <1>4, KindStep

LEMMA DetachKind ==
  ASSUME KindInv, NEW p \in Callers, DeleteEgressRuleAttachment(p)
  PROVE  KindInv'
<1>1. TypeOK'
  BY DetachType DEF KindInv
<1>2. PICK c : c.at = "detach.row" /\ call' = [call EXCEPT ![p] = c]
  BY DEF DeleteEgressRuleAttachment, Idle
<1>3. RowMoves(p)
  BY <1>2 DEF RowMoves, CallRowOK, RowSteps, PublicSteps, PrivateSteps
<1>4. UNCHANGED <<origin, rules, services>>
  BY DEF DeleteEgressRuleAttachment, storeVars, zitiVars, historyVars
<1> QED BY <1>1, <1>3, <1>4, KindStep

LEMMA DeleteKind ==
  ASSUME KindInv, NEW p \in Callers, DeleteEgressRule(p)
  PROVE  KindInv'
<1>1. TypeOK'
  BY DeleteType DEF KindInv
<1>2. PICK r, c :
        /\ r \in RuleIds /\ RuleExists(r)
        /\ c.at = "delete.count" /\ c.rule = r /\ c.row = rules[r]
        /\ call' = [call EXCEPT ![p] = c]
  BY DEF DeleteEgressRule, Idle
<1>3. CallRowOK(c)
  BY <1>2, RowsAgreeDef DEF KindInv, RowOK, CallRowOK
<1>4. RowMoves(p)
  BY <1>2, <1>3 DEF RowMoves
<1>5. UNCHANGED <<origin, rules, services>>
  BY DEF DeleteEgressRule, storeVars, zitiVars, historyVars
<1> QED BY <1>1, <1>4, <1>5, KindStep

LEMMA AttachKind ==
  ASSUME KindInv, NEW p \in Callers, CreateEgressRuleAttachment(p)
  PROVE  KindInv'
<1>1. TypeOK'
  BY AttachType DEF KindInv
<1>2. PICK r, c :
        /\ r \in RuleIds /\ RuleExists(r)
        /\ c.at = "attach.check" /\ c.rule = r /\ c.row = rules[r]
        /\ call' = [call EXCEPT ![p] = c]
  BY DEF CreateEgressRuleAttachment, Idle
<1>3. CallRowOK(c)
  BY <1>2, RowsAgreeDef DEF KindInv, RowOK, CallRowOK
<1>4. RowMoves(p)
  BY <1>2, <1>3 DEF RowMoves
<1>5. UNCHANGED <<origin, rules, services>>
  BY DEF CreateEgressRuleAttachment, storeVars, zitiVars, historyVars
<1> QED BY <1>1, <1>4, <1>5, KindStep

LEMMA ReadBackKind ==
  ASSUME KindInv, NEW p \in Callers, CreateEgressRule_ReadBack(p)
  PROVE  KindInv'
<1>1. TypeOK'
  BY ReadBackType DEF KindInv
<1> DEFINE r == call[p].rule
           c == [call[p] EXCEPT !.at = "sync.count", !.row = rules[r]]
<1>2. r \in RuleIds
  BY DEF KindInv, TypeOK, ServerTypeOK, CreateEgressRule_ReadBack, At, CallOK,
         RuleSteps
<1>3. UNCHANGED <<origin, rules, services>>
  BY DEF CreateEgressRule_ReadBack, storeVars, zitiVars, historyVars
<1>4. CASE RuleExists(r) /\ IsPrivateTarget(rules[r])
  <2>1. c.at = "sync.count" /\ c.row = rules[r] /\ c.rule = r
    BY DEF KindInv, TypeOK, ServerTypeOK, Call
  <2>2. call' = [call EXCEPT ![p] = c]
    BY <1>2, <1>4 DEF KindInv, TypeOK, ServerTypeOK,
                      CreateEgressRule_ReadBack
  <2> HIDE DEF c
  <2>3. CallRowOK(c)
    BY <1>2, <1>4, <2>1, RowsAgreeDef DEF KindInv, RowOK, CallRowOK
  <2>4. RowMoves(p)
    BY <2>2, <2>3 DEF RowMoves
  <2> QED BY <1>1, <1>3, <2>4, KindStep
<1>5. CASE GotoPublishRule(p) \/ Return(p)
  BY <1>1, <1>3, <1>5, ReturnRow, PublishRow, KindStep
<1> QED BY <1>4, <1>5 DEF CreateEgressRule_ReadBack

LEMMA SyncCountKind ==
  ASSUME KindInv, NEW p \in Callers, SyncPrivateResourceMediation_Count(p)
  PROVE  KindInv'
<1>1. TypeOK'
  BY SyncCountType DEF KindInv
<1> DEFINE c == [call[p] EXCEPT !.at = "sync.set",
                                !.mediate = Referenced(call[p].row.matcher)]
<1>2. c.at = "sync.set" /\ c.row = call[p].row /\ c.rule = call[p].rule
  BY DEF KindInv, TypeOK, ServerTypeOK, Call
<1>3. call' = [call EXCEPT ![p] = c]
  BY DEF KindInv, TypeOK, ServerTypeOK, SyncPrivateResourceMediation_Count
<1> HIDE DEF c
<1>4. CallRowOK(c)
  BY <1>2 DEF KindInv, RowsAgree, CallRowOK, At, RowSteps, PrivateSteps,
              SyncPrivateResourceMediation_Count
<1>5. RowMoves(p)
  BY <1>3, <1>4 DEF RowMoves
<1>6. UNCHANGED <<origin, rules, services>>
  BY DEF SyncPrivateResourceMediation_Count, storeVars, zitiVars,
         historyVars
<1> QED BY <1>1, <1>5, <1>6, KindStep

LEMMA UpdateKind ==
  ASSUME KindInv, NEW p \in Callers, UpdateEgressRule(p)
  PROVE  KindInv'
<1>1. TypeOK'
  BY UpdateType DEF KindInv
<1>2. PICK r, want, c :
        /\ r \in RuleIds /\ want \in Matchers \cup {None}
        /\ RuleExists(r)
        /\ want # None => MayRepoint(rules[r], want)
        /\ c.at # "create.service" /\ c.rule = r
        /\ c.row = IF want = None THEN rules[r]
                   ELSE [rules[r] EXCEPT !.matcher = want]
        /\ call' = [call EXCEPT ![p] = c]
  BY DEF UpdateEgressRule, Idle
<1>3. rules[r] \in Row /\ RowOK(rules[r], r)
  BY <1>2, RowsAgreeDef DEF KindInv, TypeOK, StoreTypeOK, RuleExists
<1>4. RowOK(c.row, r)
  <2>1. CASE want = None
    BY <1>2, <1>3, <2>1
  <2>2. CASE want # None
    <3>1. /\ c.row.matcher = want
          /\ c.row.service = rules[r].service
          /\ PrivateResourceOf(want) = PrivateResourceOf(rules[r].matcher)
      BY <1>2, <1>3, <2>2 DEF Row, MayRepoint
    <3> QED BY <1>2, <1>3, <2>2, <3>1, StoreAssumption
            DEF RowOK, OfKind, IsPrivateTarget, PrivateResourceOf, Matchers,
                Row, StoreAssumption
  <2> QED BY <2>1, <2>2
<1>5. CallRowOK(c)
  BY <1>2, <1>4 DEF CallRowOK, RowOK
<1>6. RowMoves(p)
  BY <1>2, <1>5 DEF RowMoves
<1>7. UNCHANGED <<origin, rules, services>>
  BY DEF UpdateEgressRule, storeVars, zitiVars, historyVars
<1> QED BY <1>1, <1>6, <1>7, KindStep

LEMMA InsertKind ==
  ASSUME KindInv, NEW p \in Callers, 
         \/ CreateEgressRule_Insert(p)
         \/ CreateEgressRule_InsertError(p)
  PROVE  KindInv'
<1>1. TypeOK'
  BY InsertStepType, InsertErrorType DEF KindInv
<1>2. RowMoves(p)
  BY ReturnRow, GotoRow
     DEF CreateEgressRule_Insert, CreateEgressRule_InsertError, At, KindInv,
         RowSteps, PublicSteps, PrivateSteps
<1>3. UNCHANGED <<origin, services>>
  BY DEF CreateEgressRule_Insert, CreateEgressRule_InsertError, zitiVars,
         historyVars
<1>4. call[p].rule \in RuleIds /\ RowOK(call[p].row, call[p].rule)
  BY DEF CreateEgressRule_Insert, CreateEgressRule_InsertError, At, KindInv,
         TypeOK, ServerTypeOK, CallOK, RowsAgree, RowOK, RuleSteps,
         RowSteps, PublicSteps, PrivateSteps
<1>5. \A r \in RuleIds : rules'[r] \in {rules[r], None}
                           \/ RowOK(rules'[r], r)
  BY <1>4 DEF CreateEgressRule_Insert, CreateEgressRule_InsertError, InsertRule,
         KindInv, TypeOK, StoreTypeOK, storeVars
<1> QED BY <1>1, <1>2, <1>3, <1>5, KindStep

LEMMA WriteKind ==
  ASSUME KindInv, NEW p \in Callers, UpdateEgressRule_Write(p)
  PROVE  KindInv'
<1>1. TypeOK'
  BY WriteType DEF KindInv
<1>2. RowMoves(p)
  BY ReturnRow, GotoRow
     DEF UpdateEgressRule_Write, At, KindInv, RowSteps, PublicSteps,
         PrivateSteps
<1>3. UNCHANGED <<origin, services>>
  BY DEF UpdateEgressRule_Write, zitiVars, historyVars
<1>4. call[p].rule \in RuleIds /\ RowOK(call[p].row, call[p].rule)
  BY DEF UpdateEgressRule_Write, At, KindInv, TypeOK, ServerTypeOK, CallOK,
         RowsAgree, RowOK, RuleSteps, RowSteps, PublicSteps,
         PrivateSteps
<1>5. \A r \in RuleIds : rules'[r] \in {rules[r], None}
                           \/ RowOK(rules'[r], r)
  BY <1>4 DEF UpdateEgressRule_Write, UpdateRule, KindInv, TypeOK, StoreTypeOK,
         storeVars
<1> QED BY <1>1, <1>2, <1>3, <1>5, KindStep

LEMMA DeleteRowKind ==
  ASSUME KindInv, NEW p \in Callers, DeleteEgressRule_Row(p)
  PROVE  KindInv'
<1>1. TypeOK'
  BY DeleteRowType DEF KindInv
<1>2. RowMoves(p)
  BY ReturnRow, GotoRow
     DEF DeleteEgressRule_Row, At, KindInv, RowSteps, PublicSteps, PrivateSteps
<1>3. UNCHANGED <<origin, services>>
  BY DEF DeleteEgressRule_Row, zitiVars, historyVars
<1>4. \A r \in RuleIds : rules'[r] \in {rules[r], None}
  BY DEF DeleteEgressRule_Row, DeleteRule, storeVars, KindInv, TypeOK, StoreTypeOK
<1> QED BY <1>1, <1>2, <1>3, <1>4, KindStep

LEMMA AttachSaveKind ==
  ASSUME KindInv, NEW p \in Callers, CreateEgressRuleAttachment_SaveServiceId(p)
  PROVE  KindInv'
<1>1. TypeOK'
  BY AttachSaveType DEF KindInv
<1> DEFINE c == call[p]
<1>2. RowMoves(p)
  BY ReturnRow, GotoRow
     DEF CreateEgressRuleAttachment_SaveServiceId, At, KindInv, RowSteps,
         PublicSteps, PrivateSteps
<1>3. UNCHANGED <<origin, services>>
  BY DEF CreateEgressRuleAttachment_SaveServiceId, zitiVars, historyVars
<1>4. /\ c.rule \in RuleIds /\ RowOK(c.row, c.rule)
      /\ c.row.matcher \in Domains
  BY DEF CreateEgressRuleAttachment_SaveServiceId, At, KindInv, TypeOK,
         ServerTypeOK, CallOK, RowsAgree, RowOK, RuleSteps, RowSteps,
         PublicSteps, PrivateSteps
<1>5. ASSUME UpdateRuleServiceID(c.rule, c.row.service)
      PROVE  RowOK(rules'[c.rule], c.rule)
  <2>1. rules[c.rule] \in Row /\ RowOK(rules[c.rule], c.rule)
    BY <1>4, <1>5, RowsAgreeDef
       DEF KindInv, TypeOK, StoreTypeOK, UpdateRuleServiceID, RuleExists
  <2>2. /\ rules'[c.rule].matcher = rules[c.rule].matcher
        /\ rules'[c.rule].service = c.row.service
    BY <1>4, <1>5, <2>1
       DEF KindInv, TypeOK, StoreTypeOK, UpdateRuleServiceID, Row
  <2> QED BY <1>4, <2>1, <2>2, StoreAssumption
          DEF RowOK, OfKind, IsPrivateTarget, PrivateResourceOf, Row,
              Matchers, StoreAssumption
<1>6. \A r \in RuleIds : rules'[r] \in {rules[r], None}
                           \/ RowOK(rules'[r], r)
  BY <1>4, <1>5 DEF CreateEgressRuleAttachment_SaveServiceId,
     UpdateRuleServiceID, KindInv, TypeOK, StoreTypeOK, storeVars
<1> QED BY <1>1, <1>2, <1>3, <1>6, KindStep

LEMMA UndoKind ==
  ASSUME KindInv, NEW p \in Callers, CreateEgressRule_Undo(p)
  PROVE  KindInv'
<1>1. TypeOK'
  BY UndoType DEF KindInv
<1>2. RowMoves(p)
  BY ReturnRow DEF CreateEgressRule_Undo
<1>3. UNCHANGED <<origin, rules>>
  BY DEF CreateEgressRule_Undo, storeVars, historyVars
<1>4. \A r \in RuleIds : services'[r] \in {services[r], None}
  BY DEF CreateEgressRule_Undo, DeleteService
<1> QED BY <1>1, <1>2, <1>3, <1>4, KindStep

LEMMA DeleteServiceKind ==
  ASSUME KindInv, NEW p \in Callers, DeleteEgressRule_Service(p)
  PROVE  KindInv'
<1>1. TypeOK'
  BY DeleteServiceStepType DEF KindInv
<1>2. RowMoves(p)
  BY ReturnRow, PublishRow, GotoRow
     DEF DeleteEgressRule_Service, At, KindInv, Abandon, RowSteps,
         PublicSteps, PrivateSteps
<1>3. UNCHANGED <<origin, rules>>
  BY DEF DeleteEgressRule_Service, storeVars, historyVars
<1>4. \A r \in RuleIds : services'[r] \in {services[r], None}
  BY DEF DeleteEgressRule_Service, DeleteService, zitiVars
<1> QED BY <1>1, <1>2, <1>3, <1>4, KindStep

LEMMA UpdateServiceKind ==
  ASSUME KindInv, NEW p \in Callers, UpdateEgressRule_Service(p)
  PROVE  KindInv'
<1>1. TypeOK'
  BY UpdateServiceStepType DEF KindInv
<1>2. RowMoves(p)
  BY ReturnRow, GotoRow
     DEF UpdateEgressRule_Service, At, KindInv, RowSteps, PublicSteps,
         PrivateSteps
<1>3. UNCHANGED <<origin, rules>>
  BY DEF UpdateEgressRule_Service, storeVars, historyVars
<1>4. \A r \in RuleIds : services'[r] \in {services[r], None}
                           \/ /\ services'[r].id # NoId
                              /\ origin[r] # None
                              /\ origin[r] \notin Resources
  BY DEF UpdateEgressRule_Service, UpdateService, ServiceHasId, KindInv,
         ServicesPublic, zitiVars
<1> QED BY <1>1, <1>2, <1>3, <1>4, KindStep

(* A service made for a public row is of a public rule and has an id.        *)
LEMMA CreateServiceKind ==
  ASSUME KindInv, NEW r \in RuleIds, NEW row \in Row, OfKind(row, r),
         row.matcher \in Domains, CreateService(r, row.matcher)
  PROVE  /\ CreatedServiceId(r) # NoId
         /\ \A q \in RuleIds : services'[q] = services[q]
                                 \/ /\ services'[q].id # NoId
                                    /\ origin[q] # None
                                    /\ origin[q] \notin Resources
<1>1. origin[r] # None /\ origin[r] \notin Resources
  BY StoreAssumption DEF OfKind, PrivateResourceOf, StoreAssumption
<1>2. CASE services[r] = None
  <2>1. services' = [services EXCEPT
           ![r] = [id |-> serviceIds + 1, intercept |-> row.matcher]]
    BY <1>2 DEF CreateService
  <2>2. serviceIds + 1 # NoId
    BY DEF KindInv, TypeOK, ZitiTypeOK
  <2> QED BY <1>1, <2>1, <2>2
          DEF KindInv, TypeOK, ZitiTypeOK, CreatedServiceId
<1>3. CASE services[r] # None
  BY <1>3 DEF CreateService, CreatedServiceId, KindInv, ServicesPublic
<1> QED BY <1>2, <1>3

LEMMA CreateServiceStepKind ==
  ASSUME KindInv, NEW p \in Callers, CreateEgressRule_Service(p)
  PROVE  KindInv'
<1>1. TypeOK'
  BY CreateServiceStepType DEF KindInv
<1> DEFINE r == call[p].rule
           row == call[p].row
           c == [call[p] EXCEPT !.at = "create.insert",
                                !.row.service = CreatedServiceId(r)]
<1>2. r \in RuleIds /\ row \in Row /\ row.matcher \in Domains /\ OfKind(row, r)
  BY DEF CreateEgressRule_Service, At, KindInv, TypeOK, ServerTypeOK,
         CallOK, RowsAgree, RuleSteps, RowSteps, PublicSteps
<1>3. CreateService(r, row.matcher)
  BY DEF CreateEgressRule_Service
<1>4. /\ c.rule = r /\ c.row.matcher = row.matcher
      /\ c.row.service = CreatedServiceId(r)
  BY <1>2 DEF KindInv, TypeOK, ServerTypeOK, Call, Row
<1>5. call' = [call EXCEPT ![p] = c]
  BY DEF CreateEgressRule_Service, KindInv, TypeOK, ServerTypeOK
<1> HIDE DEF c
<1>6. CallRowOK(c)
  BY <1>2, <1>3, <1>4, CreateServiceKind, StoreAssumption
     DEF CallRowOK, OfKind, IsPrivateTarget, StoreAssumption
<1>7. RowMoves(p)
  BY <1>5, <1>6 DEF RowMoves
<1>8. UNCHANGED <<origin, rules>>
  BY DEF CreateEgressRule_Service, storeVars, historyVars
<1> QED BY <1>1, <1>2, <1>3, <1>7, <1>8, CreateServiceKind, KindStep

LEMMA ReconcileRuleServiceKind ==
  ASSUME KindInv, NEW r \in RuleIds, NEW row \in Row, RowOK(row, r),
         row.matcher \in Domains, ReconcileRuleService(r, row)
  PROVE  /\ ReconciledServiceId(r, row) # NoId
         /\ \A q \in RuleIds : services'[q] = services[q]
                                 \/ /\ services'[q].id # NoId
                                    /\ origin[q] # None
                                    /\ origin[q] \notin Resources
<1>1. row.service # NoId
  BY StoreAssumption DEF RowOK, IsPrivateTarget, StoreAssumption
<1>2. CASE ServiceHasId(r, row.service)
  BY <1>1, <1>2 DEF ReconcileRuleService, ReconciledServiceId, zitiVars
<1>3. CASE ~ServiceHasId(r, row.service)
  BY <1>3, CreateServiceKind
     DEF ReconcileRuleService, ReconciledServiceId, RowOK
<1> QED BY <1>2, <1>3

LEMMA AttachServiceKind ==
  ASSUME KindInv, NEW p \in Callers, CreateEgressRuleAttachment_Service(p)
  PROVE  KindInv'
<1>1. TypeOK'
  BY AttachServiceType DEF KindInv
<1> DEFINE r   == call[p].rule
           row == call[p].row
           id  == ReconciledServiceId(r, row)
           c   == [call[p] EXCEPT
                    !.at = IF id = row.service THEN "attach.policy"
                                               ELSE "attach.serviceid",
                    !.row.service = id]
<1>2. r \in RuleIds /\ row \in Row /\ row.matcher \in Domains /\ RowOK(row, r)
  BY DEF CreateEgressRuleAttachment_Service, At, KindInv, TypeOK,
         ServerTypeOK, CallOK, RowsAgree, RowOK, RuleSteps, RowSteps,
         PublicSteps
<1>3. ReconcileRuleService(r, row)
  BY DEF CreateEgressRuleAttachment_Service
<1>4. call' = [call EXCEPT ![p] = c]
  BY DEF CreateEgressRuleAttachment_Service, KindInv, TypeOK, ServerTypeOK
<1>5. id # NoId
  BY <1>2, <1>3, ReconcileRuleServiceKind
<1>6. c.rule = r /\ c.row.matcher = row.matcher /\ c.row.service = id
  <2> HIDE DEF id
  <2> QED BY <1>2 DEF KindInv, TypeOK, ServerTypeOK, Call, Row
<1> HIDE DEF c, id
<1>7. CallRowOK(c)
  BY <1>2, <1>5, <1>6, StoreAssumption
     DEF CallRowOK, RowOK, OfKind, IsPrivateTarget, StoreAssumption
<1>8. RowMoves(p)
  BY <1>4, <1>7 DEF RowMoves
<1>9. UNCHANGED <<origin, rules>>
  BY DEF CreateEgressRuleAttachment_Service, storeVars, historyVars
<1> QED BY <1>1, <1>2, <1>3, <1>8, <1>9, ReconcileRuleServiceKind, KindStep

LEMMA CreateKind ==
  ASSUME KindInv, NEW p \in Callers, CreateEgressRule(p)
  PROVE  KindInv'
<1>1. TypeOK'
  BY CreateType DEF KindInv
<1>a. PICK r \in RuleIds, m \in Matchers :
        /\ origin[r] = None
        /\ origin' = [origin EXCEPT ![r] = m]
        /\ call' = [call EXCEPT ![p] = [Idle EXCEPT
             !.at = IF m \in Resources THEN "create.insert"
                                       ELSE "create.service",
             !.rule = r, !.row = [matcher |-> m, service |-> NoId]]]
  BY DEF CreateEgressRule
<1> DEFINE c == [Idle EXCEPT !.at = IF m \in Resources THEN "create.insert"
                                                       ELSE "create.service",
                             !.rule = r,
                             !.row = [matcher |-> m, service |-> NoId]]
<1>2. /\ origin[r] = None
      /\ origin' = [origin EXCEPT ![r] = m]
      /\ c.at = (IF m \in Resources THEN "create.insert"
                                    ELSE "create.service")
      /\ c.rule = r /\ c.row = [matcher |-> m, service |-> NoId]
      /\ call' = [call EXCEPT ![p] = c]
  BY <1>a DEF Idle
<1> HIDE DEF c
<1>3. UNCHANGED <<rules, services>>
  BY DEF CreateEgressRule, storeVars, zitiVars
<1>4. origin'[r] = m /\ m # None
  BY <1>2, StoreAssumption
     DEF KindInv, TypeOK, ServerTypeOK, Matchers, StoreAssumption
<1>5. \A q \in RuleIds : origin[q] # None => origin'[q] = origin[q]
  BY <1>2 DEF KindInv, TypeOK, ServerTypeOK
<1>6. \A q \in RuleIds : RuleExists(q)' => RowOK(rules[q], q)'
  BY <1>3, <1>5, RowsAgreeDef DEF KindInv, RowOK, OfKind, RuleExists
<1>7. CallRowOK(c)'
  BY <1>2, <1>4 DEF CallRowOK, OfKind, IsPrivateTarget
<1>8. \A q \in Callers : CallRowOK(call[q])'
  <2> SUFFICES ASSUME NEW q \in Callers, q # p
               PROVE  CallRowOK(call[q])'
    BY <1>2, <1>7 DEF KindInv, TypeOK, ServerTypeOK
  <2>1. call'[q] = call[q] /\ CallRowOK(call[q]) /\ CallOK(call[q])
    BY <1>2, RowsAgreeDef DEF KindInv, TypeOK, ServerTypeOK
  <2> QED BY <1>5, <2>1
          DEF CallRowOK, CallOK, OfKind, RuleSteps
<1>9. RowsAgree'
  BY <1>6, <1>8 DEF RowsAgree, RowOK, CallRowOK, At
<1>10. ServicesPublic'
  BY <1>3, <1>5 DEF KindInv, ServicesPublic
<1> QED BY <1>1, <1>9, <1>10 DEF KindInv

LEMMA CrashKind ==
  ASSUME KindInv, Crash
  PROVE  KindInv'
<1>1. TypeOK'
  BY CrashType DEF KindInv
<1>2. UNCHANGED <<rules, services, origin>>
  BY DEF Crash, storeVars, zitiVars, historyVars
<1>3. \A p \in Callers : call'[p].at \notin RowSteps
  BY DEF Crash, Idle, RowSteps, PublicSteps, PrivateSteps
<1>4. RowsAgree'
  BY <1>2, <1>3 DEF KindInv, RowsAgree, RuleExists, OfKind
<1> QED BY <1>1, <1>2, <1>4 DEF KindInv, ServicesPublic

(* No step lets a row of the wrong kind in.                                  *)
LEMMA ServerNextKind ==
  ASSUME KindInv, [ServerNext]_allVars
  PROVE  KindInv'
<1>1. ASSUME NEW p \in Callers, CallStep(p)
      PROVE  KindInv'
  BY <1>1, EndingsKind, GotosKind, AttachmentRowsKind, PolicyDeletionsKind,
     AttachPolicyKind, DetachKind, DeleteKind, AttachKind,
     ReadBackKind, SyncCountKind, UpdateKind, InsertKind,
     WriteKind, DeleteRowKind, AttachSaveKind, UndoKind,
     DeleteServiceKind, UpdateServiceKind, CreateServiceStepKind,
     AttachServiceKind, CreateKind
     DEF CallStep, RuleStep, AttachmentStep
<1>2. CASE UNCHANGED allVars
  <2>1. TypeOK'
    BY <1>2, ServerNextType DEF KindInv
  <2> QED BY <1>2, <2>1
          DEF allVars, storeVars, zitiVars, serverVars, KindInv, RowsAgree,
              OfKind, RuleExists, At, ServicesPublic
<1> QED BY <1>1, <1>2, CrashKind DEF ServerNext

(* However stale the row a handler works from, it has the kind and the       *)
(* resource the rule was created with, and a service id exactly if the rule  *)
(* is public.                                                                *)
THEOREM RowsAlwaysAgree == ServerSpec => []RowsAgree
<1>1. Init => KindInv
  BY InitKind
<1>2. KindInv /\ [ServerNext]_allVars => KindInv'
  BY ServerNextKind
<1>3. KindInv => RowsAgree
  BY DEF KindInv
<1> QED BY <1>1, <1>2, <1>3, PTL DEF ServerSpec

LEMMA KindImpliesServiceIdIffPublic == KindInv => ServiceIdIffPublic
BY DEF KindInv, RowsAgree, ServicesPublic, ServiceIdIffPublic

(* A private rule never owns a service; a stored row has a service id        *)
(* exactly if it is public.                                                  *)
THEOREM PrivateOwnsNoService == ServerSpec => []ServiceIdIffPublic
<1>1. Init => KindInv
  BY InitKind
<1>2. KindInv /\ [ServerNext]_allVars => KindInv'
  BY ServerNextKind
<1> QED BY <1>1, <1>2, KindImpliesServiceIdIffPublic, PTL DEF ServerSpec

=============================================================================
