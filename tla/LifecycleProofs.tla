--------------------------- MODULE LifecycleProofs --------------------------
(* The life of a rule id: minted for one call, stored once, deleted once,    *)
(* and every committed change of it on its way to be announced.              *)
EXTENDS ReconcilerProofs

USE DEF NoId

---------------------------------------------------------------------------
(* What any step of a handler does to the calls and to the stored rules.     *)

LEMMA OthersStay ==
  ASSUME TypeOK, NEW p \in Callers, CallStep(p), NEW q \in Callers \ {p}
  PROVE  call'[q] = call[q]
<1>1. CASE RuleStep(p)
  BY <1>1 DEF TypeOK, ServerTypeOK, RuleStep, Goto, Return, GotoPublishRule,
     Abandon, CreateEgressRule,
     CreateEgressRule_Service, CreateEgressRule_Insert,
     CreateEgressRule_InsertError, CreateEgressRule_Undo,
     CreateEgressRule_ReadBack, SyncPrivateResourceMediation_Count,
     SyncPrivateResourceMediation_Set, SyncPrivateResourceMediation_Error,
     UpdateEgressRule, UpdateEgressRule_Service, UpdateEgressRule_Write,
     UpdateEgressRule_ReadBack, DeleteEgressRule, DeleteEgressRule_Count,
     DeleteEgressRule_Row, DeleteEgressRule_Service, PublishRuleUpdated
<1>2. CASE AttachmentStep(p)
  BY <1>2 DEF TypeOK, ServerTypeOK, AttachmentStep, Goto, Return, Abandon,
     CreateEgressRuleAttachment, CreateEgressRuleAttachment_Check,
     CreateEgressRuleAttachment_Service,
     CreateEgressRuleAttachment_SaveServiceId,
     CreateEgressRuleAttachment_Policy, CreateEgressRuleAttachment_Insert,
     CreateEgressRuleAttachment_InsertError,
     CreateEgressRuleAttachment_Undo, CreateEgressRuleAttachment_ReadBack,
     DeleteEgressRuleAttachment, DeleteEgressRuleAttachment_Row,
     DeleteEgressRuleAttachment_Policy, PublishAttachmentUpdated
<1>3. CASE CallFails(p)
  BY <1>3 DEF TypeOK, ServerTypeOK, CallFails, Abandon, Return
<1> QED BY SMTT(30), <1>1, <1>2, <1>3 DEF CallStep

(* A rule comes to be stored only by the INSERT of its create.               *)
LEMMA RulesArise ==
  ASSUME TypeOK, NEW p \in Callers, CallStep(p),
         NEW r \in RuleIds, rules'[r] # None
  PROVE  rules[r] # None \/ (r = call[p].rule /\ At(p, "create.insert"))
<1>1. CASE UNCHANGED rules
  BY <1>1
<1>2. CASE At(p, "create.insert") /\ InsertRule(call[p].rule, call[p].row)
  BY <1>2 DEF InsertRule, TypeOK, StoreTypeOK
<1>3. CASE \E row : UpdateRule(call[p].rule, row)
  BY <1>3 DEF UpdateRule, RuleExists, TypeOK, StoreTypeOK
<1>4. CASE \E id : UpdateRuleServiceID(call[p].rule, id)
  BY <1>4 DEF UpdateRuleServiceID, RuleExists, TypeOK, StoreTypeOK
<1>5. CASE DeleteRule(call[p].rule)
  BY SMTT(30), <1>5 DEF DeleteRule, TypeOK, StoreTypeOK
<1>6. CASE RuleStep(p)
  BY <1>1, <1>2, <1>3, <1>5, <1>6 DEF RuleStep, storeVars, CreateEgressRule,
     CreateEgressRule_Service, CreateEgressRule_Insert,
     CreateEgressRule_InsertError, CreateEgressRule_Undo,
     CreateEgressRule_ReadBack, SyncPrivateResourceMediation_Count,
     SyncPrivateResourceMediation_Set, SyncPrivateResourceMediation_Error,
     UpdateEgressRule, UpdateEgressRule_Service, UpdateEgressRule_Write,
     UpdateEgressRule_ReadBack, DeleteEgressRule, DeleteEgressRule_Count,
     DeleteEgressRule_Row, DeleteEgressRule_Service, PublishRuleUpdated
<1>7. CASE AttachmentStep(p)
  BY <1>1, <1>4, <1>7 DEF AttachmentStep, storeVars, InsertAttachment,
     DeleteAttachment,
     CreateEgressRuleAttachment, CreateEgressRuleAttachment_Check,
     CreateEgressRuleAttachment_Service,
     CreateEgressRuleAttachment_SaveServiceId,
     CreateEgressRuleAttachment_Policy, CreateEgressRuleAttachment_Insert,
     CreateEgressRuleAttachment_InsertError,
     CreateEgressRuleAttachment_Undo, CreateEgressRuleAttachment_ReadBack,
     DeleteEgressRuleAttachment, DeleteEgressRuleAttachment_Row,
     DeleteEgressRuleAttachment_Policy, PublishAttachmentUpdated
<1>8. CASE CallFails(p)
  BY <1>1, <1>8 DEF CallFails, storeVars
<1> QED BY <1>6, <1>7, <1>8 DEF CallStep

---------------------------------------------------------------------------
(* Who works for which rule: a call that has yet to store its rule is the    *)
(* only one that knows the id, and a rule whose row a call has deleted stays *)
(* deleted.                                                                  *)

CreateSteps == {"create.service", "create.insert"}

CreationInv ==
  /\ \A p \in Callers : call[p].rule # None => origin[call[p].rule] # None
  /\ \A p \in Callers : call[p].at \in CreateSteps =>
       /\ ~RuleExists(call[p].rule)
       /\ \A q \in Callers \ {p} : call[q].rule # call[p].rule
  /\ \A p \in Callers : At(p, "delete.service") => ~RuleExists(call[p].rule)

(* How a call may come by its rule.                                          *)
Forgets(c) == c.rule = None

GoesOn(p, c) ==
  /\ c.rule = call[p].rule
  /\ c.at # "create.service"
  /\ c.at = "create.insert" => At(p, "create.service")
  /\ c.at = "delete.service" => rules'[c.rule] = None

TakesUp(c) ==
  /\ c.rule \in RuleIds /\ RuleExists(c.rule)
  /\ c.at \notin CreateSteps /\ c.at # "delete.service"

Mints(c) ==
  /\ c.rule \in RuleIds
  /\ origin[c.rule] = None /\ origin'[c.rule] # None
  /\ c.at # "delete.service"

WorksFor(p, c) == Forgets(c) \/ GoesOn(p, c) \/ TakesUp(c) \/ Mints(c)

LEMMA CreationStep ==
  ASSUME KindInv, CreationInv, TypeOK', NEW p \in Callers, CallStep(p),
         WorksFor(p, call'[p])
  PROVE  CreationInv'
<1> DEFINE c == call'[p]
<1>1. \A q \in Callers \ {p} : call'[q] = call[q]
  BY OthersStay DEF KindInv
<1>2. \A r \in RuleIds : origin[r] # None => origin'[r] = origin[r]
  BY OriginStable DEF KindInv, ServerNext
<1>3. \A r \in RuleIds : rules'[r] # None =>
        rules[r] # None \/ (r = call[p].rule /\ At(p, "create.insert"))
  BY RulesArise DEF KindInv
<1>4. \A r \in RuleIds : RuleExists(r) => origin[r] # None
  BY DEF KindInv, RowsAgree, OfKind
<1>5. /\ \A q \in Callers : call[q].rule \in RuleIds \cup {None}
      /\ \A q \in Callers : call'[q].rule \in RuleIds \cup {None}
      /\ \A q \in Callers : call[q].at \in CreateSteps \cup {"delete.service"}
           => call[q].rule \in RuleIds
      /\ \A q \in Callers : call'[q].at \in CreateSteps \cup {"delete.service"}
           => call'[q].rule \in RuleIds
      /\ None \notin RuleIds
  BY StoreAssumption DEF KindInv, TypeOK, ServerTypeOK, CallOK, Call,
     RuleSteps, RowSteps, PublicSteps, CreateSteps, StoreAssumption
<1>6. ASSUME NEW q \in Callers, call'[q].rule # None
      PROVE  origin'[call'[q].rule] # None
  BY <1>1, <1>2, <1>4, <1>5, <1>6
     DEF CreationInv, WorksFor, Forgets, GoesOn, TakesUp, Mints
<1>7. ASSUME NEW q \in Callers, call'[q].at \in CreateSteps
      PROVE  /\ rules'[call'[q].rule] = None
             /\ \A o \in Callers \ {q} : call'[o].rule # call'[q].rule
  <2>1. CASE q = p
    BY <1>1, <1>3, <1>4, <1>5, <1>7, <2>1
       DEF CreationInv, WorksFor, Forgets, GoesOn, TakesUp, Mints, At,
           CreateSteps, RuleExists
  <2>2. CASE q # p
    BY <1>1, <1>3, <1>4, <1>5, <1>7, <2>2
       DEF CreationInv, WorksFor, Forgets, GoesOn, TakesUp, Mints, At,
           CreateSteps, RuleExists
  <2> QED BY <2>1, <2>2
<1>8. ASSUME NEW q \in Callers, call'[q].at = "delete.service"
      PROVE  rules'[call'[q].rule] = None
  BY <1>1, <1>3, <1>4, <1>5, <1>8
     DEF CreationInv, WorksFor, Forgets, GoesOn, TakesUp, Mints, At,
         CreateSteps, RuleExists
<1> QED BY <1>6, <1>7, <1>8 DEF CreationInv, At, RuleExists
(* Every step of a handler, by how its call goes on.                         *)
LEMMA ReturnForgets ==
  ASSUME TypeOK, NEW p \in Callers, Return(p)
  PROVE  Forgets(call'[p])
BY DEF Return, Idle, Forgets, TypeOK, ServerTypeOK

LEMMA PublishGoesOn ==
  ASSUME TypeOK, NEW p \in Callers, GotoPublishRule(p)
  PROVE  GoesOn(p, call'[p])
BY DEF GotoPublishRule, Idle, GoesOn, TypeOK, ServerTypeOK

LEMMA GotoGoesOn ==
  ASSUME TypeOK, NEW p \in Callers, NEW step, Goto(p, step),
         step \notin CreateSteps, step # "delete.service"
  PROVE  GoesOn(p, call'[p])
BY DEF Goto, GoesOn, CreateSteps, TypeOK, ServerTypeOK, Call

(* Steps at which the call keeps its rule, or ends.                          *)
LEMMA KeepersWork ==
  ASSUME TypeOK, NEW p \in Callers, CallStep(p),
         ~CreateEgressRule(p), ~UpdateEgressRule(p), ~DeleteEgressRule(p),
         ~CreateEgressRuleAttachment(p), ~DeleteEgressRuleAttachment(p),
         ~CreateEgressRule_Service(p), ~CreateEgressRule_ReadBack(p),
         ~SyncPrivateResourceMediation_Count(p), ~DeleteEgressRule_Row(p),
         ~CreateEgressRuleAttachment_Service(p),
         ~CreateEgressRuleAttachment_Policy(p)
  PROVE  WorksFor(p, call'[p])
<1>1. \/ Return(p) \/ GotoPublishRule(p)
      \/ \E step \in Steps \ (CreateSteps \cup {"delete.service"}) : Goto(p, step)
  BY DEF CallStep, RuleStep, AttachmentStep, Abandon,
     Steps, Committed, CreateSteps, CreateEgressRule_Insert,
     CreateEgressRule_InsertError, CreateEgressRule_Undo,
     SyncPrivateResourceMediation_Set, SyncPrivateResourceMediation_Error,
     UpdateEgressRule_Service, UpdateEgressRule_Write,
     UpdateEgressRule_ReadBack, DeleteEgressRule_Count,
     DeleteEgressRule_Service, PublishRuleUpdated,
     CreateEgressRuleAttachment_Check,
     CreateEgressRuleAttachment_SaveServiceId,
     CreateEgressRuleAttachment_Insert,
     CreateEgressRuleAttachment_InsertError,
     CreateEgressRuleAttachment_Undo, CreateEgressRuleAttachment_ReadBack,
     DeleteEgressRuleAttachment_Row,
     DeleteEgressRuleAttachment_Policy, PublishAttachmentUpdated, CallFails
<1> QED BY <1>1, ReturnForgets, PublishGoesOn, GotoGoesOn DEF WorksFor

LEMMA RowReadersWork ==
  ASSUME TypeOK, NEW p \in Callers,
         \/ CreateEgressRule_Service(p) \/ CreateEgressRule_ReadBack(p)
         \/ SyncPrivateResourceMediation_Count(p)
         \/ CreateEgressRuleAttachment_Service(p)
         \/ CreateEgressRuleAttachment_Policy(p)
  PROVE  WorksFor(p, call'[p])
<1>1. CASE Return(p) \/ GotoPublishRule(p)
  BY <1>1, ReturnForgets, PublishGoesOn DEF WorksFor
<1>2. ASSUME NEW at \in Steps \ {"create.service", "delete.service"}, NEW row,
             NEW mediate,
             call' = [call EXCEPT ![p].at = at, ![p].row = row,
                                  ![p].mediate = mediate],
             at = "create.insert" => At(p, "create.service")
      PROVE  WorksFor(p, call'[p])
  BY <1>2 DEF TypeOK, ServerTypeOK, Call, WorksFor, GoesOn
<1>3. CASE CreateEgressRule_Service(p)
  <2> DEFINE id == CreatedServiceId(call[p].rule)
  <2>1. call' = [call EXCEPT ![p].at = "create.insert", ![p].row.service = id]
    BY <1>3 DEF CreateEgressRule_Service
  <2> HIDE DEF id
  <2>2. call'[p].at = "create.insert" /\ call'[p].rule = call[p].rule
    BY <2>1 DEF TypeOK, ServerTypeOK, Call
  <2> QED BY <1>3, <2>2 DEF CreateEgressRule_Service, WorksFor, GoesOn
<1>4. CASE CreateEgressRuleAttachment_Service(p)
  <2> DEFINE id == ReconciledServiceId(call[p].rule, call[p].row)
  <2>1. call' = [call EXCEPT
          ![p].at = IF id = call[p].row.service THEN "attach.policy"
                                                ELSE "attach.serviceid",
          ![p].row.service = id]
    BY <1>4 DEF CreateEgressRuleAttachment_Service
  <2> HIDE DEF id
  <2>2. /\ call'[p].at \in {"attach.policy", "attach.serviceid"}
        /\ call'[p].rule = call[p].rule
    BY <2>1 DEF TypeOK, ServerTypeOK, Call
  <2> QED BY <2>2 DEF WorksFor, GoesOn
<1>5. CASE CreateEgressRuleAttachment_Policy(p)
  BY <1>5 DEF CreateEgressRuleAttachment_Policy, Idle, TypeOK, ServerTypeOK,
     WorksFor, GoesOn
<1>6. CASE /\ CreateEgressRule_ReadBack(p)
           /\ call' = [call EXCEPT ![p].at = "sync.count",
                                   ![p].row = rules[call[p].rule]]
  BY <1>6 DEF TypeOK, ServerTypeOK, Call, WorksFor, GoesOn
<1>7. CASE SyncPrivateResourceMediation_Count(p)
  BY <1>7 DEF SyncPrivateResourceMediation_Count, TypeOK, ServerTypeOK, Call,
     WorksFor, GoesOn
<1> QED BY <1>1, <1>3, <1>4, <1>5, <1>6, <1>7 DEF CreateEgressRule_ReadBack

LEMMA RequestsWork ==
  ASSUME TypeOK, NEW p \in Callers,
         \/ CreateEgressRule(p) \/ UpdateEgressRule(p)
         \/ DeleteEgressRule(p) \/ CreateEgressRuleAttachment(p)
         \/ DeleteEgressRuleAttachment(p) \/ DeleteEgressRule_Row(p)
  PROVE  WorksFor(p, call'[p])
<1>1. CASE CreateEgressRule(p)
  <2>1. PICK r \in RuleIds, m \in Matchers :
          /\ origin[r] = None
          /\ origin' = [origin EXCEPT ![r] = m]
          /\ call' = [call EXCEPT ![p] = [Idle EXCEPT
               !.at = IF m \in Resources THEN "create.insert"
                                         ELSE "create.service",
               !.rule = r,
               !.row = [matcher |-> m, service |-> NoId]]]
    BY <1>1 DEF CreateEgressRule
  <2>2. /\ call'[p].rule = r
        /\ call'[p].at \in {"create.insert", "create.service"}
    BY <2>1 DEF TypeOK, ServerTypeOK, Idle
  <2>3. origin'[r] # None
    BY <2>1, StoreAssumption DEF TypeOK, ServerTypeOK, StoreAssumption, Matchers
  <2> QED BY <2>1, <2>2, <2>3 DEF WorksFor, Mints
<1>2. CASE UpdateEgressRule(p)
  <2>1. PICK r \in RuleIds, want \in Matchers \cup {None} :
          /\ RuleExists(r)
          /\ call' = [call EXCEPT ![p] = [Idle EXCEPT
               !.at = IF want \in Domains /\ want # rules[r].matcher
                      THEN "update.service" ELSE "update.write",
               !.rule = r,
               !.row = IF want = None THEN rules[r]
                       ELSE [rules[r] EXCEPT !.matcher = want]]]
    BY <1>2 DEF UpdateEgressRule
  <2>2. /\ call'[p].rule = r
        /\ call'[p].at \in {"update.service", "update.write"}
    BY <2>1 DEF TypeOK, ServerTypeOK, Idle
  <2> QED BY <2>1, <2>2 DEF WorksFor, TakesUp, CreateSteps
<1>3. CASE DeleteEgressRule(p) \/ CreateEgressRuleAttachment(p)
  BY ZenonT(60), <1>3 DEF DeleteEgressRule, CreateEgressRuleAttachment, Idle,
     CreateSteps, TypeOK, ServerTypeOK, WorksFor, TakesUp
<1>4. CASE DeleteEgressRuleAttachment(p)
  BY <1>4 DEF DeleteEgressRuleAttachment, Idle, TypeOK, ServerTypeOK,
     WorksFor, Forgets
<1>5. CASE DeleteEgressRule_Row(p)
  <2>1. CASE Return(p)
    BY <2>1, ReturnForgets DEF WorksFor
  <2>2. CASE DeleteRule(call[p].rule) /\ Goto(p, "delete.service")
    <3>1. rules'[call[p].rule] = None
      BY <1>5, <2>2 DEF DeleteEgressRule_Row, At, DeleteRule, TypeOK,
         StoreTypeOK, ServerTypeOK, CallOK, RuleSteps, RowSteps
    <3>2. call'[p].at = "delete.service" /\ call'[p].rule = call[p].rule
      BY <2>2 DEF Goto, TypeOK, ServerTypeOK, Call
    <3> QED BY <3>1, <3>2 DEF WorksFor, GoesOn
  <2> QED BY <1>5, <2>1, <2>2 DEF DeleteEgressRule_Row
<1> QED BY <1>1, <1>2, <1>3, <1>4, <1>5

LEMMA CallStepCreation ==
  ASSUME KindInv, CreationInv, NEW p \in Callers, CallStep(p)
  PROVE  CreationInv'
<1>1. TypeOK'
  BY ServerNextType DEF KindInv, ServerNext
<1>2. WorksFor(p, call'[p])
  BY KeepersWork, RowReadersWork, RequestsWork DEF KindInv
<1> QED BY <1>1, <1>2, CreationStep

LEMMA IdleCreation ==
  ASSUME \A p \in Callers : call[p] = Idle
  PROVE  CreationInv
BY DEF CreationInv, Idle, CreateSteps, At

LEMMA ServerNextCreation ==
  ASSUME KindInv, CreationInv, [ServerNext]_allVars
  PROVE  CreationInv'
<1>1. CASE Crash
  <2>1. \A p \in Callers : call'[p] = Idle
    BY <1>1 DEF Crash
  <2> QED BY <2>1 DEF CreationInv, Idle, CreateSteps, At
<1>2. CASE UNCHANGED allVars
  BY <1>2 DEF allVars, storeVars, serverVars, CreationInv, At, RuleExists
<1> QED BY <1>1, <1>2, CallStepCreation DEF ServerNext

---------------------------------------------------------------------------
(* The same with the reconciler, which stores no rule that is not there.     *)

LEMMA PassStoresNoRule ==
  ASSUME ReconcilerTypeOK, PassStep \/ PassFails,
         NEW r \in RuleIds, rules'[r] # None
  PROVE  rules[r] # None
<1>1. CASE SaveServiceId
  BY <1>1 DEF SaveServiceId, UpdateRuleServiceID, RuleExists, storeVars,
     ReconcilerTypeOK, TypeOK, StoreTypeOK
<1>2. CASE ~SaveServiceId
  BY ZenonT(60), <1>2 DEF PassStep, PassFails, ListAllRules, ListAllAttachments,
     ReconcileRule, UnknownRule, AttachmentInLine, ProvisionPolicy,
     PolicyDiffers, ReplacePolicy_Delete, ReplacePolicy_Create, SavePolicyId,
     UpdateAttachmentPolicyID, ListServices, DeleteOrphanService,
     ListServicePolicies, DeleteOrphanServicePolicy, PassDone, allVars,
     storeVars
<1> QED BY <1>1, <1>2

LEMMA PassLeavesCalls ==
  ASSUME PassStep \/ PassFails
  PROVE  UNCHANGED <<call, origin, minted, unannounced, abandoned>>
BY DEF PassStep, PassFails, ListAllRules, ListAllAttachments,
   ReconcileRule, SaveServiceId, UnknownRule, AttachmentInLine,
   ProvisionPolicy, PolicyDiffers, ReplacePolicy_Delete,
   ReplacePolicy_Create, SavePolicyId, ListServices, DeleteOrphanService,
   ListServicePolicies, DeleteOrphanServicePolicy, PassDone, allVars,
   serverVars, historyVars, eventVars

LEMMA NextCreation ==
  ASSUME SystemKindInv, CreationInv, [Next]_vars
  PROVE  CreationInv'
<1>1. CASE HandlerStep \/ ProcessCrash \/ UNCHANGED vars
  BY <1>1, ServerNextCreation
     DEF HandlerStep, ProcessCrash, ServerNext, vars, SystemKindInv
<1>2. CASE PassStep \/ PassFails
  <2>1. UNCHANGED <<call, origin>>
    BY <1>2, PassLeavesCalls
  <2>2. \A r \in RuleIds : rules'[r] # None => rules[r] # None
    BY <1>2, PassStoresNoRule DEF SystemKindInv
  <2>3. \A p \in Callers : call[p].at \in CreateSteps \cup {"delete.service"}
          => call[p].rule \in RuleIds
    BY DEF SystemKindInv, ReconcilerTypeOK, TypeOK, ServerTypeOK, CallOK,
       RuleSteps, RowSteps, PublicSteps, CreateSteps
  <2> QED BY <2>1, <2>2, <2>3 DEF CreationInv, At, RuleExists
<1> QED BY <1>1, <1>2 DEF Next

ServerLifeInv == ServerIdInv /\ CreationInv

LEMMA ServerLifeInvariant == ServerSpec => []ServerLifeInv
<1>1. Init => CreationInv
  BY IdleCreation DEF Init, ServerInit
<1>2. KindInv /\ CreationInv /\ [ServerNext]_allVars => CreationInv'
  BY ServerNextCreation
<1>3. ServerIdInv => KindInv
  BY DEF ServerIdInv
<1> QED BY <1>1, <1>2, <1>3, ServerIdInvariant, PTL
        DEF ServerSpec, ServerLifeInv

SystemLifeInv == SystemIdInv /\ CreationInv

LEMMA SystemLifeInvariant == Spec => []SystemLifeInv
<1>1. ReconcilerInit => CreationInv
  BY IdleCreation DEF ReconcilerInit, Init, ServerInit
<1>2. SystemKindInv /\ CreationInv /\ [Next]_vars => CreationInv'
  BY NextCreation
<1>3. SystemIdInv => SystemKindInv
  BY DEF SystemIdInv
<1> QED BY <1>1, <1>2, <1>3, SystemIdInvariant, PTL DEF Spec, SystemLifeInv

(* A deleted rule stays deleted: an update or a write-back of a service id   *)
(* computed from its row finds nothing to write to.                          *)
THEOREM DeletedStaysDeleted == Spec => NoResurrection
<1>1. ASSUME SystemKindInv, [Next]_vars, NEW r \in RuleIds,
             ~RuleExists(r), ~BeingCreated(r)
      PROVE  rules'[r] = None
  <2>1. CASE HandlerStep
    BY <1>1, <2>1, RulesArise DEF HandlerStep, RuleExists, BeingCreated, At,
       SystemKindInv, KindInv
  <2>2. CASE PassStep \/ PassFails
    BY <1>1, <2>2, PassStoresNoRule DEF SystemKindInv, RuleExists
  <2>3. CASE ProcessCrash \/ UNCHANGED vars
    BY <1>1, <2>3 DEF ProcessCrash, Crash, vars, allVars, storeVars, RuleExists
  <2> QED BY <1>1, <2>1, <2>2, <2>3 DEF Next
<1>2. SystemKindInv /\ [Next]_vars =>
        [\A r \in RuleIds :
           origin[r] # None /\ ~RuleExists(r) /\ ~BeingCreated(r)
             => rules'[r] = None]_allVars
  BY <1>1
<1> QED BY <1>2, SystemKindInvariant, PTL DEF Spec, NoResurrection

(* The two steps of handlers that can take a service away.                   *)
LEMMA ServicesGo ==
  ASSUME TypeOK, NEW p \in Callers, CallStep(p),
         NEW r \in RuleIds, services[r] # None, services'[r] = None
  PROVE  /\ CreateEgressRule_Undo(p) \/ DeleteEgressRule_Service(p)
         /\ DeleteService(call[p].row.service)
<1>1. ASSUME NEW q, NEW d, CreateService(q, d)
      PROVE  FALSE
  BY <1>1 DEF CreateService, TypeOK, ZitiTypeOK
<1>2. CASE UpdateEgressRule_Service(p)
  <2>1. call[p].row \in Row /\ call[p].row.matcher \in Domains
    BY <1>2 DEF UpdateEgressRule_Service, At, TypeOK, ServerTypeOK, CallOK,
       RowSteps, PublicSteps
  <2>2. [id |-> call[p].row.service, intercept |-> call[p].row.matcher] # None
    BY SMTT(30), <2>1, ZitiAssumption DEF Row, Service
  <2> QED BY <1>2, <2>2 DEF UpdateEgressRule_Service, UpdateService, zitiVars
<1>3. CASE RuleStep(p)
  BY <1>1, <1>2, <1>3 DEF RuleStep, zitiVars, CreateEgressRule,
     CreateEgressRule_Service, CreateEgressRule_Insert,
     CreateEgressRule_InsertError, CreateEgressRule_Undo,
     CreateEgressRule_ReadBack, SyncPrivateResourceMediation_Count,
     SyncPrivateResourceMediation_Set, SyncPrivateResourceMediation_Error,
     UpdateEgressRule, UpdateEgressRule_Service, UpdateEgressRule_Write,
     UpdateEgressRule_ReadBack, DeleteEgressRule, DeleteEgressRule_Count,
     DeleteEgressRule_Row, DeleteEgressRule_Service, PublishRuleUpdated
<1>4. CASE AttachmentStep(p)
  <2>1. UNCHANGED services \/ \E q, d : CreateService(q, d)
    BY <1>4 DEF AttachmentStep, zitiVars, ReconcileRuleService,
       CreateServicePolicy, DeleteServicePolicy,
       CreateEgressRuleAttachment, CreateEgressRuleAttachment_Check,
       CreateEgressRuleAttachment_Service,
       CreateEgressRuleAttachment_SaveServiceId,
       CreateEgressRuleAttachment_Policy, CreateEgressRuleAttachment_Insert,
       CreateEgressRuleAttachment_InsertError,
       CreateEgressRuleAttachment_Undo, CreateEgressRuleAttachment_ReadBack,
       DeleteEgressRuleAttachment, DeleteEgressRuleAttachment_Row,
       DeleteEgressRuleAttachment_Policy, PublishAttachmentUpdated
  <2> QED BY <1>1, <2>1
<1>5. CASE CallFails(p)
  BY <1>5 DEF CallFails, zitiVars
<1> QED BY <1>3, <1>4, <1>5 DEF CallStep

(* No handler takes the service of a stored rule, unless a create of it      *)
(* failed: the row a delete worked from is gone when it deletes the service.   *)
LEMMA HandlersSpare ==
  ASSUME KindInv, IdsOwned, CreationInv, NEW p \in Callers, CallStep(p),
         NEW r \in RuleIds, services[r] # None, services'[r] = None
  PROVE  \/ ~RuleExists(r)
         \/ At(p, "create.undo") /\ call[p].rule = r
<1> USE DEF KindInv
<1> DEFINE id == call[p].row.service
<1>1. /\ CreateEgressRule_Undo(p) \/ DeleteEgressRule_Service(p)
      /\ DeleteService(id)
  BY ServicesGo
<1>2. call[p].at \in {"create.undo", "delete.service"}
  BY <1>1 DEF CreateEgressRule_Undo, DeleteEgressRule_Service, At
<1>3. ServiceHasId(r, id)
  BY <1>1 DEF DeleteService
<1>4. id \in ServiceIds
  BY <1>3 DEF ServiceHasId, ServicesPublic, TypeOK, ZitiTypeOK, Service,
     ServiceIds
<1>5. call[p].at \in RowSteps /\ call[p].rule \in RuleIds
  BY <1>2 DEF TypeOK, ServerTypeOK, CallOK, RuleSteps, RowSteps
<1>6. Held(r, id) /\ Held(call[p].rule, id)
  BY <1>3, <1>5 DEF Held, InCall
<1>7. call[p].rule = r
  BY <1>4, <1>5, <1>6 DEF IdsOwned
<1> QED BY <1>2, <1>7 DEF CreationInv, At

(* No handler takes the service from under a stored rule: the service of a   *)
(* row a delete worked from is that of its own rule, whose row is gone by    *)
(* then, and the clean-up of a create deletes its own rule's service only.   *)
THEOREM StoredRuleKeepsService == ServerSpec => LiveRuleKeepsService
<1>1. ASSUME ServerLifeInv, NEW p \in Callers, CallStep(p), NEW r \in RuleIds,
             services[r] # None, services'[r] = None
      PROVE  \/ ~RuleExists(r)
             \/ At(p, "create.undo") /\ call[p].rule = r
  BY <1>1, HandlersSpare DEF ServerLifeInv, ServerIdInv
<1>2. ASSUME ServerLifeInv, [ServerNext]_allVars, NEW r \in RuleIds,
             RuleExists(r), services[r] # None, services'[r] = None
      PROVE  \E p \in Callers : At(p, "create.undo") /\ call[p].rule = r
  BY <1>1, <1>2 DEF ServerNext, Crash, allVars, zitiVars
<1>3. ServerLifeInv /\ [ServerNext]_allVars =>
        [\A r \in RuleIds :
           /\ RuleExists(r) /\ rules'[r] # None /\ services[r] # None
           /\ ~\E p \in Callers : At(p, "create.undo") /\ call[p].rule = r
           => services'[r] # None]_allVars
  BY <1>2
<1> QED BY <1>3, ServerLifeInvariant, PTL DEF ServerSpec, LiveRuleKeepsService
---------------------------------------------------------------------------
(* Committed changes on their way to be announced.  A call that reads its    *)
(* row back covers its change only as long as the row is there: when it is   *)
(* not, the call that deleted the row covers it.                             *)

ReadBacks == {"create.readback", "update.readback", "attach.readback"}

Stored(x) ==
  \/ x \in RuleIds /\ rules[x] # None
  \/ x \in AttachmentIds /\ attachments[x] # None

Covers(p, x) ==
  /\ Subject(call[p]) = x
  /\ call[p].at \in Committed
  /\ call[p].at \in ReadBacks => Stored(x)

(* A call that works on a rule holds no attachment of it yet.                *)
OnRule(c) ==
  c.at \in RuleSteps \ {"attach.insert", "attach.undo"} => c.attachment = None

AnnInv ==
  /\ \A x \in unannounced \ abandoned : \E p \in Callers : Covers(p, x)
  /\ \A p \in Callers : OnRule(call[p])

LEMMA AnnStep ==
  ASSUME TypeOK, AnnInv, NEW p \in Callers, CallStep(p), OnRule(call'[p]),
         \A x : Stored(x) => Stored(x)' \/ Covers(p, x)',
         \A x \in unannounced' \ abandoned' :
           Covers(p, x)' \/ (x \in unannounced \ abandoned /\ ~Covers(p, x))
  PROVE  AnnInv'
<1>1. \A q \in Callers \ {p} : call'[q] = call[q]
  BY OthersStay
<1>2. ASSUME NEW x \in unannounced' \ abandoned'
      PROVE  \E q \in Callers : Covers(q, x)'
  <2>1. CASE ~Covers(p, x)'
    <3>1. PICK q \in Callers : Covers(q, x) /\ q # p
      BY <1>2, <2>1 DEF AnnInv
    <3>2. Covers(q, x)'
      BY <1>1, <2>1, <3>1 DEF Covers
    <3> QED BY <3>2
  <2> QED BY <2>1
<1>3. \A q \in Callers : OnRule(call'[q])
  BY <1>1 DEF AnnInv
<1> QED BY <1>2, <1>3 DEF AnnInv, OnRule

(* A call with nothing to announce yet goes on, or ends.                     *)
LEMMA UncommittedAnn ==
  ASSUME TypeOK, AnnInv, NEW p \in Callers, CallStep(p), OnRule(call'[p]),
         call[p].at \notin Committed, UNCHANGED eventVars,
         \A x : Stored(x) => Stored(x)'
  PROVE  AnnInv'
BY AnnStep DEF Covers, eventVars

(* It commits: what it stored or deleted it goes on to announce.             *)
LEMMA CommitAnn ==
  ASSUME TypeOK, AnnInv, NEW p \in Callers, CallStep(p), OnRule(call'[p]),
         call[p].at \notin Committed, Commit(p),
         \A x : x = Subject(call[p]) => Covers(p, x)',
         \A x : Stored(x) => Stored(x)' \/ x = Subject(call[p])
  PROVE  AnnInv'
<1>1. /\ unannounced' = unannounced \cup {Subject(call[p])}
      /\ abandoned' = abandoned
  BY DEF Commit
<1>2. \A x : ~Covers(p, x)
  BY DEF Covers
<1> QED BY <1>1, <1>2, AnnStep

(* A call past its commit goes on to announce it, unless the row is gone.    *)
LEMMA CommittedAnn ==
  ASSUME TypeOK, AnnInv, NEW p \in Callers, CallStep(p), OnRule(call'[p]),
         UNCHANGED <<storeVars, eventVars>>,
         \A x : Covers(p, x) => Covers(p, x)'
  PROVE  AnnInv'
<1>1. \A x : Stored(x) => Stored(x)'
  BY DEF Stored, storeVars
<1> QED BY <1>1, AnnStep DEF eventVars

(* It is abandoned, or announces the change.                                 *)
LEMMA EndedAnn ==
  ASSUME TypeOK, AnnInv, NEW p \in Callers, CallStep(p), OnRule(call'[p]),
         UNCHANGED storeVars,
         \A x \in unannounced' \ abandoned' :
           x \in unannounced \ abandoned /\ ~Covers(p, x)
  PROVE  AnnInv'
<1>1. \A x : Stored(x) => Stored(x)'
  BY DEF Stored, storeVars
<1> QED BY <1>1, AnnStep

---------------------------------------------------------------------------
(* How calls move, for what they announce.                                   *)

LEMMA ReturnMoved ==
  ASSUME TypeOK, NEW p \in Callers, Return(p)
  PROVE  OnRule(call'[p]) /\ call'[p].at = "idle"
BY DEF Return, Idle, OnRule, TypeOK, ServerTypeOK

LEMMA PublishMoved ==
  ASSUME TypeOK, AnnInv, NEW p \in Callers, GotoPublishRule(p),
         call[p].at \in RuleSteps \ {"attach.insert", "attach.undo"}
  PROVE  /\ OnRule(call'[p]) /\ call'[p].at = "rule.publish"
         /\ Subject(call'[p]) = Subject(call[p])
<1>1. /\ call'[p].at = "rule.publish" /\ call'[p].attachment = None
      /\ call'[p].rule = call[p].rule
  BY DEF GotoPublishRule, Idle, TypeOK, ServerTypeOK
<1>2. call[p].attachment = None
  BY DEF AnnInv, OnRule
<1> QED BY <1>1, <1>2 DEF OnRule, Subject

LEMMA GotoMoved ==
  ASSUME TypeOK, AnnInv, NEW p \in Callers, NEW step, Goto(p, step)
  PROVE  /\ call'[p].at = step /\ Subject(call'[p]) = Subject(call[p])
         /\ call'[p].attachment = call[p].attachment
         /\ \/ call[p].at \in RuleSteps \ {"attach.insert", "attach.undo"}
            \/ step \notin RuleSteps \ {"attach.insert", "attach.undo"}
            => OnRule(call'[p])
<1>1. /\ call'[p].at = step /\ call'[p].rule = call[p].rule
      /\ call'[p].attachment = call[p].attachment
  BY DEF Goto, TypeOK, ServerTypeOK, Call
<1> QED BY <1>1 DEF AnnInv, OnRule, Subject

LEMMA RequestsAnn ==
  ASSUME TypeOK, AnnInv, NEW p \in Callers, CallStep(p),
         \/ CreateEgressRule(p) \/ UpdateEgressRule(p)
         \/ DeleteEgressRule(p) \/ CreateEgressRuleAttachment(p)
         \/ DeleteEgressRuleAttachment(p)
  PROVE  AnnInv'
<1>1. UNCHANGED <<storeVars, eventVars>> /\ call[p].at = "idle"
  BY DEF CreateEgressRule, UpdateEgressRule, DeleteEgressRule,
     CreateEgressRuleAttachment, DeleteEgressRuleAttachment, Receive, At
<1>2. OnRule(call'[p])
  <2>1. CASE CreateEgressRule(p)
    BY <2>1 DEF CreateEgressRule, Idle, OnRule, TypeOK, ServerTypeOK
  <2>2. CASE UpdateEgressRule(p)
    BY <2>2 DEF UpdateEgressRule, Idle, OnRule, TypeOK, ServerTypeOK
  <2>3. CASE DeleteEgressRule(p) \/ CreateEgressRuleAttachment(p)
    BY <2>3 DEF DeleteEgressRule, CreateEgressRuleAttachment, Idle, OnRule,
       TypeOK, ServerTypeOK
  <2>4. CASE DeleteEgressRuleAttachment(p)
    <3>1. call'[p].at = "detach.row"
      BY <2>4 DEF DeleteEgressRuleAttachment, Idle, TypeOK, ServerTypeOK
    <3> QED BY <3>1 DEF OnRule, RuleSteps, RowSteps, PublicSteps, PrivateSteps
  <2> QED BY <2>1, <2>2, <2>3, <2>4
<1>3. call[p].at \notin Committed
  BY <1>1 DEF Committed
<1>4. \A x : Stored(x) => Stored(x)'
  BY <1>1 DEF Stored, storeVars
<1> QED BY <1>1, <1>2, <1>3, <1>4, UncommittedAnn

(* Steps before the commit that only call OpenZiti, count or fail.           *)
LEMMA PreparationsAnn ==
  ASSUME TypeOK, AnnInv, NEW p \in Callers, CallStep(p),
         \/ CreateEgressRule_Undo(p) \/ UpdateEgressRule_Service(p)
         \/ DeleteEgressRule_Count(p)
         \/ CreateEgressRuleAttachment_Check(p)
         \/ CreateEgressRuleAttachment_Undo(p)
         \/ CreateEgressRuleAttachment_Policy(p)
  PROVE  AnnInv'
<1>1. /\ UNCHANGED <<storeVars, eventVars>>
      /\ call[p].at \in {"create.undo", "update.service", "delete.count",
                         "attach.check", "attach.undo", "attach.policy"}
  BY DEF CreateEgressRule_Undo, UpdateEgressRule_Service,
     DeleteEgressRule_Count, CreateEgressRuleAttachment_Check,
     CreateEgressRuleAttachment_Undo, CreateEgressRuleAttachment_Policy, At
<1>2. OnRule(call'[p])
  <2>1. CASE CreateEgressRuleAttachment_Policy(p)
    BY <2>1 DEF CreateEgressRuleAttachment_Policy, Idle, OnRule, TypeOK,
       ServerTypeOK
  <2>2. CASE Return(p)
    BY <2>2, ReturnMoved
  <2>3. CASE \E step : Goto(p, step) /\ call[p].at \notin {"attach.undo"}
    BY <1>1, <2>3, GotoMoved DEF RuleSteps, RowSteps, PublicSteps
  <2> QED BY <2>1, <2>2, <2>3 DEF CreateEgressRule_Undo,
     UpdateEgressRule_Service, DeleteEgressRule_Count,
     CreateEgressRuleAttachment_Check, CreateEgressRuleAttachment_Undo, At
<1>3. call[p].at \notin Committed
  BY <1>1 DEF Committed
<1>4. \A x : Stored(x) => Stored(x)'
  BY <1>1 DEF Stored, storeVars
<1> QED BY <1>1, <1>2, <1>3, <1>4, UncommittedAnn
(* Steps that put a service id into the row in hand, or store it.            *)
LEMMA ServiceIdsAnn ==
  ASSUME TypeOK, AnnInv, NEW p \in Callers, CallStep(p),
         \/ CreateEgressRule_Service(p)
         \/ CreateEgressRuleAttachment_Service(p)
         \/ CreateEgressRuleAttachment_SaveServiceId(p)
  PROVE  AnnInv'
<1>1. /\ UNCHANGED eventVars
      /\ call[p].at \in {"create.service", "attach.service",
                         "attach.serviceid"}
  BY DEF CreateEgressRule_Service, CreateEgressRuleAttachment_Service,
     CreateEgressRuleAttachment_SaveServiceId, At
<1>2. call[p].at \notin Committed
      /\ call[p].at \in RuleSteps \ {"attach.insert", "attach.undo"}
  BY <1>1 DEF Committed, RuleSteps, RowSteps, PublicSteps
<1>3. call[p].attachment = None
  BY <1>2 DEF AnnInv, OnRule
<1>4. CASE CreateEgressRule_Service(p)
  <2> DEFINE id == CreatedServiceId(call[p].rule)
  <2>1. call' = [call EXCEPT ![p].at = "create.insert", ![p].row.service = id]
    BY <1>4 DEF CreateEgressRule_Service
  <2> HIDE DEF id
  <2>2. call'[p].attachment = None
    BY <1>3, <2>1 DEF TypeOK, ServerTypeOK, Call
  <2>3. \A x : Stored(x) => Stored(x)'
    BY <1>4 DEF CreateEgressRule_Service, Stored, storeVars
  <2> QED BY <1>1, <1>2, <2>2, <2>3, UncommittedAnn DEF OnRule
<1>5. CASE CreateEgressRuleAttachment_Service(p)
  <2> DEFINE id == ReconciledServiceId(call[p].rule, call[p].row)
  <2>1. call' = [call EXCEPT
          ![p].at = IF id = call[p].row.service THEN "attach.policy"
                                                ELSE "attach.serviceid",
          ![p].row.service = id]
    BY <1>5 DEF CreateEgressRuleAttachment_Service
  <2> HIDE DEF id
  <2>2. call'[p].attachment = None
    BY <1>3, <2>1 DEF TypeOK, ServerTypeOK, Call
  <2>3. \A x : Stored(x) => Stored(x)'
    BY <1>5 DEF CreateEgressRuleAttachment_Service, Stored, storeVars
  <2> QED BY <1>1, <1>2, <2>2, <2>3, UncommittedAnn DEF OnRule
<1>6. CASE CreateEgressRuleAttachment_SaveServiceId(p)
  <2>1. OnRule(call'[p])
    BY <1>2, <1>6, ReturnMoved, GotoMoved
       DEF CreateEgressRuleAttachment_SaveServiceId
  <2>2. \A r \in RuleIds : rules[r] # None => rules'[r] # None
    <3>1. /\ StoreTypeOK /\ call[p].row.service \in Nat
          /\ call[p].rule \in RuleIds
      BY <1>6 DEF TypeOK, ServerTypeOK, CallOK, RuleSteps, RowSteps,
         PublicSteps, Row,
         CreateEgressRuleAttachment_SaveServiceId, At
    <3>2. CASE UpdateRuleServiceID(call[p].rule, call[p].row.service)
      <4>1. StoreTypeOK'
        BY <3>1, <3>2, UpdateRuleServiceIDType
      <4> QED BY <3>1, <3>2, <4>1, RowAssumption
              DEF UpdateRuleServiceID, RuleExists, StoreTypeOK, Row
    <3> QED BY <1>6, <3>2
            DEF CreateEgressRuleAttachment_SaveServiceId, storeVars
  <2>3. UNCHANGED attachments
    BY <1>6 DEF CreateEgressRuleAttachment_SaveServiceId,
       UpdateRuleServiceID, storeVars
  <2>4. \A x : Stored(x) => Stored(x)'
    BY <2>2, <2>3 DEF Stored
  <2> QED BY <1>1, <1>2, <2>1, <2>4, UncommittedAnn
<1> QED BY <1>4, <1>5, <1>6

(* The statements that change a rule's row.                                  *)
LEMMA RuleWritesAnn ==
  ASSUME TypeOK, AnnInv, NEW p \in Callers, CallStep(p),
         \/ CreateEgressRule_Insert(p) \/ CreateEgressRule_InsertError(p)
         \/ UpdateEgressRule_Write(p) \/ DeleteEgressRule_Row(p)
  PROVE  AnnInv'
<1> DEFINE r == call[p].rule
           row == call[p].row
<1>1. call[p].at \in {"create.insert", "update.write", "delete.row"}
  BY DEF CreateEgressRule_Insert, CreateEgressRule_InsertError,
     UpdateEgressRule_Write, DeleteEgressRule_Row, At
<1>2. /\ call[p].at \notin Committed
      /\ call[p].at \in RuleSteps \ {"attach.insert", "attach.undo"}
      /\ r \in RuleIds /\ row \in Row /\ row # None
  BY <1>1, RowAssumption DEF Committed, RuleSteps, RowSteps, TypeOK,
     ServerTypeOK, CallOK
<1>3. Subject(call[p]) = r
  BY <1>2 DEF AnnInv, OnRule, Subject
<1>4. StoreTypeOK /\ \A x : ~Covers(p, x)
  BY <1>2 DEF TypeOK, Covers
<1>5. CASE UNCHANGED <<storeVars, eventVars>>
  <2>1. \A x : Stored(x) => Stored(x)'
    BY <1>5 DEF Stored, storeVars
  <2>2. OnRule(call'[p])
    BY <1>2, ReturnMoved, GotoMoved
       DEF CreateEgressRule_Insert, CreateEgressRule_InsertError,
           UpdateEgressRule_Write, DeleteEgressRule_Row
  <2> QED BY <1>2, <1>5, <2>1, <2>2, UncommittedAnn
<1>6. CASE /\ InsertRule(r, row) \/ UpdateRule(r, row)
           /\ ~DeleteEgressRule_Row(p)
  <2>1. /\ rules'[r] # None /\ attachments' = attachments
        /\ \A q \in RuleIds \ {r} : rules'[q] = rules[q]
    BY <1>2, <1>4, <1>6 DEF InsertRule, UpdateRule, StoreTypeOK
  <2>2. \A x : Stored(x) => Stored(x)'
    BY <2>1 DEF Stored
  <2>3. \A x : x = r => Stored(x)'
    BY <1>2, <2>1 DEF Stored
  <2>4. ASSUME NEW step \in {"create.readback", "update.readback"},
               Goto(p, step), Commit(p)
        PROVE  AnnInv'
    <3>1. /\ OnRule(call'[p]) /\ call'[p].at = step
          /\ Subject(call'[p]) = r
      BY <1>2, <1>3, <2>4, GotoMoved
    <3>2. \A x : x = Subject(call[p]) => Covers(p, x)'
      BY <1>3, <2>3, <3>1 DEF Covers, Committed
    <3> QED BY <1>2, <2>2, <2>4, <3>1, <3>2, CommitAnn
  <2>5. CASE CreateEgressRule_InsertError(p)
    <3>1. OnRule(call'[p])
      BY <1>2, <2>5, GotoMoved DEF CreateEgressRule_InsertError
    <3>2. unannounced' \ abandoned' \subseteq unannounced \ abandoned
      BY <2>5 DEF CreateEgressRule_InsertError, eventVars
    <3> QED BY <1>4, <2>2, <3>1, <3>2, AnnStep
  <2> QED BY <1>5, <1>6, <2>4, <2>5
          DEF CreateEgressRule_Insert, UpdateEgressRule_Write
<1>7. CASE DeleteRule(r) /\ Commit(p) /\ Goto(p, "delete.service")
  <2>1. /\ attachments' = attachments
        /\ \A q \in RuleIds \ {r} : rules'[q] = rules[q]
    BY <1>4, <1>7 DEF DeleteRule, StoreTypeOK
  <2>2. \A x : Stored(x) => Stored(x)' \/ x = Subject(call[p])
    BY <1>3, <2>1 DEF Stored
  <2>3. /\ OnRule(call'[p]) /\ call'[p].at = "delete.service"
        /\ Subject(call'[p]) = r
    BY <1>2, <1>3, <1>7, GotoMoved
  <2>4. \A x : x = Subject(call[p]) => Covers(p, x)'
    BY <1>3, <2>3 DEF Covers, Committed, ReadBacks
  <2> QED BY <1>2, <1>7, <2>2, <2>3, <2>4, CommitAnn
<1> QED BY <1>5, <1>6, <1>7
        DEF CreateEgressRule_Insert, CreateEgressRule_InsertError,
            UpdateEgressRule_Write, DeleteEgressRule_Row

(* And those that change an attachment's.                                    *)
LEMMA AttachmentWritesAnn ==
  ASSUME TypeOK, AnnInv, NEW p \in Callers, CallStep(p),
         \/ CreateEgressRuleAttachment_Insert(p)
         \/ CreateEgressRuleAttachment_InsertError(p)
         \/ DeleteEgressRuleAttachment_Row(p)
  PROVE  AnnInv'
<1> DEFINE a == call[p].attachment
<1>1. call[p].at \in {"attach.insert", "detach.row"}
  BY DEF CreateEgressRuleAttachment_Insert,
     CreateEgressRuleAttachment_InsertError, DeleteEgressRuleAttachment_Row,
     At
<1>2. /\ call[p].at \notin Committed /\ a \in AttachmentIds
      /\ Subject(call[p]) = a
  BY <1>1, StoreAssumption DEF Committed, AttachmentSteps, TypeOK,
     ServerTypeOK, CallOK, Subject, StoreAssumption
<1>3. StoreTypeOK /\ \A x : ~Covers(p, x)
  BY <1>2 DEF TypeOK, Covers
<1>4. OnRule(call'[p])
  BY ReturnMoved, GotoMoved
     DEF CreateEgressRuleAttachment_Insert,
         CreateEgressRuleAttachment_InsertError,
         DeleteEgressRuleAttachment_Row, RuleSteps, RowSteps, PublicSteps,
         PrivateSteps
<1>5. CASE UNCHANGED <<storeVars, eventVars>>
  <2>1. \A x : Stored(x) => Stored(x)'
    BY <1>5 DEF Stored, storeVars
  <2> QED BY <1>2, <1>4, <1>5, <2>1, UncommittedAnn
<1>6. CASE InsertAttachment(a, NewAttachment(call[p]))
           /\ ~DeleteEgressRuleAttachment_Row(p)
  <2>1. At(p, "attach.insert")
    BY <1>6 DEF CreateEgressRuleAttachment_Insert,
       CreateEgressRuleAttachment_InsertError
  <2>2. NewAttachment(call[p]) \in AttachmentRow
    BY <2>1 DEF At, NewAttachment, AttachmentRow, TypeOK, ServerTypeOK,
       CallOK, Call, RuleSteps, TargetSteps
  <2>3. /\ attachments'[a] # None /\ rules' = rules
        /\ \A b \in AttachmentIds \ {a} : attachments'[b] = attachments[b]
    BY <1>2, <1>3, <1>6, <2>2, RowAssumption
       DEF InsertAttachment, StoreTypeOK
  <2>4. \A x : Stored(x) => Stored(x)'
    BY <2>3 DEF Stored
  <2>5. \A x : x = a => Stored(x)'
    BY <1>2, <2>3 DEF Stored
  <2>6. CASE Commit(p) /\ Goto(p, "attach.readback")
    <3>1. call'[p].at = "attach.readback" /\ Subject(call'[p]) = a
      BY <1>2, <2>6, GotoMoved
    <3>2. \A x : x = Subject(call[p]) => Covers(p, x)'
      BY <1>2, <2>5, <3>1 DEF Covers, Committed
    <3> QED BY <1>2, <1>4, <2>4, <2>6, <3>2, CommitAnn
  <2>7. CASE CreateEgressRuleAttachment_InsertError(p)
    <3>1. unannounced' \ abandoned' \subseteq unannounced \ abandoned
      BY <2>7 DEF CreateEgressRuleAttachment_InsertError, eventVars
    <3> QED BY <1>3, <1>4, <2>4, <3>1, AnnStep
  <2> QED BY <1>5, <1>6, <2>6, <2>7 DEF CreateEgressRuleAttachment_Insert
<1>7. CASE DeleteAttachment(a) /\ Commit(p) /\ Goto(p, "detach.policy")
  <2>1. /\ rules' = rules
        /\ \A b \in AttachmentIds \ {a} : attachments'[b] = attachments[b]
    BY <1>3, <1>7 DEF DeleteAttachment, StoreTypeOK
  <2>2. \A x : Stored(x) => Stored(x)' \/ x = Subject(call[p])
    BY <1>2, <2>1 DEF Stored
  <2>3. call'[p].at = "detach.policy" /\ Subject(call'[p]) = a
    BY <1>2, <1>7, GotoMoved
  <2>4. \A x : x = Subject(call[p]) => Covers(p, x)'
    BY <1>2, <2>3 DEF Covers, Committed, ReadBacks
  <2> QED BY <1>2, <1>4, <1>7, <2>2, <2>4, CommitAnn
<1> QED BY <1>5, <1>6, <1>7
        DEF CreateEgressRuleAttachment_Insert,
            CreateEgressRuleAttachment_InsertError,
            DeleteEgressRuleAttachment_Row
(* The steps of a call past its commit.                                      *)
LEMMA AbandonAnn ==
  ASSUME TypeOK, AnnInv, NEW p \in Callers, CallStep(p), Abandon(p),
         UNCHANGED storeVars
  PROVE  AnnInv'
<1>1. OnRule(call'[p])
  BY ReturnMoved DEF Abandon
<1>2. \A x \in unannounced' \ abandoned' :
        x \in unannounced \ abandoned /\ ~Covers(p, x)
  BY DEF Abandon, Covers
<1> QED BY <1>1, <1>2, EndedAnn

(* A read-back that finds its row gone has nothing to cover.                 *)
LEMMA NothingReadAnn ==
  ASSUME TypeOK, AnnInv, NEW p \in Callers, CallStep(p), Return(p),
         UNCHANGED <<storeVars, eventVars>>,
         call[p].at \in ReadBacks, ~Stored(Subject(call[p]))
  PROVE  AnnInv'
<1>1. OnRule(call'[p])
  BY ReturnMoved
<1>2. \A x : ~Covers(p, x)
  BY DEF Covers
<1> QED BY <1>1, <1>2, EndedAnn DEF eventVars

LEMMA ReadBacksAnn ==
  ASSUME TypeOK, AnnInv, NEW p \in Callers, CallStep(p),
         \/ CreateEgressRule_ReadBack(p) \/ UpdateEgressRule_ReadBack(p)
         \/ CreateEgressRuleAttachment_ReadBack(p)
  PROVE  AnnInv'
<1>1. /\ call[p].at \in ReadBacks
      /\ UNCHANGED <<storeVars, eventVars>>
  BY DEF CreateEgressRule_ReadBack, UpdateEgressRule_ReadBack,
     CreateEgressRuleAttachment_ReadBack, ReadBacks, At
<1>2. ASSUME NEW step \in Committed \ ReadBacks, call'[p].at = step,
             Subject(call'[p]) = Subject(call[p]), OnRule(call'[p])
      PROVE  AnnInv'
  <2>1. \A x : Covers(p, x) => Covers(p, x)'
    BY <1>2 DEF Covers
  <2> QED BY <1>1, <1>2, <2>1, CommittedAnn
<1>3. CASE CreateEgressRule_ReadBack(p) \/ UpdateEgressRule_ReadBack(p)
  <2>1. /\ call[p].at \in RuleSteps \ {"attach.insert", "attach.undo"}
        /\ call[p].rule \in RuleIds
    BY <1>3 DEF CreateEgressRule_ReadBack, UpdateEgressRule_ReadBack, At,
       RuleSteps, TypeOK, ServerTypeOK, CallOK
  <2>2. call[p].attachment = None /\ Subject(call[p]) = call[p].rule
    BY <2>1 DEF AnnInv, OnRule, Subject
  <2>3. CASE GotoPublishRule(p)
    BY <1>2, <2>1, <2>3, PublishMoved DEF Committed, ReadBacks
  <2>4. CASE Return(p) /\ ~RuleExists(call[p].rule)
    <3>1. ~Stored(Subject(call[p]))
      BY <2>1, <2>2, <2>4, StoreAssumption
         DEF Stored, RuleExists, StoreAssumption
    <3> QED BY <1>1, <2>4, <3>1, NothingReadAnn
  <2>5. CASE call' = [call EXCEPT ![p].at = "sync.count",
                                  ![p].row = rules[call[p].rule]]
    <3>1. /\ call'[p].at = "sync.count" /\ call'[p].attachment = None
          /\ call'[p].rule = call[p].rule
      BY <2>2, <2>5 DEF TypeOK, ServerTypeOK, Call
    <3>2. Subject(call'[p]) = Subject(call[p]) /\ OnRule(call'[p])
      BY <2>2, <3>1 DEF Subject, OnRule
    <3> QED BY <1>2, <3>1, <3>2 DEF Committed, ReadBacks
  <2> QED BY <1>3, <2>3, <2>4, <2>5
          DEF CreateEgressRule_ReadBack, UpdateEgressRule_ReadBack
<1>4. CASE CreateEgressRuleAttachment_ReadBack(p)
  <2>1. Subject(call[p]) = call[p].attachment
        /\ call[p].attachment \in AttachmentIds
    BY <1>4, StoreAssumption DEF CreateEgressRuleAttachment_ReadBack, At,
       AttachmentSteps, TypeOK, ServerTypeOK, CallOK, Subject,
       StoreAssumption
  <2>2. CASE Goto(p, "attachment.publish")
    <3>1. OnRule(call'[p])
      BY <2>2, GotoMoved DEF RuleSteps, RowSteps, PublicSteps, PrivateSteps
    <3> QED BY <1>2, <2>2, <3>1, GotoMoved DEF Committed, ReadBacks
  <2>3. CASE Return(p) /\ ~AttachmentExists(call[p].attachment)
    <3>1. ~Stored(Subject(call[p]))
      BY <2>1, <2>3, StoreAssumption
         DEF Stored, AttachmentExists, StoreAssumption
    <3> QED BY <1>1, <2>3, <3>1, NothingReadAnn
  <2> QED BY <1>4, <2>2, <2>3 DEF CreateEgressRuleAttachment_ReadBack
<1> QED BY <1>3, <1>4

LEMMA AftermathAnn ==
  ASSUME TypeOK, AnnInv, NEW p \in Callers, CallStep(p),
         \/ SyncPrivateResourceMediation_Count(p)
         \/ SyncPrivateResourceMediation_Set(p)
         \/ SyncPrivateResourceMediation_Error(p)
         \/ DeleteEgressRule_Service(p)
         \/ DeleteEgressRuleAttachment_Policy(p)
  PROVE  AnnInv'
<1>1. UNCHANGED storeVars
  BY DEF SyncPrivateResourceMediation_Count,
     SyncPrivateResourceMediation_Set, SyncPrivateResourceMediation_Error,
     DeleteEgressRule_Service, DeleteEgressRuleAttachment_Policy
<1>2. ASSUME NEW step \in Committed \ ReadBacks, call'[p].at = step,
             Subject(call'[p]) = Subject(call[p]), OnRule(call'[p]),
             UNCHANGED eventVars
      PROVE  AnnInv'
  <2>1. \A x : Covers(p, x) => Covers(p, x)'
    BY <1>2 DEF Covers
  <2> QED BY <1>1, <1>2, <2>1, CommittedAnn
<1>3. CASE Abandon(p)
  BY <1>1, <1>3, AbandonAnn
<1>4. CASE \/ SyncPrivateResourceMediation_Count(p)
           \/ SyncPrivateResourceMediation_Set(p)
           \/ SyncPrivateResourceMediation_Error(p)
           \/ DeleteEgressRule_Service(p)
  <2>1. call[p].at \in RuleSteps \ {"attach.insert", "attach.undo"}
    BY <1>4 DEF SyncPrivateResourceMediation_Count,
       SyncPrivateResourceMediation_Set, SyncPrivateResourceMediation_Error,
       DeleteEgressRule_Service, At, RuleSteps, RowSteps, PrivateSteps
  <2>2. call[p].attachment = None
    BY <2>1 DEF AnnInv, OnRule
  <2>3. CASE GotoPublishRule(p) /\ UNCHANGED eventVars
    BY <1>2, <2>1, <2>3, PublishMoved DEF Committed, ReadBacks
  <2>4. CASE Goto(p, "sync.count") /\ UNCHANGED eventVars
    BY <1>2, <2>1, <2>4, GotoMoved DEF Committed, ReadBacks
  <2>5. CASE SyncPrivateResourceMediation_Count(p)
    <3>1. /\ call'[p].at = "sync.set" /\ call'[p].attachment = None
          /\ call'[p].rule = call[p].rule
      BY <2>2, <2>5 DEF SyncPrivateResourceMediation_Count, TypeOK,
         ServerTypeOK, Call
    <3>2. Subject(call'[p]) = Subject(call[p]) /\ OnRule(call'[p])
      BY <2>2, <3>1 DEF Subject, OnRule
    <3> QED BY <1>2, <2>5, <3>1, <3>2
            DEF Committed, ReadBacks, SyncPrivateResourceMediation_Count
  <2> QED BY <1>3, <1>4, <2>3, <2>4, <2>5
          DEF SyncPrivateResourceMediation_Set,
              SyncPrivateResourceMediation_Error, DeleteEgressRule_Service
<1>5. CASE Goto(p, "attachment.publish") /\ UNCHANGED eventVars
  <2>1. OnRule(call'[p])
    BY <1>5, GotoMoved DEF RuleSteps, RowSteps, PublicSteps, PrivateSteps
  <2> QED BY <1>2, <1>5, <2>1, GotoMoved DEF Committed, ReadBacks
<1> QED BY <1>3, <1>4, <1>5 DEF DeleteEgressRuleAttachment_Policy

LEMMA PublishAnn ==
  ASSUME TypeOK, AnnInv, NEW p \in Callers, CallStep(p),
         PublishRuleUpdated(p) \/ PublishAttachmentUpdated(p)
  PROVE  AnnInv'
<1>1. UNCHANGED storeVars /\ OnRule(call'[p])
  BY ReturnMoved DEF PublishRuleUpdated, PublishAttachmentUpdated
<1>2. unannounced' = unannounced \ {Subject(call[p])}
      /\ abandoned' = abandoned \ {Subject(call[p])}
  <2>1. CASE PublishRuleUpdated(p)
    <3>1. call[p].attachment = None
      BY <2>1 DEF PublishRuleUpdated, At, AnnInv, OnRule, RuleSteps
    <3> QED BY <2>1, <3>1 DEF PublishRuleUpdated, Subject
  <2>2. CASE PublishAttachmentUpdated(p)
    <3>1. call[p].attachment # None
      BY <2>2, StoreAssumption DEF PublishAttachmentUpdated, At,
         AttachmentSteps, TypeOK, ServerTypeOK, CallOK, StoreAssumption
    <3> QED BY <2>2, <3>1 DEF PublishAttachmentUpdated, Subject
  <2> QED BY <2>1, <2>2
<1>3. \A x \in unannounced' \ abandoned' :
        x \in unannounced \ abandoned /\ ~Covers(p, x)
  BY <1>2 DEF Covers
<1> QED BY <1>1, <1>3, EndedAnn

LEMMA CrashAnn ==
  ASSUME TypeOK, AnnInv, Crash
  PROVE  AnnInv'
<1>1. \A x : (\E p \in Callers : Covers(p, x)) => x \in abandoned'
  BY DEF Crash, Covers
<1>2. unannounced' \ abandoned' = {}
  BY <1>1 DEF AnnInv, Crash
<1>3. \A p \in Callers : OnRule(call'[p])
  BY DEF Crash, Idle, OnRule
<1> QED BY <1>2, <1>3 DEF AnnInv, OnRule

LEMMA ServerNextAnn ==
  ASSUME TypeOK, AnnInv, [ServerNext]_allVars
  PROVE  AnnInv'
<1>1. ASSUME NEW p \in Callers, CallStep(p)
      PROVE  AnnInv'
  <2>1. CASE CallFails(p)
    BY <1>1, <2>1, AbandonAnn DEF CallFails
  <2> QED BY <1>1, <2>1, RequestsAnn, PreparationsAnn, ServiceIdsAnn,
     RuleWritesAnn, AttachmentWritesAnn, ReadBacksAnn, AftermathAnn,
     PublishAnn DEF CallStep, RuleStep, AttachmentStep
<1>2. CASE UNCHANGED allVars
  <2>1. UNCHANGED <<call, unannounced, abandoned, rules, attachments>>
    BY SMTT(30), <1>2 DEF allVars, serverVars, storeVars
  <2> QED BY <2>1 DEF AnnInv, Covers, Stored, OnRule
<1> QED BY <1>1, <1>2, CrashAnn DEF ServerNext

(* The pass stores, deletes and announces nothing.                           *)
LEMMA PassStores ==
  ASSUME ReconcilerTypeOK, PassStep \/ PassFails
  PROVE  \A x : Stored(x) => Stored(x)'
<1>1. StoreTypeOK /\ pass.id \in Nat
  BY DEF ReconcilerTypeOK, TypeOK, PassOK, Pass
<1>2. CASE UpdateRuleServiceID(pass.current, pass.id)
           /\ pass.current \in RuleIds
  <2>1. StoreTypeOK'
    BY <1>1, <1>2, UpdateRuleServiceIDType
  <2> QED BY <1>1, <1>2, <2>1, RowAssumption
          DEF UpdateRuleServiceID, RuleExists, StoreTypeOK, Row, Stored
<1>3. CASE UpdateAttachmentPolicyID(pass.current, pass.id)
           /\ pass.current \in AttachmentIds
  <2>1. StoreTypeOK'
    BY <1>1, <1>3, UpdateAttachmentPolicyIDType
  <2> QED BY <1>1, <1>3, <2>1, RowAssumption
          DEF UpdateAttachmentPolicyID, AttachmentExists, StoreTypeOK,
              AttachmentRow, Stored
<1>4. CASE UNCHANGED storeVars
  BY <1>4 DEF storeVars, Stored
<1>5. SaveServiceId => pass.current \in RuleIds
  BY DEF SaveServiceId, ReconcilerTypeOK, PassOK, Pass, PassAt
<1>6. SavePolicyId => pass.current \in AttachmentIds
  BY DEF SavePolicyId, ReconcilerTypeOK, PassOK, Pass, PassAt
<1> QED BY <1>2, <1>3, <1>4, <1>5, <1>6 DEF PassStep, PassFails,
   ListAllRules, ListAllAttachments, ReconcileRule, SaveServiceId,
   UnknownRule, AttachmentInLine, ProvisionPolicy, PolicyDiffers,
   ReplacePolicy_Delete, ReplacePolicy_Create, SavePolicyId, ListServices,
   DeleteOrphanService, ListServicePolicies, DeleteOrphanServicePolicy,
   PassDone, allVars

LEMMA NextAnn ==
  ASSUME ReconcilerTypeOK, AnnInv, [Next]_vars
  PROVE  AnnInv'
<1>1. CASE HandlerStep \/ ProcessCrash \/ UNCHANGED vars
  BY <1>1, ServerNextAnn
     DEF HandlerStep, ProcessCrash, ServerNext, vars, ReconcilerTypeOK
<1>2. CASE PassStep \/ PassFails
  <2>1. UNCHANGED <<call, unannounced, abandoned>>
    BY <1>2, PassLeavesCalls
  <2>2. \A x : Stored(x) => Stored(x)'
    BY <1>2, PassStores
  <2> QED BY <2>1, <2>2 DEF AnnInv, Covers, OnRule
<1> QED BY <1>1, <1>2 DEF Next

LEMMA InitAnn == Init => AnnInv
BY DEF Init, ServerInit, AnnInv, OnRule, Idle

LEMMA AnnImpliesAnnounced == AnnInv => Announced
BY DEF AnnInv, Announced, Covers

(* Every committed change is announced unless its call fails or the process  *)
(* crashes first: no interleaving of handlers in which each believes the     *)
(* other will publish, and none does.                                        *)
THEOREM EveryChangeAnnounced == ServerSpec => []Announced
<1>1. Init => TypeOK /\ AnnInv
  BY InitType, InitAnn
<1>2. TypeOK /\ AnnInv /\ [ServerNext]_allVars => (TypeOK /\ AnnInv)'
  BY ServerNextType, ServerNextAnn
<1>3. TypeOK /\ AnnInv => Announced
  BY AnnImpliesAnnounced
<1> QED BY <1>1, <1>2, <1>3, PTL DEF ServerSpec

(* The same beside the reconciler, whose write-backs of ids clients do not   *)
(* see and nobody announces.                                                 *)
THEOREM SystemEveryChangeAnnounced == Spec => []Announced
<1>1. ReconcilerInit => ReconcilerTypeOK /\ AnnInv
  BY InitReconcilerType, InitAnn DEF ReconcilerInit
<1>2. ReconcilerTypeOK /\ AnnInv /\ [Next]_vars
        => (ReconcilerTypeOK /\ AnnInv)'
  BY NextType, NextAnn
<1>3. ReconcilerTypeOK /\ AnnInv => Announced
  BY AnnImpliesAnnounced
<1> QED BY <1>1, <1>2, <1>3, PTL DEF Spec
---------------------------------------------------------------------------
(* What the sweep relies on.  A pass has reconciled every rule it is done    *)
(* with, a service of such a rule goes only with the rule, and the ids it is *)
(* to delete were issued before and belong to rules it does not know, so     *)
(* never to a rule made since.                                               *)

NoUndo == faults = 0 => \A p \in Callers : ~At(p, "create.undo")

(* What a snapshot has seen is past its creation.                            *)
SeenAreCreated ==
  \A r \in RuleIds : pass.rules[r] # None =>
    \A p \in Callers : call[p].at \in CreateSteps => call[p].rule # r

(* The rules the pass is done with, the one it has an id for included.       *)
Reconciled(r) ==
  /\ pass.at \notin {"idle", "attachments"}
  /\ pass.rules[r] # None
  /\ r \in pass.todoRules => pass.at = "serviceid" /\ r = pass.current

ReconciledHaveServices ==
  faults = 0 => \A r \in RuleIds :
    Reconciled(r) /\ RuleExists(r) /\ ~IsPrivateTarget(rules[r])
      => services[r] # None

OrphansUnknown ==
  pass.at = "services" =>
    \A id \in pass.orphans :
      /\ id \in ServiceIds /\ id <= serviceIds
      /\ \A r \in RuleIds : Known(r, id) => pass.rules[r] = None

AllReconciled == pass.at \in {"services", "policies"} => pass.todoRules = {}

SweepInv ==
  /\ NoUndo /\ SeenAreCreated /\ ReconciledHaveServices
  /\ OrphansUnknown /\ AllReconciled

(* The kind of a rule the pass knows.                                        *)
LEMMA SeenKind ==
  ASSUME SystemKindInv, NEW r \in RuleIds,
         RuleExists(r), pass.rules[r] # None
  PROVE  IsPrivateTarget(rules[r]) <=> IsPrivateTarget(pass.rules[r])
<1>1. OfKind(rules[r], r) /\ OfKind(pass.rules[r], r)
  BY DEF SystemKindInv, KindInv, RowsAgree, SnapshotAgrees
<1> QED BY <1>1, StoreAssumption
        DEF OfKind, PrivateResourceOf, IsPrivateTarget, StoreAssumption

LEMMA KindStays ==
  ASSUME SystemKindInv, SystemKindInv', [Next]_vars, NEW r \in RuleIds,
         rules[r] # None, rules'[r] # None
  PROVE  IsPrivateTarget(rules'[r]) <=> IsPrivateTarget(rules[r])
<1>1. OfKind(rules[r], r)
  BY DEF SystemKindInv, KindInv, RowsAgree, RuleExists
<1>2. OfKind(rules[r], r)'
  BY DEF SystemKindInv, KindInv, RowsAgree, RuleExists
<1>3. origin'[r] = origin[r]
  BY <1>1, SystemOriginStable DEF OfKind, SystemKindInv
<1> QED BY <1>1, <1>2, <1>3, StoreAssumption
        DEF OfKind, PrivateResourceOf, IsPrivateTarget, StoreAssumption

(* Faults only grow, and a clean-up of a create follows one.                 *)
LEMMA UndoIsEntered ==
  ASSUME TypeOK, NEW p \in Callers,
         \/ Return(p) \/ GotoPublishRule(p)
         \/ \E step : step # "create.undo" /\ Goto(p, step)
         \/ \E c : c.at # "create.undo" /\ call' = [call EXCEPT ![p] = c]
  PROVE  call'[p].at # "create.undo"
<1>1. CASE Return(p)
  BY <1>1, ReturnMoved
<1>2. CASE GotoPublishRule(p)
  <2>1. call'[p].at = "rule.publish"
    BY <1>2 DEF GotoPublishRule, Idle, TypeOK, ServerTypeOK
  <2> QED BY <2>1
<1>3. ASSUME NEW step, step # "create.undo", Goto(p, step)
      PROVE  call'[p].at # "create.undo"
  BY <1>3 DEF TypeOK, ServerTypeOK, Call, Goto
<1>4. ASSUME NEW c, c.at # "create.undo", call' = [call EXCEPT ![p] = c]
      PROVE  call'[p].at # "create.undo"
  BY <1>4 DEF TypeOK, ServerTypeOK
<1> QED BY <1>1, <1>2, <1>3, <1>4

LEMMA UndoIsFault ==
  ASSUME TypeOK, NEW p \in Callers, CallStep(p)
  PROVE  /\ faults' \in {faults, faults + 1}
         /\ call'[p].at = "create.undo" => faults' = faults + 1
<1>1. CASE CreateEgressRule_InsertError(p)
  BY <1>1 DEF CreateEgressRule_InsertError
<1>2. CASE RuleStep(p) /\ ~CreateEgressRule_InsertError(p)
  <2>1. faults' \in {faults, faults + 1}
    BY <1>2 DEF RuleStep, budgetVars, CreateEgressRule,
     CreateEgressRule_Service, CreateEgressRule_Insert, CreateEgressRule_Undo,
     CreateEgressRule_ReadBack, SyncPrivateResourceMediation_Count,
     SyncPrivateResourceMediation_Set, SyncPrivateResourceMediation_Error,
     UpdateEgressRule, UpdateEgressRule_Service, UpdateEgressRule_Write,
     UpdateEgressRule_ReadBack, DeleteEgressRule, DeleteEgressRule_Count,
     DeleteEgressRule_Row, DeleteEgressRule_Service, PublishRuleUpdated
  <2>2. CASE \/ CreateEgressRule(p) \/ UpdateEgressRule(p)
             \/ DeleteEgressRule(p)
    <3>1. \E c : c.at # "create.undo" /\ call' = [call EXCEPT ![p] = c]
      BY <2>2 DEF CreateEgressRule, UpdateEgressRule, DeleteEgressRule, Idle
    <3> QED BY <2>1, <3>1, UndoIsEntered
  <2>3. CASE CreateEgressRule_Service(p)
    <3> DEFINE id == CreatedServiceId(call[p].rule)
    <3>1. call' = [call EXCEPT ![p].at = "create.insert", ![p].row.service = id]
      BY <2>3 DEF CreateEgressRule_Service
    <3> HIDE DEF id
    <3>2. call'[p].at # "create.undo"
      BY <3>1 DEF TypeOK, ServerTypeOK, Call
    <3> QED BY <2>1, <3>2
  <2>4. CASE \/ /\ CreateEgressRule_ReadBack(p)
                /\ ~GotoPublishRule(p) /\ ~Return(p)
             \/ SyncPrivateResourceMediation_Count(p)
    <3>1. call'[p].at # "create.undo"
      BY <2>4 DEF CreateEgressRule_ReadBack, TypeOK, ServerTypeOK, Call,
         SyncPrivateResourceMediation_Count
    <3> QED BY <2>1, <3>1
  <2>5. CASE \/ Return(p) \/ GotoPublishRule(p)
             \/ \E step : step # "create.undo" /\ Goto(p, step)
    BY <2>1, <2>5, UndoIsEntered
  <2> QED BY SMTT(30), <1>2, <2>2, <2>3, <2>4, <2>5 DEF RuleStep, Abandon,
     CreateEgressRule_Insert, CreateEgressRule_Undo,
     SyncPrivateResourceMediation_Set, SyncPrivateResourceMediation_Error,
     UpdateEgressRule_Service, UpdateEgressRule_Write,
     UpdateEgressRule_ReadBack, DeleteEgressRule_Count,
     DeleteEgressRule_Row, DeleteEgressRule_Service, PublishRuleUpdated
<1>3. CASE AttachmentStep(p)
  <2>1. faults' \in {faults, faults + 1}
    BY <1>3 DEF AttachmentStep, budgetVars,
     CreateEgressRuleAttachment, CreateEgressRuleAttachment_Check,
     CreateEgressRuleAttachment_Service,
     CreateEgressRuleAttachment_SaveServiceId,
     CreateEgressRuleAttachment_Policy, CreateEgressRuleAttachment_Insert,
     CreateEgressRuleAttachment_InsertError,
     CreateEgressRuleAttachment_Undo, CreateEgressRuleAttachment_ReadBack,
     DeleteEgressRuleAttachment, DeleteEgressRuleAttachment_Row,
     DeleteEgressRuleAttachment_Policy, PublishAttachmentUpdated
  <2>2. CASE CreateEgressRuleAttachment(p) \/ DeleteEgressRuleAttachment(p)
             \/ CreateEgressRuleAttachment_Policy(p)
    <3>1. \E c : c.at # "create.undo" /\ call' = [call EXCEPT ![p] = c]
      BY <2>2 DEF CreateEgressRuleAttachment, DeleteEgressRuleAttachment,
         CreateEgressRuleAttachment_Policy, Idle
    <3> QED BY <2>1, <3>1, UndoIsEntered
  <2>3. CASE CreateEgressRuleAttachment_Service(p)
    <3> DEFINE id == ReconciledServiceId(call[p].rule, call[p].row)
    <3>1. call' = [call EXCEPT
            ![p].at = IF id = call[p].row.service THEN "attach.policy"
                                                  ELSE "attach.serviceid",
            ![p].row.service = id]
      BY <2>3 DEF CreateEgressRuleAttachment_Service
    <3> HIDE DEF id
    <3>2. call'[p].at # "create.undo"
      BY <3>1 DEF TypeOK, ServerTypeOK, Call
    <3> QED BY <2>1, <3>2
  <2>4. CASE \/ Return(p)
             \/ \E step : step # "create.undo" /\ Goto(p, step)
    BY <2>1, <2>4, UndoIsEntered
  <2> QED BY SMTT(30), <1>3, <2>2, <2>3, <2>4 DEF AttachmentStep, Abandon,
     CreateEgressRuleAttachment_Check,
     CreateEgressRuleAttachment_SaveServiceId,
     CreateEgressRuleAttachment_Insert,
     CreateEgressRuleAttachment_InsertError,
     CreateEgressRuleAttachment_Undo, CreateEgressRuleAttachment_ReadBack,
     DeleteEgressRuleAttachment_Row,
     DeleteEgressRuleAttachment_Policy, PublishAttachmentUpdated
<1>4. CASE CallFails(p)
  BY <1>4 DEF CallFails, Abandon, Return, Idle, TypeOK, ServerTypeOK
<1> QED BY <1>1, <1>2, <1>3, <1>4 DEF CallStep

LEMMA NoUndoStep ==
  ASSUME ReconcilerTypeOK, NoUndo, [Next]_vars
  PROVE  /\ NoUndo'
         /\ faults' = 0 => faults = 0
<1>1. TypeOK /\ faults \in Nat
  BY DEF ReconcilerTypeOK, TypeOK, ServerTypeOK
<1>2. ASSUME NEW p \in Callers, CallStep(p)
      PROVE  /\ NoUndo'
             /\ faults' = 0 => faults = 0
  BY <1>1, <1>2, UndoIsFault, OthersStay DEF NoUndo, At
<1>3. CASE Crash
  BY <1>1, <1>3 DEF Crash, NoUndo, At
<1>4. CASE PassStep
  <2>1. UNCHANGED serverVars
    BY <1>4 DEF PassStep, ListAllRules, ListAllAttachments,
       ReconcileRule, SaveServiceId, UnknownRule, AttachmentInLine,
       ProvisionPolicy, PolicyDiffers, ReplacePolicy_Delete,
       ReplacePolicy_Create, SavePolicyId, ListServices,
       DeleteOrphanService, ListServicePolicies, DeleteOrphanServicePolicy,
       PassDone, allVars
  <2> QED BY SMTT(30), <2>1 DEF serverVars, NoUndo, At
<1>5. CASE PassFails
  BY <1>1, <1>5 DEF PassFails, NoUndo, At
<1>6. CASE UNCHANGED vars
  BY <1>6 DEF vars, allVars, serverVars, NoUndo, At
<1> QED BY <1>2, <1>3, <1>4, <1>5, <1>6 DEF Next, HandlerStep, ProcessCrash
(* How a step of the pass changes what it holds.                             *)
LEMMA SavedPass ==
  ASSUME ReconcilerTypeOK, SaveServiceId
  PROVE  /\ pass.at = "serviceid" /\ pass.current \in pass.todoRules
         /\ pass.rules[pass.current] # None
         /\ \/ PassEnds
            \/ /\ pass'.at = "reconcile"
               /\ pass'.todoRules = pass.todoRules \ {pass.current}
               /\ pass'.rules = [pass.rules EXCEPT
                                   ![pass.current].service = pass.id]
<1>1. /\ pass.at = "serviceid" /\ pass.current \in pass.todoRules
      /\ pass.rules[pass.current] # None
  BY DEF SaveServiceId, PassAt, ReconcilerTypeOK, PassOK
<1>2. CASE PassEnds
  BY <1>1, <1>2
<1>3. CASE pass' = [pass EXCEPT !.at = "reconcile",
                                !.rules[pass.current].service = pass.id,
                                !.todoRules = @ \ {pass.current},
                                !.current = None, !.id = NoId]
  BY <1>1, <1>3 DEF ReconcilerTypeOK, PassOK, Pass
<1> QED BY <1>2, <1>3 DEF SaveServiceId

LEMMA SnapshotSeen ==
  ASSUME ReconcilerTypeOK, [Next]_vars, NEW r \in RuleIds,
         pass'.rules[r] # None
  PROVE  pass.rules[r] # None \/ (ListAllRules /\ rules[r] # None)
<1>1. CASE HandlerStep \/ UNCHANGED vars
  BY <1>1 DEF HandlerStep, vars
<1>2. CASE PassFails \/ ProcessCrash
  BY <1>2 DEF PassFails, ProcessCrash, PassEnds, IdlePass
<1>3. CASE ListAllRules
  BY <1>3 DEF ListAllRules, ReconcilerTypeOK, PassOK, Pass
<1>4. CASE SaveServiceId
  BY <1>4, SavedPass DEF PassEnds, IdlePass, ReconcilerTypeOK, PassOK, Pass
<1>5. CASE PassStep /\ ~ListAllRules /\ ~SaveServiceId
  <2>1. pass'.rules = pass.rules \/ PassEnds
    <3>1. ASSUME NEW q \in RuleIds, ReconcileRule(q)
          PROVE  pass'.rules = pass.rules
      <4> DEFINE id == ReconciledServiceId(q, pass.rules[q])
      <4>1. pass' = IF id = pass.rules[q].service
              THEN [pass EXCEPT !.todoRules = @ \ {q}]
              ELSE [pass EXCEPT !.at = "serviceid", !.current = q, !.id = id]
        BY <3>1 DEF ReconcileRule
      <4> HIDE DEF id
      <4> QED BY <4>1 DEF ReconcilerTypeOK, PassOK, Pass
    <3> QED BY <1>5, <3>1 DEF PassStep, ListAllAttachments, UnknownRule,
       AttachmentInLine, ProvisionPolicy, PolicyDiffers,
       ReplacePolicy_Delete, ReplacePolicy_Create, SavePolicyId,
       ListServices, DeleteOrphanService, ListServicePolicies,
       DeleteOrphanServicePolicy, PassDone, ReconcilerTypeOK, PassOK, Pass
  <2> QED BY <2>1 DEF PassEnds, IdlePass
<1> QED BY <1>1, <1>2, <1>3, <1>4, <1>5 DEF Next

LEMMA SeenAreCreatedStep ==
  ASSUME SystemKindInv, CreationInv, SeenAreCreated, [Next]_vars
  PROVE  SeenAreCreated'
<1>1. SUFFICES ASSUME NEW r \in RuleIds, pass'.rules[r] # None,
                      NEW p \in Callers, call'[p].at \in CreateSteps,
                      call'[p].rule = r
               PROVE  FALSE
  BY DEF SeenAreCreated
<1>2. pass.rules[r] # None \/ (PassStep /\ rules[r] # None)
  BY <1>1, SnapshotSeen DEF SystemKindInv, PassStep
<1>3. CASE PassStep \/ PassFails
  <2>1. call' = call
    BY <1>3, PassLeavesCalls
  <2> QED BY <1>1, <1>2, <2>1 DEF SeenAreCreated, CreationInv, RuleExists
<1>4. CASE ProcessCrash
  BY <1>1, <1>4 DEF ProcessCrash, Crash, Idle, CreateSteps
<1>5. CASE UNCHANGED vars
  BY <1>1, <1>5 DEF vars, allVars, serverVars, SeenAreCreated
<1>6. CASE HandlerStep
  <2>1. PICK q \in Callers : CallStep(q) /\ UNCHANGED pass
    BY <1>6 DEF HandlerStep
  <2>2. /\ pass.rules[r] # None /\ origin[r] # None
        /\ TypeOK
    BY <1>1, <2>1 DEF SystemKindInv, SnapshotAgrees, OfKind,
       ReconcilerTypeOK
  <2>3. p = q
    BY <1>1, <2>1, <2>2, OthersStay DEF SeenAreCreated
  <2>4. WorksFor(p, call'[p])
    BY <2>1, <2>2, <2>3, KeepersWork, RowReadersWork, RequestsWork
  <2>5. GoesOn(p, call'[p]) /\ call'[p].at = "create.insert"
    BY <1>1, <2>2, <2>4, StoreAssumption
       DEF WorksFor, Forgets, GoesOn, TakesUp, Mints, CreateSteps,
           StoreAssumption
  <2>6. call[p].at \in CreateSteps /\ call[p].rule = r
    BY <1>1, <2>5 DEF GoesOn, At, CreateSteps
  <2> QED BY <2>2, <2>6 DEF SeenAreCreated
<1> QED BY <1>3, <1>4, <1>5, <1>6 DEF Next

(* How the pass gets done with rules.                                        *)
LEMMA PassReconciles ==
  ASSUME SystemKindInv, PassStep, NEW r \in RuleIds, Reconciled(r)',
         RuleExists(r), ~IsPrivateTarget(rules[r]), AllReconciled
  PROVE  Reconciled(r) \/ ReconcileRule(r)
<1>1. CASE PassEnds \/ ListAllRules
  <2>1. PassEnds => pass'.at = "idle"
    BY DEF PassEnds, IdlePass
  <2>2. ListAllRules => pass'.at = "attachments"
    BY DEF ListAllRules, SystemKindInv, ReconcilerTypeOK, PassOK, Pass
  <2> QED BY <1>1, <2>1, <2>2 DEF Reconciled
<1>2. CASE ListAllAttachments
  <2>1. /\ pass'.rules = pass.rules /\ pass'.at = "reconcile"
        /\ pass'.todoRules = {q \in RuleIds :
             pass.rules[q] # None /\ ~IsPrivateTarget(pass.rules[q])}
    BY <1>2 DEF ListAllAttachments, SystemKindInv, ReconcilerTypeOK, PassOK,
       Pass
  <2> QED BY <2>1, SeenKind DEF Reconciled
<1>3. ASSUME NEW q \in RuleIds, ReconcileRule(q)
      PROVE  Reconciled(r) \/ r = q
  <2> DEFINE id == ReconciledServiceId(q, pass.rules[q])
  <2>1. pass.at = "reconcile"
        /\ pass' = IF id = pass.rules[q].service
             THEN [pass EXCEPT !.todoRules = @ \ {q}]
             ELSE [pass EXCEPT !.at = "serviceid", !.current = q, !.id = id]
    BY <1>3 DEF ReconcileRule, PassAt
  <2> HIDE DEF id
  <2> QED BY <2>1 DEF Reconciled, SystemKindInv, ReconcilerTypeOK, PassOK,
     Pass
<1>4. CASE SaveServiceId /\ ~PassEnds
  BY <1>4, SavedPass
     DEF Reconciled, SystemKindInv, ReconcilerTypeOK, PassOK, Pass
<1>5. CASE /\ pass.at \notin {"idle", "attachments", "serviceid"}
           /\ pass'.at # "serviceid"
           /\ pass'.rules = pass.rules /\ pass'.todoRules = pass.todoRules
  BY <1>5 DEF Reconciled
<1>6. CASE /\ ~PassEnds /\ ~ListAllRules /\ ~ListAllAttachments
           /\ ~SaveServiceId /\ ~\E q \in RuleIds : ReconcileRule(q)
  <2>1. CASE \E a \in AttachmentIds :
               AttachmentInLine(a) \/ ProvisionPolicy(a) \/ PolicyDiffers(a)
    BY <1>5, <2>1 DEF AttachmentInLine, AttachmentTurn, ProvisionPolicy,
       PolicyDiffers, PassAt, SystemKindInv, ReconcilerTypeOK, PassOK, Pass
  <2>2. CASE ReplacePolicy_Delete \/ ReplacePolicy_Create \/ SavePolicyId
    BY <1>5, <1>6, <2>2 DEF ReplacePolicy_Delete, ReplacePolicy_Create,
       SavePolicyId, PassAt, SystemKindInv, ReconcilerTypeOK, PassOK, Pass
  <2>3. CASE ListServices \/ ListServicePolicies
    BY <1>5, <2>3 DEF ListServices, ListServicePolicies, PassAt,
       SystemKindInv, ReconcilerTypeOK, PassOK, Pass
  <2>4. CASE DeleteOrphanService \/ DeleteOrphanServicePolicy
    BY <1>5, <1>6, <2>4 DEF DeleteOrphanService, DeleteOrphanServicePolicy,
       PassAt, SystemKindInv, ReconcilerTypeOK, PassOK, Pass
  <2> QED BY <1>6, <2>1, <2>2, <2>3, <2>4 DEF PassStep, UnknownRule, PassDone
<1> QED BY <1>1, <1>2, <1>3, <1>4, <1>6

(* No step takes the service of a rule the pass is done with.                *)
LEMMA ReconciledStep ==
  ASSUME SystemKindInv, SystemIdsOwned, CreationInv, SweepInv,
         SystemKindInv', [Next]_vars
  PROVE  ReconciledHaveServices'
<1>1. faults' = 0 => faults = 0
  BY NoUndoStep DEF SystemKindInv, SweepInv
<1>2. SUFFICES ASSUME faults = 0, NEW r \in RuleIds, Reconciled(r)',
                      rules'[r] # None, ~IsPrivateTarget(rules'[r]),
                      services'[r] = None
               PROVE  FALSE
  BY <1>1 DEF ReconciledHaveServices, RuleExists
<1>3. CASE HandlerStep
  <2>1. PICK p \in Callers : CallStep(p) /\ UNCHANGED pass
    BY <1>3 DEF HandlerStep
  <2>2. Reconciled(r) /\ pass.rules[r] # None
    BY <1>2, <2>1 DEF Reconciled
  <2>3. RuleExists(r)
    BY <1>2, <2>1, <2>2, RulesArise DEF SystemKindInv, KindInv, SweepInv,
       SeenAreCreated, CreateSteps, At, RuleExists
  <2>4. services[r] # None
    BY <1>2, <2>2, <2>3, KindStays
       DEF SweepInv, ReconciledHaveServices, RuleExists
  <2>5. ~At(p, "create.undo")
    BY <1>2 DEF SweepInv, NoUndo
  <2> QED BY <1>2, <2>1, <2>3, <2>4, <2>5, HandlersSpare,
             SystemOwnedImpliesOwned DEF SystemKindInv
<1>4. CASE PassStep
  <2>1. RuleExists(r) /\ ~IsPrivateTarget(rules[r])
    BY <1>2, <1>4, PassStoresNoRule, KindStays DEF SystemKindInv, RuleExists
  <2>2. Reconciled(r) \/ ReconcileRule(r)
    BY <1>2, <1>4, <2>1, PassReconciles DEF SweepInv
  <2>3. CASE ReconcileRule(r)
    <3>1. pass.rules[r] \in Row /\ pass.rules[r].matcher \in Domains
      BY <2>3 DEF SystemKindInv, ReconcilerTypeOK, PassOK, Pass,
         ReconcileRule
    <3>2. UNCHANGED <<rules, call>>
      BY <2>3 DEF ReconcileRule, storeVars, serverVars
    <3>3. \A q \in RuleIds, i \in ServiceIds : InCall(q, i)' => Held(q, i)
      BY <3>2 DEF InCall, Held
    <3>4. services'[r] # None
      BY <2>3, <3>1, <3>2, <3>3, ReconcileIdsFlow
         DEF SystemKindInv, ReconcilerTypeOK, ReconcileRule
    <3> QED BY <1>2, <3>4
  <2>4. CASE Reconciled(r)
    <3>1. services[r] # None
      BY <1>2, <2>1, <2>4 DEF SweepInv, ReconciledHaveServices
    <3>2. CASE DeleteOrphanService
      <4>1. PICK id \in pass.orphans : \/ DeleteService(id)
                                       \/ UNCHANGED zitiVars
        BY <3>2 DEF DeleteOrphanService
      <4>2. ServiceHasId(r, id)
        BY <1>2, <3>1, <4>1 DEF DeleteService, zitiVars
      <4>3. pass.rules[r] = None
        BY <3>2, <4>2 DEF DeleteOrphanService, PassAt, SweepInv,
           OrphansUnknown, Known, Held
      <4> QED BY <2>4, <4>3 DEF Reconciled
    <3>3. ASSUME NEW q \in RuleIds, ReconcileRule(q)
          PROVE  FALSE
      BY <1>2, <3>1, <3>3, ZitiAssumption DEF ReconcileRule,
         ReconcileRuleService, CreateService, zitiVars, SystemKindInv,
         KindInv, TypeOK, ZitiTypeOK
    <3>4. CASE UNCHANGED services
      BY <1>2, <3>1, <3>4
    <3> QED BY <1>4, <3>2, <3>3, <3>4 DEF PassStep, ListAllRules,
       ListAllAttachments, SaveServiceId, UnknownRule, AttachmentInLine,
       ProvisionPolicy, CreateServicePolicy, PolicyDiffers,
       ReplacePolicy_Delete, DeleteServicePolicy, ReplacePolicy_Create,
       SavePolicyId, ListServices, ListServicePolicies,
       DeleteOrphanServicePolicy, PassDone, allVars, zitiVars
  <2> QED BY <2>2, <2>3, <2>4
<1>5. CASE PassFails \/ ProcessCrash
  BY <1>2, <1>5 DEF PassFails, ProcessCrash, PassEnds, IdlePass, Reconciled
<1>6. CASE UNCHANGED vars
  BY <1>2, <1>6 DEF vars, allVars, storeVars, zitiVars, serverVars,
     SweepInv, ReconciledHaveServices, Reconciled, RuleExists
<1> QED BY <1>3, <1>4, <1>5, <1>6 DEF Next

(* The ids to sweep are those of a list, or of one that was longer.          *)
LEMMA OrphansListed ==
  ASSUME SystemKindInv, [Next]_vars, pass'.at = "services"
  PROVE  \/ ListServices /\ pass'.rules = pass.rules
            /\ pass'.orphans = {services[r].id : r \in OrphanServices}
         \/ pass.at = "services" /\ pass'.rules = pass.rules
            /\ pass'.orphans \subseteq pass.orphans
<1> USE DEF SystemKindInv, ReconcilerTypeOK, PassOK
<1>1. CASE HandlerStep \/ UNCHANGED vars
  BY <1>1 DEF HandlerStep, vars
<1>2. CASE PassEnds
  BY <1>2 DEF PassEnds, IdlePass
<1>3. CASE ListServices
  BY <1>3 DEF ListServices, Pass
<1>4. CASE DeleteOrphanService /\ ~PassEnds
  BY <1>4 DEF DeleteOrphanService, PassAt, Pass
<1>5. CASE SaveServiceId
  BY <1>5, SavedPass, <1>2
<1>6. ASSUME NEW q \in RuleIds, ReconcileRule(q)
      PROVE  FALSE
  <2> DEFINE id == ReconciledServiceId(q, pass.rules[q])
  <2>1. pass.at = "reconcile"
        /\ pass' = IF id = pass.rules[q].service
             THEN [pass EXCEPT !.todoRules = @ \ {q}]
             ELSE [pass EXCEPT !.at = "serviceid", !.current = q, !.id = id]
    BY <1>6 DEF ReconcileRule, PassAt
  <2> HIDE DEF id
  <2> QED BY <2>1 DEF Pass
<1>7. CASE /\ PassStep /\ ~PassEnds /\ ~ListServices /\ ~DeleteOrphanService
           /\ ~SaveServiceId /\ ~\E q \in RuleIds : ReconcileRule(q)
  BY <1>7 DEF PassStep, ListAllRules, ListAllAttachments, UnknownRule,
     AttachmentInLine, AttachmentTurn, ProvisionPolicy, PolicyDiffers,
     PassAt, ReplacePolicy_Delete, ReplacePolicy_Create, SavePolicyId,
     ListServicePolicies, DeleteOrphanServicePolicy, PassDone, Pass
<1> QED BY <1>1, <1>2, <1>3, <1>4, <1>5, <1>6, <1>7
        DEF Next, PassFails, ProcessCrash

LEMMA OrphansStep ==
  ASSUME SystemKindInv, SystemIdsOwned, SweepInv, SystemKindInv', [Next]_vars
  PROVE  OrphansUnknown'
<1>1. SUFFICES ASSUME pass'.at = "services", NEW id \in pass'.orphans
               PROVE  /\ id \in ServiceIds /\ id <= serviceIds'
                      /\ \A r \in RuleIds : Known(r, id)' => pass'.rules[r] = None
  BY DEF OrphansUnknown
<1>2. /\ serviceIds \in Nat /\ serviceIds' \in {serviceIds, serviceIds + 1}
      /\ \A r \in RuleIds, i \in ServiceIds :
           Known(r, i)' => Known(r, i) \/ i = serviceIds + 1
  BY NextIds DEF KnownFlow, SystemKindInv, ReconcilerTypeOK, TypeOK,
     ZitiTypeOK
<1>3. ASSUME id \in ServiceIds, id <= serviceIds, pass'.rules = pass.rules,
             \A r \in RuleIds : Known(r, id) => pass.rules[r] = None
      PROVE  /\ id \in ServiceIds /\ id <= serviceIds'
             /\ \A r \in RuleIds : Known(r, id)' => pass'.rules[r] = None
  BY <1>2, <1>3 DEF ServiceIds
<1>4. CASE ListServices /\ pass'.rules = pass.rules
           /\ pass'.orphans = {services[r].id : r \in OrphanServices}
  <2>1. PICK q \in OrphanServices : id = services[q].id
    BY <1>1, <1>4
  <2>2. q \in RuleIds /\ services[q] # None /\ pass.rules[q] = None
    BY <2>1 DEF OrphanServices, ManagedServices
  <2>3. id \in ServiceIds
    BY <2>1, <2>2 DEF SystemKindInv, KindInv, ServicesPublic, TypeOK,
       ZitiTypeOK, Service, ServiceIds
  <2>4. Known(q, id)
    BY <2>1, <2>2 DEF Known, Held, ServiceHasId
  <2> QED BY <1>3, <1>4, <2>2, <2>3, <2>4 DEF SystemIdsOwned
<1>5. CASE /\ pass.at = "services" /\ pass'.rules = pass.rules
           /\ pass'.orphans \subseteq pass.orphans
  BY <1>1, <1>3, <1>5 DEF SweepInv, OrphansUnknown
<1> QED BY <1>1, <1>4, <1>5, OrphansListed

LEMMA AllReconciledStep ==
  ASSUME SystemKindInv, AllReconciled, [Next]_vars
  PROVE  AllReconciled'
<1> USE DEF SystemKindInv, ReconcilerTypeOK, PassOK, AllReconciled
<1>1. CASE HandlerStep \/ UNCHANGED vars
  BY <1>1 DEF HandlerStep, vars
<1>2. CASE PassEnds
  BY <1>2 DEF PassEnds, IdlePass
<1>3. CASE SaveServiceId
  BY <1>3, SavedPass, <1>2
<1>4. ASSUME NEW q \in RuleIds, ReconcileRule(q)
      PROVE  pass'.at \in {"reconcile", "serviceid"}
  <2> DEFINE id == ReconciledServiceId(q, pass.rules[q])
  <2>1. pass.at = "reconcile"
        /\ pass' = IF id = pass.rules[q].service
             THEN [pass EXCEPT !.todoRules = @ \ {q}]
             ELSE [pass EXCEPT !.at = "serviceid", !.current = q, !.id = id]
    BY <1>4 DEF ReconcileRule, PassAt
  <2> HIDE DEF id
  <2> QED BY <2>1 DEF Pass
<1>5. CASE ListServices \/ ListServicePolicies
  BY <1>5 DEF ListServices, ListServicePolicies, PassAt, Pass
<1>6. CASE /\ DeleteOrphanService \/ DeleteOrphanServicePolicy
           /\ ~PassEnds
  BY <1>6 DEF DeleteOrphanService, DeleteOrphanServicePolicy, PassAt, Pass
<1>7. CASE /\ PassStep /\ ~PassEnds /\ ~ListServices /\ ~ListServicePolicies
           /\ ~DeleteOrphanService /\ ~DeleteOrphanServicePolicy
           /\ ~SaveServiceId /\ ~\E q \in RuleIds : ReconcileRule(q)
  BY <1>7 DEF PassStep, ListAllRules, ListAllAttachments, UnknownRule,
     AttachmentInLine, AttachmentTurn, ProvisionPolicy, PolicyDiffers,
     PassAt, ReplacePolicy_Delete, ReplacePolicy_Create, SavePolicyId,
     PassDone, Pass
<1> QED BY <1>1, <1>2, <1>3, <1>4, <1>5, <1>6, <1>7
        DEF Next, PassFails, ProcessCrash

LEMMA InitSweep ==
  ASSUME ReconcilerInit
  PROVE  SweepInv
BY DEF ReconcilerInit, Init, ServerInit, IdlePass, Idle, SweepInv, NoUndo,
   At, SeenAreCreated, ReconciledHaveServices, Reconciled, OrphansUnknown,
   AllReconciled

(* The reconciler deletes the services of rules it has not seen, and of no   *)
(* other: no public rule it knows of and that is still stored is without its *)
(* service while it sweeps.                                                  *)
THEOREM SweepSparesRules == Spec => []SweepSparesKnownRules
<1>1. ASSUME SystemLifeInv, SystemLifeInv', SweepInv, [Next]_vars
      PROVE  SweepInv'
  <2>1. SystemKindInv /\ SystemIdsOwned /\ CreationInv /\ SystemKindInv'
    BY <1>1 DEF SystemLifeInv, SystemIdInv
  <2>2. NoUndo'
    BY <1>1, <2>1, NoUndoStep DEF SweepInv, SystemKindInv
  <2>3. SeenAreCreated'
    BY <1>1, <2>1, SeenAreCreatedStep DEF SweepInv
  <2>4. ReconciledHaveServices'
    BY <1>1, <2>1, ReconciledStep
  <2>5. OrphansUnknown'
    BY <1>1, <2>1, OrphansStep
  <2>6. AllReconciled'
    BY <1>1, <2>1, AllReconciledStep DEF SweepInv
  <2> QED BY <2>2, <2>3, <2>4, <2>5, <2>6 DEF SweepInv
<1>2. SweepInv => SweepSparesKnownRules
  BY DEF SweepInv, ReconciledHaveServices, AllReconciled, Reconciled,
     SweepSparesKnownRules
<1> QED BY <1>1, <1>2, InitSweep, SystemLifeInvariant, PTL DEF Spec

=============================================================================
