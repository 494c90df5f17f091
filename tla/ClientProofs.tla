---------------------------- MODULE ClientProofs ----------------------------
(* What the service's clients rest on: the catalog that its API promises,    *)
(* the counts that keep a gateway mediating a resource, the notifications    *)
(* that keep the gateways' caches from growing stale, and the scope of       *)
(* policies while two processes of the service overlap.                      *)
EXTENDS GatewayCache, Mediation, CatalogRefinement, ReconcilerPair,
        LifecycleProofs

USE DEF NoId

---------------------------------------------------------------------------
(* The catalog.  The rules a client sees change at the steps of creates,     *)
(* updates and deletes, the links at those of attaches and detaches: no step *)
(* changes both, so each is treated on its own.                              *)

(* An attachment id is minted for one call, which stores it at most once.    *)

LinkInv ==
  /\ \A a \in AttachmentIds : AttachmentExists(a) => a \in minted
  /\ \A p \in Callers : At(p, "attach.insert") =>
       /\ call[p].attachment \in minted
       /\ ~AttachmentExists(call[p].attachment)
       /\ \A q \in Callers \ {p} :
            At(q, "attach.insert") => call[q].attachment # call[p].attachment

(* What a handler does to the tables.                                        *)
LEMMA HandlerStores ==
  ASSUME NEW p \in Callers, CallStep(p)
  PROVE  \/ UNCHANGED <<rules, attachments>>
         \/ At(p, "create.insert") /\ InsertRule(call[p].rule, call[p].row)
         \/ At(p, "update.write") /\ UpdateRule(call[p].rule, call[p].row)
         \/ At(p, "delete.row") /\ DeleteRule(call[p].rule)
         \/ /\ At(p, "attach.serviceid")
            /\ UpdateRuleServiceID(call[p].rule, call[p].row.service)
         \/ /\ At(p, "attach.insert")
            /\ InsertAttachment(call[p].attachment, NewAttachment(call[p]))
         \/ At(p, "detach.row") /\ DeleteAttachment(call[p].attachment)
<1>1. CASE RuleStep(p)
  BY <1>1 DEF RuleStep, storeVars, CreateEgressRule,
     CreateEgressRule_Service, CreateEgressRule_Insert,
     CreateEgressRule_InsertError, CreateEgressRule_Undo,
     CreateEgressRule_ReadBack, SyncPrivateResourceMediation_Count,
     SyncPrivateResourceMediation_Set, SyncPrivateResourceMediation_Error,
     UpdateEgressRule, UpdateEgressRule_Service, UpdateEgressRule_Write,
     UpdateEgressRule_ReadBack, DeleteEgressRule, DeleteEgressRule_Count,
     DeleteEgressRule_Row, DeleteEgressRule_Service, PublishRuleUpdated
<1>2. CASE AttachmentStep(p)
  BY <1>2 DEF AttachmentStep, storeVars, CreateEgressRuleAttachment,
     CreateEgressRuleAttachment_Check, CreateEgressRuleAttachment_Service,
     CreateEgressRuleAttachment_SaveServiceId,
     CreateEgressRuleAttachment_Policy, CreateEgressRuleAttachment_Insert,
     CreateEgressRuleAttachment_InsertError,
     CreateEgressRuleAttachment_Undo, CreateEgressRuleAttachment_ReadBack,
     DeleteEgressRuleAttachment, DeleteEgressRuleAttachment_Row,
     DeleteEgressRuleAttachment_Policy, PublishAttachmentUpdated
<1>3. CASE CallFails(p)
  BY <1>3 DEF CallFails, storeVars
<1> QED BY SMTT(30), <1>1, <1>2, <1>3 DEF CallStep

(* A call comes to store an attachment only when its id is minted.           *)
LEMMA InsertIsEntered ==
  ASSUME TypeOK, NEW p \in Callers,
         \/ Return(p) \/ GotoPublishRule(p)
         \/ \E step : step # "attach.insert" /\ Goto(p, step)
         \/ \E c : c.at # "attach.insert" /\ call' = [call EXCEPT ![p] = c]
  PROVE  call'[p].at # "attach.insert"
<1>1. CASE Return(p) \/ GotoPublishRule(p)
  <2>1. CASE Return(p)
    BY <2>1, ReturnMoved
  <2>2. CASE GotoPublishRule(p)
    <3>1. call'[p].at = "rule.publish"
      BY <2>2 DEF GotoPublishRule, Idle, TypeOK, ServerTypeOK
    <3> QED BY <3>1
  <2> QED BY <1>1, <2>1, <2>2
<1>2. ASSUME NEW step, step # "attach.insert", Goto(p, step)
      PROVE  call'[p].at # "attach.insert"
  BY <1>2 DEF TypeOK, ServerTypeOK, Call, Goto
<1>3. ASSUME NEW c, c.at # "attach.insert", call' = [call EXCEPT ![p] = c]
      PROVE  call'[p].at # "attach.insert"
  BY <1>3 DEF TypeOK, ServerTypeOK
<1> QED BY <1>1, <1>2, <1>3

LEMMA InsertIsMinted ==
  ASSUME TypeOK, NEW p \in Callers, CallStep(p),
         ~CreateEgressRuleAttachment_Policy(p)
  PROVE  call'[p].at # "attach.insert"
<1>1. CASE \/ CreateEgressRule(p) \/ UpdateEgressRule(p)
           \/ DeleteEgressRule(p) \/ CreateEgressRuleAttachment(p)
           \/ DeleteEgressRuleAttachment(p)
  <2>1. \E c : c.at # "attach.insert" /\ call' = [call EXCEPT ![p] = c]
    BY <1>1 DEF CreateEgressRule, UpdateEgressRule, DeleteEgressRule,
       CreateEgressRuleAttachment, DeleteEgressRuleAttachment, Idle
  <2> QED BY <2>1, InsertIsEntered
<1>2. CASE CreateEgressRule_Service(p)
  <2> DEFINE id == CreatedServiceId(call[p].rule)
  <2>1. call' = [call EXCEPT ![p].at = "create.insert", ![p].row.service = id]
    BY <1>2 DEF CreateEgressRule_Service
  <2> HIDE DEF id
  <2> QED BY <2>1 DEF TypeOK, ServerTypeOK, Call
<1>3. CASE CreateEgressRuleAttachment_Service(p)
  <2> DEFINE id == ReconciledServiceId(call[p].rule, call[p].row)
  <2>1. call' = [call EXCEPT
          ![p].at = IF id = call[p].row.service THEN "attach.policy"
                                                ELSE "attach.serviceid",
          ![p].row.service = id]
    BY <1>3 DEF CreateEgressRuleAttachment_Service
  <2> HIDE DEF id
  <2> QED BY <2>1 DEF TypeOK, ServerTypeOK, Call
<1>4. CASE \/ /\ CreateEgressRule_ReadBack(p)
              /\ ~GotoPublishRule(p) /\ ~Return(p)
           \/ SyncPrivateResourceMediation_Count(p)
  BY <1>4 DEF CreateEgressRule_ReadBack, TypeOK, ServerTypeOK, Call,
     SyncPrivateResourceMediation_Count
<1>5. CASE \/ Return(p) \/ GotoPublishRule(p)
           \/ \E step : step # "attach.insert" /\ Goto(p, step)
  BY <1>5, InsertIsEntered
<1>6. CASE RuleStep(p)
  BY <1>1, <1>2, <1>4, <1>5, <1>6 DEF RuleStep, Abandon,
     CreateEgressRule_Insert, CreateEgressRule_InsertError,
     CreateEgressRule_Undo,
     SyncPrivateResourceMediation_Set, SyncPrivateResourceMediation_Error,
     UpdateEgressRule_Service, UpdateEgressRule_Write,
     UpdateEgressRule_ReadBack, DeleteEgressRule_Count,
     DeleteEgressRule_Row, DeleteEgressRule_Service, PublishRuleUpdated
<1>7. CASE AttachmentStep(p)
  BY <1>1, <1>3, <1>5, <1>7 DEF AttachmentStep, Abandon,
     CreateEgressRuleAttachment_Check,
     CreateEgressRuleAttachment_SaveServiceId,
     CreateEgressRuleAttachment_Insert,
     CreateEgressRuleAttachment_InsertError,
     CreateEgressRuleAttachment_Undo, CreateEgressRuleAttachment_ReadBack,
     DeleteEgressRuleAttachment_Row,
     DeleteEgressRuleAttachment_Policy, PublishAttachmentUpdated
<1>8. CASE CallFails(p)
  BY <1>5, <1>8 DEF CallFails, Abandon
<1> QED BY <1>6, <1>7, <1>8 DEF CallStep

LEMMA HandlerMints ==
  ASSUME TypeOK, NEW p \in Callers, CallStep(p)
  PROVE  \/ UNCHANGED minted /\ call'[p].at # "attach.insert"
         \/ /\ UNCHANGED <<rules, attachments>>
            /\ At(p, "attach.policy")
            /\ \E a \in AttachmentIds \ minted :
                 /\ minted' = minted \cup {a}
                 /\ call'[p].attachment = a /\ call'[p].at = "attach.insert"
<1>1. CASE CreateEgressRuleAttachment_Policy(p)
  BY <1>1 DEF CreateEgressRuleAttachment_Policy, storeVars, Idle, TypeOK,
     ServerTypeOK
<1>2. CASE ~CreateEgressRuleAttachment_Policy(p)
  <2>1. call'[p].at # "attach.insert"
    BY SMTT(30), <1>2, InsertIsMinted
  <2>2. CASE RuleStep(p) \/ CallFails(p)
    BY <2>1, <2>2 DEF RuleStep, CallFails, historyVars, CreateEgressRule,
       CreateEgressRule_Service, CreateEgressRule_Insert,
       CreateEgressRule_InsertError, CreateEgressRule_Undo,
       CreateEgressRule_ReadBack, SyncPrivateResourceMediation_Count,
       SyncPrivateResourceMediation_Set, SyncPrivateResourceMediation_Error,
       UpdateEgressRule, UpdateEgressRule_Service, UpdateEgressRule_Write,
       UpdateEgressRule_ReadBack, DeleteEgressRule, DeleteEgressRule_Count,
       DeleteEgressRule_Row, DeleteEgressRule_Service, PublishRuleUpdated
  <2>3. CASE AttachmentStep(p)
    BY <1>2, <2>1, <2>3 DEF AttachmentStep, historyVars,
       CreateEgressRuleAttachment,
       CreateEgressRuleAttachment_Check, CreateEgressRuleAttachment_Service,
       CreateEgressRuleAttachment_SaveServiceId,
       CreateEgressRuleAttachment_Insert,
       CreateEgressRuleAttachment_InsertError,
       CreateEgressRuleAttachment_Undo, CreateEgressRuleAttachment_ReadBack,
       DeleteEgressRuleAttachment, DeleteEgressRuleAttachment_Row,
       DeleteEgressRuleAttachment_Policy, PublishAttachmentUpdated
  <2> QED BY <2>2, <2>3 DEF CallStep
<1> QED BY <1>1, <1>2

(* The rule ids minted by a handler's step, if any, are those it takes up to *)
(* create.                                                                   *)
LEMMA HandlerOrigins ==
  ASSUME TypeOK, NEW p \in Callers, CallStep(p)
  PROVE  \/ UNCHANGED origin
         \/ \E r \in RuleIds :
              /\ call[p].at = "idle"
              /\ origin[r] = None /\ origin'[r] # None
              /\ call'[p].rule = r /\ call'[p].at \in CreateSteps
              /\ \A q \in RuleIds \ {r} : origin'[q] = origin[q]
<1>1. CASE CreateEgressRule(p)
  <2>1. PICK r \in RuleIds, m \in Matchers :
          /\ origin[r] = None
          /\ origin' = [origin EXCEPT ![r] = m]
          /\ call' = [call EXCEPT ![p] = [Idle EXCEPT
               !.at = IF m \in Resources THEN "create.insert"
                                         ELSE "create.service",
               !.rule = r,
               !.row = [matcher |-> m, service |-> NoId]]]
    BY <1>1 DEF CreateEgressRule
  <2>2. call'[p].rule = r /\ call'[p].at \in CreateSteps
    BY <2>1 DEF TypeOK, ServerTypeOK, Idle, CreateSteps
  <2>3. origin'[r] # None /\ \A q \in RuleIds \ {r} : origin'[q] = origin[q]
    BY SMTT(30), <2>1, StoreAssumption
       DEF TypeOK, ServerTypeOK, StoreAssumption, Matchers
  <2> QED BY <1>1, <2>1, <2>2, <2>3 DEF CreateEgressRule, Receive, At
<1>2. CASE RuleStep(p) /\ ~CreateEgressRule(p)
  BY <1>2 DEF RuleStep, historyVars,
     CreateEgressRule_Service, CreateEgressRule_Insert,
     CreateEgressRule_InsertError, CreateEgressRule_Undo,
     CreateEgressRule_ReadBack, SyncPrivateResourceMediation_Count,
     SyncPrivateResourceMediation_Set, SyncPrivateResourceMediation_Error,
     UpdateEgressRule, UpdateEgressRule_Service, UpdateEgressRule_Write,
     UpdateEgressRule_ReadBack, DeleteEgressRule, DeleteEgressRule_Count,
     DeleteEgressRule_Row, DeleteEgressRule_Service, PublishRuleUpdated
<1>3. CASE AttachmentStep(p)
  BY <1>3 DEF AttachmentStep, historyVars, CreateEgressRuleAttachment,
     CreateEgressRuleAttachment_Check, CreateEgressRuleAttachment_Service,
     CreateEgressRuleAttachment_SaveServiceId,
     CreateEgressRuleAttachment_Policy, CreateEgressRuleAttachment_Insert,
     CreateEgressRuleAttachment_InsertError,
     CreateEgressRuleAttachment_Undo, CreateEgressRuleAttachment_ReadBack,
     DeleteEgressRuleAttachment, DeleteEgressRuleAttachment_Row,
     DeleteEgressRuleAttachment_Policy, PublishAttachmentUpdated
<1>4. CASE CallFails(p)
  BY <1>4 DEF CallFails, historyVars
<1> QED BY <1>1, <1>2, <1>3, <1>4 DEF CallStep

---------------------------------------------------------------------------
(* Attachment ids.                                                           *)

LEMMA CallStepLink ==
  ASSUME TypeOK, LinkInv, NEW p \in Callers, CallStep(p)
  PROVE  LinkInv'
<1>1. \A q \in Callers \ {p} : call'[q] = call[q]
  BY OthersStay
<1>2. \A q \in Callers : At(q, "attach.insert") =>
        call[q].attachment \in AttachmentIds
  BY DEF TypeOK, ServerTypeOK, CallOK, AttachmentSteps, At
<1>3. ASSUME NEW a \in AttachmentIds, AttachmentExists(a)'
      PROVE  \/ AttachmentExists(a)
             \/ At(p, "attach.insert") /\ a = call[p].attachment
  BY <1>2, <1>3, HandlerStores DEF AttachmentExists, TypeOK, StoreTypeOK,
     InsertRule, UpdateRule, DeleteRule, UpdateRuleServiceID,
     InsertAttachment, DeleteAttachment
<1>4. CASE UNCHANGED minted /\ call'[p].at # "attach.insert"
  BY <1>1, <1>2, <1>3, <1>4 DEF LinkInv, At
<1>5. CASE /\ UNCHANGED <<rules, attachments>>
           /\ At(p, "attach.policy")
           /\ \E a \in AttachmentIds \ minted :
                minted' = minted \cup {a} /\ call'[p].attachment = a
  <2>1. PICK a \in AttachmentIds \ minted :
          minted' = minted \cup {a} /\ call'[p].attachment = a
    BY <1>5
  <2>2. ~AttachmentExists(a)'
    BY <1>5, <2>1 DEF LinkInv, AttachmentExists
  <2>3. \A q \in Callers \ {p} : At(q, "attach.insert") =>
          call[q].attachment # a
    BY <2>1 DEF LinkInv
  <2> QED BY <1>1, <1>2, <1>5, <2>1, <2>2, <2>3
          DEF LinkInv, At, AttachmentExists
<1> QED BY <1>4, <1>5, HandlerMints

(* An id written back is no change a client sees.                            *)
LEMMA ServiceIdUnseen ==
  ASSUME StoreTypeOK, NEW r \in RuleIds, NEW id \in Nat,
         UpdateRuleServiceID(r, id)
  PROVE  /\ UNCHANGED <<Contents, Links, attachments>>
         /\ \A q \in RuleIds :
              /\ rules'[q] # None <=> rules[q] # None
              /\ rules[q] # None => rules'[q].matcher = rules[q].matcher
<1>1. StoreTypeOK'
  BY UpdateRuleServiceIDType
<1>2. /\ rules[r] \in Row /\ rules'[r] # None
      /\ rules'[r].matcher = rules[r].matcher
      /\ \A q \in RuleIds \ {r} : rules'[q] = rules[q]
      /\ UNCHANGED attachments
  BY <1>1, RowAssumption
     DEF UpdateRuleServiceID, RuleExists, StoreTypeOK, Row
<1>3. rules[r] # None
  BY DEF UpdateRuleServiceID, RuleExists
<1> QED BY <1>2, <1>3 DEF Contents, Links, RuleExists, AttachmentExists

LEMMA PolicyIdUnseen ==
  ASSUME StoreTypeOK, NEW a \in AttachmentIds, NEW id \in Nat,
         UpdateAttachmentPolicyID(a, id)
  PROVE  /\ UNCHANGED <<Contents, Links, rules>>
         /\ \A b \in AttachmentIds :
              attachments'[b] # None <=> attachments[b] # None
<1>1. StoreTypeOK'
  BY UpdateAttachmentPolicyIDType
<1>2. /\ attachments[a] \in AttachmentRow /\ attachments'[a] # None
      /\ attachments'[a].rule = attachments[a].rule
      /\ attachments'[a].target = attachments[a].target
      /\ \A b \in AttachmentIds \ {a} : attachments'[b] = attachments[b]
      /\ UNCHANGED rules
  BY <1>1, RowAssumption
     DEF UpdateAttachmentPolicyID, AttachmentExists, StoreTypeOK, AttachmentRow
<1>3. attachments[a] # None
  BY SMTT(30) DEF UpdateAttachmentPolicyID, AttachmentExists
<1> QED BY <1>2, <1>3 DEF Contents, Links, RuleExists, AttachmentExists

LEMMA PassUnseen ==
  ASSUME ReconcilerTypeOK, PassStep \/ PassFails
  PROVE  /\ UNCHANGED <<Contents, Links>>
         /\ \A r \in RuleIds : rules'[r] # None <=> rules[r] # None
         /\ \A a \in AttachmentIds :
              attachments'[a] # None <=> attachments[a] # None
<1>1. StoreTypeOK /\ pass.id \in Nat
  BY DEF ReconcilerTypeOK, TypeOK, PassOK, Pass
<1>2. CASE UpdateRuleServiceID(pass.current, pass.id)
           /\ pass.current \in RuleIds
  BY <1>1, <1>2, ServiceIdUnseen
<1>3. CASE UpdateAttachmentPolicyID(pass.current, pass.id)
           /\ pass.current \in AttachmentIds
  BY <1>1, <1>3, PolicyIdUnseen
<1>4. CASE UNCHANGED storeVars
  BY <1>4 DEF storeVars, Contents, Links, RuleExists, AttachmentExists
<1>5. SaveServiceId => pass.current \in RuleIds
  BY DEF SaveServiceId, ReconcilerTypeOK, PassOK, Pass, PassAt
<1>6. SavePolicyId => pass.current \in AttachmentIds
  BY DEF SavePolicyId, ReconcilerTypeOK, PassOK, Pass, PassAt
<1> QED BY <1>2, <1>3, <1>4, <1>5, <1>6 DEF PassStep, PassFails,
   ListAllRules, ListAllAttachments, ReconcileRule, SaveServiceId,
   UnknownRule, AttachmentInLine, ProvisionPolicy, PolicyDiffers,
   ReplacePolicy_Delete, ReplacePolicy_Create, SavePolicyId, ListServices,
   DeleteOrphanService, ListServicePolicies, DeleteOrphanServicePolicy,
   PassDone, allVars

LEMMA NextLink ==
  ASSUME ReconcilerTypeOK, LinkInv, [Next]_vars
  PROVE  LinkInv'
<1>1. CASE HandlerStep
  BY <1>1, CallStepLink DEF HandlerStep, ReconcilerTypeOK
<1>2. CASE PassStep \/ PassFails
  <2>1. UNCHANGED <<call, minted>>
    BY <1>2, PassLeavesCalls
  <2>2. \A a \in AttachmentIds : attachments'[a] # None <=> attachments[a] # None
    BY <1>2, PassUnseen
  <2>3. \A q \in Callers : At(q, "attach.insert") =>
          call[q].attachment \in AttachmentIds
    BY DEF ReconcilerTypeOK, TypeOK, ServerTypeOK, CallOK, AttachmentSteps, At
  <2> QED BY <2>1, <2>2, <2>3 DEF LinkInv, At, AttachmentExists
<1>3. CASE ProcessCrash
  <2>1. /\ \A p \in Callers : call'[p].at = "idle"
        /\ UNCHANGED <<attachments, minted>>
    BY <1>3 DEF ProcessCrash, Crash, Idle, storeVars, historyVars
  <2> QED BY <2>1 DEF LinkInv, At, AttachmentExists
<1>4. CASE UNCHANGED vars
  BY <1>4 DEF vars, allVars, storeVars, serverVars, LinkInv, At,
     AttachmentExists
<1> QED BY <1>1, <1>2, <1>3, <1>4 DEF Next

---------------------------------------------------------------------------
(* Rules: a step of a handler stores one, changes one, removes one, gives    *)
(* one up or changes nothing a client sees of them.                          *)

LEMMA CreatorsStep ==
  ASSUME KindInv, CreationInv, NEW p \in Callers, CallStep(p)
  PROVE  \/ /\ call[p].at \in CreateSteps <=> call'[p].at \in CreateSteps
            /\ call[p].at \in CreateSteps => call'[p].rule = call[p].rule
            /\ UNCHANGED origin
         \/ /\ call[p].at \in CreateSteps /\ call'[p].at \notin CreateSteps
            /\ UNCHANGED origin
         \/ /\ call[p].at = "idle" /\ call'[p].at \in CreateSteps
            /\ call'[p].rule \in RuleIds
            /\ origin[call'[p].rule] = None
            /\ \A q \in RuleIds \ {call'[p].rule} : origin'[q] = origin[q]
<1>1. WorksFor(p, call'[p])
  BY KeepersWork, RowReadersWork, RequestsWork DEF KindInv
<1>2. \/ UNCHANGED origin
      \/ \E r \in RuleIds :
           /\ call[p].at = "idle"
           /\ origin[r] = None /\ origin'[r] # None
           /\ call'[p].rule = r /\ call'[p].at \in CreateSteps
           /\ \A q \in RuleIds \ {r} : origin'[q] = origin[q]
  BY HandlerOrigins DEF KindInv
<1>3. CASE UNCHANGED origin
  <2>1. TypeOK'
    BY ServerNextType DEF KindInv, ServerNext
  <2>2. call'[p].at \in CreateSteps => call'[p].rule # None
    BY <2>1, StoreAssumption DEF TypeOK, ServerTypeOK, CallOK, RuleSteps,
       RowSteps, PublicSteps, CreateSteps, StoreAssumption
  <2>3. call'[p].at \in CreateSteps =>
          call[p].at \in CreateSteps /\ call'[p].rule = call[p].rule
    BY <1>1, <1>3, <2>2 DEF WorksFor, Forgets, GoesOn, TakesUp, Mints,
       CreateSteps, At
  <2> QED BY <1>3, <2>3
<1>4. CASE ~UNCHANGED origin
  BY <1>2, <1>4 DEF CreateSteps
<1> QED BY <1>3, <1>4

(* The ids gone with a step that stores and removes no rule.                 *)
LEMMA GoneByGivingUp ==
  ASSUME KindInv, CreationInv, NEW p \in Callers, CallStep(p),
         \A r \in RuleIds : rules'[r] # None <=> rules[r] # None
  PROVE  \/ UNCHANGED GoneRules
         \/ /\ call[p].at \in CreateSteps /\ call[p].rule \in RuleIds
            /\ ~RuleExists(call[p].rule)
            /\ GoneRules' = GoneRules \cup {call[p].rule}
<1> DEFINE Others(r) == \E q \in Callers \ {p} :
                          call[q].rule = r /\ call[q].at \in CreateSteps
           Mine(r) == call[p].rule = r /\ call[p].at \in CreateSteps
           Still(r) == call'[p].rule = r /\ call'[p].at \in CreateSteps
<1>1. \A r \in RuleIds : BeingCreated(r) <=> Others(r) \/ Mine(r)
  BY DEF BeingCreated, CreateSteps
<1>2. \A r \in RuleIds : BeingCreated(r)' <=> Others(r) \/ Still(r)
  BY OthersStay DEF BeingCreated, CreateSteps, KindInv
<1>3. /\ call[p].at \in CreateSteps =>
           /\ call[p].rule \in RuleIds /\ origin[call[p].rule] # None
           /\ ~RuleExists(call[p].rule) /\ ~Others(call[p].rule)
      /\ \A r \in RuleIds : Others(r) => origin[r] # None
  BY StoreAssumption DEF CreationInv, KindInv, TypeOK, ServerTypeOK, CallOK,
     RuleSteps, RowSteps, PublicSteps, CreateSteps, StoreAssumption
<1>4. \A r \in RuleIds :
        /\ r \in GoneRules <=>
             origin[r] # None /\ rules[r] = None /\ ~Others(r) /\ ~Mine(r)
        /\ r \in GoneRules' <=>
             origin'[r] # None /\ rules[r] = None /\ ~Others(r) /\ ~Still(r)
  BY <1>1, <1>2 DEF GoneRules, RuleExists
<1>5. GoneRules \subseteq RuleIds /\ GoneRules' \subseteq RuleIds
  BY DEF GoneRules
<1>6. CASE /\ call[p].at \in CreateSteps <=> call'[p].at \in CreateSteps
           /\ call[p].at \in CreateSteps => call'[p].rule = call[p].rule
           /\ UNCHANGED origin
  BY <1>4, <1>5, <1>6
<1>7. CASE /\ call[p].at \in CreateSteps /\ call'[p].at \notin CreateSteps
           /\ UNCHANGED origin
  <2>1. GoneRules' = GoneRules \cup {call[p].rule}
    BY <1>3, <1>4, <1>5, <1>7 DEF RuleExists
  <2> QED BY <1>3, <1>7, <2>1
<1>8. CASE /\ call[p].at = "idle" /\ call'[p].at \in CreateSteps
           /\ call'[p].rule \in RuleIds
           /\ origin[call'[p].rule] = None
           /\ \A q \in RuleIds \ {call'[p].rule} : origin'[q] = origin[q]
  <2>1. \A r : r \in GoneRules' <=> r \in GoneRules
    BY <1>4, <1>5, <1>8 DEF CreateSteps
  <2> QED BY <2>1
<1> HIDE DEF Others, Mine, Still
<1> QED BY <1>6, <1>7, <1>8, CreatorsStep

LEMMA GoneByStoring ==
  ASSUME KindInv, CreationInv, NEW p \in Callers, CallStep(p),
         At(p, "create.insert"), InsertRule(call[p].rule, call[p].row)
  PROVE  UNCHANGED GoneRules /\ call[p].rule \notin GoneRules
<1> DEFINE s == call[p].rule
           Others(r) == \E q \in Callers \ {p} :
                          call[q].rule = r /\ call[q].at \in CreateSteps
<1>1. /\ s \in RuleIds /\ rules[s] = None
      /\ call[p].row # None /\ call[p].at \in CreateSteps
  BY RowAssumption DEF KindInv, TypeOK, ServerTypeOK, CallOK, RuleSteps,
     RowSteps, PublicSteps, CreateSteps, At, InsertRule
<1>2. /\ rules'[s] # None
      /\ \A r \in RuleIds \ {s} : rules'[r] = rules[r]
  BY <1>1 DEF InsertRule, KindInv, TypeOK, StoreTypeOK
<1>3. /\ UNCHANGED origin
      /\ call'[p].at \in CreateSteps => call'[p].rule = s
  BY <1>1, CreatorsStep DEF At
<1>4. \A r \in RuleIds \ {s} : /\ BeingCreated(r) <=> Others(r)
                               /\ BeingCreated(r)' <=> Others(r)
  BY <1>3, OthersStay DEF BeingCreated, CreateSteps, KindInv
<1>5. BeingCreated(s)
  BY <1>1 DEF BeingCreated, CreateSteps
<1>6. s \notin GoneRules /\ s \notin GoneRules'
  BY <1>2, <1>5 DEF GoneRules, RuleExists
<1>7. \A r \in RuleIds \ {s} : r \in GoneRules' <=> r \in GoneRules
  BY <1>2, <1>3, <1>4 DEF GoneRules, RuleExists
<1>8. GoneRules \subseteq RuleIds /\ GoneRules' \subseteq RuleIds
  BY DEF GoneRules
<1>9. \A r : r \in GoneRules' <=> r \in GoneRules
  BY <1>6, <1>7, <1>8
<1> QED BY <1>6, <1>9

LEMMA GoneByDeleting ==
  ASSUME KindInv, CreationInv, NEW p \in Callers, CallStep(p),
         At(p, "delete.row"), DeleteRule(call[p].rule)
  PROVE  GoneRules' = GoneRules \cup {call[p].rule}
<1> DEFINE s == call[p].rule
           Others(r) == \E q \in Callers \ {p} :
                          call[q].rule = r /\ call[q].at \in CreateSteps
<1>1. /\ s \in RuleIds /\ s # None /\ rules[s] # None
      /\ call[p].at \notin CreateSteps /\ call[p].at # "idle"
  BY StoreAssumption DEF KindInv, TypeOK, ServerTypeOK, CallOK, RuleSteps,
     RowSteps, CreateSteps, At, DeleteRule, RuleExists, StoreAssumption
<1>2. /\ rules'[s] = None
      /\ \A r \in RuleIds \ {s} : rules'[r] = rules[r]
  BY <1>1 DEF DeleteRule, KindInv, TypeOK, StoreTypeOK
<1>3. UNCHANGED origin
  BY <1>1, HandlerOrigins DEF KindInv
<1>4. call'[p].at \notin CreateSteps
  BY <1>1, CreatorsStep
<1>5. \A r \in RuleIds : /\ BeingCreated(r) <=> Others(r)
                         /\ BeingCreated(r)' <=> Others(r)
  BY <1>1, <1>4, OthersStay DEF BeingCreated, CreateSteps, KindInv
<1>6. ~Others(s) /\ origin[s] # None
  BY <1>1 DEF CreationInv, RuleExists, CreateSteps
<1>7. s \in GoneRules'
  BY <1>1, <1>2, <1>3, <1>5, <1>6 DEF GoneRules, RuleExists
<1>8. \A r \in RuleIds \ {s} : r \in GoneRules' <=> r \in GoneRules
  BY <1>2, <1>3, <1>5 DEF GoneRules, RuleExists
<1>9. GoneRules \subseteq RuleIds /\ GoneRules' \subseteq RuleIds
  BY DEF GoneRules
<1>10. \A r : r \in GoneRules' <=> r \in GoneRules \cup {s}
  BY <1>1, <1>7, <1>8, <1>9
<1> QED BY <1>10

---------------------------------------------------------------------------
(* Attachments: the same.                                                    *)

LEMMA GoneByNotAttaching ==
  ASSUME TypeOK, LinkInv, NEW p \in Callers, CallStep(p),
         \A a \in AttachmentIds :
           attachments'[a] # None <=> attachments[a] # None
  PROVE  \/ UNCHANGED GoneLinks
         \/ /\ At(p, "attach.insert") /\ call[p].attachment \in AttachmentIds
            /\ ~AttachmentExists(call[p].attachment)
            /\ GoneLinks' = GoneLinks \cup {call[p].attachment}
<1> DEFINE Others(a) == \E q \in Callers \ {p} :
                          At(q, "attach.insert") /\ call[q].attachment = a
<1>1. minted \subseteq AttachmentIds
  BY DEF TypeOK, ServerTypeOK
<1>2. \A a : /\ BeingAttached(a) <=>
                  \/ Others(a)
                  \/ At(p, "attach.insert") /\ call[p].attachment = a
             /\ BeingAttached(a)' <=>
                  \/ Others(a)
                  \/ call'[p].at = "attach.insert" /\ call'[p].attachment = a
  BY OthersStay DEF BeingAttached, At
<1>3. CASE At(p, "attach.insert")
  <2>1. /\ UNCHANGED minted /\ call'[p].at # "attach.insert"
    BY <1>3, HandlerMints DEF At
  <2>2. /\ call[p].attachment \in minted
        /\ ~AttachmentExists(call[p].attachment)
        /\ ~Others(call[p].attachment)
    BY <1>3 DEF LinkInv
  <2>3. \A a : a \in GoneLinks' <=> a \in GoneLinks \cup {call[p].attachment}
    BY <1>1, <1>2, <1>3, <2>1, <2>2 DEF GoneLinks, AttachmentExists
  <2> QED BY <1>1, <1>3, <2>2, <2>3
<1>4. CASE ~At(p, "attach.insert")
  <2>1. CASE UNCHANGED minted /\ call'[p].at # "attach.insert"
    <3>1. \A a : a \in GoneLinks' <=> a \in GoneLinks
      BY <1>1, <1>2, <1>4, <2>1 DEF GoneLinks, AttachmentExists
    <3>2. UNCHANGED GoneLinks
      BY <3>1
    <3> QED BY <3>2
  <2>2. ASSUME NEW a \in AttachmentIds \ minted, minted' = minted \cup {a},
               call'[p].attachment = a, call'[p].at = "attach.insert"
        PROVE  UNCHANGED GoneLinks
    <3>1. \A b : b \in GoneLinks' <=> b \in GoneLinks
      BY <1>1, <1>2, <1>4, <2>2 DEF GoneLinks, AttachmentExists
    <3> QED BY <3>1
  <2> QED BY <2>1, <2>2, HandlerMints
<1> QED BY <1>3, <1>4

LEMMA GoneByAttaching ==
  ASSUME TypeOK, LinkInv, NEW p \in Callers, CallStep(p),
         At(p, "attach.insert"),
         InsertAttachment(call[p].attachment, NewAttachment(call[p]))
  PROVE  UNCHANGED GoneLinks /\ call[p].attachment \notin GoneLinks
<1> DEFINE s == call[p].attachment
           Others(a) == \E q \in Callers \ {p} :
                          At(q, "attach.insert") /\ call[q].attachment = a
<1>1. /\ s \in AttachmentIds /\ NewAttachment(call[p]) \in AttachmentRow
      /\ minted \subseteq AttachmentIds
  BY DEF TypeOK, ServerTypeOK, CallOK, Call, RuleSteps, TargetSteps,
     AttachmentSteps, At, NewAttachment, AttachmentRow
<1>2. /\ attachments'[s] # None
      /\ \A a \in AttachmentIds \ {s} : attachments'[a] = attachments[a]
  BY <1>1, RowAssumption DEF InsertAttachment, TypeOK, StoreTypeOK
<1>3. UNCHANGED minted /\ call'[p].at # "attach.insert"
  BY HandlerMints DEF At
<1>4. \A a : a # s => (BeingAttached(a)' <=> BeingAttached(a))
  BY <1>3, OthersStay DEF BeingAttached, At
<1>5. s \notin GoneLinks /\ s \notin GoneLinks'
  BY <1>2 DEF GoneLinks, BeingAttached, AttachmentExists
<1>6. \A a \in minted : a # s => (a \in GoneLinks' <=> a \in GoneLinks)
  BY <1>1, <1>2, <1>3, <1>4 DEF GoneLinks, AttachmentExists
<1>7. \A a : a \in GoneLinks' <=> a \in GoneLinks
  BY <1>3, <1>5, <1>6 DEF GoneLinks
<1> QED BY <1>5, <1>7

LEMMA GoneByDetaching ==
  ASSUME TypeOK, LinkInv, NEW p \in Callers, CallStep(p),
         At(p, "detach.row"), DeleteAttachment(call[p].attachment)
  PROVE  GoneLinks' = GoneLinks \cup {call[p].attachment}
<1> DEFINE s == call[p].attachment
<1>1. s \in AttachmentIds /\ minted \subseteq AttachmentIds
  BY DEF TypeOK, ServerTypeOK, CallOK, AttachmentSteps, At
<1>2. /\ attachments[s] # None /\ attachments'[s] = None
      /\ \A a \in AttachmentIds \ {s} : attachments'[a] = attachments[a]
  BY <1>1 DEF DeleteAttachment, AttachmentExists, TypeOK, StoreTypeOK
<1>3. UNCHANGED minted /\ call'[p].at # "attach.insert"
  BY HandlerMints DEF At
<1>4. \A a : BeingAttached(a)' <=> BeingAttached(a)
  BY <1>3, OthersStay DEF BeingAttached, At
<1>5. s \in minted /\ ~BeingAttached(s)
  BY <1>1, <1>2 DEF LinkInv, BeingAttached, AttachmentExists
<1>6. \A a \in minted : a # s => (a \in GoneLinks' <=> a \in GoneLinks)
  BY <1>1, <1>2, <1>3, <1>4 DEF GoneLinks, AttachmentExists
<1>7. s \in GoneLinks'
  BY <1>2, <1>3, <1>4, <1>5 DEF GoneLinks, AttachmentExists
<1>8. \A a : a \in GoneLinks' <=> a \in GoneLinks \cup {s}
  BY <1>3, <1>6, <1>7 DEF GoneLinks
<1> QED BY <1>8

---------------------------------------------------------------------------
(* The catalog's steps.                                                      *)

(* A client's view of what is stored.                                        *)
LEMMA Views ==
  ASSUME StoreTypeOK
  PROVE  /\ \A r \in RuleIds :
              /\ Contents[r] = None <=> ~RuleExists(r)
              /\ RuleExists(r) => Contents[r] = rules[r].matcher
                                  /\ Contents[r] \in Domains \cup Resources
         /\ \A a \in AttachmentIds :
              /\ Links[a] = None <=> ~AttachmentExists(a)
              /\ AttachmentExists(a) =>
                   /\ attachments[a] \in AttachmentRow
                   /\ Links[a] = [rule |-> attachments[a].rule,
                                  target |-> attachments[a].target]
<1>1. \A r \in RuleIds : RuleExists(r) =>
        rules[r].matcher \in Domains \cup Resources /\ rules[r].matcher # None
  BY StoreAssumption DEF StoreTypeOK, Row, Matchers, RuleExists,
     StoreAssumption
<1>2. \A a \in AttachmentIds : AttachmentExists(a) =>
        /\ attachments[a] \in AttachmentRow
        /\ [rule |-> attachments[a].rule, target |-> attachments[a].target]
             \in [rule : RuleIds, target : Targets]
  BY DEF StoreTypeOK, AttachmentRow, AttachmentExists
<1> QED BY <1>1, <1>2, LinkAssumption DEF Contents, Links

LEMMA LinkedIsAttached ==
  ASSUME StoreTypeOK, NEW r \in RuleIds, NEW t \in Targets
  PROVE  Catalog!Linked(r, t) <=> Attached(r, t)
<1>1. ASSUME NEW a \in AttachmentIds
      PROVE  Links[a] = [rule |-> r, target |-> t] <=>
               /\ attachments[a] # None
               /\ attachments[a].rule = r
               /\ attachments[a].target = t
  <2>1. CASE ~AttachmentExists(a)
    <3>1. Links[a] = None
      BY <2>1, Views
    <3>2. [rule |-> r, target |-> t] # None
      BY LinkAssumption
    <3> QED BY <2>1, <3>1, <3>2 DEF AttachmentExists
  <2>2. CASE AttachmentExists(a)
    <3>1. Links[a] = [rule |-> attachments[a].rule,
                      target |-> attachments[a].target]
      BY <2>2, Views
    <3> QED BY <2>2, <3>1 DEF AttachmentExists
  <2> QED BY <2>1, <2>2
<1> QED BY <1>1 DEF Catalog!Linked, Attached

LEMMA AddsRule ==
  ASSUME KindInv, CreationInv, NEW p \in Callers, CallStep(p),
         At(p, "create.insert"), InsertRule(call[p].rule, call[p].row),
         UNCHANGED GoneLinks
  PROVE  Catalog!AddRule(call[p].rule, call[p].row.matcher)
<1> DEFINE s == call[p].rule
<1>1. s \in RuleIds /\ call[p].row \in Row /\ rules[s] = None
  BY DEF KindInv, TypeOK, ServerTypeOK, CallOK, RuleSteps, RowSteps, At,
     InsertRule
<1>2. Contents' = [Contents EXCEPT ![s] = call[p].row.matcher]
  BY <1>1, RowAssumption DEF Contents, RuleExists, InsertRule, KindInv,
     TypeOK, StoreTypeOK
<1>3. Contents[s] = None
  BY <1>1 DEF Contents, RuleExists
<1>4. UNCHANGED Links
  BY DEF InsertRule, Links, AttachmentExists
<1> QED BY <1>2, <1>3, <1>4, GoneByStoring DEF Catalog!AddRule

(* What a handler writes to a stored rule is of its kind.                    *)
LEMMA ChangesRule ==
  ASSUME KindInv, CreationInv, NEW p \in Callers, CallStep(p),
         At(p, "update.write"), UpdateRule(call[p].rule, call[p].row),
         UNCHANGED <<GoneRules, GoneLinks>>
  PROVE  Catalog!ChangeRule(call[p].rule, call[p].row.matcher)
<1> DEFINE s == call[p].rule
<1>1. s \in RuleIds /\ call[p].row \in Row /\ RuleExists(s)
  BY DEF KindInv, TypeOK, ServerTypeOK, CallOK, RuleSteps, RowSteps, At,
     UpdateRule
<1>2. Contents' = [Contents EXCEPT ![s] = call[p].row.matcher]
  BY <1>1, RowAssumption DEF Contents, RuleExists, UpdateRule, KindInv,
     TypeOK, StoreTypeOK
<1>3. Contents[s] # None /\ Contents[s] = rules[s].matcher
      /\ Contents[s] \in Domains \cup Resources
  BY <1>1, Views DEF KindInv, TypeOK
<1>4. PrivateResourceOf(call[p].row.matcher) = PrivateResourceOf(rules[s].matcher)
  BY <1>1 DEF KindInv, RowsAgree, OfKind, RowSteps, At
<1>5. Catalog!SameDestination(Contents[s], call[p].row.matcher)
  BY <1>1, <1>3, <1>4, StoreAssumption DEF PrivateResourceOf, Row, Matchers,
     StoreAssumption, Catalog!SameDestination
<1>6. UNCHANGED Links
  BY DEF UpdateRule, Links, AttachmentExists
<1> QED BY <1>2, <1>3, <1>5, <1>6 DEF Catalog!ChangeRule

LEMMA RemovesRule ==
  ASSUME KindInv, CreationInv, NEW p \in Callers, CallStep(p),
         At(p, "delete.row"), DeleteRule(call[p].rule), UNCHANGED GoneLinks
  PROVE  Catalog!RemoveRule(call[p].rule)
<1> DEFINE s == call[p].rule
<1>1. s \in RuleIds /\ RuleExists(s)
  BY DEF KindInv, TypeOK, ServerTypeOK, CallOK, RuleSteps, RowSteps, At,
     DeleteRule
<1>2. Contents' = [Contents EXCEPT ![s] = None]
  BY <1>1 DEF Contents, RuleExists, DeleteRule, KindInv, TypeOK, StoreTypeOK
<1>3. Contents[s] # None
  BY <1>1, Views DEF KindInv, TypeOK
<1>4. \A t \in Targets : ~Catalog!Linked(s, t)
  BY <1>1, LinkedIsAttached
     DEF DeleteRule, HasAttachments, Attached, KindInv, TypeOK
<1>5. UNCHANGED Links
  BY DEF DeleteRule, Links, AttachmentExists
<1> QED BY <1>2, <1>3, <1>4, <1>5, GoneByDeleting DEF Catalog!RemoveRule

LEMMA AddsLink ==
  ASSUME TypeOK, LinkInv, NEW p \in Callers, CallStep(p),
         At(p, "attach.insert"),
         InsertAttachment(call[p].attachment, NewAttachment(call[p])),
         UNCHANGED GoneRules
  PROVE  Catalog!AddLink(call[p].attachment,
           [rule |-> call[p].rule, target |-> call[p].target])
<1> DEFINE s == call[p].attachment
<1>1. /\ s \in AttachmentIds /\ NewAttachment(call[p]) \in AttachmentRow
      /\ call[p].rule \in RuleIds /\ call[p].target \in Targets
  BY DEF TypeOK, ServerTypeOK, CallOK, Call, RuleSteps, TargetSteps,
     AttachmentSteps, At, NewAttachment, AttachmentRow
<1>2. /\ ~AttachmentExists(s) /\ RuleExists(call[p].rule)
      /\ ~Attached(call[p].rule, call[p].target)
      /\ attachments' = [attachments EXCEPT ![s] = NewAttachment(call[p])]
      /\ UNCHANGED rules
  BY DEF InsertAttachment, AttachmentExists, NewAttachment
<1>3. Links' = [Links EXCEPT
                  ![s] = [rule |-> call[p].rule, target |-> call[p].target]]
  BY <1>1, <1>2, RowAssumption DEF Links, AttachmentExists, NewAttachment,
     TypeOK, StoreTypeOK
<1>4. /\ Links[s] = None /\ Contents[call[p].rule] # None
      /\ ~Catalog!Linked(call[p].rule, call[p].target)
  BY <1>1, <1>2, Views, LinkedIsAttached DEF TypeOK
<1>5. UNCHANGED Contents
  BY <1>2 DEF Contents, RuleExists
<1>6. UNCHANGED GoneLinks /\ s \notin GoneLinks
  BY GoneByAttaching
<1> QED BY <1>3, <1>4, <1>5, <1>6 DEF Catalog!AddLink

LEMMA RemovesLink ==
  ASSUME TypeOK, LinkInv, NEW p \in Callers, CallStep(p),
         At(p, "detach.row"), DeleteAttachment(call[p].attachment),
         UNCHANGED GoneRules
  PROVE  Catalog!RemoveLink(call[p].attachment)
<1> DEFINE s == call[p].attachment
<1>1. s \in AttachmentIds /\ AttachmentExists(s)
  BY DEF TypeOK, ServerTypeOK, CallOK, AttachmentSteps, At, DeleteAttachment
<1>2. Links' = [Links EXCEPT ![s] = None]
  BY <1>1 DEF Links, AttachmentExists, DeleteAttachment, TypeOK, StoreTypeOK
<1>3. Links[s] # None
  BY <1>1, Views DEF TypeOK
<1>4. UNCHANGED Contents
  BY DEF DeleteAttachment, Contents, RuleExists
<1> QED BY <1>2, <1>3, <1>4, GoneByDetaching DEF Catalog!RemoveLink

LEMMA GivesUp ==
  ASSUME NEW rs \in SUBSET RuleIds, NEW as \in SUBSET AttachmentIds,
         StoreTypeOK,
         UNCHANGED <<Contents, Links>>,
         \A r \in rs : ~RuleExists(r), \A a \in as : ~AttachmentExists(a),
         GoneRules' = GoneRules \cup rs, GoneLinks' = GoneLinks \cup as
  PROVE  Catalog!CatalogNext
<1>1. \A r \in rs : Contents[r] = None
  BY Views
<1>2. \A a \in as : Links[a] = None
  BY Views
<1>3. Catalog!GiveUp(rs, as)
  BY <1>1, <1>2 DEF Catalog!GiveUp
<1> QED BY <1>3 DEF Catalog!CatalogNext

LEMMA HandlerIsCatalogStep ==
  ASSUME KindInv, CreationInv, LinkInv, NEW p \in Callers, CallStep(p)
  PROVE  [Catalog!CatalogNext]_(Catalog!catalogVars)
<1>1. TypeOK /\ StoreTypeOK
  BY DEF KindInv, TypeOK
<1> DEFINE SameRules == \A r \in RuleIds : rules'[r] # None <=> rules[r] # None
           SameLinks == \A a \in AttachmentIds :
                          attachments'[a] # None <=> attachments[a] # None
<1>2. /\ call[p].at \in RuleSteps => call[p].rule \in RuleIds
      /\ call[p].at \in RowSteps =>
           call[p].row \in Row /\ call[p].row.matcher \in Domains \cup Resources
      /\ call[p].at \in AttachmentSteps => call[p].attachment \in AttachmentIds
      /\ call[p].at \in TargetSteps => call[p].target \in Targets
  BY <1>1 DEF TypeOK, ServerTypeOK, CallOK, Row, Matchers
<1>3. SameRules /\ ~(call[p].at \in CreateSteps) => UNCHANGED GoneRules
  BY GoneByGivingUp
<1>4. SameLinks /\ ~At(p, "attach.insert") => UNCHANGED GoneLinks
  BY <1>1, GoneByNotAttaching
<1>5. CASE At(p, "create.insert") /\ InsertRule(call[p].rule, call[p].row)
  <2>1. SameLinks
    BY <1>5 DEF InsertRule
  <2>2. Catalog!AddRule(call[p].rule, call[p].row.matcher)
    BY <1>4, <1>5, <2>1, AddsRule DEF At
  <2> QED BY <1>2, <1>5, <2>2 DEF At, RuleSteps, RowSteps, Catalog!CatalogNext
<1>6. CASE At(p, "update.write") /\ UpdateRule(call[p].rule, call[p].row)
  <2>1. SameLinks
    BY <1>6 DEF UpdateRule
  <2>2. call[p].row # None /\ call[p].rule \in RuleIds
    BY <1>2, <1>6, RowAssumption DEF At, RuleSteps, RowSteps
  <2>3. SameRules
    BY <1>1, <1>6, <2>2 DEF UpdateRule, RuleExists, StoreTypeOK
  <2>4. Catalog!ChangeRule(call[p].rule, call[p].row.matcher)
    BY <1>3, <1>4, <1>6, <2>1, <2>3, ChangesRule DEF At, CreateSteps
  <2> QED BY <1>2, <1>6, <2>4 DEF At, RuleSteps, RowSteps, Catalog!CatalogNext
<1>7. CASE At(p, "delete.row") /\ DeleteRule(call[p].rule)
  <2>1. SameLinks
    BY <1>7 DEF DeleteRule
  <2>2. Catalog!RemoveRule(call[p].rule)
    BY <1>4, <1>7, <2>1, RemovesRule DEF At
  <2> QED BY <1>2, <1>7, <2>2 DEF At, RuleSteps, RowSteps, Catalog!CatalogNext
<1>8. CASE /\ At(p, "attach.insert")
           /\ InsertAttachment(call[p].attachment, NewAttachment(call[p]))
  <2>1. SameRules
    BY <1>8 DEF InsertAttachment
  <2>2. Catalog!AddLink(call[p].attachment,
          [rule |-> call[p].rule, target |-> call[p].target])
    BY <1>1, <1>3, <1>8, <2>1, AddsLink DEF At, CreateSteps
  <2>3. [rule |-> call[p].rule, target |-> call[p].target] \in Catalog!Link
    BY <1>2, <1>8 DEF At, RuleSteps, TargetSteps, Catalog!Link
  <2> QED BY <1>2, <1>8, <2>2, <2>3 DEF At, AttachmentSteps, Catalog!CatalogNext
<1>9. CASE At(p, "detach.row") /\ DeleteAttachment(call[p].attachment)
  <2>1. SameRules
    BY <1>9 DEF DeleteAttachment
  <2>2. Catalog!RemoveLink(call[p].attachment)
    BY <1>1, <1>3, <1>9, <2>1, RemovesLink DEF At, CreateSteps
  <2> QED BY <1>2, <1>9, <2>2 DEF At, AttachmentSteps, Catalog!CatalogNext
<1>10. CASE SameRules /\ SameLinks /\ UNCHANGED <<Contents, Links>>
  <2>1. CASE UNCHANGED <<GoneRules, GoneLinks>>
    BY <1>10, <2>1 DEF Catalog!catalogVars
  <2>2. CASE ~UNCHANGED GoneRules
    <3>1. /\ call[p].at \in CreateSteps /\ call[p].rule \in RuleIds
          /\ ~RuleExists(call[p].rule)
          /\ GoneRules' = GoneRules \cup {call[p].rule}
      BY <1>10, <2>2, GoneByGivingUp
    <3> DEFINE rs == {call[p].rule}
               as == {}
    <3>2. GoneLinks' = GoneLinks \cup as
      BY <1>4, <1>10, <3>1 DEF CreateSteps, At
    <3>3. /\ rs \in SUBSET RuleIds /\ as \in SUBSET AttachmentIds
          /\ \A r \in rs : ~RuleExists(r)
          /\ \A a \in as : ~AttachmentExists(a)
          /\ GoneRules' = GoneRules \cup rs
      BY <3>1
    <3> HIDE DEF rs, as
    <3> QED BY <1>1, <1>10, <3>2, <3>3, GivesUp
  <2>3. CASE UNCHANGED GoneRules /\ ~UNCHANGED GoneLinks
    <3>1. /\ call[p].attachment \in AttachmentIds
          /\ ~AttachmentExists(call[p].attachment)
          /\ GoneLinks' = GoneLinks \cup {call[p].attachment}
      BY <1>1, <1>10, <2>3, GoneByNotAttaching
    <3> DEFINE rs == {}
               as == {call[p].attachment}
    <3>2. GoneRules' = GoneRules \cup rs
      BY <2>3
    <3>3. /\ rs \in SUBSET RuleIds /\ as \in SUBSET AttachmentIds
          /\ \A r \in rs : ~RuleExists(r)
          /\ \A a \in as : ~AttachmentExists(a)
          /\ GoneLinks' = GoneLinks \cup as
      BY <3>1
    <3> HIDE DEF rs, as
    <3> QED BY <1>1, <1>10, <3>2, <3>3, GivesUp
  <2> QED BY <2>1, <2>2, <2>3
<1>11. CASE UNCHANGED <<rules, attachments>>
  BY <1>10, <1>11 DEF Contents, Links, RuleExists, AttachmentExists
<1>12. CASE /\ At(p, "attach.serviceid")
            /\ UpdateRuleServiceID(call[p].rule, call[p].row.service)
  <2>1. call[p].rule \in RuleIds /\ call[p].row.service \in Nat
    BY <1>2, <1>12 DEF At, RuleSteps, RowSteps, PublicSteps, Row
  <2>2. SameRules /\ SameLinks /\ UNCHANGED <<Contents, Links>>
    BY <1>1, <1>12, <2>1, ServiceIdUnseen
  <2> QED BY <1>10, <2>2
<1> QED BY <1>5, <1>6, <1>7, <1>8, <1>9, <1>11, <1>12, HandlerStores

LEMMA CrashIsCatalogStep ==
  ASSUME KindInv, CreationInv, LinkInv, Crash
  PROVE  Catalog!CatalogNext
<1> DEFINE rs == {r \in RuleIds : BeingCreated(r)}
           as == {a \in minted : BeingAttached(a)}
<1>1. /\ \A p \in Callers : call'[p].at = "idle"
      /\ UNCHANGED <<rules, attachments, origin, minted>>
  BY DEF Crash, Idle, storeVars, historyVars
<1>2. /\ \A r \in RuleIds : ~BeingCreated(r)'
      /\ \A a : ~BeingAttached(a)'
  BY <1>1 DEF BeingCreated, BeingAttached, At
<1>3. \A r \in rs : ~RuleExists(r) /\ origin[r] # None
  BY StoreAssumption DEF BeingCreated, CreationInv, CreateSteps,
     StoreAssumption
<1>4. \A a \in as : ~AttachmentExists(a)
  BY DEF BeingAttached, LinkInv
<1>5. GoneRules' = GoneRules \cup rs
  BY <1>1, <1>2, <1>3 DEF GoneRules, RuleExists
<1>6. GoneLinks' = GoneLinks \cup as
  BY <1>1, <1>2, <1>4 DEF GoneLinks, AttachmentExists
<1>7. UNCHANGED <<Contents, Links>>
  BY <1>1 DEF Contents, Links, RuleExists, AttachmentExists
<1>8. /\ rs \in SUBSET RuleIds /\ as \in SUBSET AttachmentIds
      /\ StoreTypeOK
  BY DEF KindInv, TypeOK, ServerTypeOK
<1> HIDE DEF rs, as
<1> QED BY <1>3, <1>4, <1>5, <1>6, <1>7, <1>8, GivesUp

LEMMA PassIsStutter ==
  ASSUME ReconcilerTypeOK, PassStep \/ PassFails
  PROVE  UNCHANGED Catalog!catalogVars
<1>1. UNCHANGED <<call, origin, minted>>
  BY PassLeavesCalls
<1>2. GoneRules' = GoneRules
  BY <1>1, PassUnseen DEF GoneRules, RuleExists, BeingCreated
<1>3. GoneLinks' = GoneLinks
  BY <1>1, PassUnseen DEF GoneLinks, AttachmentExists, BeingAttached, At,
     ReconcilerTypeOK, TypeOK, ServerTypeOK
<1> QED BY <1>2, <1>3, PassUnseen DEF Catalog!catalogVars

(* Every step of the handlers, of the reconciler, of a failure or a crash is *)
(* a step of the catalog or one that no client sees, for any number of       *)
(* callers, rules, attachments, targets and failures: service.go's five      *)
(* mutating RPCs over the two tables are atomic to whoever reads them.       *)
THEOREM ServiceImplementsCatalog == Spec => ImplementsCatalog
<1>1. ReconcilerInit => LinkInv
  BY DEF ReconcilerInit, Init, StoreInit, ServerInit, Idle, LinkInv, At,
     AttachmentExists
<1>2. SystemKindInv /\ LinkInv /\ [Next]_vars => LinkInv'
  BY NextLink DEF SystemKindInv
<1>3. SystemLifeInv => SystemKindInv /\ CreationInv
  BY DEF SystemLifeInv, SystemIdInv
<1>4. ReconcilerInit => Catalog!CatalogInit
  BY DEF ReconcilerInit, Init, StoreInit, ServerInit, Catalog!CatalogInit,
     Contents, Links, GoneRules, GoneLinks, RuleExists, AttachmentExists
<1>5. ASSUME SystemKindInv, CreationInv, LinkInv, [Next]_vars
      PROVE  [Catalog!CatalogNext]_(Catalog!catalogVars)
  <2>1. KindInv /\ ReconcilerTypeOK
    BY <1>5 DEF SystemKindInv
  <2>2. CASE HandlerStep
    BY <1>5, <2>1, <2>2, HandlerIsCatalogStep DEF HandlerStep
  <2>3. CASE PassStep \/ PassFails
    BY <2>1, <2>3, PassIsStutter
  <2>4. CASE ProcessCrash
    BY <1>5, <2>1, <2>4, CrashIsCatalogStep DEF ProcessCrash
  <2>5. CASE UNCHANGED vars
    BY <2>5 DEF vars, allVars, storeVars, serverVars, Catalog!catalogVars,
       Contents, Links, GoneRules, GoneLinks, RuleExists, AttachmentExists,
       BeingCreated, BeingAttached, At
  <2> QED BY <1>5, <2>2, <2>3, <2>4, <2>5 DEF Next
<1> QED BY <1>1, <1>2, <1>3, <1>4, <1>5, SystemLifeInvariant, PTL
        DEF Spec, ImplementsCatalog, Catalog!CatalogSpec

---------------------------------------------------------------------------
(* What clients may count on, read off the catalog.                          *)

LEMMA CatalogStepOK ==
  ASSUME Catalog!CatalogOK, Catalog!CatalogNext
  PROVE  Catalog!CatalogOK'
<1> USE DEF Catalog!CatalogOK
<1>1. /\ None \notin Domains \cup Resources
      /\ None \notin Catalog!Link
  BY StoreAssumption, LinkAssumption DEF StoreAssumption, Catalog!Link
<1>2. ASSUME NEW r \in RuleIds, NEW m \in Domains \cup Resources,
             Catalog!AddRule(r, m) \/ Catalog!ChangeRule(r, m)
      PROVE  Catalog!CatalogOK'
  <2>1. /\ r \notin GoneRules
        /\ Contents' = [Contents EXCEPT ![r] = m]
        /\ UNCHANGED <<Links, GoneRules, GoneLinks>>
    BY <1>2 DEF Catalog!AddRule, Catalog!ChangeRule
  <2> QED BY <1>1, <2>1 DEF Catalog!Link
<1>3. ASSUME NEW r \in RuleIds, Catalog!RemoveRule(r)
      PROVE  Catalog!CatalogOK'
  <2>1. \A a \in AttachmentIds : Links[a] # None => Links[a].rule # r
    <3>1. ASSUME NEW a \in AttachmentIds, Links[a] # None, Links[a].rule = r
          PROVE  FALSE
      <4>1. Links[a] = [rule |-> r, target |-> Links[a].target]
            /\ Links[a].target \in Targets
        BY <3>1 DEF Catalog!Link
      <4> QED BY <1>3, <4>1 DEF Catalog!RemoveRule, Catalog!Linked
    <3> QED BY <3>1
  <2> QED BY <1>3, <2>1 DEF Catalog!RemoveRule, Catalog!Link
<1>4. ASSUME NEW a \in AttachmentIds, NEW link \in Catalog!Link,
             Catalog!AddLink(a, link)
      PROVE  Catalog!CatalogOK'
  <2>1. \A b \in AttachmentIds : Links[b] # link
    <3>1. link = [rule |-> link.rule, target |-> link.target]
      BY DEF Catalog!Link
    <3> QED BY <1>4, <3>1 DEF Catalog!AddLink, Catalog!Linked
  <2>2. /\ a \notin GoneLinks /\ Contents[link.rule] # None
        /\ Links' = [Links EXCEPT ![a] = link]
        /\ UNCHANGED <<Contents, GoneRules, GoneLinks>>
    BY <1>4 DEF Catalog!AddLink
  <2> QED BY <1>1, <2>1, <2>2
<1>5. ASSUME NEW a \in AttachmentIds, Catalog!RemoveLink(a)
      PROVE  Catalog!CatalogOK'
  BY <1>5 DEF Catalog!RemoveLink
<1>6. ASSUME NEW rs \in SUBSET RuleIds, NEW as \in SUBSET AttachmentIds,
             Catalog!GiveUp(rs, as)
      PROVE  Catalog!CatalogOK'
  BY <1>6 DEF Catalog!GiveUp
<1> QED BY <1>2, <1>3, <1>4, <1>5, <1>6 DEF Catalog!CatalogNext

(* No attachment outlives its rule, none is made twice, and no id of a       *)
(* removed rule or attachment returns: the catalog has it so, and the        *)
(* service, whose delete counts attachments one step before it deletes the   *)
(* row and whose attach looks for a duplicate two or more steps before it    *)
(* inserts one, inherits it.                                                 *)
THEOREM LinksLeadToRules == Spec => []Catalog!CatalogOK
<1>1. Catalog!CatalogInit => Catalog!CatalogOK
  BY DEF Catalog!CatalogInit, Catalog!CatalogOK
<1>2. Catalog!CatalogOK /\ UNCHANGED Catalog!catalogVars
        => Catalog!CatalogOK'
  BY DEF Catalog!CatalogOK, Catalog!catalogVars
<1>3. Catalog!CatalogOK /\ [Catalog!CatalogNext]_(Catalog!catalogVars)
        => Catalog!CatalogOK'
  BY <1>2, CatalogStepOK
<1> QED BY <1>1, <1>3, ServiceImplementsCatalog, PTL
        DEF ImplementsCatalog, Catalog!CatalogSpec

---------------------------------------------------------------------------
(* The cache: types.                                                         *)

LEMMA StepsAreServerSteps ==
  ASSUME CacheNext
  PROVE  \/ ServerNext
         \/ UNCHANGED allVars
         \/ /\ faults' = faults + 1
            /\ UNCHANGED <<storeVars, zitiVars, call, calls, historyVars,
                           mediated, eventVars>>
<1>1. ASSUME NEW p \in Callers, CallerStep(p)
      PROVE  CallStep(p)
  BY <1>1 DEF CallerStep, CallStep, RuleStep, AttachmentStep
<1> QED BY <1>1 DEF CacheNext, ServerNext, ServerCrash, ListEgressRules, Fill,
     Deliver, Lose, GatewayRestart

LEMMA CacheBaseType ==
  ASSUME TypeOK, [CacheNext]_cacheVars
  PROVE  TypeOK'
<1>1. CASE ServerNext \/ UNCHANGED allVars
  BY <1>1, ServerNextType
<1>2. CASE /\ faults' = faults + 1
           /\ UNCHANGED <<storeVars, zitiVars, call, calls, historyVars,
                          mediated, eventVars>>
  <2>1. faults' \in Nat
    BY <1>2 DEF TypeOK, ServerTypeOK
  <2>2. UNCHANGED <<rules, attachments, services, policies, serviceIds,
                    policyIds, call, calls, origin, minted, mediated,
                    unannounced, abandoned>>
    BY <1>2 DEF storeVars, zitiVars, historyVars, eventVars
  <2> QED BY <2>1, <2>2 DEF TypeOK, StoreTypeOK, ZitiTypeOK, ServerTypeOK
<1> QED BY <1>1, <1>2, StepsAreServerSteps DEF cacheVars

LEMMA SubjectType ==
  ASSUME TypeOK, NEW p \in Callers,
         call[p].at \in RuleSteps \cup AttachmentSteps
  PROVE  Subject(call[p]) \in RuleIds \cup AttachmentIds
<1>1. CallOK(call[p])
  BY DEF TypeOK, ServerTypeOK
<1>2. call[p].attachment \in AttachmentIds \cup {None}
  BY <1>1 DEF CallOK, Call
<1>3. CASE call[p].attachment = None
  <2>1. call[p].at \notin AttachmentSteps
    BY <1>1, <1>3, StoreAssumption DEF StoreAssumption, CallOK
  <2> QED BY <1>1, <1>3, <2>1 DEF CallOK, Subject
<1> QED BY <1>2, <1>3 DEF Subject

LEMMA CacheNextType ==
  ASSUME CacheTypeOK, [CacheNext]_cacheVars
  PROVE  CacheTypeOK'
<1>1. TypeOK'
  BY CacheBaseType DEF CacheTypeOK
<1>2. ASSUME NEW p \in Callers, CallerStep(p)
      PROVE  CacheTypeOK'
  <2>1. place' \in [AttachmentIds ->
                    [rule : RuleIds, target : Targets] \cup {None}]
    BY <1>1, <1>2 DEF CallerStep, Place, CacheTypeOK, TypeOK, StoreTypeOK,
       AttachmentRow
  <2>2. events' \subseteq RuleIds \cup AttachmentIds
    <3>1. CASE UNCHANGED events
      BY <3>1 DEF CacheTypeOK
    <3>2. CASE PublishRuleUpdated(p) \/ PublishAttachmentUpdated(p)
      <4>1. call[p].at \in RuleSteps \cup AttachmentSteps
        BY <3>2 DEF PublishRuleUpdated, PublishAttachmentUpdated, At,
           RuleSteps, AttachmentSteps
      <4>2. events' = events \cup {Subject(call[p])} \/ UNCHANGED events
        BY <1>2 DEF CallerStep
      <4> QED BY <4>1, <4>2, SubjectType DEF CacheTypeOK
    <3> QED BY <1>2, <3>1, <3>2 DEF CallerStep
  <2> QED BY <1>1, <1>2, <2>1, <2>2 DEF CacheTypeOK, CallerStep
<1>3. ASSUME NEW t \in Targets, ListEgressRules(t)
      PROVE  CacheTypeOK'
  <2>1. RulesOf(t) \subseteq RuleIds \X Matchers
    BY DEF RulesOf, RuleExists, CacheTypeOK, TypeOK, StoreTypeOK, Row
  <2>2. [rules |-> RulesOf(t), overtaken |-> FALSE] \in Answer
    BY <2>1 DEF Answer
  <2> QED BY <1>1, <1>3, <2>2 DEF ListEgressRules, CacheTypeOK
<1>4. ASSUME NEW t \in Targets, Fill(t)
      PROVE  CacheTypeOK'
  BY <1>1, <1>4 DEF Fill, CacheTypeOK
<1>5. CASE Deliver
  <2>1. \A t \in Targets : fetch'[t] \in Answer \cup {None}
    BY <1>5 DEF Deliver, CacheTypeOK, Answer
  <2> QED BY <1>1, <1>5, <2>1 DEF Deliver, CacheTypeOK
<1>6. CASE Lose \/ GatewayRestart
  BY <1>1, <1>6 DEF Lose, GatewayRestart, CacheTypeOK
<1>7. CASE ServerCrash \/ UNCHANGED cacheVars
  BY <1>1, <1>7 DEF ServerCrash, cacheVars, gatewayVars, CacheTypeOK
<1> QED BY <1>2, <1>3, <1>4, <1>5, <1>6, <1>7 DEF CacheNext

(* The gateway's cache, the answers and the events on their way, and the     *)
(* record of where each attachment was stored keep their types.              *)
THEOREM CacheTypeCorrect == CacheSpec => []CacheTypeOK
<1>1. CacheInit => CacheTypeOK
  BY InitType DEF CacheInit, CacheTypeOK
<1>2. CacheTypeOK /\ [CacheNext]_cacheVars => CacheTypeOK'
  BY CacheNextType
<1> QED BY <1>1, <1>2, PTL DEF CacheSpec

---------------------------------------------------------------------------
(* The cache: what it may be wrong about.                                    *)

(* Changes the gateway has not heard of: no event was published yet, or it   *)
(* has not arrived.                                                          *)
Unheard == unannounced \cup events \cup lost

LinkUnheard(r, t) ==
  \E a \in AttachmentIds \cap Unheard : place[a] = [rule |-> r, target |-> t]

SaysTheSame(ans, r, t) ==
  \A m \in Matchers : <<r, m>> \in ans.rules <=> <<r, m>> \in RulesOf(t)

(* Of a rule the lookup of the target shows, a change of the rule drops the  *)
(* answers that hold it; an answer that does not hold it waits for the event *)
(* of the attachment.                                                        *)
Fits(ans, t) ==
  \A r \in RuleIds :
    \/ LinkUnheard(r, t)
    \/ r \in Unheard /\ \E m \in Matchers : <<r, m>> \in ans.rules
    \/ SaysTheSame(ans, r, t)

AnswersFit ==
  \A t \in Targets :
    /\ cache[t] # None /\ ~cache[t].overtaken => Fits(cache[t], t)
    /\ fetch[t] # None /\ ~fetch[t].overtaken => Fits(fetch[t], t)

(* Where attachments are, and the foreign key.                               *)
PlacesKnown ==
  /\ \A a \in AttachmentIds : attachments[a] # None =>
       /\ place[a] = [rule |-> attachments[a].rule,
                      target |-> attachments[a].target]
       /\ rules[attachments[a].rule] # None
  /\ \A a \in AttachmentIds : place[a] # None => a \in minted
  /\ \A p \in Callers : At(p, "attach.insert") =>
       place[call[p].attachment] = None

BaseInv == CacheTypeOK /\ AnnInv /\ LinkInv

CacheInv == BaseInv /\ PlacesKnown /\ AnswersFit

(* A change a lookup shows is among the unannounced once it is stored.       *)
LEMMA ChangesAreEntered ==
  ASSUME TypeOK, AnnInv, NEW p \in Callers, CallStep(p)
  PROVE  \/ UNCHANGED <<rules, attachments>>
         \/ InsertRule(call[p].rule, call[p].row)
         \/ /\ UpdateRule(call[p].rule, call[p].row)
            /\ call[p].rule \in unannounced'
         \/ DeleteRule(call[p].rule)
         \/ /\ At(p, "attach.serviceid")
            /\ UpdateRuleServiceID(call[p].rule, call[p].row.service)
         \/ /\ At(p, "attach.insert")
            /\ InsertAttachment(call[p].attachment, NewAttachment(call[p]))
            /\ call[p].attachment \in unannounced'
         \/ /\ At(p, "detach.row")
            /\ DeleteAttachment(call[p].attachment)
            /\ call[p].attachment \in unannounced'
<1>1. CallOK(call[p]) /\ OnRule(call[p])
  BY DEF TypeOK, ServerTypeOK, AnnInv
<1>2. At(p, "update.write") => Subject(call[p]) = call[p].rule
  BY <1>1 DEF OnRule, At, RuleSteps, RowSteps, Subject
<1>3. At(p, "attach.insert") \/ At(p, "detach.row") =>
        Subject(call[p]) = call[p].attachment
  BY <1>1, StoreAssumption DEF StoreAssumption, At, CallOK, AttachmentSteps,
     Subject
<1>4. CASE UpdateEgressRule_Write(p)
  BY <1>2, <1>4 DEF UpdateEgressRule_Write, Commit, storeVars
<1>5. CASE CreateEgressRuleAttachment_Insert(p)
  BY <1>3, <1>5 DEF CreateEgressRuleAttachment_Insert, Commit, storeVars
<1>6. CASE CreateEgressRuleAttachment_InsertError(p)
  BY <1>6 DEF CreateEgressRuleAttachment_InsertError, storeVars
<1>7. CASE DeleteEgressRuleAttachment_Row(p)
  BY <1>3, <1>7 DEF DeleteEgressRuleAttachment_Row, Commit, storeVars
<1>8. CASE CallFails(p)
  BY SMTT(30), <1>8 DEF CallFails, storeVars
<1>9. CASE RuleStep(p) /\ ~UpdateEgressRule_Write(p)
  BY <1>9 DEF RuleStep, storeVars, CreateEgressRule,
     CreateEgressRule_Service, CreateEgressRule_Insert,
     CreateEgressRule_InsertError, CreateEgressRule_Undo,
     CreateEgressRule_ReadBack, SyncPrivateResourceMediation_Count,
     SyncPrivateResourceMediation_Set, SyncPrivateResourceMediation_Error,
     UpdateEgressRule, UpdateEgressRule_Service,
     UpdateEgressRule_ReadBack, DeleteEgressRule, DeleteEgressRule_Count,
     DeleteEgressRule_Row, DeleteEgressRule_Service, PublishRuleUpdated
<1>10. CASE /\ AttachmentStep(p)
            /\ ~CreateEgressRuleAttachment_Insert(p)
            /\ ~CreateEgressRuleAttachment_InsertError(p)
            /\ ~DeleteEgressRuleAttachment_Row(p)
  BY <1>10 DEF AttachmentStep, storeVars, CreateEgressRuleAttachment,
     CreateEgressRuleAttachment_Check, CreateEgressRuleAttachment_Service,
     CreateEgressRuleAttachment_SaveServiceId,
     CreateEgressRuleAttachment_Policy, CreateEgressRuleAttachment_Undo,
     CreateEgressRuleAttachment_ReadBack, DeleteEgressRuleAttachment,
     DeleteEgressRuleAttachment_Policy, PublishAttachmentUpdated
<1> QED BY <1>4, <1>5, <1>6, <1>7, <1>8, <1>9, <1>10 DEF CallStep

(* It leaves them only as an event.                                          *)
LEMMA UnannouncedStay ==
  ASSUME TypeOK, NEW p \in Callers, CallStep(p),
         ~PublishRuleUpdated(p), ~PublishAttachmentUpdated(p)
  PROVE  unannounced \subseteq unannounced'
<1>1. CASE RuleStep(p)
  BY <1>1 DEF RuleStep, eventVars, Commit, Abandon, CreateEgressRule,
     CreateEgressRule_Service, CreateEgressRule_Insert,
     CreateEgressRule_InsertError, CreateEgressRule_Undo,
     CreateEgressRule_ReadBack, SyncPrivateResourceMediation_Count,
     SyncPrivateResourceMediation_Set, SyncPrivateResourceMediation_Error,
     UpdateEgressRule, UpdateEgressRule_Service, UpdateEgressRule_Write,
     UpdateEgressRule_ReadBack, DeleteEgressRule, DeleteEgressRule_Count,
     DeleteEgressRule_Row, DeleteEgressRule_Service
<1>2. CASE AttachmentStep(p)
  BY <1>2 DEF AttachmentStep, eventVars, Commit, Abandon,
     CreateEgressRuleAttachment,
     CreateEgressRuleAttachment_Check, CreateEgressRuleAttachment_Service,
     CreateEgressRuleAttachment_SaveServiceId,
     CreateEgressRuleAttachment_Policy, CreateEgressRuleAttachment_Insert,
     CreateEgressRuleAttachment_InsertError,
     CreateEgressRuleAttachment_Undo, CreateEgressRuleAttachment_ReadBack,
     DeleteEgressRuleAttachment, DeleteEgressRuleAttachment_Row,
     DeleteEgressRuleAttachment_Policy
<1>3. CASE CallFails(p)
  BY <1>3 DEF CallFails, Abandon
<1> QED BY SMTT(30), <1>1, <1>2, <1>3 DEF CallStep

LEMMA HandlerKeepsUnheard ==
  ASSUME BaseInv, NEW p \in Callers, CallerStep(p)
  PROVE  Unheard \subseteq Unheard' /\ unannounced' \subseteq Unheard'
<1>1. TypeOK /\ CallOK(call[p]) /\ OnRule(call[p])
  BY DEF BaseInv, CacheTypeOK, TypeOK, ServerTypeOK, AnnInv
<1>2. CASE PublishRuleUpdated(p) \/ PublishAttachmentUpdated(p)
  <2>1. unannounced' = unannounced \ {Subject(call[p])}
    BY <1>1, <1>2, StoreAssumption DEF StoreAssumption, PublishRuleUpdated,
       PublishAttachmentUpdated, At, Subject, OnRule, RuleSteps, CallOK,
       AttachmentSteps
  <2>2. CASE events' = events \cup {Subject(call[p])} /\ UNCHANGED lost
    BY <2>1, <2>2 DEF Unheard
  <2>3. CASE CallFails(p) /\ UNCHANGED <<events, lost>>
    <3>1. UNCHANGED unannounced
      BY <2>3 DEF CallFails, Abandon
    <3> QED BY <2>3, <3>1 DEF Unheard
  <2> QED BY <1>2, <2>2, <2>3 DEF CallerStep, Publishing,
       PublishRuleUpdated, PublishAttachmentUpdated, At
<1>3. CASE ~PublishRuleUpdated(p) /\ ~PublishAttachmentUpdated(p)
  <2>1. CallStep(p) /\ UNCHANGED <<events, lost>>
    BY <1>3 DEF CallerStep, CallStep
  <2>2. unannounced \subseteq unannounced'
    BY <1>1, <1>3, <2>1, UnannouncedStay
  <2> QED BY <2>1, <2>2 DEF Unheard
<1> QED BY <1>2, <1>3

(* No handler moves an attachment that is stored.                            *)
LEMMA AttachmentsArise ==
  ASSUME TypeOK, NEW p \in Callers, CallStep(p),
         NEW a \in AttachmentIds, attachments'[a] # None
  PROVE  \/ attachments'[a] = attachments[a]
         \/ /\ At(p, "attach.insert") /\ a = call[p].attachment
            /\ attachments[a] = None
            /\ attachments'[a] = NewAttachment(call[p])
            /\ rules[call[p].rule] # None
<1>1. CASE /\ At(p, "attach.insert")
           /\ InsertAttachment(call[p].attachment, NewAttachment(call[p]))
  <2>1. call[p].attachment \in AttachmentIds
    BY <1>1 DEF TypeOK, ServerTypeOK, CallOK, AttachmentSteps, At
  <2> QED BY <1>1, <2>1 DEF InsertAttachment, TypeOK, StoreTypeOK,
       RuleExists, NewAttachment
<1>2. CASE DeleteAttachment(call[p].attachment)
  BY <1>2 DEF DeleteAttachment, TypeOK, StoreTypeOK
<1>3. CASE UNCHANGED attachments
  BY <1>3
<1> QED BY <1>1, <1>2, <1>3, HandlerStores DEF InsertRule, UpdateRule,
     DeleteRule, UpdateRuleServiceID

LEMMA PlacesStay ==
  ASSUME BaseInv, PlacesKnown, NEW p \in Callers, CallerStep(p),
         NEW a \in AttachmentIds, place[a] # None
  PROVE  place'[a] = place[a]
<1>1. CallStep(p) /\ Place
  BY DEF CallerStep, CallStep, RuleStep, AttachmentStep
<1>2. TypeOK
  BY DEF BaseInv, CacheTypeOK
<1>3. ~(At(p, "attach.insert") /\ a = call[p].attachment)
  BY DEF PlacesKnown
<1>4. CASE attachments'[a] = None
  BY <1>1, <1>4 DEF Place
<1>5. CASE attachments'[a] # None
  <2>1. attachments'[a] = attachments[a]
    BY <1>1, <1>2, <1>3, <1>5, AttachmentsArise
  <2> QED BY <1>1, <1>5, <2>1 DEF Place, PlacesKnown
<1> QED BY <1>4, <1>5

LEMMA HandlerKnowsPlaces ==
  ASSUME BaseInv, PlacesKnown, NEW p \in Callers, CallerStep(p)
  PROVE  PlacesKnown'
<1>1. CallStep(p) /\ Place
  BY DEF CallerStep, CallStep, RuleStep, AttachmentStep
<1>2. TypeOK /\ LinkInv /\ CallOK(call[p])
  BY DEF BaseInv, CacheTypeOK, TypeOK, ServerTypeOK
<1>3. LinkInv'
  BY <1>1, <1>2, CallStepLink
<1>4. ASSUME NEW a \in AttachmentIds, attachments'[a] # None
      PROVE  /\ place'[a] = [rule |-> attachments'[a].rule,
                             target |-> attachments'[a].target]
             /\ rules'[attachments'[a].rule] # None
  <2>1. place'[a] = [rule |-> attachments'[a].rule,
                     target |-> attachments'[a].target]
    BY <1>1, <1>4 DEF Place
  <2> DEFINE r == attachments'[a].rule
  <2>2. r \in RuleIds
    <3>1. attachments'[a] \in AttachmentRow \cup {None}
      <4>1. TypeOK'
        BY <1>1, <1>2, ServerNextType DEF ServerNext
      <4> QED BY <4>1 DEF TypeOK, StoreTypeOK
    <3> QED BY <1>4, <3>1 DEF AttachmentRow
  <2>3. \/ attachments'[a] = attachments[a]
        \/ /\ attachments'[a] = NewAttachment(call[p])
           /\ rules[call[p].rule] # None
    BY <1>1, <1>2, <1>4, AttachmentsArise
  <2>4. rules[r] # None
    <3>1. NewAttachment(call[p]).rule = call[p].rule
      BY DEF NewAttachment
    <3> QED BY <1>4, <2>3, <3>1 DEF PlacesKnown
  <2>5. CASE UNCHANGED rules
    BY <2>1, <2>4, <2>5
  <2>6. CASE \E row \in Row : rules' = [rules EXCEPT ![call[p].rule] = row]
    <3>1. rules'[r] # None
      BY <2>2, <2>4, <2>6, RowAssumption DEF TypeOK, StoreTypeOK
    <3> QED BY <2>1, <3>1
  <2>7. CASE DeleteRule(call[p].rule)
    <3>1. UNCHANGED attachments /\ ~HasAttachments(call[p].rule)
      BY <2>7 DEF DeleteRule
    <3>2. r # call[p].rule
      BY <1>4, <3>1 DEF HasAttachments
    <3>3. rules'[r] = rules[r]
      BY <1>2, <2>2, <2>7, <3>2 DEF DeleteRule, TypeOK, StoreTypeOK
    <3> QED BY <2>1, <2>4, <3>3
  <2>8. CASE /\ At(p, "attach.serviceid")
             /\ UpdateRuleServiceID(call[p].rule, call[p].row.service)
    <3>1. call[p].row.service \in Nat /\ call[p].rule \in RuleIds
      BY <1>2, <2>8 DEF CallOK, At, RowSteps, PublicSteps, RuleSteps, Row
    <3>2. rules[call[p].rule] \in Row
      BY <1>2, <2>8, <3>1 DEF UpdateRuleServiceID, RuleExists, TypeOK,
         StoreTypeOK
    <3>3. [rules[call[p].rule] EXCEPT !.service = call[p].row.service] \in Row
      BY <3>1, <3>2 DEF Row
    <3>4. rules'[r] # None
      BY <2>2, <2>4, <2>8, <3>3, RowAssumption DEF UpdateRuleServiceID,
         TypeOK, StoreTypeOK
    <3> QED BY <2>1, <3>4
  <2>9. At(p, "create.insert") \/ At(p, "update.write") =>
          call[p].row \in Row
    BY <1>2 DEF CallOK, At, RowSteps
  <2> QED BY <1>1, <2>5, <2>6, <2>7, <2>8, <2>9, HandlerStores
       DEF InsertRule, UpdateRule, InsertAttachment, DeleteAttachment
<1>5. ASSUME NEW a \in AttachmentIds, place'[a] # None
      PROVE  a \in minted'
  <2>1. CASE attachments'[a] # None
    BY <1>3, <2>1 DEF LinkInv, AttachmentExists
  <2>2. CASE attachments'[a] = None
    <3>1. a \in minted
      BY <1>1, <1>5, <2>2 DEF Place, PlacesKnown
    <3>2. minted \subseteq minted'
      BY <1>1, <1>2, HandlerMints
    <3> QED BY <3>1, <3>2
  <2> QED BY <2>1, <2>2
<1>6. ASSUME NEW q \in Callers, At(q, "attach.insert")'
      PROVE  place'[call'[q].attachment] = None
  <2> DEFINE a == call'[q].attachment
  <2>1. attachments'[a] = None /\ a \in AttachmentIds
    <3>1. TypeOK'
      BY <1>1, <1>2, ServerNextType DEF ServerNext
    <3> QED BY <1>3, <1>6, <3>1 DEF LinkInv, AttachmentExists, TypeOK,
         ServerTypeOK, CallOK, At, AttachmentSteps
  <2>2. place'[a] = place[a]
    BY <1>1, <2>1 DEF Place
  <2>3. CASE q # p
    BY <1>1, <1>2, <1>6, <2>2, <2>3, OthersStay DEF PlacesKnown, At
  <2>4. CASE q = p
    <3>1. a \notin minted
      BY <1>1, <1>2, <1>6, <2>4, HandlerMints DEF At
    <3> QED BY <2>1, <2>2, <3>1 DEF PlacesKnown
  <2> QED BY <2>3, <2>4
<1> QED BY <1>4, <1>5, <1>6 DEF PlacesKnown

(* A lookup shows the rules that are attached, each with its matcher.        *)
LEMMA Lookup ==
  ASSUME NEW r \in RuleIds, NEW t \in Targets, NEW m
  PROVE  /\ <<r, m>> \in RulesOf(t) <=>
              rules[r] # None /\ rules[r].matcher = m /\ Attached(r, t)
         /\ <<r, m>> \in RulesOf(t)' <=>
              rules'[r] # None /\ rules'[r].matcher = m /\ Attached(r, t)'
BY DEF RulesOf, RuleExists

(* What a step changes of what the lookup of a target shows of a rule.       *)
LEMMA ShownChanges ==
  ASSUME BaseInv, PlacesKnown, NEW p \in Callers, CallerStep(p),
         NEW r \in RuleIds, NEW t \in Targets
  PROVE  \/ \A m : <<r, m>> \in RulesOf(t)' <=> <<r, m>> \in RulesOf(t)
         \/ /\ r \in unannounced'
            /\ \E m \in Matchers : <<r, m>> \in RulesOf(t)
         \/ \E a \in AttachmentIds \cap unannounced' :
              place'[a] = [rule |-> r, target |-> t]
<1> DEFINE Same == \A m : <<r, m>> \in RulesOf(t)' <=> <<r, m>> \in RulesOf(t)
           c == call[p]
<1>1. /\ CallStep(p) /\ Place
      /\ TypeOK /\ AnnInv /\ CallOK(call[p])
  BY DEF CallerStep, CallStep, RuleStep, AttachmentStep, BaseInv, CacheTypeOK,
     TypeOK, ServerTypeOK
<1>2. TypeOK'
  BY <1>1, ServerNextType DEF ServerNext
<1>3. /\ rules \in [RuleIds -> Row \cup {None}]
      /\ attachments \in [AttachmentIds -> AttachmentRow \cup {None}]
  BY <1>1 DEF TypeOK, StoreTypeOK
<1>4. CASE UNCHANGED attachments
  <2>1. Attached(r, t)' <=> Attached(r, t)
    BY <1>4 DEF Attached
  <2>2. CASE UNCHANGED rules \/ ~Attached(r, t)
    BY <2>1, <2>2, Lookup
  <2>3. CASE Attached(r, t) /\ UpdateRule(c.rule, c.row) /\ c.rule \in unannounced'
    <3>1. CASE r = c.rule
      <4>1. rules[r] # None /\ rules[r].matcher \in Matchers
        BY <1>3, <2>3, <3>1 DEF UpdateRule, RuleExists, Row
      <4>2. <<r, rules[r].matcher>> \in RulesOf(t)
        BY <2>3, <4>1, Lookup
      <4> QED BY <2>3, <3>1, <4>1, <4>2
    <3>2. CASE r # c.rule
      <4>1. rules'[r] = rules[r]
        BY <1>3, <2>3, <3>2 DEF UpdateRule
      <4> QED BY <2>1, <4>1, Lookup
    <3> QED BY <3>1, <3>2
  <2>4. CASE Attached(r, t) /\ (InsertRule(c.rule, c.row) \/ DeleteRule(c.rule))
    <3>1. rules[r] # None /\ HasAttachments(r)
      <4>1. PICK a \in AttachmentIds : attachments[a] # None /\ attachments[a].rule = r
        BY <2>4 DEF Attached
      <4> QED BY <4>1 DEF PlacesKnown, HasAttachments
    <3>2. r # c.rule
      BY <2>4, <3>1 DEF InsertRule, DeleteRule
    <3>3. rules'[r] = rules[r]
      BY <1>3, <2>4, <3>2 DEF InsertRule, DeleteRule
    <3> QED BY <2>1, <3>3, Lookup
  <2>5. CASE /\ At(p, "attach.serviceid")
             /\ UpdateRuleServiceID(c.rule, c.row.service)
    <3>1. c.row.service \in Nat /\ c.rule \in RuleIds
      BY <1>1, <2>5 DEF CallOK, At, RowSteps, PublicSteps, RuleSteps, Row
    <3>2. /\ rules'[r] # None <=> rules[r] # None
          /\ rules[r] # None => rules'[r].matcher = rules[r].matcher
      BY <1>1, <2>5, <3>1, ServiceIdUnseen DEF TypeOK
    <3> QED BY <2>1, <3>2, Lookup
  <2>6. CASE \/ /\ At(p, "attach.insert")
                /\ InsertAttachment(c.attachment, NewAttachment(c))
             \/ /\ At(p, "detach.row") /\ DeleteAttachment(c.attachment)
    <3>1. c.attachment \in AttachmentIds
      BY <1>1, <2>6 DEF CallOK, At, AttachmentSteps
    <3>2. NewAttachment(c) # None \/ ~At(p, "attach.insert")
      BY <1>1, RowAssumption DEF NewAttachment, AttachmentRow, CallOK, At,
         RuleSteps, TargetSteps, Call
    <3>3. ~UNCHANGED attachments
      BY <1>3, <2>6, <3>1, <3>2 DEF InsertAttachment, DeleteAttachment,
         AttachmentExists, At
    <3> QED BY <1>4, <3>3
  <2> HIDE DEF Same
  <2> QED BY <1>1, <1>4, <2>2, <2>3, <2>4, <2>5, <2>6, ChangesAreEntered
<1>5. CASE ~UNCHANGED attachments
  <2>1. /\ UNCHANGED rules
        /\ c.attachment \in AttachmentIds \cap unannounced'
        /\ \/ /\ At(p, "attach.insert")
              /\ InsertAttachment(c.attachment, NewAttachment(c))
           \/ At(p, "detach.row") /\ DeleteAttachment(c.attachment)
    <3>1. At(p, "attach.insert") \/ At(p, "detach.row") =>
            c.attachment \in AttachmentIds
      BY <1>1 DEF CallOK, At, AttachmentSteps
    <3> QED BY <1>1, <1>5, <3>1, ChangesAreEntered DEF InsertRule, UpdateRule,
         DeleteRule, UpdateRuleServiceID, InsertAttachment, DeleteAttachment
  <2> DEFINE b == c.attachment
  <2>2. \A a \in AttachmentIds \ {b} : attachments'[a] = attachments[a]
    BY <1>3, <2>1 DEF InsertAttachment, DeleteAttachment
  <2>3. CASE Attached(r, t)' <=> Attached(r, t)
    BY <2>1, <2>3, Lookup
  <2>4. CASE Attached(r, t)' /\ ~Attached(r, t)
    <3>1. /\ attachments'[b] # None
          /\ attachments'[b].rule = r /\ attachments'[b].target = t
      BY <2>2, <2>4 DEF Attached
    <3>2. place'[b] = [rule |-> r, target |-> t]
      BY <1>1, <2>1, <3>1 DEF Place
    <3> QED BY <2>1, <3>2
  <2>5. CASE Attached(r, t) /\ ~Attached(r, t)'
    <3>1. /\ attachments[b] # None
          /\ attachments[b].rule = r /\ attachments[b].target = t
      BY <2>2, <2>5 DEF Attached
    <3>2. place[b] = [rule |-> r, target |-> t]
      BY <2>1, <3>1 DEF PlacesKnown
    <3>3. place'[b] = place[b]
      BY <2>1, <3>2, PlacesStay, LinkAssumption
    <3> QED BY <2>1, <3>2, <3>3
  <2> QED BY <2>3, <2>4, <2>5
<1> QED BY <1>4, <1>5

(* An answer that fitted before a handler's step fits after it.              *)
LEMMA AnswerStaysFit ==
  ASSUME BaseInv, PlacesKnown, NEW p \in Callers, CallerStep(p),
         NEW t \in Targets, NEW ans \in Answer, Fits(ans, t)
  PROVE  Fits(ans, t)'
<1> SUFFICES ASSUME NEW r \in RuleIds
    PROVE  \/ LinkUnheard(r, t)'
           \/ (r \in Unheard)' /\ \E m \in Matchers : <<r, m>> \in ans.rules
           \/ SaysTheSame(ans, r, t)'
  BY DEF Fits
<1>1. Unheard \subseteq Unheard' /\ unannounced' \subseteq Unheard'
  BY HandlerKeepsUnheard
<1>2. CASE LinkUnheard(r, t)
  <2>1. PICK a \in AttachmentIds \cap Unheard :
          place[a] = [rule |-> r, target |-> t]
    BY <1>2 DEF LinkUnheard
  <2>2. place'[a] = [rule |-> r, target |-> t]
    BY <2>1, PlacesStay, LinkAssumption
  <2> QED BY <1>1, <2>1, <2>2 DEF LinkUnheard
<1>3. CASE r \in Unheard /\ \E m \in Matchers : <<r, m>> \in ans.rules
  BY <1>1, <1>3
<1>4. CASE SaysTheSame(ans, r, t)
  <2>1. CASE \A m : <<r, m>> \in RulesOf(t)' <=> <<r, m>> \in RulesOf(t)
    BY <1>4, <2>1 DEF SaysTheSame
  <2>2. CASE r \in unannounced' /\ \E m \in Matchers : <<r, m>> \in RulesOf(t)
    BY <1>1, <1>4, <2>2 DEF SaysTheSame
  <2>3. CASE \E a \in AttachmentIds \cap unannounced' :
               place'[a] = [rule |-> r, target |-> t]
    BY <1>1, <2>3 DEF LinkUnheard
  <2> QED BY <2>1, <2>2, <2>3, ShownChanges
<1> QED BY <1>2, <1>3, <1>4 DEF Fits

(* Steps that leave the tables and the unheard changes alone.                *)
LEMMA NothingHappens ==
  ASSUME UNCHANGED <<rules, attachments, place>>, Unheard \subseteq Unheard',
         NEW t \in Targets, NEW ans, Fits(ans, t)
  PROVE  Fits(ans, t)'
<1>1. RulesOf(t)' = RulesOf(t)
  BY DEF RulesOf, RuleExists, Attached
<1>2. \A r \in RuleIds : SaysTheSame(ans, r, t)' <=> SaysTheSame(ans, r, t)
  BY <1>1 DEF SaysTheSame
<1>3. \A r \in RuleIds : LinkUnheard(r, t) => LinkUnheard(r, t)'
  BY DEF LinkUnheard
<1> QED BY <1>2, <1>3 DEF Fits

(* An answer that the event of x does not drop fits without it.              *)
LEMMA NotDropped ==
  ASSUME CacheTypeOK, NEW x \in events, NEW t \in Targets,
         cache[t] # None, ~Dropped(t, x), Fits(cache[t], t),
         UNCHANGED <<rules, attachments, place, unannounced, lost>>,
         events' = events \ {x}
  PROVE  \A ans : ans = cache[t] => Fits(ans, t)'
<1> SUFFICES ASSUME NEW ans, ans = cache[t], NEW r \in RuleIds
    PROVE  \/ LinkUnheard(r, t)'
           \/ (r \in Unheard)' /\ \E m \in Matchers : <<r, m>> \in ans.rules
           \/ SaysTheSame(ans, r, t)'
  BY DEF Fits
<1>1. \A y \in Unheard : y # x => y \in Unheard'
  BY DEF Unheard
<1>2. CASE LinkUnheard(r, t)
  <2>1. PICK a \in AttachmentIds \cap Unheard :
          place[a] = [rule |-> r, target |-> t]
    BY <1>2 DEF LinkUnheard
  <2>2. a \notin RuleIds
    BY StoreAssumption DEF StoreAssumption
  <2>3. place[a] # None /\ place[a].target = t
    BY <2>1, LinkAssumption
  <2>4. a # x
    BY <2>2, <2>3 DEF Dropped
  <2> QED BY <1>1, <2>1, <2>4 DEF LinkUnheard
<1>3. CASE r \in Unheard /\ \E m \in Matchers : <<r, m>> \in ans.rules
  <2>1. PICK m \in Matchers : <<r, m>> \in cache[t].rules
    BY <1>3
  <2>2. r # x
    <3>1. <<r, m>>[1] = r
      OBVIOUS
    <3> QED BY <2>1, <3>1 DEF Dropped
  <2> QED BY <1>1, <1>3, <2>2
<1>4. CASE SaysTheSame(ans, r, t)
  <2>1. RulesOf(t)' = RulesOf(t)
    BY DEF RulesOf, RuleExists, Attached
  <2> QED BY <1>4, <2>1 DEF SaysTheSame
<1> QED BY <1>2, <1>3, <1>4 DEF Fits

LEMMA BaseStep ==
  ASSUME BaseInv, [CacheNext]_cacheVars
  PROVE  BaseInv'
<1> USE DEF BaseInv
<1>1. CacheTypeOK'
  BY CacheNextType
<1>2. TypeOK
  BY DEF CacheTypeOK
<1>3. CASE ServerNext \/ UNCHANGED allVars
  <2>1. AnnInv'
    BY <1>2, <1>3, ServerNextAnn
  <2>2. LinkInv'
    <3>1. CASE Crash
      <4>1. /\ \A p \in Callers : call'[p].at = "idle"
            /\ UNCHANGED <<attachments, minted>>
        BY <3>1 DEF Crash, Idle, storeVars, historyVars
      <4> QED BY <4>1 DEF LinkInv, At, AttachmentExists
    <3>2. CASE UNCHANGED allVars
      BY <3>2 DEF allVars, storeVars, serverVars, LinkInv, At,
         AttachmentExists
    <3> QED BY <1>2, <1>3, <3>1, <3>2, CallStepLink DEF ServerNext
  <2> QED BY <1>1, <2>1, <2>2
<1>4. CASE UNCHANGED <<storeVars, zitiVars, call, calls, historyVars,
                       mediated, eventVars>>
  <2>1. UNCHANGED <<rules, attachments, call, minted, unannounced, abandoned>>
    BY <1>4 DEF storeVars, historyVars, eventVars
  <2>2. AnnInv'
    BY <2>1 DEF AnnInv, Covers, Stored, OnRule
  <2>3. LinkInv'
    BY <2>1 DEF LinkInv, At, AttachmentExists
  <2> QED BY <1>1, <2>2, <2>3
<1> QED BY <1>3, <1>4, StepsAreServerSteps DEF cacheVars

LEMMA TablesSame ==
  ASSUME PlacesKnown, UNCHANGED <<rules, attachments, place, minted>>,
         \A p \in Callers : call'[p].at = "idle" \/ call'[p] = call[p]
  PROVE  PlacesKnown'
BY DEF PlacesKnown, At

LEMMA CacheInvStep ==
  ASSUME CacheInv, [CacheNext]_cacheVars
  PROVE  CacheInv'
<1> USE DEF CacheInv
<1>1. BaseInv' /\ CacheTypeOK
  BY BaseStep DEF BaseInv
<1>2. ASSUME NEW p \in Callers, CallerStep(p)
      PROVE  CacheInv'
  <2>1. PlacesKnown' /\ UNCHANGED <<cache, fetch>>
    BY <1>2, HandlerKnowsPlaces DEF CallerStep
  <2>2. \A t \in Targets, ans \in Answer : Fits(ans, t) => Fits(ans, t)'
    BY <1>2, AnswerStaysFit
  <2>3. ASSUME NEW t \in Targets
        PROVE  /\ cache[t] # None /\ ~cache[t].overtaken => Fits(cache[t], t)'
               /\ fetch[t] # None /\ ~fetch[t].overtaken => Fits(fetch[t], t)'
    <3>1. cache[t] \in Answer \cup {None} /\ fetch[t] \in Answer \cup {None}
      BY <1>1 DEF CacheTypeOK
    <3>2. \A ans \in Answer : Fits(ans, t) =>
            (ans = cache[t] => Fits(cache[t], t)')
              /\ (ans = fetch[t] => Fits(fetch[t], t)')
      BY <2>1, <2>2 DEF Fits, SaysTheSame
    <3> QED BY <3>1, <3>2 DEF AnswersFit
  <2>4. AnswersFit'
    BY <2>1, <2>3 DEF AnswersFit
  <2> QED BY <1>1, <2>1, <2>4
<1>3. ASSUME UNCHANGED <<rules, attachments, place>>,
             Unheard \subseteq Unheard'
      PROVE  \A t \in Targets : \A ans : Fits(ans, t) => Fits(ans, t)'
  BY <1>3, NothingHappens
<1>4. ASSUME NEW t \in Targets, ListEgressRules(t)
      PROVE  CacheInv'
  <2>1. /\ UNCHANGED <<rules, attachments, place, minted, call, unannounced,
                       events, lost, cache>>
        /\ fetch' = [fetch EXCEPT ![t] = [rules |-> RulesOf(t),
                                          overtaken |-> FALSE]]
    BY <1>4 DEF ListEgressRules, allVars, storeVars, serverVars
  <2>2. PlacesKnown'
    BY <2>1, TablesSame
  <2>3. \A s \in Targets : \A ans : Fits(ans, s) => Fits(ans, s)'
    BY <1>3, <2>1 DEF Unheard
  <2>4. \A s \in Targets : \A ans : ans.rules = RulesOf(s) => Fits(ans, s)
    BY DEF Fits, SaysTheSame
  <2>5. fetch'[t].rules = RulesOf(t)
    BY <1>1, <2>1 DEF CacheTypeOK
  <2>6. ASSUME NEW s \in Targets
        PROVE  /\ cache'[s] # None /\ ~cache'[s].overtaken =>
                    \A ans : ans = cache'[s] => Fits(ans, s)'
               /\ fetch'[s] # None /\ ~fetch'[s].overtaken =>
                    \A ans : ans = fetch'[s] => Fits(ans, s)'
    BY <1>1, <2>1, <2>3, <2>4, <2>5 DEF AnswersFit, CacheTypeOK
  <2>7. AnswersFit'
    BY <2>6 DEF AnswersFit, Fits, SaysTheSame
  <2> QED BY <1>1, <2>2, <2>7
<1>5. ASSUME NEW t \in Targets, Fill(t)
      PROVE  CacheInv'
  <2>1. /\ UNCHANGED <<rules, attachments, place, minted, call, unannounced,
                       events, lost>>
        /\ cache' = [cache EXCEPT ![t] = fetch[t]]
        /\ fetch' = [fetch EXCEPT ![t] = None]
        /\ fetch[t] # None
    BY <1>5 DEF Fill, allVars, storeVars, serverVars
  <2>2. PlacesKnown'
    BY <2>1, TablesSame
  <2>3. \A s \in Targets : \A ans : Fits(ans, s) => Fits(ans, s)'
    BY <1>3, <2>1 DEF Unheard
  <2>6. ASSUME NEW s \in Targets
        PROVE  /\ cache'[s] # None /\ ~cache'[s].overtaken =>
                    \A ans : ans = cache'[s] => Fits(ans, s)'
               /\ fetch'[s] # None /\ ~fetch'[s].overtaken =>
                    \A ans : ans = fetch'[s] => Fits(ans, s)'
    BY <1>1, <2>1, <2>3 DEF AnswersFit, CacheTypeOK
  <2>7. AnswersFit'
    BY <2>6 DEF AnswersFit, Fits, SaysTheSame
  <2> QED BY <1>1, <2>2, <2>7
<1>6. CASE Deliver
  <2>1. PICK x \in events :
          /\ events' = events \ {x}
          /\ cache' = [t \in Targets |-> IF Dropped(t, x) THEN None ELSE cache[t]]
    BY <1>6 DEF Deliver
  <2>2. /\ UNCHANGED <<rules, attachments, place, minted, call, unannounced,
                       lost>>
        /\ fetch' = [t \in Targets |-> IF fetch[t] = None THEN None
                                 ELSE [fetch[t] EXCEPT !.overtaken = TRUE]]
    BY <1>6 DEF Deliver, allVars, storeVars, serverVars
  <2>3. PlacesKnown'
    BY <2>2, TablesSame
  <2>4. ASSUME NEW s \in Targets, cache'[s] # None, ~cache'[s].overtaken
        PROVE  \A ans : ans = cache'[s] => Fits(ans, s)'
    <3>1. cache'[s] = cache[s] /\ ~Dropped(s, x)
      BY <2>1, <2>4
    <3>2. Fits(cache[s], s)
      BY <2>4, <3>1 DEF AnswersFit
    <3> QED BY <1>1, <2>1, <2>2, <2>4, <3>1, <3>2, NotDropped
  <2>5. ASSUME NEW s \in Targets, fetch'[s] # None
        PROVE  fetch'[s].overtaken
    <3>1. fetch[s] \in Answer /\ fetch'[s] = [fetch[s] EXCEPT !.overtaken = TRUE]
      BY <1>1, <2>2, <2>5 DEF CacheTypeOK
    <3> QED BY <3>1 DEF Answer
  <2>6. AnswersFit'
    BY <2>4, <2>5 DEF AnswersFit, Fits, SaysTheSame
  <2> QED BY <1>1, <2>3, <2>6
<1>7. CASE Lose \/ ServerCrash \/ UNCHANGED cacheVars
  <2>1. /\ UNCHANGED <<rules, attachments, place, minted, unannounced,
                       cache, fetch>>
        /\ \A p \in Callers : call'[p].at = "idle" \/ call'[p] = call[p]
        /\ Unheard \subseteq Unheard'
    BY <1>7 DEF Lose, ServerCrash, Crash, cacheVars, gatewayVars, allVars,
       storeVars, serverVars, historyVars, eventVars, Idle, Unheard
  <2>2. PlacesKnown'
    BY <2>1, TablesSame
  <2>3. \A s \in Targets : \A ans : Fits(ans, s) => Fits(ans, s)'
    BY <1>3, <2>1
  <2>4. AnswersFit'
    BY <2>1, <2>3 DEF AnswersFit, Fits, SaysTheSame
  <2> QED BY <1>1, <2>2, <2>4
<1>8. CASE GatewayRestart
  <2>1. /\ UNCHANGED <<rules, attachments, place, minted, call>>
        /\ \A t \in Targets : cache'[t] = None /\ fetch'[t] = None
    BY <1>8 DEF GatewayRestart, storeVars, historyVars
  <2>2. PlacesKnown'
    BY <2>1, TablesSame
  <2> QED BY <1>1, <2>1, <2>2 DEF AnswersFit
<1> QED BY <1>2, <1>4, <1>5, <1>6, <1>7, <1>8 DEF CacheNext

LEMMA CacheInvInit == CacheInit => CacheInv
<1> SUFFICES ASSUME CacheInit PROVE CacheInv
  OBVIOUS
<1>1. CacheTypeOK /\ AnnInv
  BY InitType, InitAnn DEF CacheInit, CacheTypeOK
<1>2. /\ \A p \in Callers : call[p].at = "idle"
      /\ \A a \in AttachmentIds : attachments[a] = None
  BY DEF CacheInit, Init, StoreInit, ServerInit, Idle
<1>3. LinkInv /\ PlacesKnown
  BY <1>2 DEF LinkInv, PlacesKnown, At, AttachmentExists, CacheInit
<1>4. AnswersFit
  BY DEF AnswersFit, CacheInit
<1> QED BY <1>1, <1>3, <1>4 DEF CacheInv, BaseInv

LEMMA UnheardIsUntold ==
  ASSUME CacheInv
  PROVE  Unheard \subseteq Untold
BY AnnImpliesAnnounced DEF CacheInv, BaseInv, Announced, Unheard, Untold

LEMMA CacheInvariant == CacheSpec => []CacheInv
<1>1. CacheInv /\ [CacheNext]_cacheVars => CacheInv'
  BY CacheInvStep
<1> QED BY <1>1, CacheInvInit, PTL DEF CacheSpec

(* What the gateway keeps about a rule is what the lookup would say now,     *)
(* unless a change of the rule or of an attachment of it is still untold, or *)
(* an event overtook the answer: no order of stores, lookups, answers and    *)
(* events leaves an entry wrong that nothing will ever drop.                 *)
THEOREM CacheStaleOnlyUntold == CacheSpec => []StaleOnlyUntold
<1>1. CacheInv => StaleOnlyUntold
  BY UnheardIsUntold DEF CacheInv, AnswersFit, Fits, SaysTheSame, LinkUnheard,
     StaleOnlyUntold, Explained
<1> QED BY <1>1, CacheInvariant, PTL

(* The handlers announce every change whatever the gateway does.             *)
THEOREM CacheEveryChangeAnnounced == CacheSpec => []Announced
<1>1. CacheInv => Announced
  BY AnnImpliesAnnounced DEF CacheInv, BaseInv
<1> QED BY <1>1, CacheInvariant, PTL

---------------------------------------------------------------------------
(* Beside others.  The gateway and the Networks pass share no table with the *)
(* handlers: they count failures and set the switch, and leave the rows, the *)
(* controller and the calls alone, so what is true of these under the        *)
(* handlers is true next to them.                                            *)

Onlooker ==
  /\ UNCHANGED <<rules, attachments, services, policies, serviceIds,
                 policyIds, call, calls, origin, minted, unannounced,
                 abandoned>>
  /\ faults' \in Nat /\ mediated' \subseteq Resources

LEMMA LifeBesideOthers ==
  ASSUME ServerLifeInv, [ServerNext]_allVars \/ Onlooker
  PROVE  ServerLifeInv'
<1>1. KindInv /\ IdsOwned /\ PolicyRoles /\ CreationInv
  BY DEF ServerLifeInv, ServerIdInv
<1>2. CASE [ServerNext]_allVars
  <2>1. KindInv' /\ CreationInv'
    BY <1>1, <1>2, ServerNextKind, ServerNextCreation
  <2>2. IdsOwned'
    BY <1>1, <1>2, ServerNextIds, IdsOwnedStep DEF KindInv, TypeOK
  <2>3. PolicyRoles'
    BY <1>1, <1>2, ServerRoles, OriginStable, PolicyRolesStep
       DEF KindInv, TypeOK
  <2> QED BY <2>1, <2>2, <2>3 DEF ServerLifeInv, ServerIdInv
<1>3. CASE Onlooker
  <2>1. TypeOK'
    BY <1>1, <1>3 DEF Onlooker, KindInv, TypeOK, StoreTypeOK, ZitiTypeOK,
       ServerTypeOK
  <2>2. RowsAgree' /\ ServicesPublic'
    BY <1>1, <1>3 DEF Onlooker, KindInv, RowsAgree, ServicesPublic, OfKind, At,
       RuleExists
  <2>3. \A r \in RuleIds, id \in ServiceIds : Held(r, id)' <=> Held(r, id)
    BY <1>3 DEF Onlooker, Held, InRow, ServiceHasId, InCall, InPolicy,
       RuleExists
  <2>4. IdsOwned'
    BY <1>1, <1>3, <2>3 DEF Onlooker, IdsOwned
  <2>5. PolicyRoles' /\ CreationInv'
    BY <1>1, <1>3 DEF Onlooker, PolicyRoles, CreationInv, RuleExists, At
  <2> QED BY <2>1, <2>2, <2>4, <2>5 DEF ServerLifeInv, ServerIdInv, KindInv
<1> QED BY <1>2, <1>3

LEMMA InitLife == Init => ServerLifeInv
BY InitKind, InitOwned, IdleCreation
   DEF Init, ServerInit, ServerLifeInv, ServerIdInv

(* A service of a stored rule goes only with the clean-up of its create.     *)
LEMMA StoredIsSpared ==
  ASSUME ServerLifeInv, [ServerNext]_allVars \/ Onlooker, NEW r \in RuleIds,
         RuleExists(r), services[r] # None, services'[r] = None
  PROVE  \E p \in Callers : At(p, "create.undo") /\ call[p].rule = r
<1>1. PICK p \in Callers : CallStep(p)
  BY DEF Onlooker, ServerNext, Crash, allVars, zitiVars
<1> QED BY <1>1, HandlersSpare DEF ServerLifeInv, ServerIdInv

LEMMA CacheStepIsOnlookers ==
  ASSUME TypeOK, [CacheNext]_cacheVars
  PROVE  [ServerNext]_allVars \/ Onlooker
<1>1. CASE /\ faults' = faults + 1
           /\ UNCHANGED <<storeVars, zitiVars, call, calls, historyVars,
                          mediated, eventVars>>
  BY <1>1 DEF Onlooker, TypeOK, ServerTypeOK, storeVars, zitiVars,
     historyVars, eventVars
<1> QED BY <1>1, StepsAreServerSteps DEF cacheVars

(* A gateway that reads, caches, loses and restarts beside the handlers does *)
(* not help a delete to the service of a stored rule.                        *)
THEOREM CacheStoredRuleKeepsService == CacheSpec => LiveRuleKeepsService
<1>1. CacheInit => ServerLifeInv
  BY InitLife DEF CacheInit
<1>2. ServerLifeInv /\ [CacheNext]_cacheVars => ServerLifeInv'
  BY CacheStepIsOnlookers, LifeBesideOthers
     DEF ServerLifeInv, ServerIdInv, KindInv
<1>3. ServerLifeInv /\ [CacheNext]_cacheVars =>
        [\A r \in RuleIds :
           /\ RuleExists(r) /\ rules'[r] # None /\ services[r] # None
           /\ ~\E p \in Callers : At(p, "create.undo") /\ call[p].rule = r
           => services'[r] # None]_allVars
  BY CacheStepIsOnlookers, StoredIsSpared
     DEF ServerLifeInv, ServerIdInv, KindInv
<1> QED BY <1>1, <1>2, <1>3, PTL DEF CacheSpec, LiveRuleKeepsService

---------------------------------------------------------------------------
(* Mediation: a Networks pass sets the switch and nothing else.              *)

MediationInv == ServerLifeInv /\ network \in NetworkPass

LEMMA MediationStepIsOnlookers ==
  ASSUME MediationInv, [MediationNext]_mediationVars
  PROVE  [ServerNext]_allVars \/ Onlooker
<1>1. TypeOK
  BY DEF MediationInv, ServerLifeInv, ServerIdInv, KindInv
<1>2. CASE NetworkPass_Apply
  BY <1>1, <1>2 DEF NetworkPass_Apply, Onlooker, MediationInv, NetworkPass,
     TypeOK, ServerTypeOK, storeVars, zitiVars, budgetVars, historyVars,
     eventVars
<1> QED BY <1>2 DEF MediationNext, NetworkStep, NetworkPass_List, mediationVars

LEMMA MediationInvariant == MediationSpec => []MediationInv
<1>1. MediationInit => MediationInv
  BY InitLife DEF MediationInit, MediationInv, NetworkPass, NetworkIdle
<1>2. MediationInv /\ [MediationNext]_mediationVars => MediationInv'
  <2>1. ASSUME MediationInv, [MediationNext]_mediationVars
        PROVE  network' \in NetworkPass
    BY <2>1 DEF MediationInv, MediationNext, NetworkStep, NetworkPass_List,
       NetworkPass_Apply, NetworkPass, NetworkIdle, mediationVars,
       ListMediatedPrivateResources
  <2> QED BY <2>1, MediationStepIsOnlookers, LifeBesideOthers DEF MediationInv
<1> QED BY <1>1, <1>2, PTL DEF MediationSpec

LEMMA MediationKind == MediationInv => KindInv
BY DEF MediationInv, ServerLifeInv, ServerIdInv

(* The switch, the Networks pass and the rest of the state keep their types. *)
THEOREM MediationTypeCorrect == MediationSpec => []MediationTypeOK
<1>1. MediationInv => MediationTypeOK
  BY MediationKind DEF MediationInv, KindInv, MediationTypeOK
<1> QED BY <1>1, MediationInvariant, PTL

(* Handlers that sync the switch and passes of Networks that set it again    *)
(* leave every row, stored or in the hands of a call, of the kind and on the *)
(* resource its rule was created for.                                        *)
THEOREM MediationRowsAgree == MediationSpec => []RowsAgree
<1>1. MediationInv => RowsAgree
  BY MediationKind DEF KindInv
<1> QED BY <1>1, MediationInvariant, PTL

(* Beside Networks passes a private rule has no service, and a stored rule   *)
(* an id exactly if it is public.                                            *)
THEOREM MediationServiceIdIffPublic == MediationSpec => []ServiceIdIffPublic
<1>1. MediationInv => ServiceIdIffPublic
  BY MediationKind, KindImpliesServiceIdIffPublic
<1> QED BY <1>1, MediationInvariant, PTL

(* Beside Networks passes no target gets a policy for anything but its       *)
(* rule's own destination.                                                   *)
THEOREM MediationKeepsScope == MediationSpec => []PolicyScope
<1>1. MediationInv => PolicyScope
  BY OwnedScope
     DEF MediationInv, ServerLifeInv, ServerIdInv, KindInv, TypeOK
<1> QED BY <1>1, MediationInvariant, PTL

(* Between a handler's count of the rules that name a resource and its       *)
(* setting of the switch, a Networks pass may list and set: stored rules     *)
(* keep the kind of their destination and their resource all the same.       *)
THEOREM MediationTargetNeverChanges == MediationSpec => TargetImmutable
<1>1. ASSUME MediationInv, MediationInv', [MediationNext]_mediationVars,
             NEW r \in RuleIds, RuleExists(r), rules'[r] # None
      PROVE  PrivateResourceOf(rules'[r].matcher)
               = PrivateResourceOf(rules[r].matcher)
  <2>1. OfKind(rules[r], r)
    BY <1>1, MediationKind DEF KindInv, RowsAgree
  <2>2. KindInv'
    BY <1>1 DEF MediationInv, ServerLifeInv, ServerIdInv
  <2>3. OfKind(rules[r], r)'
    BY <1>1, <2>2 DEF KindInv, RowsAgree, RuleExists
  <2>4. origin'[r] = origin[r]
    BY <1>1, <2>1, MediationKind, MediationStepIsOnlookers, OriginStable
       DEF OfKind, KindInv, Onlooker
  <2> QED BY <2>1, <2>3, <2>4 DEF OfKind, PrivateResourceOf
<1>2. MediationInv /\ MediationInv' /\ [MediationNext]_mediationVars =>
        [\A r \in RuleIds : RuleExists(r) /\ rules'[r] # None =>
           PrivateResourceOf(rules'[r].matcher)
             = PrivateResourceOf(rules[r].matcher)]_allVars
  BY <1>1
<1> QED BY <1>2, MediationInvariant, PTL DEF MediationSpec, TargetImmutable

(* A rule that is deleted while Networks holds a list with its resource      *)
(* stays deleted.                                                            *)
THEOREM MediationDeletedStaysDeleted == MediationSpec => NoResurrection
<1>1. ASSUME MediationInv, [MediationNext]_mediationVars, NEW r \in RuleIds,
             ~RuleExists(r), ~BeingCreated(r)
      PROVE  rules'[r] = None
  <2>1. TypeOK
    BY <1>1, MediationKind DEF KindInv
  <2>2. ASSUME NEW p \in Callers, CallStep(p)
        PROVE  rules'[r] = None
    BY <1>1, <2>1, <2>2, RulesArise DEF RuleExists, BeingCreated, At
  <2>3. CASE Crash \/ UNCHANGED allVars \/ Onlooker
    BY <1>1, <2>3 DEF Crash, Onlooker, allVars, storeVars, RuleExists
  <2> QED BY <1>1, <2>2, <2>3, MediationStepIsOnlookers DEF ServerNext
<1>2. MediationInv /\ [MediationNext]_mediationVars =>
        [\A r \in RuleIds :
           origin[r] # None /\ ~RuleExists(r) /\ ~BeingCreated(r)
             => rules'[r] = None]_allVars
  BY <1>1
<1> QED BY <1>2, MediationInvariant, PTL DEF MediationSpec, NoResurrection

---------------------------------------------------------------------------
(* Two processes: what is proved of a pass holds of each.  The first lemmas  *)
(* say that a pass is the same, be it named in ReconcilerPair or here.       *)

OlderProofs == INSTANCE ReconcilerProofs WITH pass <- older

NewerProofs == INSTANCE ReconcilerProofs WITH pass <- newer

(* The assumptions on the constants, which an instance's lemmas rest on.     *)
LEMMA OlderAssumes ==
  /\ MaxCalls \in Nat /\ MaxFaults \in Nat
  /\ Requests \subseteq {"create", "update", "delete", "attach", "detach"}
  /\ None \notin OlderProofs!Service \cup OlderProofs!Policy
  /\ None \notin OlderProofs!Row \cup OlderProofs!AttachmentRow
  /\ None \notin RuleIds \cup AttachmentIds \cup Targets
  /\ None \notin Domains \cup Resources
  /\ Domains \cap Resources = {}
  /\ RuleIds \cap AttachmentIds = {}
<1>1. None \notin OlderProofs!Service \cup OlderProofs!Policy
  BY ZitiAssumption DEF Service, Policy, ServiceRoles, OlderProofs!Service,
     OlderProofs!Policy, OlderProofs!ServiceRoles
<1>2. None \notin OlderProofs!Row \cup OlderProofs!AttachmentRow
  BY RowAssumption DEF Row, AttachmentRow, Matchers, OlderProofs!Row,
     OlderProofs!AttachmentRow, OlderProofs!Matchers
<1> QED BY <1>1, <1>2, StoreAssumption, ServerAssumption
        DEF StoreAssumption, ServerAssumption

LEMMA OlderStep == Older!PassStep => OlderProofs!PassStep
BY DEF Older!PassStep, OlderProofs!PassStep, Older!ListAllRules,
  OlderProofs!ListAllRules, Older!ListAllAttachments,
  OlderProofs!ListAllAttachments, Older!ReconcileRule,
  OlderProofs!ReconcileRule, Older!SaveServiceId, OlderProofs!SaveServiceId,
  Older!UnknownRule, OlderProofs!UnknownRule, Older!AttachmentInLine,
  OlderProofs!AttachmentInLine, Older!ProvisionPolicy,
  OlderProofs!ProvisionPolicy, Older!PolicyDiffers, OlderProofs!PolicyDiffers,
  Older!ReplacePolicy_Delete, OlderProofs!ReplacePolicy_Delete,
  Older!ReplacePolicy_Create, OlderProofs!ReplacePolicy_Create,
  Older!SavePolicyId, OlderProofs!SavePolicyId, Older!ListServices,
  OlderProofs!ListServices, Older!DeleteOrphanService,
  OlderProofs!DeleteOrphanService, Older!ListServicePolicies,
  OlderProofs!ListServicePolicies, Older!DeleteOrphanServicePolicy,
  OlderProofs!DeleteOrphanServicePolicy, Older!PassDone, OlderProofs!PassDone,
  Older!PassAt, OlderProofs!PassAt, Older!allVars, OlderProofs!allVars,
  Older!IsPrivateTarget, OlderProofs!IsPrivateTarget,
  Older!ReconciledServiceId, OlderProofs!ReconciledServiceId,
  Older!ReconcileRuleService, OlderProofs!ReconcileRuleService,
  Older!storeVars, OlderProofs!storeVars, Older!serverVars,
  OlderProofs!serverVars, Older!UpdateRuleServiceID,
  OlderProofs!UpdateRuleServiceID, Older!NoId, OlderProofs!NoId,
  Older!RuleExists, OlderProofs!RuleExists, Older!PassEnds,
  OlderProofs!PassEnds, Older!zitiVars, OlderProofs!zitiVars,
  Older!AttachmentTurn, OlderProofs!AttachmentTurn, Older!PassRow,
  OlderProofs!PassRow, Older!PolicyMatches, OlderProofs!PolicyMatches,
  Older!PolicyIdExists, OlderProofs!PolicyIdExists, Older!CreateServicePolicy,
  OlderProofs!CreateServicePolicy, Older!PolicyName, OlderProofs!PolicyName,
  Older!AttachmentServiceRole, OlderProofs!AttachmentServiceRole,
  Older!CreatedPolicyId, OlderProofs!CreatedPolicyId,
  Older!DeleteServicePolicy, OlderProofs!DeleteServicePolicy,
  Older!UpdateAttachmentPolicyID, OlderProofs!UpdateAttachmentPolicyID,
  Older!AttachmentExists, OlderProofs!AttachmentExists, Older!OrphanServices,
  OlderProofs!OrphanServices, Older!DeleteService, OlderProofs!DeleteService,
  Older!ServiceIdExists, OlderProofs!ServiceIdExists, Older!OrphanPolicies,
  OlderProofs!OrphanPolicies, Older!ServiceHasId, OlderProofs!ServiceHasId,
  Older!CreatedServiceId, OlderProofs!CreatedServiceId, Older!CreateService,
  OlderProofs!CreateService, Older!IdlePass, OlderProofs!IdlePass,
  Older!PolicyHasId, OlderProofs!PolicyHasId, Older!PolicyNames,
  OlderProofs!PolicyNames, Older!ManagedServices, OlderProofs!ManagedServices,
  Older!ManagedPolicies, OlderProofs!ManagedPolicies

LEMMA OlderFails == Older!PassFails => OlderProofs!PassFails
BY DEF Older!PassFails, OlderProofs!PassFails, Older!PassAt,
  OlderProofs!PassAt, Older!PassEnds, OlderProofs!PassEnds, Older!storeVars,
  OlderProofs!storeVars, Older!zitiVars, OlderProofs!zitiVars,
  Older!historyVars, OlderProofs!historyVars, Older!eventVars,
  OlderProofs!eventVars, Older!IdlePass, OlderProofs!IdlePass, Older!NoId,
  OlderProofs!NoId

LEMMA OlderEnds == Older!PassEnds => OlderProofs!PassEnds
BY DEF Older!PassEnds, OlderProofs!PassEnds, Older!IdlePass,
  OlderProofs!IdlePass, Older!NoId, OlderProofs!NoId

LEMMA OlderStarts == Older!ReconcilerInit => OlderProofs!ReconcilerInit
BY DEF Older!ReconcilerInit, OlderProofs!ReconcilerInit, Older!Init,
  OlderProofs!Init, Older!IdlePass, OlderProofs!IdlePass, Older!StoreInit,
  OlderProofs!StoreInit, Older!ZitiInit, OlderProofs!ZitiInit,
  Older!ServerInit, OlderProofs!ServerInit, Older!NoId, OlderProofs!NoId,
  Older!PolicyNames, OlderProofs!PolicyNames, Older!Idle, OlderProofs!Idle

LEMMA OlderKinds ==
  (OlderProofs!KindInv <=> KindInv) /\ (OlderProofs!KindInv <=> KindInv)'
BY DEF KindInv, OlderProofs!KindInv, TypeOK, OlderProofs!TypeOK, RowsAgree,
  OlderProofs!RowsAgree, ServicesPublic, OlderProofs!ServicesPublic,
  StoreTypeOK, OlderProofs!StoreTypeOK, ZitiTypeOK, OlderProofs!ZitiTypeOK,
  ServerTypeOK, OlderProofs!ServerTypeOK, RuleExists, OlderProofs!RuleExists,
  OfKind, OlderProofs!OfKind, IsPrivateTarget, OlderProofs!IsPrivateTarget,
  NoId, OlderProofs!NoId, RowSteps, OlderProofs!RowSteps, At, OlderProofs!At,
  Row, OlderProofs!Row, AttachmentRow, OlderProofs!AttachmentRow, Service,
  OlderProofs!Service, PolicyNames, OlderProofs!PolicyNames, Policy,
  OlderProofs!Policy, Call, OlderProofs!Call, CallOK, OlderProofs!CallOK,
  Matchers, OlderProofs!Matchers, PrivateResourceOf,
  OlderProofs!PrivateResourceOf, PublicSteps, OlderProofs!PublicSteps,
  PrivateSteps, OlderProofs!PrivateSteps, ServiceRoles,
  OlderProofs!ServiceRoles, Steps, OlderProofs!Steps, RuleSteps,
  OlderProofs!RuleSteps, TargetSteps, OlderProofs!TargetSteps,
  AttachmentSteps, OlderProofs!AttachmentSteps, Committed,
  OlderProofs!Committed

LEMMA OlderRoles == OlderProofs!RolesFlow => RolesFlow
BY DEF RolesFlow, OlderProofs!RolesFlow, PolicyNames, OlderProofs!PolicyNames,
  Row, OlderProofs!Row, RowOK, OlderProofs!RowOK, AttachmentServiceRole,
  OlderProofs!AttachmentServiceRole, Matchers, OlderProofs!Matchers, OfKind,
  OlderProofs!OfKind, IsPrivateTarget, OlderProofs!IsPrivateTarget, NoId,
  OlderProofs!NoId, PrivateResourceOf, OlderProofs!PrivateResourceOf

LEMMA OlderIds ==
  /\ OlderProofs!ServiceIds = ServiceIds
  /\ \A r \in RuleIds, id \in ServiceIds :
       /\ OlderProofs!Held(r, id) <=> Held(r, id)
       /\ OlderProofs!Held(r, id)' <=> Held(r, id)'
BY DEF Held, OlderProofs!Held, ServiceIds, OlderProofs!ServiceIds, InRow,
  OlderProofs!InRow, ServiceHasId, OlderProofs!ServiceHasId, InCall,
  OlderProofs!InCall, InPolicy, OlderProofs!InPolicy, NoId, OlderProofs!NoId,
  RuleExists, OlderProofs!RuleExists, RowSteps, OlderProofs!RowSteps,
  PublicSteps, OlderProofs!PublicSteps, PrivateSteps, OlderProofs!PrivateSteps

LEMMA NewerAssumes ==
  /\ MaxCalls \in Nat /\ MaxFaults \in Nat
  /\ Requests \subseteq {"create", "update", "delete", "attach", "detach"}
  /\ None \notin NewerProofs!Service \cup NewerProofs!Policy
  /\ None \notin NewerProofs!Row \cup NewerProofs!AttachmentRow
  /\ None \notin RuleIds \cup AttachmentIds \cup Targets
  /\ None \notin Domains \cup Resources
  /\ Domains \cap Resources = {}
  /\ RuleIds \cap AttachmentIds = {}
<1>1. None \notin NewerProofs!Service \cup NewerProofs!Policy
  BY ZitiAssumption DEF Service, Policy, ServiceRoles, NewerProofs!Service,
     NewerProofs!Policy, NewerProofs!ServiceRoles
<1>2. None \notin NewerProofs!Row \cup NewerProofs!AttachmentRow
  BY RowAssumption DEF Row, AttachmentRow, Matchers, NewerProofs!Row,
     NewerProofs!AttachmentRow, NewerProofs!Matchers
<1> QED BY <1>1, <1>2, StoreAssumption, ServerAssumption
        DEF StoreAssumption, ServerAssumption

LEMMA NewerStep == Newer!PassStep => NewerProofs!PassStep
BY DEF Newer!PassStep, NewerProofs!PassStep, Newer!ListAllRules,
  NewerProofs!ListAllRules, Newer!ListAllAttachments,
  NewerProofs!ListAllAttachments, Newer!ReconcileRule,
  NewerProofs!ReconcileRule, Newer!SaveServiceId, NewerProofs!SaveServiceId,
  Newer!UnknownRule, NewerProofs!UnknownRule, Newer!AttachmentInLine,
  NewerProofs!AttachmentInLine, Newer!ProvisionPolicy,
  NewerProofs!ProvisionPolicy, Newer!PolicyDiffers, NewerProofs!PolicyDiffers,
  Newer!ReplacePolicy_Delete, NewerProofs!ReplacePolicy_Delete,
  Newer!ReplacePolicy_Create, NewerProofs!ReplacePolicy_Create,
  Newer!SavePolicyId, NewerProofs!SavePolicyId, Newer!ListServices,
  NewerProofs!ListServices, Newer!DeleteOrphanService,
  NewerProofs!DeleteOrphanService, Newer!ListServicePolicies,
  NewerProofs!ListServicePolicies, Newer!DeleteOrphanServicePolicy,
  NewerProofs!DeleteOrphanServicePolicy, Newer!PassDone, NewerProofs!PassDone,
  Newer!PassAt, NewerProofs!PassAt, Newer!allVars, NewerProofs!allVars,
  Newer!IsPrivateTarget, NewerProofs!IsPrivateTarget,
  Newer!ReconciledServiceId, NewerProofs!ReconciledServiceId,
  Newer!ReconcileRuleService, NewerProofs!ReconcileRuleService,
  Newer!storeVars, NewerProofs!storeVars, Newer!serverVars,
  NewerProofs!serverVars, Newer!UpdateRuleServiceID,
  NewerProofs!UpdateRuleServiceID, Newer!NoId, NewerProofs!NoId,
  Newer!RuleExists, NewerProofs!RuleExists, Newer!PassEnds,
  NewerProofs!PassEnds, Newer!zitiVars, NewerProofs!zitiVars,
  Newer!AttachmentTurn, NewerProofs!AttachmentTurn, Newer!PassRow,
  NewerProofs!PassRow, Newer!PolicyMatches, NewerProofs!PolicyMatches,
  Newer!PolicyIdExists, NewerProofs!PolicyIdExists, Newer!CreateServicePolicy,
  NewerProofs!CreateServicePolicy, Newer!PolicyName, NewerProofs!PolicyName,
  Newer!AttachmentServiceRole, NewerProofs!AttachmentServiceRole,
  Newer!CreatedPolicyId, NewerProofs!CreatedPolicyId,
  Newer!DeleteServicePolicy, NewerProofs!DeleteServicePolicy,
  Newer!UpdateAttachmentPolicyID, NewerProofs!UpdateAttachmentPolicyID,
  Newer!AttachmentExists, NewerProofs!AttachmentExists, Newer!OrphanServices,
  NewerProofs!OrphanServices, Newer!DeleteService, NewerProofs!DeleteService,
  Newer!ServiceIdExists, NewerProofs!ServiceIdExists, Newer!OrphanPolicies,
  NewerProofs!OrphanPolicies, Newer!ServiceHasId, NewerProofs!ServiceHasId,
  Newer!CreatedServiceId, NewerProofs!CreatedServiceId, Newer!CreateService,
  NewerProofs!CreateService, Newer!IdlePass, NewerProofs!IdlePass,
  Newer!PolicyHasId, NewerProofs!PolicyHasId, Newer!PolicyNames,
  NewerProofs!PolicyNames, Newer!ManagedServices, NewerProofs!ManagedServices,
  Newer!ManagedPolicies, NewerProofs!ManagedPolicies

LEMMA NewerFails == Newer!PassFails => NewerProofs!PassFails
BY DEF Newer!PassFails, NewerProofs!PassFails, Newer!PassAt,
  NewerProofs!PassAt, Newer!PassEnds, NewerProofs!PassEnds, Newer!storeVars,
  NewerProofs!storeVars, Newer!zitiVars, NewerProofs!zitiVars,
  Newer!historyVars, NewerProofs!historyVars, Newer!eventVars,
  NewerProofs!eventVars, Newer!IdlePass, NewerProofs!IdlePass, Newer!NoId,
  NewerProofs!NoId

LEMMA NewerEnds == Newer!PassEnds => NewerProofs!PassEnds
BY DEF Newer!PassEnds, NewerProofs!PassEnds, Newer!IdlePass,
  NewerProofs!IdlePass, Newer!NoId, NewerProofs!NoId

LEMMA NewerStarts == Newer!ReconcilerInit => NewerProofs!ReconcilerInit
BY DEF Newer!ReconcilerInit, NewerProofs!ReconcilerInit, Newer!Init,
  NewerProofs!Init, Newer!IdlePass, NewerProofs!IdlePass, Newer!StoreInit,
  NewerProofs!StoreInit, Newer!ZitiInit, NewerProofs!ZitiInit,
  Newer!ServerInit, NewerProofs!ServerInit, Newer!NoId, NewerProofs!NoId,
  Newer!PolicyNames, NewerProofs!PolicyNames, Newer!Idle, NewerProofs!Idle

LEMMA NewerKinds ==
  (NewerProofs!KindInv <=> KindInv) /\ (NewerProofs!KindInv <=> KindInv)'
BY DEF KindInv, NewerProofs!KindInv, TypeOK, NewerProofs!TypeOK, RowsAgree,
  NewerProofs!RowsAgree, ServicesPublic, NewerProofs!ServicesPublic,
  StoreTypeOK, NewerProofs!StoreTypeOK, ZitiTypeOK, NewerProofs!ZitiTypeOK,
  ServerTypeOK, NewerProofs!ServerTypeOK, RuleExists, NewerProofs!RuleExists,
  OfKind, NewerProofs!OfKind, IsPrivateTarget, NewerProofs!IsPrivateTarget,
  NoId, NewerProofs!NoId, RowSteps, NewerProofs!RowSteps, At, NewerProofs!At,
  Row, NewerProofs!Row, AttachmentRow, NewerProofs!AttachmentRow, Service,
  NewerProofs!Service, PolicyNames, NewerProofs!PolicyNames, Policy,
  NewerProofs!Policy, Call, NewerProofs!Call, CallOK, NewerProofs!CallOK,
  Matchers, NewerProofs!Matchers, PrivateResourceOf,
  NewerProofs!PrivateResourceOf, PublicSteps, NewerProofs!PublicSteps,
  PrivateSteps, NewerProofs!PrivateSteps, ServiceRoles,
  NewerProofs!ServiceRoles, Steps, NewerProofs!Steps, RuleSteps,
  NewerProofs!RuleSteps, TargetSteps, NewerProofs!TargetSteps,
  AttachmentSteps, NewerProofs!AttachmentSteps, Committed,
  NewerProofs!Committed

LEMMA NewerRoles == NewerProofs!RolesFlow => RolesFlow
BY DEF RolesFlow, NewerProofs!RolesFlow, PolicyNames, NewerProofs!PolicyNames,
  Row, NewerProofs!Row, RowOK, NewerProofs!RowOK, AttachmentServiceRole,
  NewerProofs!AttachmentServiceRole, Matchers, NewerProofs!Matchers, OfKind,
  NewerProofs!OfKind, IsPrivateTarget, NewerProofs!IsPrivateTarget, NoId,
  NewerProofs!NoId, PrivateResourceOf, NewerProofs!PrivateResourceOf

LEMMA NewerIds ==
  /\ NewerProofs!ServiceIds = ServiceIds
  /\ \A r \in RuleIds, id \in ServiceIds :
       /\ NewerProofs!Held(r, id) <=> Held(r, id)
       /\ NewerProofs!Held(r, id)' <=> Held(r, id)'
BY DEF Held, NewerProofs!Held, ServiceIds, NewerProofs!ServiceIds, InRow,
  NewerProofs!InRow, ServiceHasId, NewerProofs!ServiceHasId, InCall,
  NewerProofs!InCall, InPolicy, NewerProofs!InPolicy, NoId, NewerProofs!NoId,
  RuleExists, NewerProofs!RuleExists, RowSteps, NewerProofs!RowSteps,
  PublicSteps, NewerProofs!PublicSteps, PrivateSteps, NewerProofs!PrivateSteps

LEMMA InitNames == Older!ReconcilerInit => Init
BY DEF Older!ReconcilerInit, Older!Init, Older!IdlePass, Older!StoreInit,
  Older!ZitiInit, Older!ServerInit, Older!NoId, Older!PolicyNames, Older!Idle,
  Init, StoreInit, ZitiInit, ServerInit, PolicyNames, Idle, NoId

(* What the invariant says of one pass, and what the pass holds.             *)
OlderOK == OlderProofs!PassOK /\ OlderProofs!SnapshotAgrees

OlderHas(r, id) == OlderProofs!HeldByPass(r, id)

NewerOK == NewerProofs!PassOK /\ NewerProofs!SnapshotAgrees

NewerHas(r, id) == NewerProofs!HeldByPass(r, id)

LEMMA OlderMoves ==
  ASSUME KindInv, OlderOK, Older!PassStep \/ Older!PassFails
  PROVE  /\ KindInv' /\ OlderOK'
         /\ \A r \in RuleIds : origin[r] # None => origin'[r] = origin[r]
         /\ RolesFlow
         /\ OlderProofs!KnownFlow
<1>1. OlderProofs!Next
  BY OlderStep, OlderFails DEF OlderProofs!Next
<1>2. OlderProofs!SystemKindInv /\ OlderProofs!ReconcilerTypeOK
  BY OlderKinds
     DEF OlderOK, OlderProofs!SystemKindInv, OlderProofs!ReconcilerTypeOK,
     OlderProofs!KindInv
<1>3. OlderProofs!SystemKindInv'
  BY <1>1, <1>2, OlderProofs!NextKind, OlderAssumes
<1>4. KindInv' /\ OlderOK'
  BY <1>3, OlderKinds
     DEF OlderOK, OlderProofs!SystemKindInv, OlderProofs!ReconcilerTypeOK
<1>5. /\ \A r \in RuleIds : origin[r] # None => origin'[r] = origin[r]
      /\ OlderProofs!RolesFlow /\ OlderProofs!KnownFlow
  BY <1>1, <1>2, OlderProofs!SystemOriginStable, OlderProofs!NextRoles,
     OlderProofs!NextIds, OlderAssumes
<1> QED BY <1>4, <1>5, OlderRoles

LEMMA OlderRests ==
  ASSUME OlderOK, UNCHANGED older,
         \A r \in RuleIds : origin[r] # None => origin'[r] = origin[r]
  PROVE  /\ OlderOK'
         /\ \A r \in RuleIds, id \in ServiceIds :
              OlderHas(r, id)' <=> OlderHas(r, id)
<1>1. OlderProofs!PassOK'
  BY DEF OlderOK, OlderProofs!PassOK
<1>2. OlderProofs!SnapshotAgrees'
  BY OlderProofs!SnapshotOriginStable, OlderAssumes DEF OlderOK
<1> QED BY <1>1, <1>2 DEF OlderOK, OlderHas, OlderProofs!HeldByPass

LEMMA NewerMoves ==
  ASSUME KindInv, NewerOK, Newer!PassStep \/ Newer!PassFails
  PROVE  /\ KindInv' /\ NewerOK'
         /\ \A r \in RuleIds : origin[r] # None => origin'[r] = origin[r]
         /\ RolesFlow
         /\ NewerProofs!KnownFlow
<1>1. NewerProofs!Next
  BY NewerStep, NewerFails DEF NewerProofs!Next
<1>2. NewerProofs!SystemKindInv /\ NewerProofs!ReconcilerTypeOK
  BY NewerKinds
     DEF NewerOK, NewerProofs!SystemKindInv, NewerProofs!ReconcilerTypeOK,
     NewerProofs!KindInv
<1>3. NewerProofs!SystemKindInv'
  BY <1>1, <1>2, NewerProofs!NextKind, NewerAssumes
<1>4. KindInv' /\ NewerOK'
  BY <1>3, NewerKinds
     DEF NewerOK, NewerProofs!SystemKindInv, NewerProofs!ReconcilerTypeOK
<1>5. /\ \A r \in RuleIds : origin[r] # None => origin'[r] = origin[r]
      /\ NewerProofs!RolesFlow /\ NewerProofs!KnownFlow
  BY <1>1, <1>2, NewerProofs!SystemOriginStable, NewerProofs!NextRoles,
     NewerProofs!NextIds, NewerAssumes
<1> QED BY <1>4, <1>5, NewerRoles

LEMMA NewerRests ==
  ASSUME NewerOK, UNCHANGED newer,
         \A r \in RuleIds : origin[r] # None => origin'[r] = origin[r]
  PROVE  /\ NewerOK'
         /\ \A r \in RuleIds, id \in ServiceIds :
              NewerHas(r, id)' <=> NewerHas(r, id)
<1>1. NewerProofs!PassOK'
  BY DEF NewerOK, NewerProofs!PassOK
<1>2. NewerProofs!SnapshotAgrees'
  BY NewerProofs!SnapshotOriginStable, NewerAssumes DEF NewerOK
<1> QED BY <1>1, <1>2 DEF NewerOK, NewerHas, NewerProofs!HeldByPass

(* Ids are owned across both passes.                                         *)

PairKnown(r, id) == Held(r, id) \/ OlderHas(r, id) \/ NewerHas(r, id)

PairOwned ==
  \A r \in RuleIds, id \in ServiceIds : PairKnown(r, id) =>
    /\ id <= serviceIds
    /\ \A q \in RuleIds : PairKnown(q, id) => q = r

PairKept ==
  /\ serviceIds' = serviceIds
  /\ \A r \in RuleIds, id \in ServiceIds :
          PairKnown(r, id)' => PairKnown(r, id)

PairIssued(owner) ==
  /\ serviceIds' = serviceIds + 1
  /\ \A r \in RuleIds, id \in ServiceIds : PairKnown(r, id)' =>
       PairKnown(r, id) \/ (r = owner /\ id = serviceIds + 1)

PairFlow == PairKept \/ \E owner \in RuleIds : PairIssued(owner)

LEMMA PairOwnedStep ==
  ASSUME ZitiTypeOK, PairOwned, PairFlow
  PROVE  PairOwned'
<1>1. CASE PairKept
  BY <1>1 DEF PairOwned, PairKept
<1>2. ASSUME NEW owner \in RuleIds, PairIssued(owner)
      PROVE  PairOwned'
  <2>1. serviceIds \in Nat /\ serviceIds' = serviceIds + 1
    BY <1>2 DEF ZitiTypeOK, PairIssued
  <2>2. \A r \in RuleIds : ~PairKnown(r, serviceIds + 1)
    BY <2>1 DEF PairOwned, ServiceIds
  <2>3. SUFFICES ASSUME NEW r \in RuleIds, NEW id \in ServiceIds,
                        PairKnown(r, id)'
                 PROVE  /\ id <= serviceIds'
                        /\ \A q \in RuleIds : PairKnown(q, id)' => q = r
    BY DEF PairOwned
  <2>4. CASE id = serviceIds + 1
    BY <1>2, <2>1, <2>2, <2>3, <2>4 DEF PairIssued
  <2>5. CASE id # serviceIds + 1
    BY <1>2, <2>1, <2>3, <2>5 DEF PairIssued, PairOwned, ServiceIds
  <2> QED BY <2>4, <2>5
<1> QED BY <1>1, <1>2 DEF PairFlow

LEMMA HandlersFlow ==
  ASSUME IdsFlow,
         \A r \in RuleIds, id \in ServiceIds :
           /\ OlderHas(r, id)' => OlderHas(r, id)
           /\ NewerHas(r, id)' => NewerHas(r, id)
  PROVE  PairFlow
<1>1. CASE IdsKept
  <2>1. PairKept
    BY <1>1 DEF IdsKept, PairKept, PairKnown
  <2> QED BY <2>1 DEF PairFlow
<1>2. ASSUME NEW owner \in RuleIds, IdIssued(owner)
      PROVE  PairFlow
  <2>1. PairIssued(owner)
    BY <1>2 DEF IdIssued, PairIssued, PairKnown
  <2> QED BY <2>1 DEF PairFlow
<1> QED BY <1>1, <1>2 DEF IdsFlow

LEMMA OlderFlow ==
  ASSUME OlderProofs!KnownFlow,
         \A r \in RuleIds, id \in ServiceIds :
              NewerHas(r, id)' <=> NewerHas(r, id)
  PROVE  PairFlow
<1>1. \A r \in RuleIds, id \in ServiceIds :
        /\ PairKnown(r, id) <=> OlderProofs!Known(r, id) \/ NewerHas(r, id)
        /\ PairKnown(r, id)' <=> OlderProofs!Known(r, id)' \/ NewerHas(r, id)'
  BY OlderIds DEF PairKnown, OlderProofs!Known, OlderHas, NewerHas
<1>2. CASE /\ serviceIds' = serviceIds
           /\ \A r \in RuleIds, id \in OlderProofs!ServiceIds :
                OlderProofs!Known(r, id)' => OlderProofs!Known(r, id)
  <2>1. PairKept
    BY <1>1, <1>2, OlderIds DEF PairKept
  <2> QED BY <2>1 DEF PairFlow
<1>3. ASSUME serviceIds' = serviceIds + 1, NEW owner \in RuleIds,
             \A r \in RuleIds, id \in OlderProofs!ServiceIds :
                  OlderProofs!Known(r, id)' =>
               OlderProofs!Known(r, id) \/ (r = owner /\ id = serviceIds + 1)
      PROVE  PairFlow
  <2>1. PairIssued(owner)
    BY <1>1, <1>3, OlderIds DEF PairIssued
  <2> QED BY <2>1 DEF PairFlow
<1> QED BY <1>2, <1>3 DEF OlderProofs!KnownFlow

LEMMA NewerFlow ==
  ASSUME NewerProofs!KnownFlow,
         \A r \in RuleIds, id \in ServiceIds :
              OlderHas(r, id)' <=> OlderHas(r, id)
  PROVE  PairFlow
<1>1. \A r \in RuleIds, id \in ServiceIds :
        /\ PairKnown(r, id) <=> NewerProofs!Known(r, id) \/ OlderHas(r, id)
        /\ PairKnown(r, id)' <=> NewerProofs!Known(r, id)' \/ OlderHas(r, id)'
  BY NewerIds DEF PairKnown, NewerProofs!Known, OlderHas, NewerHas
<1>2. CASE /\ serviceIds' = serviceIds
           /\ \A r \in RuleIds, id \in NewerProofs!ServiceIds :
                NewerProofs!Known(r, id)' => NewerProofs!Known(r, id)
  <2>1. PairKept
    BY <1>1, <1>2, NewerIds DEF PairKept
  <2> QED BY <2>1 DEF PairFlow
<1>3. ASSUME serviceIds' = serviceIds + 1, NEW owner \in RuleIds,
             \A r \in RuleIds, id \in NewerProofs!ServiceIds :
                  NewerProofs!Known(r, id)' =>
               NewerProofs!Known(r, id) \/ (r = owner /\ id = serviceIds + 1)
      PROVE  PairFlow
  <2>1. PairIssued(owner)
    BY <1>1, <1>3, NewerIds DEF PairIssued
  <2> QED BY <2>1 DEF PairFlow
<1> QED BY <1>2, <1>3 DEF NewerProofs!KnownFlow

PairInv ==
  KindInv /\ OlderOK /\ NewerOK /\ PairOwned /\ PolicyRoles

(* A step that keeps every part of the invariant.                            *)
LEMMA PairInvStep ==
  ASSUME PairInv, KindInv', OlderOK', NewerOK', PairFlow, RolesFlow,
         \A r \in RuleIds : origin[r] # None => origin'[r] = origin[r]
  PROVE  PairInv'
BY PairOwnedStep, PolicyRolesStep DEF PairInv, KindInv, TypeOK

LEMMA PairHandlers ==
  ASSUME PairInv, Handlers \/ UNCHANGED pairVars
  PROVE  PairInv'
<1>1. [ServerNext]_allVars /\ UNCHANGED <<older, newer>>
  BY DEF Handlers, pairVars, ServerNext
<1>2. KindInv /\ TypeOK
  BY DEF PairInv, KindInv
<1>3. /\ KindInv' /\ RolesFlow /\ IdsFlow
      /\ \A r \in RuleIds : origin[r] # None => origin'[r] = origin[r]
  BY <1>1, <1>2, ServerNextKind, ServerRoles, ServerNextIds, OriginStable
<1>4. /\ OlderOK' /\ NewerOK'
      /\ \A r \in RuleIds, id \in ServiceIds :
           /\ OlderHas(r, id)' <=> OlderHas(r, id)
           /\ NewerHas(r, id)' <=> NewerHas(r, id)
  BY <1>1, <1>3, OlderRests, NewerRests DEF PairInv
<1>5. PairFlow
  BY <1>3, <1>4, HandlersFlow
<1> QED BY <1>3, <1>4, <1>5, PairInvStep

LEMMA PairOlder ==
  ASSUME PairInv, OlderPass
  PROVE  PairInv'
<1>1. (Older!PassStep \/ Older!PassFails) /\ UNCHANGED newer
  BY DEF OlderPass, NewerPass, NewerPassFails
<1>2. /\ KindInv' /\ OlderOK' /\ RolesFlow /\ OlderProofs!KnownFlow
      /\ \A r \in RuleIds : origin[r] # None => origin'[r] = origin[r]
  BY <1>1, OlderMoves DEF PairInv
<1>3. /\ NewerOK'
      /\ \A r \in RuleIds, id \in ServiceIds :
           NewerHas(r, id)' <=> NewerHas(r, id)
  BY <1>1, <1>2, NewerRests DEF PairInv
<1>4. PairFlow
  BY <1>2, <1>3, OlderFlow
<1> QED BY <1>2, <1>3, <1>4, PairInvStep

LEMMA PairNewer ==
  ASSUME PairInv, NewerPass \/ NewerPassFails
  PROVE  PairInv'
<1>1. (Newer!PassStep \/ Newer!PassFails) /\ UNCHANGED older
  BY DEF OlderPass, NewerPass, NewerPassFails
<1>2. /\ KindInv' /\ NewerOK' /\ RolesFlow /\ NewerProofs!KnownFlow
      /\ \A r \in RuleIds : origin[r] # None => origin'[r] = origin[r]
  BY <1>1, NewerMoves DEF PairInv
<1>3. /\ OlderOK'
      /\ \A r \in RuleIds, id \in ServiceIds :
           OlderHas(r, id)' <=> OlderHas(r, id)
  BY <1>1, <1>2, OlderRests DEF PairInv
<1>4. PairFlow
  BY <1>2, <1>3, NewerFlow
<1> QED BY <1>2, <1>3, <1>4, PairInvStep

LEMMA PairStops ==
  ASSUME PairInv, OlderStops
  PROVE  PairInv'
<1>1. UNCHANGED <<allVars, newer>> /\ OlderProofs!PassEnds
  BY OlderEnds DEF OlderStops
<1>2. KindInv' /\ RolesFlow /\ IdsFlow /\ UNCHANGED origin
  BY <1>1, ServerNextKind, ServerRoles, ServerNextIds
     DEF PairInv, KindInv, allVars, serverVars
<1>3. OlderOK' /\ \A r \in RuleIds, id \in ServiceIds : ~OlderHas(r, id)'
  BY <1>1, OlderProofs!IdlePassOK, OlderProofs!IdleSnapshot, OlderAssumes
     DEF OlderOK, OlderHas, OlderProofs!HeldByPass, OlderProofs!PassEnds,
         OlderProofs!IdlePass
<1>4. /\ NewerOK'
      /\ \A r \in RuleIds, id \in ServiceIds :
           NewerHas(r, id)' <=> NewerHas(r, id)
  BY <1>1, <1>2, NewerRests DEF PairInv
<1>5. PairFlow
  BY <1>2, <1>3, <1>4, HandlersFlow
<1> QED BY <1>2, <1>3, <1>4, <1>5, PairInvStep

LEMMA PairStart == PairInit => PairInv
<1> SUFFICES ASSUME PairInit PROVE PairInv
  OBVIOUS
<1>1. OlderProofs!ReconcilerInit /\ NewerProofs!ReconcilerInit
  BY OlderStarts, NewerStarts DEF PairInit
<1>2. OlderProofs!SystemKindInv /\ NewerProofs!SystemKindInv
  BY <1>1, OlderProofs!InitSystemKind, NewerProofs!InitSystemKind,
     OlderAssumes, NewerAssumes
<1>3. KindInv /\ OlderOK /\ NewerOK
  BY <1>2, OlderKinds DEF OlderOK, NewerOK, OlderProofs!SystemKindInv,
     NewerProofs!SystemKindInv, OlderProofs!ReconcilerTypeOK,
     NewerProofs!ReconcilerTypeOK
<1>4. IdsOwned /\ PolicyRoles
  BY InitOwned, InitNames DEF PairInit
<1>5. \A r \in RuleIds, id \in ServiceIds :
           ~OlderHas(r, id) /\ ~NewerHas(r, id)
  BY <1>1 DEF OlderHas, NewerHas, OlderProofs!HeldByPass,
     NewerProofs!HeldByPass, OlderProofs!ReconcilerInit,
     NewerProofs!ReconcilerInit, OlderProofs!IdlePass, NewerProofs!IdlePass
<1> QED BY <1>3, <1>4, <1>5 DEF PairInv, PairOwned, PairKnown, IdsOwned

(* Two processes that overlap, the older of which may stop anywhere, each    *)
(* working from a snapshot of its own and writing ids back from it, give no  *)
(* target a policy for anything but its rule's own destination.              *)
THEOREM PairPolicyKeepsScope == PairSpec => []PolicyScope
<1>1. PairInit => PairInv
  BY PairStart
<1>2. PairInv /\ [PairNext]_pairVars => PairInv'
  BY PairHandlers, PairOlder, PairNewer, PairStops DEF PairNext
<1>3. PairInv => IdsOwned
  BY DEF PairInv, PairOwned, PairKnown, IdsOwned
<1>4. PairInv => PolicyScope
  BY <1>3, OwnedScope DEF PairInv, KindInv, TypeOK
<1> QED BY <1>1, <1>2, <1>4, PTL DEF PairSpec

=============================================================================
