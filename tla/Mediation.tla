----------------------------- MODULE Mediation -----------------------------
(* The mediation switch of private resources.  Networks routes a private     *)
(* resource through the egress gateway while some rule names it; the         *)
(* handlers of this service set the switch after a create and a delete       *)
(* (syncPrivateResourceMediation), and the Networks service sets it again on *)
(* every pass of its own from ListMediatedPrivateResources.                  *)
(*                                                                           *)
(* The Networks pass is external: modelled from service.go's RPC for it and  *)
(* the comment on syncPrivateResourceMediation.                              *)
EXTENDS EgressServer

VARIABLE network  \* the Networks pass: its step and the list it was given

mediationVars == <<allVars, network>>

NetworkPass == [at : {"idle", "apply"}, listed : SUBSET Resources]

NetworkIdle == [at |-> "idle", listed |-> {}]

MediationInit == Init /\ network = NetworkIdle

(* Mutation: the query keeps the rules that name no resource.                *)
ListMediatedPrivateResources_All ==
  {rules[r].matcher : r \in {q \in RuleIds : RuleExists(q)}}

(* Mutation: only rules that are attached count.                             *)
ListMediatedPrivateResources_Attached ==
  {x \in Resources : \E r \in RuleIds : /\ RuleExists(r)
                                        /\ rules[r].matcher = x
                                        /\ HasAttachments(r)}

(* The distinct resources stored matchers name.                              *)
ListMediatedPrivateResources == {x \in Resources : Referenced(x)}

NetworkPass_List ==
  /\ network.at = "idle"
  /\ network' = [at |-> "apply", listed |-> ListMediatedPrivateResources]
  /\ UNCHANGED allVars

NetworkPass_Apply ==
  /\ network.at = "apply"
  /\ mediated' = network.listed
  /\ network' = NetworkIdle
  /\ UNCHANGED <<storeVars, zitiVars, call, budgetVars, historyVars,
                 eventVars>>

NetworkStep == NetworkPass_List \/ NetworkPass_Apply

MediationNext == (ServerNext /\ UNCHANGED network) \/ NetworkStep

MediationSpec == MediationInit /\ [][MediationNext]_mediationVars

(* Networks runs pass after pass; the handlers may hang.                     *)
MediationFairSpec == MediationSpec /\ WF_mediationVars(NetworkStep)

---------------------------------------------------------------------------

(* The switch settles on what the rules say.  A handler counts the rules in  *)
(* one request and sets the switch in another, so two handlers, or a handler *)
(* and a Networks pass, can leave it wrong, and a failed or abandoned sync   *)
(* leaves it as it was; it is the Networks pass that puts it right           *)
(* (private_targets.go, "a failed call heals without operator action").      *)
MediationConverges == <>[](mediated = {x \in Resources : Referenced(x)})

MediationTypeOK == TypeOK /\ network \in NetworkPass

=============================================================================
