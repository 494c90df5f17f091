-------------------------- MODULE ZitiManagement ---------------------------
(* The OpenZiti controller, reached through the Ziti Management client.      *)
(* External: modelled from how provisioning.go and reconciler.go call it.    *)
(*                                                                           *)
(* A service and a dial policy have an id the controller issues and a name   *)
(* the caller chooses; names are unique.  egressServiceName is an injection  *)
(* of the rule id and egressDialPolicyName of the rule and the target, so    *)
(* both tables are indexed by what the name is computed from.  An id is      *)
(* never issued twice.  What never changes (type, identity roles, role       *)
(* attributes, the constant host config) is left out.                        *)
EXTENDS EgressStore

VARIABLES services,    \* by egressServiceName: id and intercept.v1 config
          policies,    \* by egressDialPolicyName: id and service role
          serviceIds,  \* service ids issued so far
          policyIds    \* policy ids issued so far

zitiVars == <<services, policies, serviceIds, policyIds>>

PolicyNames == RuleIds \X Targets

Service == [id : Nat, intercept : Domains]

(* "@<service id>" or "#private-resource-<id>".                              *)
ServiceRoles == ({"@"} \X Nat) \cup ({"#"} \X Resources)

Policy == [id : Nat, role : ServiceRoles]

ASSUME ZitiAssumption == None \notin Service \cup Policy

ZitiTypeOK ==
  /\ services \in [RuleIds -> Service \cup {None}]
  /\ policies \in [PolicyNames -> Policy \cup {None}]
  /\ serviceIds \in Nat
  /\ policyIds \in Nat

ZitiInit ==
  /\ services = [r \in RuleIds |-> None]
  /\ policies = [n \in PolicyNames |-> None]
  /\ serviceIds = 0
  /\ policyIds = 0

---------------------------------------------------------------------------
(* What the client can ask.                                                  *)

ServiceHasId(r, id) == services[r] # None /\ services[r].id = id

ServiceIdExists(id) == \E r \in RuleIds : ServiceHasId(r, id)

PolicyHasId(n, id) == policies[n] # None /\ policies[n].id = id

PolicyIdExists(id) == \E n \in PolicyNames : PolicyHasId(n, id)

---------------------------------------------------------------------------
(* Requests, each with the successful response; its failures are the         *)
(* callers' business.                                                        *)

(* CreateService with ReturnExisting: a service of that name is returned as  *)
(* it is, whatever its configuration.                                        *)
CreateService(r, intercept) ==
  /\ IF services[r] = None
     THEN /\ services' = [services EXCEPT
                ![r] = [id |-> serviceIds + 1, intercept |-> intercept]]
          /\ serviceIds' = serviceIds + 1
     ELSE UNCHANGED <<services, serviceIds>>
  /\ UNCHANGED <<policies, policyIds>>

(* The id CreateService responds with.                                       *)
CreatedServiceId(r) == services'[r].id

(* UpdateService by id replaces the configs and nothing else.                *)
UpdateService(id, intercept) ==
  /\ ServiceIdExists(id)
  /\ services' = [r \in RuleIds |->
        IF ServiceHasId(r, id)
        THEN [id |-> id, intercept |-> intercept] ELSE services[r]]
  /\ UNCHANGED <<policies, serviceIds, policyIds>>

(* DeleteService by id; of an id that is gone it changes nothing.            *)
DeleteService(id) ==
  /\ services' = [r \in RuleIds |->
        IF ServiceHasId(r, id) THEN None ELSE services[r]]
  /\ UNCHANGED <<policies, serviceIds, policyIds>>

(* CreateServicePolicy with ReturnExisting.                                  *)
CreateServicePolicy(n, role) ==
  /\ IF policies[n] = None
     THEN /\ policies' = [policies EXCEPT
                ![n] = [id |-> policyIds + 1, role |-> role]]
          /\ policyIds' = policyIds + 1
     ELSE UNCHANGED <<policies, policyIds>>
  /\ UNCHANGED <<services, serviceIds>>

(* The id CreateServicePolicy responds with.                                 *)
CreatedPolicyId(n) == policies'[n].id

(* DeleteServicePolicy by id; of an id that is gone it changes nothing.      *)
DeleteServicePolicy(id) ==
  /\ policies' = [n \in PolicyNames |->
        IF PolicyHasId(n, id) THEN None ELSE policies[n]]
  /\ UNCHANGED <<services, serviceIds, policyIds>>

=============================================================================
