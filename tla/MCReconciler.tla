---------------------------- MODULE MCReconciler ---------------------------
(* Instances of Reconciler: passes running beside the handlers.  Callers are *)
(* alike and attachment ids are, so every behaviour is, but for names, one   *)
(* in which the names below come first.                                      *)
EXTENDS CatalogRefinement, TLC

Interchangeable == Permutations(Callers)

(* The first attachment has an id fixed beforehand.                          *)
AttachmentsInOrder ==
  LET first == CHOOSE a \in AttachmentIds : TRUE IN
  minted' # {} => first \in minted'

(* A request goes to a caller fixed beforehand if it is idle: what symmetry  *)
(* would do, which is not for liveness.                                      *)
CallersInOrder ==
  LET first == CHOOSE p \in Callers : TRUE IN
  calls' > calls /\ call[first].at = "idle" => call'[first].at # "idle"

OrderedSpec == ReconcilerInit /\ [][Next /\ AttachmentsInOrder]_vars

(* Bound: calls and failures together, so that a run has either MaxCalls     *)
(* calls or one less for each failure.                                       *)
WithinBudget == calls' + faults' <= MaxCalls

BudgetSpec ==
  /\ ReconcilerInit
  /\ [][Next /\ AttachmentsInOrder /\ CallersInOrder /\ WithinBudget]_vars
  /\ WF_vars(PassStep)
=============================================================================
