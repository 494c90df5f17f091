-------------------------- MODULE CatalogRefinement ------------------------
(* The handlers and the reconciler implement RuleCatalog: of everything that *)
(* interleaves, fails and is left behind, a client sees rules and links that *)
(* come, change and go one at a time.                                        *)
EXTENDS Reconciler

ASSUME LinkAssumption == None \notin [rule : RuleIds, target : Targets]

(* What a client reads of a row.                                             *)
Contents == [r \in RuleIds |-> IF RuleExists(r) THEN rules[r].matcher ELSE None]

Links ==
  [a \in AttachmentIds |->
     IF AttachmentExists(a)
     THEN [rule |-> attachments[a].rule, target |-> attachments[a].target]
     ELSE None]

(* An id is gone once it was minted, is not stored and no call is about to   *)
(* store it.                                                                 *)
BeingAttached(a) == \E p \in Callers : /\ At(p, "attach.insert")
                                       /\ call[p].attachment = a

GoneRules ==
  {r \in RuleIds : origin[r] # None /\ ~RuleExists(r) /\ ~BeingCreated(r)}

GoneLinks ==
  {a \in minted : ~AttachmentExists(a) /\ ~BeingAttached(a)}

Catalog == INSTANCE RuleCatalog WITH
  catalog <- Contents, links <- Links, gone <- GoneRules,
  goneLinks <- GoneLinks

(* Every step of a handler, of the reconciler, of a failure or a crash is a  *)
(* step of the catalog or changes nothing a client sees: no interleaving     *)
(* revives a deleted rule or attachment, repoints a rule, links a target     *)
(* twice or leaves a link to a rule that is gone (service.go's five RPCs     *)
(* over the constraints of migrations/0001_init.sql).                        *)
ImplementsCatalog == Catalog!CatalogSpec

=============================================================================
