----------------------------- MODULE OrphanSweep ---------------------------
(* deleteOrphanServices and deleteOrphanServicePolicies of reconciler.go     *)
(* page by page: a sweep deletes what it finds while it goes through the     *)
(* controller's list, beside handlers that provision and deprovision.        *)
(* Reconciler has the same sweeps with a page that holds everything.         *)
(*                                                                           *)
(* External: the controller's list, in the order of the names, and what a    *)
(* page token stands for, an offset or the name to go on after; the handlers *)
(* of EgressServer are here only what they do to one name and its row.       *)
EXTENDS Integers, FiniteSets, FiniteSetsExt

CONSTANTS Names,     \* names with the egress-rule- prefix, in their order
          Undialed,  \* of them those without the -dial suffix of a policy
          PageSize,  \* reconciliationPageSize
          MaxWrites, \* bound: steps of handlers
          MaxFaults  \* bound: failed requests of sweeps

ASSUME SweepAssumption ==
  /\ Names \subseteq Nat \ {0} /\ IsFiniteSet(Names) /\ Undialed \subseteq Names
  /\ PageSize \in Nat \ {0}
  /\ MaxWrites \in Nat /\ MaxFaults \in Nat

VARIABLES kind,    \* what is swept: "service" or "policy"
          paging,  \* what a page token stands for: "offset" or "name"
          stored,  \* names with a row
          held,    \* id the controller holds under each name, or NoId
          ids,     \* ids issued so far
          sweep, writes, faults

fixed == <<kind, paging>>
sweepVars == <<fixed, stored, held, ids, sweep, writes, faults>>

NoId == 0
FirstPage == 0   \* the empty page token

(* Besides what the code keeps: the ids issued when the page in hand was     *)
(* listed, the orphans there were at the snapshot, and whether nothing was   *)
(* written and nothing failed since.                                         *)
Idle == [at |-> "idle", managed |-> {}, token |-> FirstPage, page |-> {},
         next |-> FirstPage, issued |-> 0, orphans |-> 0, quiet |-> FALSE]

Held == {n \in Names : held[n] # NoId}

Unswept == IF kind = "policy" THEN Undialed ELSE {}

Orphans == Held \ (stored \cup Unswept)

(* Any mixture of managed names, names whose service or policy is gone, and  *)
(* orphans: crashed calls and earlier passes leave them all.                 *)
SweepInit ==
  /\ kind \in {"service", "policy"}
  /\ paging \in {"offset", "name"}
  /\ stored \in SUBSET (Names \ Unswept)
  /\ \E H \in SUBSET Names : held = [n \in Names |-> IF n \in H THEN n ELSE NoId]
  /\ ids = Max(Names \cup {NoId})
  /\ sweep = Idle
  /\ writes = 0 /\ faults = 0

---------------------------------------------------------------------------
(* The list request.                                                         *)

After(token) ==
  IF paging = "offset"
  THEN {n \in Held : Cardinality({m \in Held : m < n}) >= token}
  ELSE {n \in Held : n > token}

(* The first names of a set, as many as a page holds.                        *)
FirstOf(S) == {n \in S : Cardinality({m \in S : m < n}) < PageSize}

Page(token) == FirstOf(After(token))

(* Mutation: the last page is the first.                                     *)
NextToken_Never(token) == FirstPage

NextToken(token) ==
  IF After(token) = Page(token) THEN FirstPage
  ELSE IF paging = "offset" THEN token + PageSize ELSE Max(Page(token))

---------------------------------------------------------------------------
(* The sweep.                                                                *)

SweepMoves(next) ==
  /\ sweep' = next
  /\ UNCHANGED <<fixed, stored, ids, writes>>

(* ListAllRules or ListAllAttachments: managedNames.                         *)
Snapshot ==
  /\ sweep.at = "idle"
  /\ SweepMoves([Idle EXCEPT !.at = "list", !.managed = stored,
                             !.orphans = Cardinality(Orphans), !.quiet = TRUE])
  /\ UNCHANGED <<held, faults>>

ListNextPage ==
  /\ sweep.at = "list"
  /\ SweepMoves([sweep EXCEPT
       !.at = "page", !.next = NextToken(sweep.token), !.issued = ids,
       !.page = {[name |-> n, id |-> held[n]] : n \in Page(sweep.token)}])
  /\ UNCHANGED <<held, faults>>

Skipped(entry) == entry.name \in sweep.managed \cup Unswept

SkipEntry ==
  /\ sweep.at = "page"
  /\ \E entry \in sweep.page :
       /\ Skipped(entry)
       /\ SweepMoves([sweep EXCEPT !.page = @ \ {entry}])
  /\ UNCHANGED <<held, faults>>

(* Mutation: deletes what has the name now.                                  *)
DeleteEntry_ByName ==
  /\ sweep.at = "page"
  /\ \E entry \in sweep.page :
       /\ ~Skipped(entry)
       /\ held' = [held EXCEPT ![entry.name] = NoId]
       /\ SweepMoves([sweep EXCEPT !.page = @ \ {entry}])
  /\ UNCHANGED faults

(* Deletes by id; of an id that is gone the controller may say NotFound,     *)
(* which ends the pass.                                                      *)
DeleteEntry ==
  /\ sweep.at = "page"
  /\ \E entry \in sweep.page :
       /\ ~Skipped(entry)
       /\ held' = [n \in Names |-> IF held[n] = entry.id THEN NoId ELSE held[n]]
       /\ \/ SweepMoves([sweep EXCEPT !.page = @ \ {entry}])
          \/ held' = held /\ SweepMoves(Idle)
  /\ UNCHANGED faults

(* Mutation: the next request carries the old page token.                    *)
PageDone_SamePage ==
  /\ sweep.at = "page" /\ sweep.page = {}
  /\ SweepMoves(IF sweep.next = FirstPage THEN Idle
                ELSE [sweep EXCEPT !.at = "list"])
  /\ UNCHANGED <<held, faults>>

PageDone ==
  /\ sweep.at = "page" /\ sweep.page = {}
  /\ SweepMoves(IF sweep.next = FirstPage THEN Idle
                ELSE [sweep EXCEPT !.at = "list", !.token = sweep.next])
  /\ UNCHANGED <<held, faults>>

(* A request fails, before or after it took effect.                          *)
SweepFails ==
  /\ sweep.at # "idle"
  /\ faults < MaxFaults
  /\ faults' = faults + 1
  /\ \/ UNCHANGED held
     \/ \E entry \in sweep.page :
          ~Skipped(entry) /\ held[entry.name] = entry.id
          /\ held' = [held EXCEPT ![entry.name] = NoId]
  /\ SweepMoves(Idle)

---------------------------------------------------------------------------
(* Handlers, and the passes before the sweep.                                *)

HandlerWrites ==
  /\ writes < MaxWrites
  /\ writes' = writes + 1
  /\ sweep' = [sweep EXCEPT !.quiet = FALSE]
  /\ UNCHANGED <<fixed, faults>>

(* provisionRuleService, provisionAttachmentPolicy: a new name, or one whose *)
(* service or policy is gone.                                                *)
Provision ==
  /\ \E n \in Names \ Unswept :
       /\ held[n] = NoId
       /\ held' = [held EXCEPT ![n] = ids + 1]
  /\ ids' = ids + 1
  /\ UNCHANGED stored
  /\ HandlerWrites

(* CreateRule, CreateAttachment.                                             *)
StoreRow ==
  /\ \E n \in Names \ Unswept : n \notin stored /\ stored' = stored \cup {n}
  /\ UNCHANGED <<held, ids>>
  /\ HandlerWrites

(* DeleteRule, DeleteAttachment.                                             *)
RemoveRow ==
  /\ \E n \in stored : stored' = stored \ {n}
  /\ UNCHANGED <<held, ids>>
  /\ HandlerWrites

(* deleteRuleService, deleteAttachmentPolicy of a deleted row's id.          *)
Deprovision ==
  /\ \E n \in Orphans : held' = [held EXCEPT ![n] = NoId]
  /\ UNCHANGED <<stored, ids>>
  /\ HandlerWrites

---------------------------------------------------------------------------

SweepStep == Snapshot \/ ListNextPage \/ SkipEntry \/ DeleteEntry \/ PageDone

SweepNext ==
  \/ SweepStep \/ SweepFails
  \/ Provision \/ StoreRow \/ RemoveRow \/ Deprovision

(* The ticker starts pass after pass; handlers may stop anywhere.            *)
SweepSpec ==
  SweepInit /\ [][SweepNext]_sweepVars /\ WF_sweepVars(SweepStep)

---------------------------------------------------------------------------
(* Properties.                                                               *)

(* A sweep takes nothing that had a row at its snapshot and nothing that was *)
(* provisioned after its page was listed, under whichever name: a handler    *)
(* that makes a swept policy anew beside the sweep keeps it.                 *)
SweepTakesListedOrphans ==
  [][\A n \in Names :
       /\ sweep.at = "page" /\ writes' = writes
       /\ held[n] # NoId /\ held'[n] = NoId
       => n \notin sweep.managed /\ held[n] <= sweep.issued]_sweepVars

(* What a sweep that nothing disturbs has done when it ends: with tokens     *)
(* that name where to go on it has deleted every orphan; with offsets, which *)
(* its own deletions shift, it has deleted some.                             *)
QuietSweepClears ==
  /\ sweep.at = "page" /\ sweep.page = {} /\ sweep.next = FirstPage
  /\ sweep.quiet
  => \/ Orphans = {}
     \/ paging = "offset" /\ Cardinality(Orphans) < sweep.orphans

(* Whatever a page token stands for, and however many entries one sweep has  *)
(* skipped, sweeps delete every orphan once handlers and failures cease.     *)
OrphansGo == <>[](Orphans = {})

=============================================================================
