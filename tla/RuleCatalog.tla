----------------------------- MODULE RuleCatalog ---------------------------
(* What the service promises its clients: a catalog of rules and of links    *)
(* between rules and targets, changed one atomic step at a time.             *)
(*                                                                           *)
(* An id is used once: what was removed, or whose creation failed, never     *)
(* appears (again).  A rule keeps its destination kind and, if private, its  *)
(* resource.  A link is to a rule that is there, and there is at most one of *)
(* a rule and a target.                                                      *)
EXTENDS FiniteSets

CONSTANTS RuleIds, AttachmentIds, Targets, Domains, Resources, None

VARIABLES catalog,   \* the matcher of each rule
          links,     \* the rule and target of each attachment
          gone,      \* rule ids removed or never to be stored
          goneLinks  \* the same of attachment ids

catalogVars == <<catalog, links, gone, goneLinks>>

Link == [rule : RuleIds, target : Targets]

CatalogInit ==
  /\ catalog = [r \in RuleIds |-> None]
  /\ links = [a \in AttachmentIds |-> None]
  /\ gone = {}
  /\ goneLinks = {}

Linked(r, t) == \E a \in AttachmentIds : links[a] = [rule |-> r, target |-> t]

SameDestination(m, n) == m = n \/ {m, n} \subseteq Domains

AddRule(r, m) ==
  /\ catalog[r] = None /\ r \notin gone
  /\ catalog' = [catalog EXCEPT ![r] = m]
  /\ UNCHANGED <<links, gone, goneLinks>>

ChangeRule(r, m) ==
  /\ catalog[r] # None
  /\ SameDestination(catalog[r], m)
  /\ catalog' = [catalog EXCEPT ![r] = m]
  /\ UNCHANGED <<links, gone, goneLinks>>

RemoveRule(r) ==
  /\ catalog[r] # None
  /\ ~\E t \in Targets : Linked(r, t)
  /\ catalog' = [catalog EXCEPT ![r] = None]
  /\ gone' = gone \cup {r}
  /\ UNCHANGED <<links, goneLinks>>

AddLink(a, link) ==
  /\ links[a] = None /\ a \notin goneLinks
  /\ catalog[link.rule] # None
  /\ ~Linked(link.rule, link.target)
  /\ links' = [links EXCEPT ![a] = link]
  /\ UNCHANGED <<catalog, gone, goneLinks>>

RemoveLink(a) ==
  /\ links[a] # None
  /\ links' = [links EXCEPT ![a] = None]
  /\ goneLinks' = goneLinks \cup {a}
  /\ UNCHANGED <<catalog, gone>>

(* Creations that fail, one or, in a crash, several at once.                 *)
GiveUp(rs, as) ==
  /\ \A r \in rs : catalog[r] = None
  /\ \A a \in as : links[a] = None
  /\ gone' = gone \cup rs
  /\ goneLinks' = goneLinks \cup as
  /\ UNCHANGED <<catalog, links>>

CatalogNext ==
  \/ \E r \in RuleIds, m \in Domains \cup Resources :
       AddRule(r, m) \/ ChangeRule(r, m)
  \/ \E r \in RuleIds : RemoveRule(r)
  \/ \E a \in AttachmentIds, link \in Link : AddLink(a, link)
  \/ \E a \in AttachmentIds : RemoveLink(a)
  \/ \E rs \in SUBSET RuleIds, as \in SUBSET AttachmentIds : GiveUp(rs, as)

CatalogSpec == CatalogInit /\ [][CatalogNext]_catalogVars

(* What the steps add up to: every link leads to a rule that is there, no    *)
(* two links are the same, and what is gone is not there.                    *)
CatalogOK ==
  /\ catalog \in [RuleIds -> Domains \cup Resources \cup {None}]
  /\ links \in [AttachmentIds -> Link \cup {None}]
  /\ gone \subseteq RuleIds /\ goneLinks \subseteq AttachmentIds
  /\ \A a \in AttachmentIds : links[a] # None =>
       /\ catalog[links[a].rule] # None
       /\ \A b \in AttachmentIds \ {a} : links[b] # links[a]
  /\ \A r \in gone : catalog[r] = None
  /\ \A a \in goneLinks : links[a] = None

=============================================================================
