\* One rule, public or private, every request of two callers while passes run,
\* and a failure at any step.
CONSTANTS
  None = None
  RuleIds = {r1}
  AttachmentIds = {a1, a2}
  Targets = {t1}
  Domains = {d1}
  Resources = {x1}
  Callers = {p1, p2}
  Requests = {"create", "update", "delete", "attach", "detach"}
  MaxCalls = 4
  MaxFaults = 1
SPECIFICATION OrderedSpec
SYMMETRY Interchangeable
INVARIANTS ReconcilerTypeOK SnapshotAgrees SweepSparesKnownRules
PROPERTIES ImplementsCatalog
