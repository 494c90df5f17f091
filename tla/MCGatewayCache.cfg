\* One rule, attached, changed, detached and deleted by three callers, and one
\* failure.
CONSTANTS
  None = None
  RuleIds = {r1}
  AttachmentIds = {a1, a2}
  Targets = {t1}
  Domains = {d1, d2}
  Resources = {x1}
  Callers = {p1, p2, p3}
  Requests = {"create", "update", "delete", "attach", "detach"}
  MaxCalls = 4
  MaxFaults = 1
SPECIFICATION CacheSpec
SYMMETRY Interchangeable
INVARIANTS CacheTypeOK StaleOnlyUntold Announced
PROPERTIES LiveRuleKeepsService
CHECK_DEADLOCK FALSE
