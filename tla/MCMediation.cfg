\* Two rules, public or on the same or different resources: creates, updates,
\* deletes and attaches racing, one failure.
CONSTANTS
  None = None
  RuleIds = {r1, r2}
  AttachmentIds = {a1}
  Targets = {t1}
  Domains = {d1}
  Resources = {x1, x2}
  Callers = {p1, p2}
  Requests = {"create", "update", "delete", "attach"}
  MaxCalls = 4
  MaxFaults = 1
SPECIFICATION MediationFairSpec
INVARIANTS MediationTypeOK RowsAgree ServiceIdIffPublic PolicyScope
PROPERTIES TargetImmutable NoResurrection MediationConverges
