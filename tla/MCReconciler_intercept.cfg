\* Two updates of one rule, no failure: the service keeps the wrong intercept.
CONSTANTS
  None = None
  RuleIds = {r1}
  AttachmentIds = {a1}
  Targets = {t1}
  Domains = {d1, d2, d3}
  Resources = {}
  Callers = {p1, p2}
  Requests = {"create", "update"}
  MaxCalls = 3
  MaxFaults = 0
SPECIFICATION CompletingSpec
PROPERTIES InterceptConverges
