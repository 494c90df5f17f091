\* One public rule and its attachment, made and attached while both passes run,
\* and a failure at any step.
CONSTANTS
  None = None
  RuleIds = {r1}
  AttachmentIds = {a1}
  Targets = {t1}
  Domains = {d1}
  Resources = {}
  Callers = {p1}
  Requests = {"create", "attach"}
  MaxCalls = 2
  MaxFaults = 1
SPECIFICATION PairSpec
PROPERTIES PairConverges
