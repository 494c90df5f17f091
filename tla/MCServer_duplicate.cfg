\* Two attaches of one rule to one target, no failure: the loser of the race
\* deletes the winner's policy.
CONSTANTS
  None = None
  RuleIds = {r1}
  AttachmentIds = {a1, a2}
  Targets = {t1}
  Domains = {d1}
  Resources = {}
  Callers = {p1, p2}
  Requests = {"create", "attach"}
  MaxCalls = 3
  MaxFaults = 0
SPECIFICATION ServerSpec
SYMMETRY Interchangeable
CHECK_DEADLOCK FALSE
PROPERTIES AttachKeepsPolicies
