\* One agent and one environment; four writes, one failure.
CONSTANTS
  None = None
  PublicRules = {"u1"}
  PrivateRules = {"v1"}
  ResourceOf <- MCResourceOf
  ResourceIds = {"x1"}
  InterceptOf <- MCInterceptOf
  Matchers <- MCMatchers
  Agents = {"agent"}
  Environments = {"env"}
  Callers = {c1}
  MaxWrites = 4
  MaxFaults = 1
SPECIFICATION CollisionsFairSpec
INVARIANTS CalmPassIsExact
PROPERTIES DetectionHolds AttachAddsNoAmbiguity
