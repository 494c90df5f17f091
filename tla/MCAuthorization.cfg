\* One identity with any relations, two requests at once, one change of them.
CONSTANTS
  None = None
  Identities = {"ann"}
  Organizations = {"acme", "beta"}
  Agents = {"agent"}
  Environments = {"env"}
  HomeOf <- MCHomeOf
  RuleIds = {"r1"}
  AttachmentIds = {"a1"}
  Callers = {c1, c2}
  MaxCalls = 2
  MaxChanges = 1
SPECIFICATION AuthSpec
SYMMETRY Interchangeable
INVARIANTS AttachedAtHome ListingsAreHeld
PROPERTIES ChangesAreHeld
CHECK_DEADLOCK FALSE
