\* Requests of every form; two writers of one rule, one secret and one
\* resource that go.
CONSTANTS
  None = None
  Refused = Refused
  Lower <- MCLower
  ParseIP <- MCParseIP
  ParseCIDR <- MCParseCIDR
  Upper <- MCUpper
  FoldName <- MCFoldName
  Delimited = {"a:b"}
  SecretIds = {"s1"}
  ResourceIds = {"x1"}
  AddressBits = 4
  CarrierGradeNAT <- MCCarrierGradeNAT
  Inputs <- MCInputs
  Hosts <- MCHosts
  RuleIds = {"r1"}
  Writers = {w1, w2}
  NewRules <- MCNewRules
  Changes <- MCChanges
  MaxWrites = 4
SPECIFICATION RequestsAndContentSpec
CHECK_DEADLOCK FALSE
INVARIANTS
  ValidationTypeOK Stable ReservedOnlyByWildcard CheckedIsCounted
  ContentTypeOK DanglingIsRaced TLSNeedsHttps
PROPERTIES UpdateKeepsOtherParts
