SPECIFICATION Spec
CONSTANTS
  MaxEdits = 2
  MaxMessages = 41
  Edited <- MCEdited
  NewFields <- MCNewFields
  SomeDescriptors <- MCDescriptors
  SomePolicies <- MCPolicies
  SomeRefs <- MCRefs
INVARIANTS
  NoFreeChange
  TokensStayCovered
CHECK_DEADLOCK FALSE
