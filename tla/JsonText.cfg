SPECIFICATION Spec
CONSTANTS
  MaxDepth = 2
  MaxSlips = 1
  Documents <- MCDocuments
  Tokens <- MCTokens
  Known <- MCKnown
INVARIANTS
  ReadersAgree
  OneMeaning
CHECK_DEADLOCK FALSE
