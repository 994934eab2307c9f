SPECIFICATION Spec
CONSTANTS
  Request = {r1, r2}
  NoRequest = NoRequest
  MaxCalls = 3
SYMMETRY Symmetry
INVARIANTS CopiesAgree
PROPERTIES NeverRestored KeepsRegisters
