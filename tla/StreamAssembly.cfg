SPECIFICATION Spec
CONSTANTS
  Index <- MCIndex
  a = a
  b = b
  Fragment = {a, b}
  Replacement <- MCReplacement
  MaxPayload = 2
  OwnText = a
INVARIANTS OutputWellFormed NoPartialCall SignatureBindsCall JournalIsFrame
PROPERTIES DeliversWhole
CHECK_DEADLOCK FALSE
