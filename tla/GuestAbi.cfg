SPECIFICATION GuestSpec
CONSTANTS
  Hook <- MCHook
  Handler = {f1, f2}
  NilHandler = NilHandler
  Manifest <- MCManifest
  Addr = {p1, p2, p3, p4, p5}
  NullPtr = NullPtr
  Frame <- MCFrame
  MaxCalls = 2
SYMMETRY MCSymmetry
INVARIANTS ClaimsAreHandlers BuffersAccounted FailuresNeverPass AnswersAreSaid
CHECK_DEADLOCK FALSE
