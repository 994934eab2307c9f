SPECIFICATION FairSpec
CONSTANTS
  h1 = h1
  h2 = h2
  r1 = r1
  r2 = r2
  Thread = {t1, t2}
  Worker = {w1}
  Harness = {h1, h2}
  Request = {r1, r2}
  HarnessOf <- MCHarnessOf
  None = None
  Loose = {r1}
INVARIANTS MetaStaysInScope CallsStayInScope NothingLeftBehind
PROPERTIES DispatchEnds
