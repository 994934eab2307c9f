SPECIFICATION Spec
CONSTANTS
  t1 = t1
  t2 = t2
  c1 = c1
  c2 = c2
  k1 = k1
  k2 = k2
  p = p
  s1 = s1
  None = None
  Text = {t1, t2}
  Call = {c1, c2}
  Marker = {k1, k2}
  Payload = {p}
  Token = {s1}
  Requests <- MCRequests
  MaxBlocks = 2
VIEW NoReply
INVARIANTS TokensHonest TokensGoneForCause StaysReplaceable PrefixEndsAtLastMarker FingerprintTellsApart
PROPERTIES GuardedResult MarkerSwapKeepsRest
CHECK_DEADLOCK FALSE
