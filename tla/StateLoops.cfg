SPECIFICATION LoopSpec
CONSTANTS
  Key <- MCKey
  Prefix <- MCPrefix
  Limit <- MCLimit
  Value <- MCValue
  NoValue = 0
  MaxSeq = 4
  Worker = {w1, w2}
  Counter = 2
  Scanner = {s1}
INVARIANTS ScanMissesNothingLasting CountedOnce
PROPERTIES ScanEnds EveryoneIsCounted
CHECK_DEADLOCK FALSE
