SPECIFICATION ConditionalSpec
CONSTANTS
  Key <- MCKey
  Prefix <- MCPrefix
  Limit <- MCLimit
  Value = {empty, text}
  NoValue = NoValue
  MaxSeq = 4
INVARIANTS TypeOK MapsAgree
PROPERTIES KeepsPromise
