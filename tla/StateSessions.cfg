SPECIFICATION SessionSpec
CONSTANTS
  Key <- MCKey
  Prefix <- MCNone
  Limit <- MCNone
  Value = {empty, text}
  NoValue = NoValue
  MaxSeq = 3
  Session = {s1, s2}
VIEW View
INVARIANTS VersionsAreDistinct SameVersionSameValue
PROPERTIES NoLostUpdate
