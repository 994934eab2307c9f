SPECIFICATION Spec
CONSTANTS
  Key <- MCKey
  Prefix <- MCPrefix
  Limit <- MCLimit
  Value = {empty, text}
  NoValue = NoValue
  MaxSeq = 4
PROPERTIES AbsenceIsNotApplied
