SPECIFICATION Spec
CONSTANTS
  Groups = {g1}
  NoGroup = NoGroup
  none = none
  bad = bad
  Unset = none
  BadResource = bad
  Resources <- MCResources
  Documents <- MCDocuments
  MaxUint = 3
  MaxItems = 2
INVARIANT ExportedNumberIsListed
