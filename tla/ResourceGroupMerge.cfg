SPECIFICATION Spec
CONSTANTS
  Groups = {g1, g2}
  NoGroup = NoGroup
  none = none
  bad = bad
  Unset = none
  BadResource = bad
  Resources <- MergedResources
  Documents = {}
  MaxUint = 2
  MaxItems = 2
SYMMETRY GroupSymmetry
VIEW WithoutResult
INVARIANTS
  CountExact
  TotalsExact
