SPECIFICATION FairSpec
CONSTANTS
  Properties <- FewProperties
  Mappings <- FewMappings
  Offset = 1
  Nil = Nil
  NoValue = NoValue
  Words = 4
  Significands = 4
  Ulps = {1, 2, 4, 8}
  MaxInstance = 2
  ObjectTypes = 16
  MaxObjectType = 14
  Workers = {w}
  Getters = {g}
  Deltas <- OneDelta
  Numbers = {2}
  MaxFaults = 1
  MaxChanges = 1
INVARIANTS DriverTypeOK
PROPERTIES ReportsAreFresh CloudConverges
