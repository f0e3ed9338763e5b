SPECIFICATION RadSecSpec
CONSTANTS
  MAX_ATTR_VALUE = 1
  Unprintable = {0}
  None = None
  Mac = {m1, m2}
  Names <- SomeNames
  Ids = 2
  MaxExchanges = 3
  MaxStrays = 2
SYMMETRY RadSecSymmetry
INVARIANTS
  RadSecTypeOK
  RefusesOnlyStrays
  StreamInSync
  UserNameIsOwn
  RecordsMatch
PROPERTIES
  ImplementsExchange
