SPECIFICATION CarefulSpec
CONSTANTS
  MinKey = 0
  MaxKey = 5
  MaxUnique = 6
  MaxRepeated = 5
  Key <- MCKey
  MaxPerKey = 2
  Bulks <- MCBulks
  MaxRecords <- MCMaxRecords
  MaxAux = 3
INVARIANTS TypeOK ChainOrdered DuplicatesOwned SearchAgrees
PROPERTY KeepsPromise
