SPECIFICATION TreesSpec
CONSTANTS
  MaxNodes = 12
  SmallNodes = 5
  Key <- MCKey
  MaxPerKey = 3
  MaxSlots = 13
  MaxDups = 1
  Batches <- MCBatches
INVARIANTS TypeOK BalancedSearchTree EverySlotOnce 
PROPERTY KeepsPromise
VIEW View
