SPECIFICATION Spec
CONSTANTS
  MaxNodes = 4
  SmallNodes = 4
  Key <- MCKey
  MaxPerKey = 3
  MaxSlots = 4
  MaxDups = 1
  Batches <- MCBatches
PROPERTY RemovedKeyIsGone
