SPECIFICATION CallsSpec
CONSTANTS
  MaxKey = 11
  FirstCall = 4
  LastCall = 7
  Key <- MCKey
  Unset = Unset
  N = 3
  M = 1
  Levels = 2
  MaxPerKey = 2
  MaxPages = 6
  Batches <- MCBatches
PROPERTY AddOnlyAdds
VIEW View
