SPECIFICATION Spec
CONSTANTS
  Thread = {c1, c2, c3}
  MaxKey = 2
  Key <- MCKey
  Blank = Blank
  MaxCalls = 3
INVARIANTS TypeOK StoredKeysIndexed EntriesWithinFile IdleStreamClosed
PROPERTY SerialImplementsEngine
VIEW MCView
SYMMETRY MCSymmetry
CHECK_DEADLOCK FALSE
