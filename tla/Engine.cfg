SPECIFICATION MCSpec
CONSTANTS
  Table <- MCTable
  MaxKey = 2
  Key <- MCKey
  Attr <- MCOwnNames
  KeyType <- MCKeyType
  MaxCount = 2
  Blank = Blank
INVARIANTS TypeOK LoadCoversFile RowsIndexed
PROPERTIES RowsSurvive SearchFindsRows
VIEW MCView
