SPECIFICATION SpecSecondary
CONSTANTS
  Table <- MCTable
  MaxKey = 2
  Key <- MCKey
  Attr <- MCAttr
  KeyType <- MCKeyType
  MaxCount = 3
  Blank = Blank
  Column <- MCColumn
  ColumnType <- MCColumnType
  Value <- MCValue
  MinBulk = 2
  MaxPositions = 4
INVARIANTS SecondaryTypeOK RowsIndexed
PROPERTY FindsWhatItWasMadeOf
VIEW MCView
