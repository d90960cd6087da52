SPECIFICATION Spec
CONSTANTS
  Table <- MCOneTable
  MaxKey = 2
  Key <- MCKey
  Attr <- MCOwnNames
  KeyType <- MCKeyType
  MaxCount = 3
  Blank = Blank
PROPERTY AddedIsStored
