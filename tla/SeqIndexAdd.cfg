SPECIFICATION Spec
CONSTANTS
  MinKey = 1
  MaxKey = 5
  MaxUnique = 5
  MaxRepeated = 5
  Key <- MCKey
  MaxPerKey = 2
  Bulks <- MCBulks
  MaxRecords <- MCMaxRecords
  MaxAux = 0
PROPERTY AddOnlyAdds
