SPECIFICATION Spec
CONSTANTS
  MaxRecords = 9
  Keys <- MCKeys
  Files <- MCFiles
INVARIANTS TypeOK NeverOverruns Brackets
PROPERTY Terminates
CHECK_DEADLOCK FALSE
