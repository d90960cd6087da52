SPECIFICATION Spec
CONSTANTS
  MaxKey = 5
  Key <- MCKey
  MaxRecords = 6
  MaxEnds = 2
INVARIANTS TypeOK NothingLost ShowsOneMoment AnswersAgree
PROPERTY ImplementsSeqIndex
CHECK_DEADLOCK FALSE
