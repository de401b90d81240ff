SPECIFICATION FairSpec
CONSTANTS
  j1 = j1 j2 = j2
  Job = {j1}
  NoStatus = NoStatus
  MaxProgress = 3
  MaxOvertakes = 1
  MaxDbErrors = 2
  MaxRestarts = 2
INVARIANTS
  TypeOK Durable RowKeepsUp
PROPERTIES
  FinishedSurvives EveryImageEnds
CHECK_DEADLOCK FALSE
