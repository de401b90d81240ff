SPECIFICATION FairSpec
CONSTANTS
  j1 = j1 j2 = j2 a1 = a1 a2 = a2
  Job = {j1, j2}
  Alias = {a1, a2}
  None = None
  Mix <- Pairs
  MaxEvents = 1
INVARIANTS
  TypeOK  LandsInOwnProject OneProjectPerAlias
PROPERTIES
  EveryTaskEnds
CHECK_DEADLOCK FALSE
CONSTRAINT OneEditor
