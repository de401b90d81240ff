SPECIFICATION FairSpec
CONSTANTS
  j1 = j1 j2 = j2 w1 = w1
  Job = {j1, j2}
  Worker = {w1}
  None = None
  Mix <- Pairs
  MaxRetries = 1
  MaxSeconds = 1
  MaxFaults = 1
INVARIANTS
  TypeOK RecordIsWhole  
PROPERTIES
   BroadcastEnds
CHECK_DEADLOCK FALSE
