SPECIFICATION FairSpec
CONSTANTS
  j1 = j1 j2 = j2 w0 = w0 w1 = w1 w2 = w2
  Job = {j1, j2}
  Worker = {w1}
  LocalWorker = {}
  Target <- AnyWorker
  Slot = {s1, s2, s3, s4}
  Loop = Loop
  NoJob = NoJob
  NoWorker = NoWorker
  MaxRetries = 1
  MaxRefusals = 0
  MaxLapses = 0
  MaxBreaks = 1
  MaxDbErrors = 1
  MaxProgress = 0
INVARIANTS
  TypeOK  RetryBound DispatchBudget
PROPERTIES
  NoOvertaking 
