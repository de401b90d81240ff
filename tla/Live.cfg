SPECIFICATION FairSpec
CONSTANTS
  j1 = j1 j2 = j2 w0 = w0 w1 = w1 w2 = w2
  Job = {j1, j2}
  Worker = {w0, w1}
  LocalWorker = {w0}
  Target <- AnyWorker
  Slot = {s1, s2, s3, s4}
  Loop = Loop
  NoJob = NoJob
  NoWorker = NoWorker
  MaxRetries = 1
  MaxRefusals = 0
  MaxLapses = 1
  MaxBreaks = 0
  MaxDbErrors = 0
  MaxProgress = 0
INVARIANTS
  NoTicketLost NoJobForgotten
PROPERTIES
  EveryJobFinishes
