SPECIFICATION Spec
CONSTANTS
  j1 = j1 j2 = j2 h1 = h1 h2 = h2
  Account = {a1}
  Job = {j1, j2}
  Cost <- TwoEach
  Scheduler = Scheduler
  Handler = {h1, h2}
  Null = Null
  Grant = 3
  Balances = {2}
  MaxRetries = 1
  MaxDays = 1
  MaxReports = 1
  MaxLate = 1
  MaxDbErrors = 1
  MaxFaults = 1
INVARIANTS
  TypeOK Solvent
PROPERTIES
   TwoPhaseProtocol
SYMMETRY Symmetry
CHECK_DEADLOCK FALSE
