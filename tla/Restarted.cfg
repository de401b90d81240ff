SPECIFICATION Spec
CONSTANTS
  j1 = j1 j2 = j2
  Job = {j1, j2}
  NoStatus = NoStatus
  MaxProgress = 1
  MaxOvertakes = 0
  MaxDbErrors = 0
  MaxRestarts = 1
INVARIANTS
  ListedIsRunning
SYMMETRY Symmetry
CHECK_DEADLOCK FALSE
