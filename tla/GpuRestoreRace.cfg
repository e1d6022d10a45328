SPECIFICATION Spec
CONSTANTS
  A = A
  B = B
  Calls = {c1}
  Job = Job
  None = None
  Profiles = {A, B}
  Gpu <- RestoredGpu
  Offsets <- MCOffsets
  Clocks <- MCClocks
  Unlocked = "unlocked"
  Unsupported = {}
  Breakable = {}
  StepsMayFail = FALSE
  DirectOffsets = {}
  MaxApplies = 3
INVARIANT
  MarkerNamesPending
