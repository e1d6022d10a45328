SPECIFICATION StartupSpec
CONSTANTS
  A = A
  B = B
  Calls = {c1}
  Job = Job
  None = None
  Profiles = {A, B}
  Gpu <- StaticGpu
  Offsets <- MCOffsets
  Clocks <- MCClocks
  Unlocked = "unlocked"
  Unsupported = {}
  Breakable = {}
  StepsMayFail = FALSE
  DirectOffsets = {}
  MaxApplies = 1
INVARIANT
  WaitingIsAnswered
