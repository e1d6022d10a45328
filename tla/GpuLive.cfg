SPECIFICATION MCSpec
CONSTANTS
  A = A
  B = B
  Calls = {c1}
  Job = Job
  None = None
  Profiles = {A, B}
  Gpu <- StaticGpu
  Offsets <- MCOffsets
  Clocks <- MCClocks
  Unlocked = "unlocked"
  Unsupported = {}
  Breakable = {"core"}
  StepsMayFail = FALSE
  DirectOffsets = {1}
  MaxApplies = 2
  Locks = {"CapsLock", "NumLock"}
  Specs <- MCSpecs
  Foreign <- MCForeign
  MaxGrabs = 1
  StartFrames = 1
  MaxEvents = 1
INVARIANTS
  NothingLost
  PanelComesBack
PROPERTIES
  DeferredEventuallyApplied
  PressAnswered
CHECK_DEADLOCK FALSE
