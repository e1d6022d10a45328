SPECIFICATION MCSpec
CONSTANTS
  A = A
  B = B
  C = C
  D = D
  Calls = {c1}
  Job = Job
  None = None
  Profiles = {A, B, C, D}
  Gpu <- MCGpu
  Offsets <- MCOffsets
  Clocks <- MCClocks
  Unlocked = "unlocked"
  Unsupported = {}
  Breakable = {}
  StepsMayFail = TRUE
  DirectOffsets = {}
  MaxApplies = 2
  Fetched = {"cpu", "gpu"}
  Capacity = 1
  Limit = 1
  MaxOrders = 1
  MaxReports = 1
  Registry <- MCRegistry
  RowNeeds = {{}, {"cpu"}, {"cpu", "gpu"}}
  FrameFresh = 1
  Pads = {1, 2}
  MaxNodes = 3
  Identities <- MCIdentities
INVARIANTS
  CompleteIsTrue
  ReportsShown
  SurfaceIsPolled
  RowsDoNotPile
  NoSteeringWhileReleased
  ReleasedIsCleared
PROPERTIES
  StartupAnswered
  WorkerRecovers
  WorkComesBack
CHECK_DEADLOCK FALSE
