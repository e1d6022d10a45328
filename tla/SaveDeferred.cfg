SPECIFICATION TuningSpec
CONSTANTS
  A = A
  B = B
  Calls = {c1}
  Job = Job
  None = None
  Profiles = {A, B}
  Gpu <- StaticGpu
  Offsets <- MCOffsets
  Clocks <- MCClocks
  Unlocked = "unlocked"
  Unsupported = {}
  Breakable = {"core"}
  StepsMayFail = TRUE
  DirectOffsets = {}
  MaxApplies = 3
  Values = {0, 1}
  MaxRewrites = 1
  MaxCrashes = 1
  MaxBreaks = 1
  Selectable <- MCSelectable
  Attempts = 2
  MaxRequests = 2
  MaxSendFaults = 1
  RowOrder <- MCRowOrder
  Stranger = "x"
  Least = 1
  Most = 2
  NaN = 99
  KeyTexts = {"key", "k"}
  MaxEntries = 3
  MaxEdits = 2
  MaxSaveFaults = 1
  Spots = {2, 8}
  Monitors = {10, 13}
  RowKinds = {"text", "graph"}
  Settled = 2
  Tolerance = 2
  MaxDrags = 1
  MaxChanges = 2
  Highest = 10
  MaxPoints = 4
  FirstCurve <- Curve
  FanCurves <- MCFanCurves
  Nothing = Nothing
  MaxTunes = 2
  BuiltIn = "Standard"
  Names = {"a", "b"}
  Contents = {"s", "t"}
  Built = "s"
  MaxClicks = 4
  MaxRefusals = 1
INVARIANT
  ManualOffResets
