SPECIFICATION MCSpec
CONSTANTS
  Clients = {c}
  Fans <- MCFans
  Settings <- MCSettings
  Percents = {100}
  Temps = {40, 60}
  Firmware = {51}
  Perfs = {0, 16}
  Interfaces = {"Clevo", "Uniwill"}
  Faults = TRUE
  Systemd = FALSE
  MaxCalls = 2
  CurveSettings <- MCCurveSettings
  CurveTemps <- MCCurveTemps
  Cpus = {0, 1}
  Siblings = {1}
  HwMin = 1
  HwMax = 5
  Offered <- SampleModes
  MaxLight = 200
  Requests <- SampleRequests
  Strict = TRUE
  Breakable <- SampleBreakable
  MaxRequests = 2
  Adapters = {"dgpu"}
  Readers = {"client"}
  ReadJobs = {"monitor"}
  Delay = 2
  Latency = 1
  Reprobe = 4
  UtilFails = FALSE
  Gpus = {1, 2}
  StatusWords = {"active", "suspended"}
  Readable <- MCReadable
  Askers = {"client", "job"}
  Widths = {93, 128, 2048}
  Measured = {"cpu", "net", "disk", "energy"}
  Takers <- MCTakers
  MaxNow = 2
  MaxCount = 3
  Wrap = 2
  IwFails = FALSE
INVARIANTS
  OnlyGivenSpeeds
  ProfileKept
  FlagMeansManual
  AppliedAsAsked
  SleepersLeftAlone
  NumbersAreReal
PROPERTIES
  FollowsCurve
  StatusIsItsOwn
  AdapterFollowsWork
CHECK_DEADLOCK FALSE
