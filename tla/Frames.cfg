SPECIFICATION FairSpec
CONSTANTS
  Games = {g1, g2}
  Pid <- SamePid
  Instances = {i1, i2}
  Cap = 2
  Retries = 2
  Stale = 1
  Gap = 1
  MaxPoll = 0
  MaxSleep = 1
  MaxFrames <- MCFrames
  MaxSegs = 2
INVARIANTS
  ShownIsTrue
  WriterHasItsName
PROPERTIES
  HistoryImplemented
  DeadGoesDark
