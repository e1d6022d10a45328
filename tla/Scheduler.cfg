SPECIFICATION FairSpec
CONSTANTS
  Calls = {c1}
  Rates <- MCRates
  OcRates <- MCOcRates
  Floor = 1
  MaxRun = 1
  MaxSyncs = 2
INVARIANTS
  TypeOK
  IntervalsAgree
  LatenessBounded
PROPERTY
  EveryJobRuns
