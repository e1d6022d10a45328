SPECIFICATION Spec
CONSTANTS
  Adapters = {"dgpu", "egpu"}
  Clients = {"client"}
  Jobs = {"monitor"}
  Delay = 1
  Latency = 1
  Reprobe = 2
  UtilFails = FALSE
INVARIANT
  SuspendedNotAsked
