SPECIFICATION Spec
CONSTANTS
  Clients = {c}
  Fans <- MCFans
  Settings <- MCSettings
  Percents = {100}
  Temps = {40}
  Firmware = {51}
  Perfs = {0}
  Interfaces = {"Clevo"}
  Faults = FALSE
  Systemd = FALSE
  MaxCalls = 2
INVARIANT ExitLeavesAuto
CHECK_DEADLOCK FALSE
