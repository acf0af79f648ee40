CONSTANTS
  Timer = timer
  Task = {timer, u1}
  Apex <- MCApex
  Configured <- MCLabToo
  Domain <- MCApex
  MaxRow = 2
  MaxTenantRows = 0
  Life = 3
  KeepFor = 1
  UpgradeAt = 2
  RenewAt = 2
  Reverts = FALSE
  Crashes = TRUE
SPECIFICATION UpkeepSpec
INVARIANTS KeptWildcardCoversApex
