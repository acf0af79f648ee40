CONSTANTS
  Timer = timer
  Task = {timer, u1}
  Apex <- MCOneApex
  Configured <- MCIdOnly
  Domain <- MCOneApex
  MaxRow = 2
  MaxTenantRows = 1
  Life = 2
  KeepFor = 1
  UpgradeAt = 2
  RenewAt = 2
  Reverts = TRUE
  Crashes = FALSE
SPECIFICATION RenewalSpec
PROPERTIES RenewedOnTimer
