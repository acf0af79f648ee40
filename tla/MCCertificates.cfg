CONSTANTS
  Timer = timer
  Task = {timer, u1}
  Apex <- MCApex
  Configured <- MCIdOnly
  Domain <- MCApex
  MaxRow = 2
  MaxTenantRows = 1
  Life = 1
  KeepFor = 0
  UpgradeAt = 1
  RenewAt = 1
  Reverts = FALSE
  Crashes = TRUE
SPECIFICATION FairSpec
INVARIANTS TypeOK TenantRowsFit
PROPERTIES IssuingIsAttended WildcardRecovers
