\* Two concurrent requests, two tenants sharing one name, three serials and
\* three root keys (as many as two requests can race to generate).
CONSTANTS
  Request = {r1, r2}
  Tenant = {t1, t2}
  Name = {n1}
  MaxSerial = 3
  MaxKey = 3
SYMMETRY RequestSymmetry
SPECIFICATION Spec
INVARIANTS TypeOK OneActivePerName SerialsUnique SignedByTheRoot AnswerIsOnRecord
PROPERTIES HistoryIsKept RegistrySpec
