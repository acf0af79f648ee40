CONSTANTS
  t1 = t1
  s1 = s1
  Tenant = {t1}
  ProviderName = {1, 2}
  Platform = platform
  Server = {platform, s1}
  Own <- MCOwn
  MaxProvider = 2
  Order = {o1, o2}
  MaxStem = 2
  MaxRefused = 1
SYMMETRY OrderSymmetry
SPECIFICATION Spec
INVARIANTS TypeOK AtMostOneDefault ValuesInPlace NothingLeftBehind
