CONSTANTS
  Call = {c1, c2}
  Name = {"shop", "apex"}
  Platform = {"apex"}
  t1 = t1
  home = home
  own = own
  Tenant = {t1, t2}
  Resolver = {home, own}
  Own <- MCOwn
  Rank <- MCRank
  PageSize = 1
  Standing <- MCStanding
  Held <- MCHeld
  Key = {k1}
  Bound <- MCBound
  Scopes <- MCScopes
  MaxRow = 2
  MaxBegun = 3
SYMMETRY CallSymmetry
SPECIFICATION Spec
INVARIANTS TypeOK OneRowPerName RemovalIsReal RepeatRemovesNothing
PROPERTIES RowsGoByOwner MailOnOwnName
