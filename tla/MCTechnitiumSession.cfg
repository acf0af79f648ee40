CONSTANTS
  Call = {c1, c2, c3}
  Conn = {"platform", "tenant", "keyed", "bare"}
  Server = {"ns1", "ns2"}
  ServerOf <- MCServerOf
  WithToken = {"keyed", "bare"}
  WithPassword = {"platform", "tenant", "keyed"}
  Welcome = {"platform", "tenant", "keyed"}
SYMMETRY CallSymmetry
SPECIFICATION Spec
INVARIANTS TypeOK ExpiredOnlyIfDropped
