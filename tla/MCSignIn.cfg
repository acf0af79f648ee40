CONSTANTS
  Browser = {b1, b2}
  User = {"ann"}
  Slug = {"innotel", "shop"}
  Default = "innotel"
  Platform = {"superuser"}
  Superuser = "superuser"
  LocalEnabled = TRUE
  MaxFlow = 2
  MaxToken = 2
SYMMETRY BrowserSymmetry
SPECIFICATION Spec
INVARIANTS TypeOK StateOnce
PROPERTIES EndedStaysEnded AdmissionSpec
