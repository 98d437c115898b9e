\* Two orgs race for one id, with the default tenant and org beside it.
SPECIFICATION Spec
CONSTANTS
  p1 = p1
  p2 = p2
  Procs = {p1, p2}
  Ids = {"default", "acme-eu"}
  Orgs = {"default", "acme", "rival"}
  Regions = {"eu", "us"}
  Principals <- Managers
SYMMETRY Symmetric
INVARIANTS
  AnswerIsTrue
  ReportsInsideOrg
PROPERTIES
  OnlyOwnerChanges
