\* Three clients race to prepare one application while two others change its
\* status, perhaps by one key.
SPECIFICATION Spec
CONSTANTS
  None = None
  App = {a1}
  Seeded = {a1}
  Key = {k1}
  Decision = {}
  Content = {}
  Target = {"preparing", "withdrawn"}
  PrepareCall = {p1, p2, p3}
  ReviewCall = {}
  UpdateCall = {u1, u2}
  CreateCall = {}
  ReadCall = {}
SYMMETRY Symmetry
INVARIANTS TypeOK AtMostOneAnalysis OutcomesAreRecorded PreparationMatchesEngine ClaimsAreWitnessed
PROPERTIES AnalysesAreRemoteOperations
CHECK_DEADLOCK FALSE
