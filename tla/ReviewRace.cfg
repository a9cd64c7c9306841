\* Two reviews of one application race, with equal or different keys and
\* decisions, while a client may withdraw it.
SPECIFICATION StoresSpec
CONSTANTS
  None = None
  App = {a1}
  Seeded = {a1}
  Key = {k1, k2}
  Decision = {approve, edit}
  Content = {}
  Target = {"withdrawn"}
  PrepareCall = {p1}
  ReviewCall = {r1, r2}
  UpdateCall = {u1}
  CreateCall = {}
  ReadCall = {}
SYMMETRY Symmetry
INVARIANTS NoOverlappingReviews ReviewsTargetOpenThreads OutcomesAreRecorded PreparationMatchesEngine RowsAgree
PROPERTIES DoubtBlocksReviews ReviewsAreRemoteOperations MemoryTransitionsAreLegal
CHECK_DEADLOCK FALSE
