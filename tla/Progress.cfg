\* Fair scheduling, with crashes, an engine that may never answer, and decisions
\* that do not come through the hub.
SPECIFICATION FairDirectSpec
CONSTANTS
  None = None
  App = {a1}
  Seeded = {a1}
  Key = {k1}
  Decision = {approve}
  Content = {}
  Target = {"withdrawn"}
  PrepareCall = {p1}
  ReviewCall = {r1, r2}
  UpdateCall = {u1}
  CreateCall = {}
  ReadCall = {}
INVARIANTS CompletionIsEarned RowsAgree
PROPERTIES CallsEnd PreparationsSettle SubmissionsSettle
CHECK_DEADLOCK FALSE
