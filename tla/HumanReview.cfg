\* Two requests to review one analysis, or one request sent twice.
SPECIFICATION FlowSpec
CONSTANTS
  None = None
  App = {a1}
  Seeded = {a1}
  Key = {k1, k2}
  Decision = {d1}
  Content = {}
  Target = {}
  PrepareCall = {p1}
  ReviewCall = {r1, r2, r3}
  UpdateCall = {}
  CreateCall = {}
  ReadCall = {g1, g2}
  Flow = {f1, f2}
  MaxTries = 2
INVARIANTS StaleDecisionsAreStopped ReportedReviewsHappened
CHECK_DEADLOCK FALSE
