\* Two executions of the preparation workflow for one request sent twice.
SPECIFICATION FlowSpec
CONSTANTS
  None = None
  App = {a1, a2}
  Seeded = {}
  Key = {k1}
  Decision = {}
  Content = {w1}
  Target = {}
  PrepareCall = {p1, p2, p3}
  ReviewCall = {}
  UpdateCall = {}
  CreateCall = {c1, c2}
  ReadCall = {}
  Flow = {f1, f2}
  MaxTries = 2
INVARIANTS OneAnalysisPerRequest ReportsAreTrue
CHECK_DEADLOCK FALSE
