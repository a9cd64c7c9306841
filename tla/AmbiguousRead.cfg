\* A preparation whose answer is lost, and a client that tries to recover it.
SPECIFICATION Spec
CONSTANTS
  None = None
  App = {a1}
  Seeded = {a1}
  Key = {k1}
  Decision = {}
  Content = {}
  Target = {}
  PrepareCall = {p1}
  ReviewCall = {}
  UpdateCall = {}
  CreateCall = {}
  ReadCall = {g1}
PROPERTY AmbiguousAnalysisIsRecoverable
CHECK_DEADLOCK FALSE
