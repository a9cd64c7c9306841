\* A preparation, and a client that declares the application ready.
SPECIFICATION Spec
CONSTANTS
  None = None
  App = {a1}
  Seeded = {a1}
  Key = {k1}
  Decision = {}
  Content = {}
  Target = {"ready_to_apply"}
  PrepareCall = {p1}
  ReviewCall = {}
  UpdateCall = {u1}
  CreateCall = {}
  ReadCall = {}
INVARIANT ReviewGatesReadiness
CHECK_DEADLOCK FALSE
