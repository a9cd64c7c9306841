\* A preparation and a withdrawal of one application.
SPECIFICATION Spec
CONSTANTS
  None = None
  App = {a1}
  Seeded = {a1}
  Key = {k1}
  Decision = {}
  Content = {}
  Target = {"withdrawn"}
  PrepareCall = {p1}
  ReviewCall = {}
  UpdateCall = {u1}
  CreateCall = {}
  ReadCall = {}
PROPERTY LegalTransitions
CHECK_DEADLOCK FALSE
