\* Creations and updates of applications share two keys.
SPECIFICATION StoresSpec
CONSTANTS
  None = None
  App = {a1, a2}
  Seeded = {}
  Key = {k1, k2}
  Decision = {}
  Content = {w1, w2}
  Target = {"preparing", "ready_to_apply"}
  PrepareCall = {}
  ReviewCall = {}
  UpdateCall = {u1, u2}
  CreateCall = {c1, c2}
  ReadCall = {}
SYMMETRY Symmetry
INVARIANTS KeysActOnce ClaimsAreTrue
CHECK_DEADLOCK FALSE
