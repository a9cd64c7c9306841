\* Preparations and reviews of two applications, whose row locks do not exclude
\* each other; no client sets the status itself.
SPECIFICATION Spec
CONSTANTS
  None = None
  App = {a1, a2}
  Seeded = {a1, a2}
  Key = {k1, k2}
  Decision = {approve}
  Content = {}
  Target = {}
  PrepareCall = {p1, p2}
  ReviewCall = {r1, r2}
  UpdateCall = {}
  CreateCall = {}
  ReadCall = {}
SYMMETRY Symmetry
INVARIANTS OneReviewPerKey EventsFormAChain ReviewGatesReadiness
PROPERTY LegalTransitions
CHECK_DEADLOCK FALSE
