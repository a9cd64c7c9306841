\* Decisions on up to two items, of two proposals.
SPECIFICATION Spec
CONSTANTS
  Id = {"p1", "p2"}
  Words = {"w1", "w2"}
  MaxItems = 2
INVARIANTS OneFatePerProposal SurfacesSendAlike RetriesAreRecognised
CHECK_DEADLOCK FALSE
