\* Requests of two users and of unwelcome tokens, one after the other.
SPECIFICATION Spec
CONSTANTS
  None = None
  Name = {"alice", "n8n", "bob"}
  RequiredScope = "applications"
  OtherScope = "other"
  Call = {c1}
  Resource = {r1, r2, r3}
  Token <- AllTokens
  Op <- Ops
  Surfaces = {"rest", "mcp", "hub"}
  AnswerCode = {200, 201, 307, 400, 401, 403, 404, 409, 422, 429, 500, 503}
SYMMETRY MCSymmetry
INVARIANTS LostAnswersAreFound RefusalsAreFinal SuccessesAreReal ServedForTheSubject SurfacesDifferByLeeway
CHECK_DEADLOCK FALSE
