---------------------------- MODULE Idempotency -----------------------------
(***************************************************************************)
(* The durable idempotency claims of create_application and                *)
(* update_application_status (application/idempotency.py and               *)
(* SqlAlchemyIdempotencyRepository).  A claim is the first write of the    *)
(* transaction and is completed with its response by the last one, so a    *)
(* second call with the key waits for the first to commit or roll back.    *)
(***************************************************************************)
EXTENDS HubStore

\* INSERT ... ON CONFLICT DO NOTHING waits for a transaction that inserted the
\* same key, then inserts the claim, or finds the committed one.
WaitForKey(c, op) == lock[<<op, arg[c].key>>] \in {None, c}

\* Mutant: the claim is looked up, not inserted.
ClaimKeyWithoutWaiting(c, op) == lock' = [lock EXCEPT ![<<op, arg[c].key>>] = c]

ClaimKey(c, op) == Acquire(c, <<op, arg[c].key>>)

\* Mutant: a claim without a response counts as done.
ResolveWithoutResponse(c, op) ==
  LET row == idempotency[<<op, arg[c].key>>] IN
  IF row.want # arg[c].want \/ (op = "update" /\ row.app # arg[c].app) THEN "conflict"
  ELSE "replayed"

\* resolve_idempotency_claim on a committed claim; the fingerprint covers the
\* application (update only: a creation has none to name) and the request.
Resolve(c, op) ==
  LET row == idempotency[<<op, arg[c].key>>] IN
  IF row.want # arg[c].want \/ (op = "update" /\ row.app # arg[c].app) THEN "conflict"
  ELSE IF row.response = None THEN "replay_unavailable"
  ELSE "replayed"

\* The claim without its response: what a store that cannot roll back keeps of a
\* refused call (MemoryHub). As a mutant: the commit forgets the response.
CompleteClaimWithoutResponse(c, op, app) ==
  idempotency' = [idempotency EXCEPT ![<<op, arg[c].key>>] =
    [app |-> app, want |-> arg[c].want, response |-> None]]

\* The claim as the transaction commits it, completed with its response.
CompleteClaim(c, op, app) ==
  idempotency' = [idempotency EXCEPT ![<<op, arg[c].key>>] =
    [app |-> app, want |-> arg[c].want, response |-> arg[c].app]]

=============================================================================
