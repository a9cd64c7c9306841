----------------------- MODULE UpdateApplicationStatus ----------------------
(***************************************************************************)
(* UpdateApplicationStatusService: one transaction that moves an           *)
(* application to the status the client names, once per idempotency key    *)
(* (application/services/update_application_status.py).                    *)
(***************************************************************************)
EXTENDS Idempotency

\* The application is read before the key is claimed.
UpdateBegin(c, a, k, status) ==
  /\ pc[c] = "idle"
  /\ arg' = [arg EXCEPT ![c] = [app |-> a, key |-> k, want |-> status]]
  /\ ReadApplication(c, a, "update:claim")
  /\ UNCHANGED <<tables, verdict, engine>>

\* A key used before: replay, or refuse.
UpdateReplay(c) ==
  /\ pc[c] = "update:claim"
  /\ WaitForKey(c, "update")
  /\ idempotency[<<"update", arg[c].key>>] # None
  /\ Proceed(c, Resolve(c, "update"))
  /\ UNCHANGED <<tables, arg, seen, verdict, engine>>

\* A fresh key: transition_to judges the status read at the beginning.
UpdateClaim(c) ==
  /\ pc[c] = "update:claim"
  /\ idempotency[<<"update", arg[c].key>>] = None
  /\ IF ValidTransition(seen[c], arg[c].want)
       THEN ClaimKey(c, "update") /\ Goto(c, "update:save")
       ELSE WaitForKey(c, "update") /\ Proceed(c, "invalid_transition")
  /\ UNCHANGED <<tables, arg, seen, verdict, engine>>

\* UPDATE of the application (which waits for the row), the event, the
\* completed claim and the commit; nothing after the UPDATE waits.
UpdateSave(c) ==
  LET a == arg[c].app IN
  /\ pc[c] = "update:save"
  /\ lock[ApplicationRow(a)] \in {None, c}
  /\ SaveStatus(c, a, seen[c], arg[c].want)
  /\ CompleteClaim(c, "update", a)
  /\ Commit(c, "returned")
  /\ UNCHANGED <<preparation, submission, reviewActions, arg, seen, verdict, engine>>

UpdateStep(c) ==
  \/ UpdateReplay(c)
  \/ UpdateClaim(c)
  \/ UpdateSave(c)

=============================================================================
