-------------------------- MODULE CreateApplication -------------------------
(***************************************************************************)
(* CreateApplicationService: one transaction that saves a new application, *)
(* once per idempotency key (application/services/create_application.py).  *)
(***************************************************************************)
EXTENDS Idempotency

\* uuid4 names the new application before the transaction begins: an
\* identifier no application has and no other call has drawn.
Fresh(a) ==
  /\ application[a] = Absent
  /\ \A c \in CreateCall : arg[c].app # a

CreateBegin(c, a, k, content) ==
  /\ pc[c] = "idle"
  /\ Fresh(a)
  /\ arg' = [arg EXCEPT ![c] = [app |-> a, key |-> k, want |-> content]]
  /\ Goto(c, "create:claim")
  /\ UNCHANGED <<tables, lock, seen, verdict, engine>>

CreateReplay(c) ==
  /\ pc[c] = "create:claim"
  /\ WaitForKey(c, "create")
  /\ idempotency[<<"create", arg[c].key>>] # None
  /\ Proceed(c, Resolve(c, "create"))
  /\ UNCHANGED <<tables, arg, seen, verdict, engine>>

CreateClaim(c) ==
  /\ pc[c] = "create:claim"
  /\ idempotency[<<"create", arg[c].key>>] = None
  /\ ClaimKey(c, "create")
  /\ Goto(c, "create:save")
  /\ UNCHANGED <<tables, arg, seen, verdict, engine>>

\* INSERT of the application and of its event, the completed claim, commit.
CreateSave(c) ==
  LET a == arg[c].app IN
  /\ pc[c] = "create:save"
  /\ application' = [application EXCEPT ![a] = "saved"]
  /\ events' = [events EXCEPT ![a] = Append(@, Created(c))]
  /\ CompleteClaim(c, "create", None)
  /\ Commit(c, "returned")
  /\ UNCHANGED <<preparation, submission, reviewActions, arg, seen, verdict, engine>>

CreateStep(c) ==
  \/ CreateReplay(c)
  \/ CreateClaim(c)
  \/ CreateSave(c)

=============================================================================
