------------------------- MODULE PrepareApplication -------------------------
(***************************************************************************)
(* PrepareApplicationService (application/services/prepare_application.py): *)
(* start one analysis of an application in the Agent Engine, or report the *)
(* preparation that exists.  First transaction: read, move the application *)
(* to preparing, insert the preparation as starting.  Then the POST, with  *)
(* no transaction open.  Last transaction: record what came of it.         *)
(*                                                                         *)
(* A preparation is created and marked starting before it is inserted, so  *)
(* no row is ever pending and "prepare:find" has no pending case.          *)
(***************************************************************************)
EXTENDS HubStore

\* First statement of _start_or_reuse_preparation: the application.
PrepareBegin(c, a) ==
  /\ pc[c] = "idle"
  /\ arg' = [arg EXCEPT ![c].app = a]
  /\ ReadApplication(c, a, "prepare:find")
  /\ UNCHANGED <<tables, verdict, engine>>

\* The existing preparation is the answer; otherwise the status read before
\* decides whether an analysis may start.
PrepareFind(c) ==
  /\ pc[c] = "prepare:find"
  /\ Proceed(c, IF Prepared(arg[c].app) THEN "replayed"
                ELSE IF seen[c] = "saved" THEN "prepare:save_application"
                ELSE IF seen[c] = "preparing" THEN "prepare:add"
                ELSE "invalid_transition")
  /\ UNCHANGED <<tables, arg, seen, verdict, engine>>

\* UPDATE job_applications waits for the row; the status it replaces is not
\* looked at again.
PrepareSaveApplication(c) ==
  /\ pc[c] = "prepare:save_application"
  /\ Acquire(c, ApplicationRow(arg[c].app))
  /\ Goto(c, "prepare:add")
  /\ UNCHANGED <<tables, arg, seen, verdict, engine>>

\* INSERT of the preparation hits uq_application_preparations_application ...
PrepareAddFails(c) ==
  /\ pc[c] = "prepare:add"
  /\ Prepared(arg[c].app)
  /\ Proceed(c, "integrity_error")
  /\ UNCHANGED <<tables, arg, seen, verdict, engine>>

\* ... or succeeds, and the transaction commits.
PrepareAdd(c) ==
  LET a == arg[c].app IN
  /\ pc[c] = "prepare:add"
  /\ ~Prepared(a)
  /\ preparation' = [preparation EXCEPT ![a] = [status |-> "starting", thread |-> None]]
  /\ IF seen[c] = "saved"
       THEN SaveStatus(c, a, "saved", "preparing")
       ELSE UNCHANGED <<application, events>>
  /\ Commit(c, "prepare:post")
  /\ UNCHANGED <<submission, reviewActions, idempotency, arg, seen, verdict, engine>>

\* analyse_job
PreparePost(c) ==
  /\ pc[c] = "prepare:post"
  /\ Send(c, c)
  /\ Goto(c, "prepare:await")
  /\ UNCHANGED <<tables, lock, arg, seen, verdict>>

\* An analysis goes to _record_success, which reads the application first; an
\* error to _record_known_failure or _record_unknown_outcome.
PrepareAnswer(c) ==
  /\ pc[c] = "prepare:await"
  /\ Receive(c) \/ TimeOut(c)
  /\ Goto(c, IF verdict'[c] \in ThreadStatus
               THEN "prepare:read_application" ELSE "prepare:require_starting")
  /\ UNCHANGED <<tables, lock, arg, seen, engine>>

PrepareReadApplication(c) ==
  /\ pc[c] = "prepare:read_application"
  /\ ReadApplication(c, arg[c].app, "prepare:require_starting")
  /\ UNCHANGED <<tables, arg, verdict, engine>>

\* _require_starting_preparation
PrepareRequireStarting(c) ==
  /\ pc[c] = "prepare:require_starting"
  /\ Proceed(c, IF preparation[arg[c].app].status # "starting" THEN "inconsistent"
                ELSE IF BecomesReady(c) THEN "prepare:save_ready"
                ELSE "prepare:save")
  /\ UNCHANGED <<tables, arg, seen, verdict, engine>>

\* UPDATE of the application to ready_to_apply.
PrepareSaveReady(c) ==
  /\ pc[c] = "prepare:save_ready"
  /\ Acquire(c, ApplicationRow(arg[c].app))
  /\ Goto(c, "prepare:save")
  /\ UNCHANGED <<tables, arg, seen, verdict, engine>>

\* UPDATE of the preparation, after the review action is added unless one is
\* pending (the partial unique index admits one), and the commit.
PrepareSave(c) ==
  LET a == arg[c].app IN
  /\ pc[c] = "prepare:save"
  /\ lock[PreparationRow(a)] \in {None, c}
  /\ preparation' = [preparation EXCEPT ![a] =
       [status |-> verdict[c], thread |-> IF verdict[c] \in ThreadStatus THEN c ELSE None]]
  /\ reviewActions' = IF verdict[c] = "awaiting_review" /\ PendingActions(a) = {}
       THEN [reviewActions EXCEPT ![a] = Append(@, "pending")]
       ELSE reviewActions
  /\ IF BecomesReady(c)
       THEN SaveStatus(c, a, "preparing", "ready_to_apply")
       ELSE UNCHANGED <<application, events>>
  /\ Commit(c, IF verdict[c] \in ThreadStatus THEN "returned" ELSE "agent_error")
  /\ UNCHANGED <<submission, idempotency, arg, seen, verdict, engine>>

PrepareStep(c) ==
  \/ PrepareFind(c)
  \/ PrepareSaveApplication(c)
  \/ PrepareAddFails(c)
  \/ PrepareAdd(c)
  \/ PreparePost(c)
  \/ PrepareAnswer(c)
  \/ PrepareReadApplication(c)
  \/ PrepareRequireStarting(c)
  \/ PrepareSaveReady(c)
  \/ PrepareSave(c)

=============================================================================
