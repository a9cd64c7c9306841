-------------------------- MODULE ReviewApplication -------------------------
(***************************************************************************)
(* ReviewApplicationService (application/services/review_application.py):  *)
(* send one human decision on an awaiting analysis to the Agent Engine.    *)
(* The first transaction claims the right to do so, by inserting the       *)
(* submission as submitting under the preparation's row lock; then the     *)
(* POST, with no transaction open; the last transaction records the answer. *)
(***************************************************************************)
EXTENDS HubStore

\* First statement of _start_or_replay_review: the application.
ReviewBegin(c, a, k, d) ==
  /\ pc[c] = "idle"
  /\ arg' = [arg EXCEPT ![c] = [app |-> a, key |-> k, want |-> d]]
  /\ ReadApplication(c, a, "review:find_key")
  /\ UNCHANGED <<tables, verdict, engine>>

\* What get_by_idempotency_key decides: a stored submission is replayed if it
\* made the same request (_same_review_request) and refused otherwise.
Lookup(c, absent) ==
  LET row == submission[arg[c].key] IN
  IF row = None THEN absent
  ELSE IF row.app = arg[c].app /\ row.want = arg[c].want THEN "replayed"
  ELSE "conflict"

ReviewFindKey(c) ==
  /\ pc[c] = "review:find_key"
  /\ Proceed(c, Lookup(c, "review:lock"))
  /\ UNCHANGED <<tables, arg, seen, verdict, engine>>

\* get_for_application_for_update: no row, nothing to review ...
ReviewLockFails(c) ==
  /\ pc[c] = "review:lock"
  /\ ~Prepared(arg[c].app)
  /\ Proceed(c, "blocked")
  /\ UNCHANGED <<tables, arg, seen, verdict, engine>>

\* ... or the row, which until the commit is as it is read here.
ReviewLock(c) ==
  /\ pc[c] = "review:lock"
  /\ Prepared(arg[c].app)
  /\ Acquire(c, PreparationRow(arg[c].app))
  /\ Goto(c, "review:recheck")
  /\ UNCHANGED <<tables, arg, seen, verdict, engine>>

\* The key again, now under the lock, then the preparation just locked and the
\* application status read before the lock.
ReviewRecheck(c) ==
  LET prep == preparation[arg[c].app] IN
  /\ pc[c] = "review:recheck"
  /\ Proceed(c, Lookup(c,
       IF prep.status # "awaiting_review" \/ prep.thread = None THEN "blocked"
       ELSE IF seen[c] # "preparing" THEN "invalid_transition"
       ELSE "review:find_unresolved"))
  /\ UNCHANGED <<tables, arg, seen, verdict, engine>>

\* get_unresolved_for_preparation
ReviewFindUnresolved(c) ==
  /\ pc[c] = "review:find_unresolved"
  /\ Proceed(c, IF Unresolved(arg[c].app) # {} THEN "blocked" ELSE "review:add")
  /\ UNCHANGED <<tables, arg, seen, verdict, engine>>

\* Mutant: no unique constraint on the key.
KeyReusable(k) == TRUE

KeyUnused(k) == submission[k] = None

\* INSERT of the submission hits uq_application_review_submissions_user_key
\* (the key was used meanwhile, for another application) ...
ReviewAddFails(c) ==
  /\ pc[c] = "review:add"
  /\ ~KeyUnused(arg[c].key)
  /\ Proceed(c, "integrity_error")
  /\ UNCHANGED <<tables, arg, seen, verdict, engine>>

\* ... or makes submitting durable before the engine is called.
ReviewAdd(c) ==
  LET a == arg[c].app
      k == arg[c].key IN
  /\ pc[c] = "review:add"
  /\ KeyUnused(k)
  /\ submission' = [submission EXCEPT ![k] =
       [app |-> a, want |-> arg[c].want, thread |-> preparation[a].thread,
        status |-> "submitting", outcome |-> None]]
  /\ Commit(c, "review:post")
  /\ UNCHANGED <<application, events, preparation, reviewActions, idempotency,
                 arg, seen, verdict, engine>>

\* review_job_analysis
ReviewPost(c) ==
  /\ pc[c] = "review:post"
  /\ Send(c, submission[arg[c].key].thread)
  /\ Goto(c, "review:await")
  /\ UNCHANGED <<tables, lock, arg, seen, verdict>>

ReviewAnswer(c) ==
  /\ pc[c] = "review:await"
  /\ Receive(c) \/ TimeOut(c)
  /\ Goto(c, IF verdict'[c] \in ThreadStatus
               THEN "review:lock_again" ELSE "review:require_submitting")
  /\ UNCHANGED <<tables, lock, arg, seen, engine>>

\* _record_success locks the preparation, then reads the application.
ReviewLockAgain(c) ==
  /\ pc[c] = "review:lock_again"
  /\ IF Prepared(arg[c].app)
       THEN /\ Acquire(c, PreparationRow(arg[c].app))
            /\ Goto(c, "review:read_application")
       ELSE Proceed(c, "inconsistent")
  /\ UNCHANGED <<tables, arg, seen, verdict, engine>>

ReviewReadApplication(c) ==
  /\ pc[c] = "review:read_application"
  /\ ReadApplication(c, arg[c].app, "review:require_submitting")
  /\ UNCHANGED <<tables, arg, verdict, engine>>

\* _require_submitting_submission, and for a finished review the state
\* mark_completed_after_review requires.
ReviewRequireSubmitting(c) ==
  LET row  == submission[arg[c].key]
      prep == preparation[arg[c].app] IN
  /\ pc[c] = "review:require_submitting"
  /\ Proceed(c,
       IF row = None \/ row.status # "submitting" THEN "inconsistent"
       ELSE IF verdict[c] = "completed"
                 /\ (prep.status # "awaiting_review" \/ prep.thread = None)
         THEN "inconsistent"
       ELSE IF BecomesReady(c) THEN "review:save_ready"
       ELSE "review:save")
  /\ UNCHANGED <<tables, arg, seen, verdict, engine>>

\* UPDATE of the application to ready_to_apply.
ReviewSaveReady(c) ==
  /\ pc[c] = "review:save_ready"
  /\ Acquire(c, ApplicationRow(arg[c].app))
  /\ Goto(c, "review:save")
  /\ UNCHANGED <<tables, arg, seen, verdict, engine>>

\* Mutant: the review action stays pending.
LeaveReviewAction(a) == UNCHANGED reviewActions

\* The pending review action of the application, if any, is completed.
CompleteReviewAction(a) ==
  reviewActions' = [reviewActions EXCEPT ![a] = [i \in DOMAIN @ |-> "completed"]]

\* The remaining UPDATEs and the commit.  A finished review completes the
\* preparation and the pending review action; any other answer touches the
\* submission only.
ReviewSave(c) ==
  LET a        == arg[c].app
      answered == verdict[c] \in ThreadStatus
      finished == verdict[c] = "completed" IN
  /\ pc[c] = "review:save"
  /\ submission' = [submission EXCEPT
       ![arg[c].key].status = IF answered THEN "completed" ELSE verdict[c],
       ![arg[c].key].outcome = IF answered THEN verdict[c] ELSE None]
  /\ IF finished
       THEN /\ preparation' = [preparation EXCEPT ![a].status = "completed"]
            /\ CompleteReviewAction(a)
       ELSE UNCHANGED <<preparation, reviewActions>>
  /\ IF BecomesReady(c)
       THEN SaveStatus(c, a, "preparing", "ready_to_apply")
       ELSE UNCHANGED <<application, events>>
  /\ Commit(c, IF answered THEN "returned" ELSE "agent_error")
  /\ UNCHANGED <<idempotency, arg, seen, verdict, engine>>

ReviewStep(c) ==
  \/ ReviewFindKey(c)
  \/ ReviewLockFails(c)
  \/ ReviewLock(c)
  \/ ReviewRecheck(c)
  \/ ReviewFindUnresolved(c)
  \/ ReviewAddFails(c)
  \/ ReviewAdd(c)
  \/ ReviewPost(c)
  \/ ReviewAnswer(c)
  \/ ReviewLockAgain(c)
  \/ ReviewReadApplication(c)
  \/ ReviewRequireSubmitting(c)
  \/ ReviewSaveReady(c)
  \/ ReviewSave(c)

=============================================================================
