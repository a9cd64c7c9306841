------------------------------ MODULE HubStore ------------------------------
(***************************************************************************)
(* The PostgreSQL tables of the hub and its unit of work.                  *)
(*                                                                         *)
(* Sessions run at READ COMMITTED: a plain SELECT sees what is committed   *)
(* when it executes, so two SELECTs of one transaction may see different   *)
(* states.  UPDATE and SELECT FOR UPDATE wait for the row's lock and hold  *)
(* it until the transaction ends.  A transaction's writes are published by *)
(* its last step; every transaction of the services commits right after    *)
(* its last statement, so the two are one step.                            *)
(*                                                                         *)
(* Every statement filters on the caller's user_id, so users share no row: *)
(* the model has one user.  Preparations are identified by their           *)
(* application (unique constraint), submissions by their idempotency key.  *)
(***************************************************************************)
EXTENDS AgentEngine

CONSTANT Seeded       \* applications created before the behaviour starts

ASSUME SeededAreApplications == Seeded \subseteq App

VARIABLES
  application,    \* [App -> status]                    job_applications
  events,         \* [App -> Seq(event)]                application_events
  preparation,    \* [App -> [status, thread]]          application_preparations
  submission,     \* [Key -> row or None]               application_review_submissions
  reviewActions,  \* [App -> Seq(status)]               action_items of type review_cv
  idempotency,    \* [operation, key -> row or None]    idempotency_records
  lock            \* [row -> holder or None]

tables == <<application, events, preparation, submission, reviewActions, idempotency>>

PreparationStatus ==
  {"starting", "awaiting_review", "completed", "failed", "outcome_unknown"}

SubmissionStatus == {"submitting", "completed", "failed", "outcome_unknown"}

Preparation ==
  [status : PreparationStatus \cup {Absent}, thread : Thread \cup {None}]

Submission ==
  [app : App, want : Decision, thread : Thread \cup {None},
   status : SubmissionStatus, outcome : ThreadStatus \cup {None}]

Event == [from : ApplicationStatus \cup {Absent}, to : ApplicationStatus, by : Call \cup {None}]

Operation == {"create", "update"}

Claim == [app : App \cup {None}, want : Wish, response : App \cup {None}]

\* A missing row is told from every row.
ASSUME NoneIsNoRow == None \notin Submission \cup Claim

Lockable == ({"application", "preparation"} \X App) \cup (Operation \X Key)

StoreTypeOK ==
  /\ application \in [App -> ApplicationStatus \cup {Absent}]
  /\ events \in [App -> Seq(Event)]
  /\ preparation \in [App -> Preparation]
  /\ submission \in [Key -> Submission \cup {None}]
  /\ reviewActions \in [App -> Seq({"pending", "completed"})]
  /\ idempotency \in [Operation \X Key -> Claim \cup {None}]
  /\ lock \in [Lockable -> Call \cup {None}]

NoPreparation == [status |-> Absent, thread |-> None]

Created(by) == [from |-> Absent, to |-> "saved", by |-> by]

StoreInit ==
  /\ application = [a \in App |-> IF a \in Seeded THEN "saved" ELSE Absent]
  /\ events = [a \in App |-> IF a \in Seeded THEN <<Created(None)>> ELSE <<>>]
  /\ preparation = [a \in App |-> NoPreparation]
  /\ submission = [k \in Key |-> None]
  /\ reviewActions = [a \in App |-> <<>>]
  /\ idempotency = [r \in Operation \X Key |-> None]
  /\ lock = [r \in Lockable |-> None]

-----------------------------------------------------------------------------
(* The unit of work.                                                       *)

ApplicationRow(a) == <<"application", a>>
PreparationRow(a) == <<"preparation", a>>

\* Mutant: SELECT without FOR UPDATE, UPDATE that ignores other sessions.
AcquireWithoutWaiting(c, row) == lock' = [lock EXCEPT ![row] = c]

\* Wait for the row and lock it.
Acquire(c, row) ==
  /\ lock[row] \in {None, c}
  /\ lock' = [lock EXCEPT ![row] = c]

\* Mutant: the session is not closed.
ReleaseNothing(c) == UNCHANGED lock

\* Commit and rollback release every lock of the session.
Release(c) == lock' = [row \in Lockable |-> IF lock[row] = c THEN None ELSE lock[row]]

\* Execute the next statement, or raise: leaving the unit of work without a
\* commit rolls back.
Proceed(c, next) ==
  /\ Goto(c, next)
  /\ IF next \in Ended THEN Release(c) ELSE UNCHANGED lock

\* Commit, and continue outside the transaction.
Commit(c, next) ==
  /\ Goto(c, next)
  /\ Release(c)

\* The plain SELECT of an application, which no lock protects.
ReadApplication(c, a, next) ==
  /\ seen' = [seen EXCEPT ![c] = application[a]]
  /\ Proceed(c, IF application[a] = Absent THEN "not_found" ELSE next)

\* The UPDATE of an application's status with the event that records it.
SaveStatus(c, a, from, to) ==
  /\ application' = [application EXCEPT ![a] = to]
  /\ events' = [events EXCEPT ![a] = Append(@, [from |-> from, to |-> to, by |-> c])]

\* Mutants: a failed or ambiguous preparation may be tried again; a starting one
\* may; every call may.
PreparedUnlessFailed(a) ==
  preparation[a].status \notin {Absent, "failed", "outcome_unknown"}
PreparedUnlessStarting(a) == preparation[a].status \notin {Absent, "starting"}
NeverPrepared(a) == FALSE

\* A preparation of the application exists: get_for_application finds it, and
\* the unique constraint refuses another.
Prepared(a) == preparation[a] # NoPreparation

\* Mutant: any answer of the engine makes the application ready.
BecomesReadyOnAnswer(c) == verdict[c] \in ThreadStatus /\ seen[c] = "preparing"

\* A finished analysis moves the application on, if it was still preparing when
\* the transaction read it.
BecomesReady(c) == verdict[c] = "completed" /\ seen[c] = "preparing"

PendingActions(a) == {i \in DOMAIN reviewActions[a] : reviewActions[a][i] = "pending"}

\* Mutant: only submissions in progress block.
UnresolvedInProgress(a) ==
  {k \in Key : submission[k] # None /\ submission[k].app = a
                 /\ submission[k].status = "submitting"}

\* Submissions that make a further review unsafe.
Unresolved(a) ==
  {k \in Key : /\ submission[k] # None
               /\ submission[k].app = a
               /\ submission[k].status \in {"submitting", "outcome_unknown"}}

\* The process dies, or the client disconnects and the coroutine is cancelled:
\* an open transaction is rolled back, what was committed and sent remains.
Crash(c) ==
  /\ Running(c)
  /\ Proceed(c, "crashed")
  /\ UNCHANGED <<tables, arg, seen, verdict, engine>>

=============================================================================
