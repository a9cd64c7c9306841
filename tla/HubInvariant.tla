---------------------------- MODULE HubInvariant ----------------------------
(***************************************************************************)
(* The inductive invariants behind the properties: what must be known of   *)
(* every call in progress for a step to preserve them.                     *)
(***************************************************************************)
EXTENDS HubProperties

\* Control states after the answer of the engine was read or given up.
ConcludedPC ==
  {"prepare:read_application", "prepare:require_starting",
   "prepare:save_ready", "prepare:save",
   "review:lock_again", "review:read_application",
   "review:require_submitting", "review:save_ready", "review:save"}

\* Control states of a review whose submission is stored.
SubmittedPC ==
  {"review:post", "review:await", "review:lock_again",
   "review:read_application", "review:require_submitting",
   "review:save_ready", "review:save"}

\* A call that has begun has the arguments of its service.
ArgumentsGiven ==
  \A c \in Call : pc[c] # "idle" =>
    /\ arg[c].app \in App
    /\ c \in ReviewCall => arg[c].key \in Key /\ arg[c].want \in Decision
    /\ c \in UpdateCall => arg[c].key \in Key /\ arg[c].want \in Target
    /\ c \in CreateCall => arg[c].key \in Key /\ arg[c].want \in Content

VerdictGiven == \A c \in Call : pc[c] \in ConcludedPC => verdict[c] \in Verdict

SubmissionStored ==
  \A c \in ReviewCall : pc[c] \in SubmittedPC => submission[arg[c].key] # None

ThreadFound == \A c \in ReadCall : pc[c] = "read:get" => target[c] \in Thread

\* Type correctness is inductive together with what the calls know.
TypeInv ==
  /\ TypeOK
  /\ ArgumentsGiven
  /\ VerdictGiven
  /\ SubmissionStored
  /\ ThreadFound

-----------------------------------------------------------------------------

\* The call has inserted its application's preparation and will request, or has
\* requested, the analysis.
Owns(c) == pc[c] = "prepare:post" \/ Posted(c)

\* The row a call inserts outlives it and keeps every other call from owning
\* the analysis; a call that has not begun has requested nothing.
AnalysisInv ==
  /\ \A c \in PrepareCall : pc[c] = "idle" => ~Posted(c)
  /\ \A c \in PrepareCall : Owns(c) => Prepared(arg[c].app)
  /\ \A c, d \in PrepareCall : Owns(c) /\ Owns(d) /\ arg[c].app = arg[d].app => c = d

-----------------------------------------------------------------------------

\* The review call has stored its submission and will send, or has sent, the
\* decision.
Sends(c) == pc[c] = "review:post" \/ Posted(c)

UnresolvedStatus == {"submitting", "outcome_unknown"}

Pending(k) == submission[k] # None /\ submission[k].status \in UnresolvedStatus

\* What a review call knows of its submission, and what the row lock it holds
\* between its checks and the INSERT keeps true.
ReviewKnows(c) ==
  LET a   == arg[c].app
      row == submission[arg[c].key] IN
  /\ pc[c] = "idle" => ~Posted(c)
  /\ pc[c] \in SubmittedPC => Sends(c) /\ row.status = "submitting"
  /\ Sends(c) => row # None /\ row.app = a
  /\ post[c] = "in_flight" => row.status \in UnresolvedStatus
  /\ post[c] = "in_flight" /\ pc[c] \in ConcludedPC => verdict[c] = "outcome_unknown"
  /\ pc[c] \in {"review:recheck", "review:find_unresolved", "review:add"} =>
       lock[PreparationRow(a)] = c
  /\ pc[c] = "review:add" => Unresolved(a) = {}

\* A key has one sender, an application one submission that is unresolved.
ReviewInv ==
  /\ \A c \in ReviewCall : ReviewKnows(c)
  /\ \A c, d \in ReviewCall : Sends(c) /\ Sends(d) /\ arg[c].key = arg[d].key => c = d
  /\ \A k, l \in Key :
       Pending(k) /\ Pending(l) /\ submission[k].app = submission[l].app => k = l

-----------------------------------------------------------------------------

\* Control states of a call that has sent nothing yet.
UnsentPC ==
  {"idle", "prepare:find", "prepare:save_application", "prepare:add", "prepare:post",
   "review:find_key", "review:lock", "review:recheck", "review:find_unresolved",
   "review:add", "review:post"}

\* Control states of the call that owns an analysis.
OwnerPC ==
  {"prepare:post", "prepare:await", "prepare:read_application",
   "prepare:require_starting", "prepare:save_ready", "prepare:save"}

\* The engine has carried out what the call sent.
PerformedFor(c) == IF c \in PrepareCall THEN thread[c] # None ELSE c \in applied

\* An exchange passes its stages once, and what the call concludes is what the
\* answer says.
ExchangeKnows(c) ==
  /\ pc[c] \in UnsentPC => ~Posted(c)
  /\ PerformedFor(c) => Posted(c) /\ post[c] # "in_flight"
  /\ post[c] \in ThreadStatus => PerformedFor(c)
  /\ post[c] \in {"rejected", "conflict"} => ~PerformedFor(c)
  /\ pc[c] \in ConcludedPC /\ verdict[c] \in ThreadStatus => post[c] = verdict[c]
  /\ pc[c] \in ConcludedPC /\ verdict[c] = "failed" => post[c] = "rejected"

ExchangeInv ==
  /\ \A c \in PrepareCall \cup ReviewCall : ExchangeKnows(c)
  /\ \A c \in UpdateCall \cup CreateCall \cup ReadCall : ~Posted(c)

\* The row is as its owner inserted it until the owner saves it, and as long as
\* the analysis may still be carried out nothing is claimed of it.
OwnerKnows(c) ==
  LET row == preparation[arg[c].app] IN
  /\ pc[c] \in OwnerPC => Owns(c) /\ row = [status |-> "starting", thread |-> None]
  /\ pc[c] \in OwnerPC /\ post[c] \in ThreadStatus => thread[c] = post[c]
  /\ post[c] = "in_flight" => row.status \in {"starting", "outcome_unknown"}

\* What a preparation says of its analysis.
PreparationKnows(a) ==
  LET row == preparation[a] IN
  /\ row.thread # None <=> row.status \in ThreadStatus
  /\ row.thread # None => thread[row.thread] # None /\ arg[row.thread].app = a
  /\ row.status = "completed" => thread[row.thread] = "completed"
  /\ row.status = "failed" =>
       \A c \in PrepareCall : arg[c].app = a => thread[c] = None /\ post[c] # "in_flight"

\* What a submission says of the analysis it is about: while it is unresolved the
\* preparation waits for a review.
SubmissionKnows(k) ==
  LET row == submission[k] IN
  row # None =>
    /\ row.thread # None /\ preparation[row.app].thread = row.thread
    /\ row.status \in UnresolvedStatus => preparation[row.app].status = "awaiting_review"

\* What the sender of a review knows of the analysis, and what the row lock it
\* holds keeps true.
SenderKnows(c) ==
  LET a   == arg[c].app
      row == submission[arg[c].key] IN
  /\ Posted(c) => target[c] = row.thread
  /\ post[c] = "completed" /\ row.status = "submitting" => thread[row.thread] = "completed"
  /\ pc[c] \in {"review:find_unresolved", "review:add"} =>
       preparation[a].status = "awaiting_review"
  /\ pc[c] \in {"review:read_application", "review:require_submitting",
                "review:save_ready", "review:save"} /\ verdict[c] \in ThreadStatus =>
       lock[PreparationRow(a)] = c

RecordInv ==
  /\ \A c \in PrepareCall : OwnerKnows(c)
  /\ \A a \in App : PreparationKnows(a)
  /\ \A k \in Key : SubmissionKnows(k)
  /\ \A c \in ReviewCall : SenderKnows(c)

-----------------------------------------------------------------------------

\* An analysis that no review is under way for waits for one, and a review that
\* is under way keeps it waiting until the engine has carried the review out: as
\* long as nobody else decides its reviews.
WaitsForReview(a) ==
  preparation[a].status = "awaiting_review" /\ Unresolved(a) = {} =>
    thread[preparation[a].thread] = "awaiting_review"

WaitsForSubmission(k) ==
  Pending(k) => \/ thread[submission[k].thread] = "awaiting_review"
                \/ \E c \in applied : arg[c].key = k

\* What the engine answered a review is what became of its analysis.
AnswerIsCurrent(c) ==
  LET row == submission[arg[c].key] IN
  post[c] \in ThreadStatus /\ row.status = "submitting" => thread[row.thread] = post[c]

WaitingInv ==
  /\ \A a \in App : WaitsForReview(a)
  /\ \A k \in Key : WaitsForSubmission(k)
  /\ \A c \in ReviewCall : AnswerIsCurrent(c)

-----------------------------------------------------------------------------

\* The application of a call in progress exists, and a claim carries a response.
OutcomeInv ==
  /\ OutcomesAreRecorded
  /\ \A c \in PrepareCall \cup ReviewCall : Running(c) => application[arg[c].app] # Absent
  /\ \A r \in Operation \X Key : idempotency[r] # None => idempotency[r].response # None

-----------------------------------------------------------------------------

\* The call is the author of an event of the application.
ActedOn(c, a) == \E i \in DOMAIN events[a] : events[a][i].by = c

SavingPC == {"update:save", "create:save"}

\* The claim of an update or create call.
ClaimRow(c) == <<IF c \in UpdateCall THEN "update" ELSE "create", arg[c].key>>

\* What an update or create call knows of its claim: nobody completes it before
\* the call does, and an acted call has completed it.
ClaimKnows(c) ==
  /\ pc[c] \in SavingPC => lock[ClaimRow(c)] = c /\ idempotency[ClaimRow(c)] = None
  /\ Acted(c) => idempotency[ClaimRow(c)] # None

ClaimInv ==
  /\ \A c \in Call : Acted(c) => pc[c] # "idle"
  /\ \A c \in UpdateCall \cup CreateCall : ClaimKnows(c)
  /\ KeysActOnce
  /\ ClaimsAreWitnessed

-----------------------------------------------------------------------------

\* The review submissions of the application that finished its analysis.
FinishedReviews(a) ==
  {k \in Key : /\ HasStatus(k, "completed")
               /\ submission[k].app = a
               /\ submission[k].outcome = "completed"}

\* A preparation has one review action if it went through review, none before
\* and none otherwise; the submission that completed it completed the action.
ReviewRowsKnow(a) ==
  LET status == preparation[a].status IN
  /\ reviewActions[a] \in {<<>>, <<"pending">>, <<"completed">>}
  /\ reviewActions[a] = <<"pending">> <=> status = "awaiting_review"
  /\ reviewActions[a] = <<"completed">> => status = "completed"
  /\ IF reviewActions[a] = <<"completed">>
       THEN \E k \in Key : FinishedReviews(a) = {k}
       ELSE FinishedReviews(a) = {}

RowsInv == \A a \in App : ReviewRowsKnow(a)

-----------------------------------------------------------------------------

\* An application is ready only if its preparation is completed, as long as no
\* client declares it ready.
ReadyInv ==
  \A a \in App : application[a] = "ready_to_apply" => preparation[a].status = "completed"

-----------------------------------------------------------------------------

\* A submission asks for what its sender asks for, and one that is recorded as
\* completed was carried out, for a call that asked for it.
WitnessInv ==
  /\ \A c \in ReviewCall : Sends(c) => submission[arg[c].key].want = arg[c].want
  /\ \A k \in Key : HasStatus(k, "completed") =>
       \E c \in applied :
         arg[c] = [app |-> submission[k].app, key |-> k, want |-> submission[k].want]

-----------------------------------------------------------------------------
(* The lifecycle, where no client sets the status itself.                  *)

StatusUntouched == UpdateCall = {}

\* The preparation of an application decides its status.
StatusFollows(a) ==
  IF Prepared(a)
    THEN application[a] =
           IF preparation[a].status = "completed" THEN "ready_to_apply" ELSE "preparing"
    ELSE application[a] \in {Absent, "saved"}

\* The last event of an application tells its status.
EventsTell(a) ==
  IF application[a] = Absent THEN events[a] = <<>>
  ELSE events[a] # <<>> /\ events[a][Len(events[a])].to = application[a]

ReadyingPC ==
  {"prepare:require_starting", "prepare:save_ready", "prepare:save",
   "review:require_submitting", "review:save_ready", "review:save"}

\* What a call read of the application is what its preparation makes of it.
ReaderKnows(c) ==
  /\ pc[c] \in {"prepare:find", "prepare:save_application", "prepare:add"} /\ seen[c] = "preparing" =>
       Prepared(arg[c].app)
  /\ pc[c] = "prepare:save_application" => seen[c] = "saved"
  /\ pc[c] = "prepare:add" => seen[c] \in {"saved", "preparing"}
  /\ pc[c] \in ReadyingPC /\ verdict[c] \in ThreadStatus => seen[c] = "preparing"

\* An identifier is drawn once, and names no application before the call that
\* drew it saves one.
CreatorKnows(c) ==
  /\ pc[c] \in CreatePC => application[arg[c].app] = Absent
  /\ pc[c] # "idle" => \A d \in CreateCall \ {c} : arg[d].app # arg[c].app

LifecycleInv ==
  /\ \A a \in App : StatusFollows(a) /\ EventsTell(a)
  /\ \A c \in PrepareCall \cup ReviewCall : ReaderKnows(c)
  /\ \A c \in CreateCall : CreatorKnows(c)
  /\ EventsFormAChain

=============================================================================
