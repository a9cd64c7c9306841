---------------------------- MODULE HubProperties ---------------------------
(***************************************************************************)
(* What the hub must guarantee, as invariants, action properties and       *)
(* liveness properties of CareerOpsHub.                                    *)
(***************************************************************************)
EXTENDS CareerOpsHub

Posted(c) == post[c] # "unsent"

Acted(c) == \E a \in App : \E i \in DOMAIN events[a] : events[a][i].by = c

HasStatus(k, status) == submission[k] # None /\ submission[k].status = status

-----------------------------------------------------------------------------
(* One request to the engine per thing the user asked for.                 *)

\* However many prepare_application calls, retries, crashes and lost answers
\* there are, at most one analysis of an application is ever requested
\* (PrepareApplicationService; ARCHITECTURE.md sections 9 and 13).
AtMostOneAnalysis ==
  \A c, d \in PrepareCall :
    Posted(c) /\ Posted(d) /\ arg[c].app = arg[d].app => c = d

\* At most one review request of an application is outstanding, the requests
\* count whose client has given up or died, since the engine may still execute
\* them (the row lock and the unresolved-submission check of
\* _start_or_replay_review).
NoOverlappingReviews ==
  \A c, d \in ReviewCall :
    post[c] = "in_flight" /\ post[d] = "in_flight" /\ arg[c].app = arg[d].app => c = d

\* A decision is never sent to an analysis that already finished, even when the
\* hub did not get to read that it had (outcome_unknown blocks further reviews).
ReviewsTargetOpenThreads ==
  \A c \in ReviewCall :
    post[c] = "in_flight" =>
      target[c] # None /\ thread[target[c]] = "awaiting_review"

\* An idempotency key sends at most one review to the engine, also when two
\* calls with the key race, for the same application or for two.
OneReviewPerKey ==
  \A c, d \in ReviewCall :
    Posted(c) /\ Posted(d) /\ arg[c].key = arg[d].key => c = d

-----------------------------------------------------------------------------
(* What is recorded is what happened.                                      *)

\* A call that reached the engine gets to record the outcome: no lost race
\* makes it fail on a constraint, or find its row in a state the service calls
\* impossible ("disappeared", "no longer in the starting state").
OutcomesAreRecorded ==
  \A c \in Call :
    /\ pc[c] \notin {"inconsistent", "replay_unavailable"}
    /\ Posted(c) => Running(c) \/ pc[c] \in {"returned", "agent_error", "crashed"}

\* The preparation row never claims more than the engine knows: it is completed
\* or failed only if the analysis is, and while no review is unresolved an
\* analysis awaiting review in the database awaits it in the engine.
PreparationMatchesEngine ==
  \A a \in App :
    LET prep == preparation[a] IN
    /\ prep.thread # None => arg[prep.thread].app = a
    /\ prep.status = "completed" => thread[prep.thread] = "completed"
    /\ prep.status = "awaiting_review" /\ Unresolved(a) = {} =>
         thread[prep.thread] = "awaiting_review"
    /\ prep.status = "failed" =>
         \A c \in PrepareCall : arg[c].app = a => thread[c] = None

\* The rows written by different transactions agree: one review action is
\* pending exactly while the preparation awaits review, and a preparation has a
\* finished review exactly if it went through review and completed.
RowsAgree ==
  \A a \in App :
    LET prep     == preparation[a]
        finished == {k \in Key : /\ HasStatus(k, "completed")
                                 /\ submission[k].app = a
                                 /\ submission[k].outcome = "completed"} IN
    /\ Cardinality(PendingActions(a)) = IF prep.status = "awaiting_review" THEN 1 ELSE 0
    /\ Cardinality(finished) =
         IF prep.status = "completed" /\ reviewActions[a] # <<>> THEN 1 ELSE 0

\* While the outcome of a review is unknown nothing is sent to the analysis and
\* the record of the doubt stays.
DoubtBlocksReviews ==
  [][\A k \in Key : HasStatus(k, "outcome_unknown") =>
       /\ submission'[k] = submission[k]
       /\ \A c \in ReviewCall :
            arg[c].app = submission[k].app /\ ~Posted(c) => post'[c] = "unsent"]_vars

\* An update key changes an application at most once, and a create key creates
\* at most one application: a retry replays.  The events, which no later write
\* removes, are the witnesses.
KeysActOnce ==
  \A calls \in {UpdateCall, CreateCall} : \A c, d \in calls :
    Acted(c) /\ Acted(d) /\ arg[c].key = arg[d].key => c = d

\* What a retry is answered really happened: every committed claim carries its
\* response, an application that an event of a call with this key and this
\* request produced.
ClaimsAreWitnessed ==
  \A op \in Operation, k \in Key :
    LET row == idempotency[<<op, k>>] IN
    row # None =>
      /\ row.response # None
      /\ \E c \in Call : /\ arg[c] = [app |-> row.response, key |-> k, want |-> row.want]
                         /\ \E i \in DOMAIN events[row.response] :
                              events[row.response][i].by = c

-----------------------------------------------------------------------------
(* The lifecycle.                                                          *)

\* An application only ever moves along the transitions of the domain model.
LegalTransitions ==
  [][\A a \in App :
       application'[a] # application[a] =>
         \/ application[a] = Absent /\ application'[a] = "saved"
         \/ ValidTransition(application[a], application'[a])]_vars

\* The events of an application form a chain: each starts from the status the
\* one before it reached.
EventsFormAChain ==
  \A a \in App : \A i \in 2..Len(events[a]) : events[a][i].from = events[a][i - 1].to

\* An application whose analysis awaits a human review stays in preparing, or
\* has been given up (ARCHITECTURE.md section 11).
ReviewGatesReadiness ==
  \A a \in App :
    preparation[a].status = "awaiting_review" =>
      application[a] \in {"preparing", "withdrawn", "closed"}

-----------------------------------------------------------------------------
(* Recovery.                                                               *)

\* An ambiguous preparation whose analysis exists in the engine can be
\* recovered by get_application_analysis (ARCHITECTURE.md section 10).
AmbiguousAnalysisIsRecoverable ==
  [][\A g \in ReadCall :
       pc[g] = "read:find" /\ pc'[g] = "unavailable" =>
         ~ /\ preparation[arg[g].app].status = "outcome_unknown"
           /\ \E c \in PrepareCall : arg[c].app = arg[g].app /\ thread[c] # None]_vars

-----------------------------------------------------------------------------
(* Progress.                                                               *)

\* Every call that begins ends: no two transactions wait for each other's rows
\* and no wait for the engine is unbounded.
CallsEnd == \A c \in Call : Running(c) ~> pc[c] \in Ended

\* A preparation leaves starting unless the call that owns it dies.
PreparationsSettle ==
  \A c \in PrepareCall, a \in App :
    pc[c] = "prepare:post" /\ arg[c].app = a ~>
      pc[c] = "crashed" \/ preparation[a].status # "starting"

\* A submission leaves submitting unless the call that owns it dies.
SubmissionsSettle ==
  \A c \in ReviewCall, k \in Key :
    pc[c] = "review:post" /\ arg[c].key = k ~>
      pc[c] = "crashed" \/ ~HasStatus(k, "submitting")

=============================================================================
