---------------------------- MODULE DirectReviews ----------------------------
(***************************************************************************)
(* The hub beside the standalone review operation: the MCP tool            *)
(* review_job_analysis and the REST route of the same name send a decision *)
(* to any thread of the caller's (application/services/job_cv_gateway.py), *)
(* the thread of a tracked application included, and touch no row of the   *)
(* hub.  The tracked services are not told.                                *)
(***************************************************************************)
EXTENDS HubProperties

\* The thread of a tracked application is in its preparation, which
\* prepare_application shows to the client.
Disclosed(t) == \E a \in App : preparation[a].thread = t

\* The engine takes a decision that did not come through ReviewApplication.
DirectReview(t) ==
  /\ Disclosed(t)
  /\ thread[t] = "awaiting_review"
  /\ thread' = [thread EXCEPT ![t] = "completed"]
  /\ UNCHANGED <<pc, arg, seen, verdict, post, target, applied, tables, lock>>

DirectNext == Next \/ \E t \in Thread : DirectReview(t)

DirectSpec == Init /\ [][DirectNext]_vars

FairDirectSpec == DirectSpec /\ Fairness

-----------------------------------------------------------------------------
\* A completed preparation has a completed analysis behind it, and an
\* application became ready only by one, whoever decided the review
\* (prepare_application._record_success, review_application._record_success).
CompletionIsEarned ==
  \A a \in App :
    preparation[a].status = "completed" \/ application[a] = "ready_to_apply" =>
      preparation[a].thread # None /\ thread[preparation[a].thread] = "completed"

=============================================================================
