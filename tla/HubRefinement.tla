---------------------------- MODULE HubRefinement ---------------------------
(***************************************************************************)
(* The hub implements RemoteOperation twice: an analysis is an operation   *)
(* named by its application and recorded in the preparation, a review is   *)
(* one named by its idempotency key and recorded in the submission.        *)
(***************************************************************************)
EXTENDS HubProperties

AnalysisRequested(a) == \E c \in PrepareCall : Posted(c) /\ arg[c].app = a

ReviewRequested(k) == \E c \in ReviewCall : Posted(c) /\ arg[c].key = k

AnalysisState(a) ==
  CASE preparation[a].status = Absent -> "open"
    [] preparation[a].status = "starting" ->
         IF AnalysisRequested(a) THEN "requested" ELSE "claimed"
    [] preparation[a].status \in ThreadStatus -> "succeeded"
    [] preparation[a].status = "failed" -> "failed"
    [] preparation[a].status = "outcome_unknown" -> "in_doubt"

\* The analyses of applications.
Analyses == INSTANCE RemoteOperation WITH
  Operation <- App,
  Scope     <- App,
  NoScope   <- None,
  state     <- [a \in App |-> AnalysisState(a)],
  scope     <- [a \in App |-> IF Prepared(a) THEN a ELSE None],
  performed <- {a \in App : \E c \in PrepareCall : arg[c].app = a /\ thread[c] # None}

ReviewState(k) ==
  CASE submission[k] = None -> "open"
    [] HasStatus(k, "submitting") ->
         IF ReviewRequested(k) THEN "requested" ELSE "claimed"
    [] HasStatus(k, "completed") -> "succeeded"
    [] HasStatus(k, "failed") -> "failed"
    [] HasStatus(k, "outcome_unknown") -> "in_doubt"

\* The reviews of analyses.
Reviews == INSTANCE RemoteOperation WITH
  Operation <- Key,
  Scope     <- App,
  NoScope   <- None,
  state     <- [k \in Key |-> ReviewState(k)],
  scope     <- [k \in Key |-> IF submission[k] = None THEN None ELSE submission[k].app],
  performed <- {k \in Key : \E c \in applied : arg[c].key = k}

\* An analysis is requested at most once, however often it is asked for, and
\* its preparation never says more of it than is known (PrepareApplicationService).
AnalysesAreRemoteOperations == Analyses!Spec

\* A review is sent at most once per key, not while another review of the
\* application is unresolved, and its submission never says more of it than is
\* known (ReviewApplicationService).
ReviewsAreRemoteOperations == Reviews!Spec

=============================================================================
