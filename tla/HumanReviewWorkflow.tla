------------------------- MODULE HumanReviewWorkflow -------------------------
(***************************************************************************)
(* The n8n workflow "Human Review" as a client of the hub.  A request names *)
(* an application, a decision and the proposals its reviewer was shown; the *)
(* workflow reads the analysis, stops if the proposals are no longer those, *)
(* and otherwise calls review_application under a key made of the request's *)
(* identifier, once more if the call fails.  Every decision the engine     *)
(* executes rewrites the proposals, which their revision stands for.       *)
(*                                                                         *)
(*   stage[f], tool[f], tries[f]  as in PreparationWorkflow                *)
(*   wanted[f]    the request                                              *)
(*   looked[f]    the revision its look found, 0 when the analysis was over *)
(*   owner[c]     the execution that made call c                           *)
(*   revision[t]  the revision of the proposals of thread t in the engine  *)
(*   shown[c]     what the read c returned, 0 when the analysis was over   *)
(*   result[c]    the submission's status in the result of review call c   *)
(***************************************************************************)
EXTENDS HubProperties

CONSTANTS Flow, MaxTries

ASSUME TriesAreCounted == MaxTries \in Nat \ {0}

VARIABLES stage, tool, tries, wanted, looked, owner, revision, shown, result

flows == <<stage, tool, tries, wanted, looked, owner>>
outside == <<revision, shown, result>>
flowVars == <<vars, flows, outside>>

\* stale: the proposals are not those shown; reported: Review Operational
\* Failure; error: a node failed or n8n died.
Over == {"reviewed", "reported", "stale", "error"}

FlowInit ==
  /\ Init
  /\ stage = [f \in Flow |-> "idle"]
  /\ tool = [f \in Flow |-> None]
  /\ tries = [f \in Flow |-> 0]
  /\ wanted = [f \in Flow |-> None]
  /\ looked = [f \in Flow |-> 0]
  /\ owner = [c \in ReviewCall |-> None]
  /\ revision = [t \in Thread |-> 0]
  /\ shown = [c \in ReadCall |-> 0]
  /\ result = [c \in ReviewCall |-> Absent]

Unused(calls) == {c \in calls : pc[c] = "idle"}

\* The proposals as decisions rewrite them, those a read returns, and the row a
\* review call answers with.
Observe ==
  /\ revision' = [t \in Thread |->
       IF \/ thread[t] = None /\ thread'[t] # None
          \/ \E c \in applied' \ applied : target[c] = t
         THEN revision[t] + 1 ELSE revision[t]]
  /\ shown' = [c \in ReadCall |->
       IF pc[c] = "read:get" /\ pc'[c] = "returned" /\ thread[target[c]] = "awaiting_review"
         THEN revision[target[c]] ELSE shown[c]]
  /\ result' = [c \in ReviewCall |->
       IF pc[c] \notin Ended /\ pc'[c] \in {"returned", "replayed"}
         THEN submission'[arg[c].key].status ELSE result[c]]

\* The webhook is called about an analysis somebody has seen; Get Current
\* Analysis.
FlowBegin(f) ==
  /\ stage[f] = "idle"
  /\ Unused(ReadCall) # {}
  /\ \E a \in App, k \in Key, d \in Decision :
       LET t == preparation[a].thread
           c == CHOOSE x \in Unused(ReadCall) : TRUE IN
       /\ t # None
       /\ \E v \in 1..revision[t] :
            wanted' = [wanted EXCEPT ![f] = [app |-> a, key |-> k, want |-> d, revision |-> v]]
       /\ ReadBegin(c, a)
       /\ tool' = [tool EXCEPT ![f] = c]
  /\ stage' = [stage EXCEPT ![f] = "looking"]
  /\ UNCHANGED <<tries, looked, owner, outside>>

\* Mutant: the proposals are not compared.
ValidateNothing(f, v) == "reviewing"

\* Validate Current Review State: a finished analysis passes, so that the hub
\* may replay what was decided.
Validate(f, v) == IF v \in {0, wanted[f].revision} THEN "reviewing" ELSE "stale"

Looked(f) ==
  /\ stage[f] = "looking"
  /\ pc[tool[f]] = "returned"
  /\ stage' = [stage EXCEPT ![f] = Validate(f, shown[tool[f]])]
  /\ looked' = [looked EXCEPT ![f] = shown[tool[f]]]
  /\ tool' = [tool EXCEPT ![f] = None]
  /\ tries' = [tries EXCEPT ![f] = MaxTries]
  /\ UNCHANGED <<vars, wanted, owner, outside>>

\* Review Application.
Decide(f) ==
  /\ stage[f] = "reviewing"
  /\ tool[f] = None
  /\ tries[f] > 0
  /\ Unused(ReviewCall) # {}
  /\ LET c == CHOOSE x \in Unused(ReviewCall) : TRUE IN
     /\ ReviewBegin(c, wanted[f].app, wanted[f].key, wanted[f].want)
     /\ tool' = [tool EXCEPT ![f] = c]
     /\ owner' = [owner EXCEPT ![c] = f]
  /\ tries' = [tries EXCEPT ![f] = @ - 1]
  /\ UNCHANGED <<stage, wanted, looked, outside>>

\* Mutant: whatever is not a failure is a success.
NormalizeOptimistically(status) ==
  IF status \in {"failed", "outcome_unknown"} THEN "reported" ELSE "reviewed"

\* Normalize Review Result and Review Outcome: a submission still in progress is
\* an unexpected result.
Normalize(status) ==
  CASE status = "completed"                   -> "reviewed"
    [] status \in {"failed", "outcome_unknown"} -> "reported"
    [] OTHER                                  -> "error"

Decided(f) ==
  /\ stage[f] = "reviewing"
  /\ tool[f] # None
  /\ pc[tool[f]] \in {"returned", "replayed"}
  /\ stage' = [stage EXCEPT ![f] = Normalize(result[tool[f]])]
  /\ UNCHANGED <<vars, tool, tries, wanted, looked, owner, outside>>

\* The call ended in an error, or its answer is lost or late; or the execution
\* dies, or the decision is none the analysis allows.
TryFails(f) ==
  /\ stage[f] \in {"looking", "reviewing"}
  /\ \/ /\ tool[f] # None /\ tries[f] > 0
        /\ tool' = [tool EXCEPT ![f] = None]
        /\ UNCHANGED stage
     \/ /\ stage' = [stage EXCEPT ![f] = "error"]
        /\ UNCHANGED tool
  /\ UNCHANGED <<vars, tries, wanted, looked, owner, outside>>

\* Reviews reach the hub through the workflow only.
HubStep ==
  /\ \/ \E c \in PrepareCall, a \in App : PrepareBegin(c, a)
     \/ Advance
     \/ EngineStep
     \/ \E c \in Call : Crash(c)
  /\ Observe
  /\ UNCHANGED flows

FlowNext ==
  \/ \E f \in Flow : FlowBegin(f) \/ Looked(f) \/ Decide(f) \/ Decided(f) \/ TryFails(f)
  \/ HubStep

FlowSpec == FlowInit /\ [][FlowNext]_flowVars

-----------------------------------------------------------------------------
\* A decision is sent only if its workflow, when it looked, found the proposals
\* its reviewer was shown; one that found the analysis over sends nothing, since
\* the hub, whose rows may not know yet, refuses or replays it.
StaleDecisionsAreStopped ==
  \A c \in ReviewCall : Posted(c) => looked[owner[c]] = wanted[owner[c]].revision

\* An execution that reports a review done had its decision carried out by the
\* engine, in this execution or in an earlier one of the same request.
ReportedReviewsHappened ==
  \A f \in Flow :
    stage[f] = "reviewed" =>
      \E c \in applied : arg[c] = [app |-> wanted[f].app, key |-> wanted[f].key,
                                   want |-> wanted[f].want]

=============================================================================
