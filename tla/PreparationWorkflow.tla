------------------------- MODULE PreparationWorkflow -------------------------
(***************************************************************************)
(* The n8n workflows "Application Preparation" and "Preparation            *)
(* Reconciliation" (n8n/workflows) as clients of the hub.  An execution    *)
(* creates the application under a key made of the request's identifier,   *)
(* prepares it, and while the preparation is starting asks again, twice at *)
(* most, through the same tool.  Preparing calls are tried again once; the *)
(* platform may send a request again.                                      *)
(*                                                                         *)
(*   stage[f]   where execution f is, or how it ended                      *)
(*   request[f] the create key made of the request's identifier            *)
(*   tool[f]    the hub's call it waits for                                *)
(*   tries[f]   how often its current node may still call                  *)
(*   subject[f] the application it was given                               *)
(*   answer[c]  the preparation's status in the result of call c           *)
(***************************************************************************)
EXTENDS HubProperties

CONSTANTS Flow, MaxTries

ASSUME TriesAreCounted == MaxTries \in Nat \ {0}

VARIABLES stage, request, tool, tries, subject, answer

flows == <<stage, request, tool, tries, subject>>
flowVars == <<vars, flows, answer>>

Asking == {"preparing", "rechecking", "final"}

\* reviewable: ends quietly; reported: Preparation Operational Failure;
\* exhausted: still starting at the last look; error: a node failed or n8n died;
\* no_route: an answer that no rule of the switch takes.
Over == {"reviewable", "reported", "exhausted", "error", "no_route"}

FlowInit ==
  /\ Init
  /\ stage = [f \in Flow |-> "idle"]
  /\ request = [f \in Flow |-> None]
  /\ tool = [f \in Flow |-> None]
  /\ tries = [f \in Flow |-> 0]
  /\ subject = [f \in Flow |-> None]
  /\ answer = [c \in PrepareCall |-> Absent]

Unused(calls) == {c \in calls : pc[c] = "idle"}

\* What a prepare call that ends now answers with: what it found, or what it
\* recorded.
Answers ==
  answer' = [c \in PrepareCall |->
    CASE pc[c] # "replayed" /\ pc'[c] = "replayed" -> preparation[arg[c].app].status
      [] pc[c] # "returned" /\ pc'[c] = "returned" -> verdict[c]
      [] OTHER                                     -> answer[c]]

\* The webhook is called.
FlowBegin(f) ==
  /\ stage[f] = "idle"
  /\ Unused(CreateCall) # {}
  /\ LET c == CHOOSE x \in Unused(CreateCall) : TRUE IN
     /\ \E a \in App, k \in Key, w \in Content :
          CreateBegin(c, a, k, w) /\ request' = [request EXCEPT ![f] = k]
     /\ tool' = [tool EXCEPT ![f] = c]
  /\ stage' = [stage EXCEPT ![f] = "creating"]
  /\ UNCHANGED <<tries, subject, answer>>

Visit(f, node) ==
  /\ stage' = [stage EXCEPT ![f] = node]
  /\ tool' = [tool EXCEPT ![f] = None]
  /\ tries' = [tries EXCEPT ![f] = IF node \in Asking THEN MaxTries ELSE 0]

ApplicationCreated(f) ==
  LET c == tool[f] IN
  /\ stage[f] = "creating"
  /\ pc[c] \in {"returned", "replayed"}
  /\ subject' = [subject EXCEPT ![f] = idempotency[<<"create", request[f]>>].response]
  /\ Visit(f, "preparing")
  /\ UNCHANGED <<vars, request, answer>>

\* Prepare Application, Recheck Preparation, Final Recheck Preparation.
Ask(f) ==
  /\ stage[f] \in Asking
  /\ tool[f] = None
  /\ tries[f] > 0
  /\ Unused(PrepareCall) # {}
  /\ LET c == CHOOSE x \in Unused(PrepareCall) : TRUE IN
     /\ PrepareBegin(c, subject[f])
     /\ tool' = [tool EXCEPT ![f] = c]
  /\ tries' = [tries EXCEPT ![f] = @ - 1]
  /\ UNCHANGED <<request, stage, subject, answer>>

\* Mutant: no rule for starting.
RouteWithoutStarting(node, status) ==
  IF status \in {"failed", "outcome_unknown"} THEN "reported" ELSE "reviewable"

\* Preparation Status, Recheck Status, Final Recheck Status and Validate
\* Reconciliation Result.
Route(node, status) ==
  IF status \in ThreadStatus THEN "reviewable"
  ELSE IF status \in {"failed", "outcome_unknown"} THEN "reported"
  ELSE CASE node = "preparing"  -> "rechecking"
         [] node = "rechecking" -> "final"
         [] node = "final"      -> "exhausted"

Answered(f) ==
  /\ stage[f] \in Asking
  /\ tool[f] # None
  /\ pc[tool[f]] \in {"returned", "replayed"}
  /\ Visit(f, Route(stage[f], answer[tool[f]]))
  /\ UNCHANGED <<vars, request, subject, answer>>

\* The call ended in an error, its answer is lost or does not come in time; a
\* node that has a try left calls again.
TryFails(f) ==
  /\ tool[f] # None
  /\ IF tries[f] > 0
       THEN tool' = [tool EXCEPT ![f] = None] /\ UNCHANGED <<stage, tries>>
       ELSE Visit(f, "error")
  /\ UNCHANGED <<vars, request, subject, answer>>

\* An error the node passes on as a result has no status for the switch.
NoRoute(f) ==
  /\ stage[f] \in Asking /\ tool[f] # None
  /\ pc[tool[f]] \in Ended \ {"returned", "replayed", "crashed"}
  /\ Visit(f, "no_route")
  /\ UNCHANGED <<vars, request, subject, answer>>

FlowDies(f) ==
  /\ stage[f] \notin Over \cup {"idle"}
  /\ Visit(f, "error")
  /\ UNCHANGED <<vars, request, subject, answer>>

FlowStep(f) == ApplicationCreated(f) \/ Ask(f) \/ Answered(f) \/ TryFails(f)

\* Calls reach the hub through the workflows only.
HubStep ==
  /\ Advance \/ EngineStep \/ \E c \in Call : Crash(c)
  /\ Answers
  /\ UNCHANGED flows

FlowNext ==
  \/ \E f \in Flow : FlowBegin(f) \/ FlowStep(f) \/ NoRoute(f) \/ FlowDies(f)
  \/ HubStep

FlowSpec == FlowInit /\ [][FlowNext]_flowVars

-----------------------------------------------------------------------------
\* However often the platform sends a request and the nodes of its executions try
\* again, one analysis is started for it (the node's comment: "Stable across
\* retries of the SAME platform request").
OneAnalysisPerRequest ==
  \A f, g \in Flow :
    request[f] # None /\ request[f] = request[g] =>
      Cardinality({c \in PrepareCall : /\ Posted(c)
                                       /\ arg[c].app \in {subject[f], subject[g]}}) <= 1

\* A workflow that ends quietly leaves an analysis its user can review or use, a
\* workflow that reports a failure reports what is recorded for good.
ReportsAreTrue ==
  \A f \in Flow :
    LET prep == preparation[subject[f]] IN
    /\ stage[f] = "reviewable" => prep.thread # None /\ thread[prep.thread] # None
    /\ stage[f] = "reported" => prep.status \in {"failed", "outcome_unknown"}

=============================================================================
