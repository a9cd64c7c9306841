-------------------------- MODULE PreparationProofs --------------------------
(***************************************************************************)
(* The preparation workflow, for any executions, calls and applications.   *)
(* The workflow takes only steps the hub allows its clients, so what is    *)
(* proved of the hub holds under it; and an execution knows of the rows    *)
(* what does not change any more: the response of a committed claim, and a *)
(* preparation that has left starting (FlowInv).                           *)
(***************************************************************************)
EXTENDS PreparationWorkflow, HubLifecycleProofs

USE DEF Call

-----------------------------------------------------------------------------
(* The inductive invariant.                                                *)

FlowTypeOK ==
  /\ stage \in [Flow -> {"idle", "creating"} \cup Asking \cup Over]
  /\ request \in [Flow -> Key \cup {None}]
  /\ tool \in [Flow -> PrepareCall \cup CreateCall \cup {None}]
  /\ tries \in [Flow -> Nat]
  /\ subject \in [Flow -> App \cup {None}]

\* A create call that answered has a committed claim.
CreatedKnows(c) ==
  pc[c] \in {"returned", "replayed"} => idempotency[<<"create", arg[c].key>>] # None

\* The preparation is still what a prepare call answered, unless it was starting.
AnswerKnows(c) ==
  LET status == preparation[arg[c].app].status IN
  pc[c] \in {"returned", "replayed"} =>
    /\ answer[c] \in ThreadStatus => status \in ThreadStatus
    /\ answer[c] \in {"failed", "outcome_unknown"} => status = answer[c]

\* What execution f knows of its call, of the application it was given, and of
\* how its preparation ended.
FlowKnows(f) ==
  /\ stage[f] = "idle" => request[f] = None
  /\ stage[f] \in {"idle", "creating"} => subject[f] = None /\ tries[f] = 0
  /\ stage[f] = "creating" =>
       tool[f] \in CreateCall /\ arg[tool[f]].key = request[f] /\ pc[tool[f]] # "idle"
  /\ stage[f] \in Asking =>
       /\ subject[f] \in App
       /\ tool[f] # None =>
            tool[f] \in PrepareCall /\ arg[tool[f]].app = subject[f] /\ pc[tool[f]] # "idle"
  /\ subject[f] # None =>
       LET row == idempotency[<<"create", request[f]>>] IN
       request[f] \in Key /\ row # None /\ row.response = subject[f]
  /\ stage[f] \in {"reviewable", "reported"} => subject[f] \in App
  /\ stage[f] = "reviewable" => preparation[subject[f]].status \in ThreadStatus
  /\ stage[f] = "reported" => preparation[subject[f]].status \in {"failed", "outcome_unknown"}

FlowInv ==
  /\ FlowTypeOK
  /\ \A c \in CreateCall : CreatedKnows(c)
  /\ \A c \in PrepareCall : AnswerKnows(c)
  /\ \A f \in Flow : FlowKnows(f)

-----------------------------------------------------------------------------
(* The workflow uses the hub as its clients do.                            *)

\* A call that an execution takes has not been used.
LEMMA UnusedIsIdle ==
  ASSUME NEW calls, Unused(calls) # {}
  PROVE  LET c == CHOOSE x \in Unused(calls) : TRUE IN c \in calls /\ pc[c] = "idle"
BY DEF Unused

\* A step of the workflow is a step of the hub or leaves it alone.
LEMMA FlowStepsAreHubSteps ==
  ASSUME FlowInv, [FlowNext]_flowVars
  PROVE  [Next]_vars
<1>1. ASSUME NEW f \in Flow, FlowBegin(f) PROVE Next
  <2>. DEFINE c == CHOOSE x \in Unused(CreateCall) : TRUE
  <2>1. c \in CreateCall
    BY <1>1, UnusedIsIdle DEF FlowBegin
  <2>2. \E a \in App, k \in Key, w \in Content : CreateBegin(c, a, k, w)
    BY <1>1 DEF FlowBegin
  <2>. HIDE DEF c
  <2> QED
    BY <2>1, <2>2 DEF Next, Arrive
<1>2. ASSUME NEW f \in Flow, Ask(f) PROVE Next
  <2>. DEFINE c == CHOOSE x \in Unused(PrepareCall) : TRUE
  <2>1. c \in PrepareCall /\ subject[f] \in App
    BY <1>2, UnusedIsIdle DEF Ask, FlowInv, FlowKnows
  <2>2. PrepareBegin(c, subject[f])
    BY <1>2 DEF Ask
  <2>. HIDE DEF c
  <2> QED
    BY <2>1, <2>2 DEF Next, Arrive
<1>3. HubStep => Next
  BY DEF HubStep, Next
<1>4. ASSUME NEW f \in Flow, ApplicationCreated(f) \/ Answered(f) \/ TryFails(f) \/ NoRoute(f) \/ FlowDies(f)
      PROVE  UNCHANGED vars
  BY <1>4 DEF ApplicationCreated, Answered, TryFails, NoRoute, FlowDies
<1>5. UNCHANGED flowVars => UNCHANGED vars
  BY DEF flowVars
<1> QED
  BY <1>1, <1>2, <1>3, <1>4, <1>5 DEF FlowNext, FlowStep

-----------------------------------------------------------------------------
(* What the calls know.                                                    *)

\* A claim with its response is a row.
LEMMA ClaimIsARow ==
  ASSUME NEW a, NEW w \in Wish, NEW x \in App, a \in App \cup {None}
  PROVE  [app |-> a, want |-> w, response |-> x] # None
BY NoneIsNoRow DEF Claim

\* A created application keeps its claim.
LEMMA CreatedKept ==
  ASSUME HubInv, [Next]_vars, NEW c \in CreateCall, CreatedKnows(c)
  PROVE  CreatedKnows(c)'
<1>. DEFINE r == <<"create", arg[c].key>>
<1>1. pc[c] # "idle" => arg[c].key \in Key /\ r \in Operation \X Key /\ arg[c].app \in App /\ arg[c].want \in Content
  BY Begun DEF HubInv, EngineInv, CallsInv, Operation
<1>2. CASE pc'[c] = pc[c]
  <2>1. pc[c] \in {"returned", "replayed"} =>
          arg'[c] = arg[c] /\ idempotency[r] # None /\ idempotency'[r] = idempotency[r]
    BY <1>1, CallsStand, ClaimsStand DEF CreatedKnows
  <2> QED
    BY <1>2, <2>1 DEF CreatedKnows
<1>3. CASE pc'[c] # pc[c]
  <2>1. pc \in [Call -> PC] /\ c \in Call
    BY DEF HubInv, EngineInv, CallsInv, TypeInv, TypeOK, CallTypeOK
  <2>2. CASE CreateStep(c)
    <3>1. CASE CreateReplay(c)
      BY <1>1, <3>1 DEF CreateReplay, CreatedKnows, tables
    <3>2. CASE CreateClaim(c)
      BY <2>1, <3>2 DEF CreateClaim, Goto, CreatedKnows
    <3>3. CASE CreateSave(c)
      <4>1. idempotency'[r] = [app |-> None, want |-> arg[c].want, response |-> arg[c].app]
        BY <1>1, <3>3 DEF CreateSave, CompleteClaim, HubInv, EngineInv, CallsInv, TypeInv, TypeOK,
           StoreTypeOK
      <4>2. idempotency'[r] # None
        BY <1>1, <3>3, <4>1, ClaimIsARow DEF CreateSave, Wish
      <4> QED
        BY <3>3, <4>2 DEF CreateSave, CreatedKnows
    <3> QED
      BY <2>2, <3>1, <3>2, <3>3 DEF CreateStep
  <2>3. CASE \E a \in App, k \in Key, w \in Content : CreateBegin(c, a, k, w)
    BY <2>1, <2>3 DEF CreateBegin, Goto, CreatedKnows
  <2>4. CASE Crash(c)
    BY <2>1, <2>4 DEF Crash, Proceed, Goto, CreatedKnows
  <2> QED
    BY <1>3, <2>1, <2>2, <2>3, <2>4, MovesAreOwn, CallsAreDistinct
<1> QED
  BY <1>2, <1>3

\* A call that is answered now answers with the status of the preparation it
\* found, or with the one it recorded.
LEMMA AnswerKept ==
  ASSUME HubInv, [Next]_vars, NEW c \in PrepareCall, AnswerKnows(c),
         Answers \/ (UNCHANGED answer /\ (UNCHANGED vars \/ Arrive))
  PROVE  AnswerKnows(c)'
<1>. DEFINE a == arg[c].app
<1>1. c \in Call /\ pc \in [Call -> PC]
  BY DEF HubInv, EngineInv, CallsInv, TypeInv, TypeOK, CallTypeOK
<1>2. pc[c] # "idle" => a \in App /\ arg'[c] = arg[c]
  BY <1>1, CallsStand, Begun DEF HubInv, EngineInv, CallsInv
<1>3. CASE pc'[c] = pc[c]
  <2>1. answer'[c] = answer[c]
    BY <1>3 DEF Answers
  <2>2. pc[c] \in {"returned", "replayed"} =>
          /\ preparation[a].status \in ThreadStatus => preparation'[a].status \in ThreadStatus
          /\ preparation[a].status \in {"failed", "outcome_unknown"} =>
               preparation'[a].status = preparation[a].status
    BY <1>2, PreparationsStand
  <2> QED
    BY <1>2, <1>3, <2>1, <2>2 DEF AnswerKnows
<1>4. CASE pc'[c] # pc[c] /\ \E b \in App : PrepareBegin(c, b)
  BY <1>1, <1>4 DEF PrepareBegin, ReadApplication, Proceed, Goto, AnswerKnows
<1>5. CASE pc'[c] # pc[c] /\ Crash(c)
  BY <1>1, <1>5 DEF Crash, Proceed, Goto, AnswerKnows
<1>6. CASE pc'[c] # pc[c] /\ PrepareStep(c)
  <2>1. Answers
    <3>1. ~UNCHANGED vars /\ pc[c] # "idle"
      BY <1>6 DEF vars, PrepareStep, PrepareFind, PrepareSaveApplication, PrepareAddFails, PrepareAdd,
         PreparePost, PrepareAnswer, PrepareReadApplication, PrepareRequireStarting, PrepareSaveReady,
         PrepareSave
    <3>2. ASSUME Arrive PROVE FALSE
      <4>1. PICK d \in Call : pc[d] = "idle" /\ \E next : Goto(d, next)
        BY <3>2 DEF Arrive, PrepareBegin, ReviewBegin, UpdateBegin, CreateBegin, ReadBegin,
           ReadApplication, Proceed
      <4> QED
        BY <1>1, <1>6, <3>1, <4>1 DEF Goto
    <3> QED
      BY <3>1, <3>2
  <2>2. CASE pc'[c] = "replayed"
    <3>1. pc[c] = "prepare:find"
      BY <1>1, <1>6, <2>2 DEF PrepareStep, PrepareFind, PrepareSaveApplication, PrepareAddFails, PrepareAdd,
         PreparePost, PrepareAnswer, PrepareReadApplication, PrepareRequireStarting, PrepareSaveReady,
         PrepareSave, Proceed, Commit, ReadApplication, Goto
    <3>2. answer'[c] = preparation[a].status
      BY <2>1, <2>2, <3>1 DEF Answers
    <3> QED
      BY <1>2, <3>1, <3>2, PreparationsStand DEF AnswerKnows
  <2>3. CASE pc'[c] = "returned"
    <3>1. PrepareSave(c)
      BY <1>1, <1>6, <2>3 DEF PrepareStep, PrepareFind, PrepareSaveApplication, PrepareAddFails, PrepareAdd,
         PreparePost, PrepareAnswer, PrepareReadApplication, PrepareRequireStarting, PrepareSaveReady,
         Proceed, Commit, ReadApplication, Goto
    <3>2. answer'[c] = verdict[c]
      BY <1>6, <2>1, <2>3 DEF Answers
    <3>3. a \in App /\ arg'[c] = arg[c] /\ preparation'[a].status = verdict[c]
      BY <1>2, <3>1 DEF PrepareSave, HubInv, EngineInv, CallsInv, TypeInv, TypeOK, StoreTypeOK
    <3> QED
      BY <3>2, <3>3 DEF AnswerKnows
  <2> QED
    BY <2>2, <2>3 DEF AnswerKnows
<1> QED
  BY <1>3, <1>4, <1>5, <1>6, MovesAreOwn, CallsAreDistinct

-----------------------------------------------------------------------------
(* What the executions know.                                               *)

\* A step that leaves an execution alone.
LEMMA FlowKept ==
  ASSUME HubInv, FlowTypeOK, [Next]_vars, NEW f \in Flow, FlowKnows(f),
         stage'[f] = stage[f], request'[f] = request[f], tool'[f] = tool[f],
         tries'[f] = tries[f], subject'[f] = subject[f]
  PROVE  FlowKnows(f)'
<1>1. ASSUME tool[f] \in Call, pc[tool[f]] # "idle"
      PROVE  arg'[tool[f]] = arg[tool[f]] /\ pc'[tool[f]] # "idle"
  BY <1>1, CallsStand
<1>2. ASSUME subject[f] # None
      PROVE  LET row == idempotency'[<<"create", request[f]>>] IN
             request[f] \in Key /\ row # None /\ row.response = subject[f]
  <2>1. /\ request[f] \in Key /\ <<"create", request[f]>> \in Operation \X Key
        /\ idempotency[<<"create", request[f]>>] # None
        /\ idempotency[<<"create", request[f]>>].response = subject[f]
    BY <1>2 DEF FlowKnows, Operation
  <2> QED
    BY <2>1, ClaimsStand
<1>3. ASSUME subject[f] \in App
      PROVE  /\ preparation[subject[f]].status \in ThreadStatus =>
                  preparation'[subject[f]].status \in ThreadStatus
             /\ preparation[subject[f]].status \in {"failed", "outcome_unknown"} =>
                  preparation'[subject[f]].status \in {"failed", "outcome_unknown"}
  BY <1>3, PreparationsStand
<1> QED
  BY <1>1, <1>2, <1>3 DEF FlowKnows

\* Execution f is left alone.
Alone(f) ==
  /\ stage'[f] = stage[f] /\ request'[f] = request[f] /\ tool'[f] = tool[f]
  /\ tries'[f] = tries[f] /\ subject'[f] = subject[f]

\* A step of the hub alone, and one of an execution.
LEMMA StepKeepsFlows ==
  ASSUME HubInv, FlowInv, [Next]_vars, FlowTypeOK',
         Answers \/ (UNCHANGED answer /\ (UNCHANGED vars \/ Arrive)),
         \A f \in Flow : FlowKnows(f)' \/ Alone(f)
  PROVE  FlowInv'
<1>1. ASSUME NEW f \in Flow PROVE FlowKnows(f)'
  BY FlowKept DEF FlowInv, Alone
<1> QED
  BY <1>1, CreatedKept, AnswerKept DEF FlowInv

\* An execution begins by creating the application.
LEMMA BeginKeepsFlows ==
  ASSUME HubInv, FlowInv, [Next]_vars, NEW f \in Flow, FlowBegin(f)
  PROVE  FlowInv'
<1>. DEFINE c == CHOOSE x \in Unused(CreateCall) : TRUE
<1>1. c \in CreateCall
  BY UnusedIsIdle DEF FlowBegin
<1>2. PICK a \in App, k \in Key, w \in Content :
        CreateBegin(c, a, k, w) /\ request' = [request EXCEPT ![f] = k]
  BY DEF FlowBegin
<1>3. /\ stage[f] = "idle" /\ tool' = [tool EXCEPT ![f] = c]
      /\ stage' = [stage EXCEPT ![f] = "creating"]
      /\ UNCHANGED <<tries, subject, answer>>
  BY DEF FlowBegin
<1>. HIDE DEF c
<1>4. FlowTypeOK'
  BY <1>1, <1>2, <1>3 DEF FlowInv, FlowTypeOK
<1>5. Arrive
  BY <1>1, <1>2 DEF Arrive
<1>6. /\ arg'[c].key = k /\ pc'[c] = "create:claim"
  BY <1>1, <1>2 DEF CreateBegin, Goto, HubInv, EngineInv, CallsInv, TypeInv, TypeOK, CallTypeOK
<1>7. FlowKnows(f)'
  BY <1>1, <1>2, <1>3, <1>6 DEF FlowInv, FlowTypeOK, FlowKnows, Asking
<1>8. \A g \in Flow \ {f} : Alone(g)
  BY <1>2, <1>3 DEF FlowInv, FlowTypeOK, Alone
<1> QED
  BY <1>3, <1>4, <1>5, <1>7, <1>8, StepKeepsFlows

\* It asks for the preparation, or asks again.
LEMMA AskKeepsFlows ==
  ASSUME HubInv, FlowInv, [Next]_vars, NEW f \in Flow, Ask(f)
  PROVE  FlowInv'
<1>. DEFINE c == CHOOSE x \in Unused(PrepareCall) : TRUE
<1>1. c \in PrepareCall
  BY UnusedIsIdle DEF Ask
<1>2. /\ stage[f] \in Asking /\ tries[f] > 0 /\ PrepareBegin(c, subject[f])
      /\ tool' = [tool EXCEPT ![f] = c] /\ tries' = [tries EXCEPT ![f] = @ - 1]
      /\ UNCHANGED <<request, stage, subject, answer>>
  BY DEF Ask
<1>. HIDE DEF c
<1>3. subject[f] \in App /\ stage[f] \notin {"idle", "creating", "reviewable", "reported"}
  BY <1>2 DEF FlowInv, FlowKnows, Asking
<1>4. FlowTypeOK'
  BY <1>1, <1>2 DEF FlowInv, FlowTypeOK
<1>5. Arrive
  BY <1>1, <1>2, <1>3 DEF Arrive
<1>6. arg'[c].app = subject[f] /\ pc'[c] # "idle" /\ UNCHANGED <<idempotency, preparation>>
  <2>1. pc'[c] \in {"prepare:find", "not_found"}
    BY <1>1, <1>2 DEF PrepareBegin, ReadApplication, Proceed, Goto, HubInv, EngineInv, CallsInv,
       TypeInv, TypeOK, CallTypeOK
  <2>2. arg'[c].app = subject[f]
    BY <1>1, <1>2, <1>3 DEF PrepareBegin, HubInv, EngineInv, CallsInv, TypeInv, TypeOK, CallTypeOK,
       Arguments
  <2> QED
    BY <1>2, <2>1, <2>2 DEF PrepareBegin, tables
<1>7. FlowKnows(f)'
  BY <1>1, <1>2, <1>3, <1>6 DEF FlowInv, FlowTypeOK, FlowKnows
<1>8. \A g \in Flow \ {f} : Alone(g)
  BY <1>2 DEF FlowInv, FlowTypeOK, Alone
<1> QED
  BY <1>2, <1>4, <1>5, <1>7, <1>8, StepKeepsFlows

\* A node that is visited calls anew.
LEMMA VisitKeepsFlows ==
  ASSUME HubInv, FlowInv, UNCHANGED vars, NEW f \in Flow, NEW node \in Asking \cup Over,
         Visit(f, node), UNCHANGED <<request, answer>>,
         subject' \in [Flow -> App \cup {None}],
         \A g \in Flow \ {f} : subject'[g] = subject[g],
         subject'[f] # None =>
           LET row == idempotency[<<"create", request[f]>>] IN
           request[f] \in Key /\ row # None /\ row.response = subject'[f],
         node \in Asking \cup {"reviewable", "reported"} => subject'[f] \in App,
         node = "reviewable" => preparation[subject'[f]].status \in ThreadStatus,
         node = "reported" => preparation[subject'[f]].status \in {"failed", "outcome_unknown"}
  PROVE  FlowInv'
<1>1. /\ stage' = [stage EXCEPT ![f] = node] /\ tool' = [tool EXCEPT ![f] = None]
      /\ \E n \in Nat : tries' = [tries EXCEPT ![f] = n]
  <2>1. MaxTries \in Nat
    BY TriesAreCounted
  <2> QED
    BY <2>1 DEF Visit
<1>2. node \notin {"idle", "creating"}
  BY DEF Asking, Over
<1>3. FlowTypeOK'
  BY <1>1 DEF FlowInv, FlowTypeOK
<1>4. FlowKnows(f)'
  <2>1. stage'[f] = node /\ tool'[f] = None /\ request'[f] = request[f]
    BY <1>1 DEF FlowInv, FlowTypeOK
  <2>2. UNCHANGED idempotency /\ UNCHANGED preparation
    BY DEF vars, tables
  <2> QED
    BY <1>2, <2>1, <2>2 DEF FlowKnows
<1>5. \A g \in Flow \ {f} : Alone(g)
  BY <1>1 DEF FlowInv, FlowTypeOK, Alone
<1> QED
  BY <1>3, <1>4, <1>5, StepKeepsFlows

\* It takes in the application that was created.
LEMMA CreatedKeepsFlows ==
  ASSUME HubInv, FlowInv, NEW f \in Flow, ApplicationCreated(f)
  PROVE  FlowInv'
<1>. DEFINE row == idempotency[<<"create", request[f]>>]
<1>1. /\ tool[f] \in CreateCall /\ arg[tool[f]].key = request[f]
      /\ pc[tool[f]] \in {"returned", "replayed"}
      /\ subject' = [subject EXCEPT ![f] = row.response]
      /\ Visit(f, "preparing") /\ UNCHANGED <<vars, request, answer>>
  BY DEF ApplicationCreated, FlowInv, FlowKnows
<1>2. request[f] \in Key /\ row # None
  BY <1>1, Begun DEF FlowInv, CreatedKnows, HubInv, EngineInv, CallsInv
<1>3. row \in Claim /\ row.response # None
  BY <1>2 DEF HubInv, EngineInv, CallsInv, TypeInv, TypeOK, StoreTypeOK, OutcomeInv, Operation
<1>4. row.response \in App
  BY <1>3 DEF Claim
<1>. HIDE DEF row
<1>5. subject' \in [Flow -> App \cup {None}] /\ subject'[f] = row.response
      /\ \A g \in Flow \ {f} : subject'[g] = subject[g]
  BY <1>1, <1>4 DEF FlowInv, FlowTypeOK
<1> QED
  BY <1>1, <1>2, <1>4, <1>5, VisitKeepsFlows DEF row, Asking

\* It takes in what the preparation answered.
LEMMA AnsweredKeepsFlows ==
  ASSUME HubInv, FlowInv, NEW f \in Flow, Answered(f)
  PROVE  FlowInv'
<1>. DEFINE status == answer[tool[f]]
            node == Route(stage[f], status)
<1>1. /\ stage[f] \in Asking /\ tool[f] # None /\ pc[tool[f]] \in {"returned", "replayed"}
      /\ Visit(f, node) /\ UNCHANGED <<vars, request, subject, answer>>
  BY DEF Answered
<1>2. tool[f] \in PrepareCall /\ arg[tool[f]].app = subject[f] /\ subject[f] \in App
  BY <1>1 DEF FlowInv, FlowKnows
<1>3. /\ status \in ThreadStatus => preparation[subject[f]].status \in ThreadStatus
      /\ status \in {"failed", "outcome_unknown"} => preparation[subject[f]].status = status
  BY <1>1, <1>2 DEF FlowInv, AnswerKnows
<1>4. /\ node \in Asking \cup Over
      /\ node = "reviewable" => status \in ThreadStatus
      /\ node = "reported" => status \in {"failed", "outcome_unknown"}
  BY <1>1 DEF Route, Asking, Over
<1>. HIDE DEF node, status
<1> QED
  BY <1>1, <1>2, <1>3, <1>4, VisitKeepsFlows DEF FlowInv, FlowTypeOK, FlowKnows

\* An execution that ends in an error, or without a route.
LEMMA EndKeepsFlows ==
  ASSUME HubInv, FlowInv, NEW f \in Flow, NEW node \in {"error", "no_route"}, Visit(f, node),
         UNCHANGED <<vars, request, subject, answer>>
  PROVE  FlowInv'
BY VisitKeepsFlows DEF FlowInv, FlowTypeOK, FlowKnows, Asking, Over

\* It drops a call that failed, to try again.
LEMMA RetryKeepsFlows ==
  ASSUME HubInv, FlowInv, NEW f \in Flow, tries[f] > 0, tool' = [tool EXCEPT ![f] = None],
         UNCHANGED <<vars, stage, tries, request, subject, answer>>
  PROVE  FlowInv'
<1>1. FlowTypeOK'
  BY DEF FlowInv, FlowTypeOK
<1>2. FlowKnows(f)'
  BY DEF FlowInv, FlowTypeOK, FlowKnows, vars, tables
<1>3. \A g \in Flow \ {f} : Alone(g)
  BY DEF FlowInv, FlowTypeOK, Alone
<1> QED
  BY <1>1, <1>2, <1>3, StepKeepsFlows

\* Every step of the hub and of the executions keeps the invariant.
LEMMA NextKeepsFlows == HubInv /\ FlowInv /\ [FlowNext]_flowVars => HubInv' /\ FlowInv'
<1>. SUFFICES ASSUME HubInv, FlowInv, [FlowNext]_flowVars PROVE HubInv' /\ FlowInv'
  OBVIOUS
<1>1. [Next]_vars
  BY FlowStepsAreHubSteps
<1>2. HubInv'
  BY <1>1, NextKeepsHub
<1>3. CASE HubStep
  <2>1. FlowTypeOK'
    BY <1>3 DEF HubStep, flows, FlowInv, FlowTypeOK
  <2>2. Answers /\ \A f \in Flow : Alone(f)
    BY <1>3 DEF HubStep, flows, Alone
  <2> QED
    BY <1>1, <1>2, <2>1, <2>2, StepKeepsFlows
<1>4. ASSUME UNCHANGED flowVars PROVE FlowInv'
  <2>1. UNCHANGED <<vars, stage, request, tool, tries, subject, answer>>
    BY <1>4 DEF flowVars, flows
  <2>2. FlowTypeOK' /\ \A f \in Flow : Alone(f)
    BY <2>1 DEF FlowInv, FlowTypeOK, Alone
  <2> QED
    BY <1>1, <2>1, <2>2, StepKeepsFlows
<1>5. ASSUME NEW f \in Flow, TryFails(f) PROVE FlowInv'
  BY <1>5, RetryKeepsFlows, EndKeepsFlows DEF TryFails
<1>6. ASSUME NEW f \in Flow, NoRoute(f) \/ FlowDies(f) PROVE FlowInv'
  BY <1>6, EndKeepsFlows DEF NoRoute, FlowDies
<1> QED
  BY <1>1, <1>2, <1>3, <1>4, <1>5, <1>6, BeginKeepsFlows, AskKeepsFlows, CreatedKeepsFlows,
     AnsweredKeepsFlows DEF FlowNext, FlowStep

\* No execution has begun to begin with.
LEMMA FlowsBegin == FlowInit => HubInv /\ FlowInv
<1>. SUFFICES ASSUME FlowInit PROVE HubInv /\ FlowInv
  OBVIOUS
<1>1. HubInv /\ \A c \in Call : pc[c] = "idle"
  BY InitHub DEF FlowInit, Init, CallInit
<1>2. FlowTypeOK
  BY DEF FlowInit, FlowTypeOK
<1>3. ASSUME NEW f \in Flow PROVE FlowKnows(f)
  BY DEF FlowInit, FlowKnows, Asking
<1> QED
  BY <1>1, <1>2, <1>3 DEF FlowInv, CreatedKnows, AnswerKnows

-----------------------------------------------------------------------------
(* Theorems.                                                               *)

\* The workflow is one of the clients the hub is modelled with: whatever its
\* executions do, what they leave of the hub is a behaviour of the hub.
THEOREM WorkflowUsesTheHub == FlowSpec => Spec
<1>1. FlowInit => Init
  BY DEF FlowInit
<1>2. HubInv /\ FlowInv /\ [FlowNext]_flowVars => [Next]_vars
  BY FlowStepsAreHubSteps
<1> QED
  BY <1>1, <1>2, FlowsBegin, NextKeepsFlows, PTL DEF FlowSpec, Spec

\* The invariant of the executions over the hub.
LEMMA FlowsAreSound == FlowSpec => [](HubInv /\ FlowInv)
BY FlowsBegin, NextKeepsFlows, PTL DEF FlowSpec

\* A set without two different elements has at most one.
LEMMA AtMostOne ==
  ASSUME NEW S, \A x, y \in S : x = y
  PROVE  Cardinality(S) <= 1
<1>1. CASE S = {}
  BY <1>1, FS_EmptySet
<1>2. CASE S # {}
  <2>1. PICK x \in S : TRUE
    BY <1>2
  <2>2. S = {x}
    BY <2>1
  <2> QED
    BY <2>2, FS_Singleton
<1> QED
  BY <1>1, <1>2

\* However many executions and tries one request gives rise to, one analysis is
\* started for it (the create key is made of the request's identifier, the
\* response of its claim is written once, and the application's row keeps every
\* other prepare call from starting).
THEOREM OneAnalysisForARequest == FlowSpec => []OneAnalysisPerRequest
<1>1. HubInv /\ FlowInv => OneAnalysisPerRequest
  <2>. SUFFICES ASSUME HubInv, FlowInv, NEW f \in Flow, NEW g \in Flow,
                       request[f] # None, request[f] = request[g]
                PROVE  Cardinality({c \in PrepareCall :
                          Posted(c) /\ arg[c].app \in {subject[f], subject[g]}}) <= 1
    BY DEF OneAnalysisPerRequest
  <2>. DEFINE S == {c \in PrepareCall : Posted(c) /\ arg[c].app \in {subject[f], subject[g]}}
  <2>1. subject[f] = None \/ subject[g] = None \/ subject[f] = subject[g]
    BY DEF FlowInv, FlowKnows
  <2>2. ASSUME NEW c \in PrepareCall, Posted(c) PROVE arg[c].app \in App /\ arg[c].app # None
    BY <2>2, Begun, CallsAreDistinct DEF HubInv, EngineInv, CallsInv, AnalysisInv
  <2>3. ASSUME NEW c \in S, NEW d \in S PROVE c = d
    <3>1. arg[c].app = arg[d].app
      BY <2>1, <2>2
    <3>2. Owns(c) /\ Owns(d)
      BY DEF Owns
    <3> QED
      BY <3>1, <3>2 DEF HubInv, EngineInv, CallsInv, AnalysisInv
  <2> QED
    BY <2>3, AtMostOne
<1> QED
  BY <1>1, FlowsAreSound, PTL

\* A workflow that ends quietly leaves an analysis its user can review or use,
\* and one that reports an operational failure reports what is recorded for good
\* (a row that has left starting is never written back by a prepare call).
THEOREM WorkflowsReportTheTruth == FlowSpec => []ReportsAreTrue
<1>1. HubInv /\ FlowInv => ReportsAreTrue
  <2>. SUFFICES ASSUME HubInv, FlowInv, NEW f \in Flow
                PROVE  LET prep == preparation[subject[f]] IN
                       /\ stage[f] = "reviewable" => prep.thread # None /\ thread[prep.thread] # None
                       /\ stage[f] = "reported" => prep.status \in {"failed", "outcome_unknown"}
    BY DEF ReportsAreTrue
  <2>1. /\ stage[f] = "reviewable" => subject[f] \in App /\ preparation[subject[f]].status \in ThreadStatus
        /\ stage[f] = "reported" => preparation[subject[f]].status \in {"failed", "outcome_unknown"}
    BY DEF FlowInv, FlowKnows
  <2>2. ASSUME NEW a \in App, preparation[a].status \in ThreadStatus
        PROVE  preparation[a].thread # None /\ thread[preparation[a].thread] # None
    BY <2>2 DEF HubInv, EngineInv, RecordInv, PreparationKnows
  <2> QED
    BY <2>1, <2>2
<1> QED
  BY <1>1, FlowsAreSound, PTL
=============================================================================
