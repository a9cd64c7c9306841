-------------------------- MODULE HumanReviewProofs --------------------------
(***************************************************************************)
(* The review workflow, for any executions, calls and decisions.  It takes *)
(* only steps the hub allows its clients.  What it compares before it      *)
(* calls goes stale at once; that it is good enough rests on what does not *)
(* change any more: an analysis that is over stays over, so that the hub   *)
(* sends nothing for an execution that found it so, and a submission that  *)
(* is recorded as completed stays so (FlowInv).                            *)
(***************************************************************************)
EXTENDS HumanReviewWorkflow, HubLifecycleProofs

USE DEF Call

-----------------------------------------------------------------------------
(* The inductive invariant.                                                *)

Request == [app : App, key : Key, want : Decision, revision : Nat \ {0}]

FlowTypeOK ==
  /\ stage \in [Flow -> {"idle", "looking", "reviewing"} \cup Over]
  /\ tool \in [Flow -> ReadCall \cup ReviewCall \cup {None}]
  /\ tries \in [Flow -> Nat]
  /\ wanted \in [Flow -> Request \cup {None}]
  /\ looked \in [Flow -> Nat]
  /\ owner \in [ReviewCall -> Flow \cup {None}]
  /\ revision \in [Thread -> Nat]
  /\ shown \in [ReadCall -> Nat]
  /\ \A t \in Thread : thread[t] # None => revision[t] > 0

\* The analysis of application a is over, for the hub too once it has read so.
IsOver(a) ==
  /\ preparation[a].status \in ThreadStatus
  /\ thread[preparation[a].thread] = "completed"

\* The submission of the key is the request's, and is recorded as carried out.
IsDone(a, k, d) ==
  HasStatus(k, "completed") /\ submission[k].app = a /\ submission[k].want = d

\* A read that found no proposals found the analysis of its application over.
ReadKnows(c) ==
  LET a == arg[c].app IN
  /\ pc[c] = "read:get" =>
       target[c] = preparation[a].thread /\ preparation[a].status \in ThreadStatus
  /\ pc[c] = "returned" /\ shown[c] = 0 => IsOver(a)

\* Execution f has looked, and found the proposals of its request or the
\* analysis over.
HasLooked(f) ==
  /\ wanted[f] \in Request
  /\ looked[f] \in {0, wanted[f].revision}
  /\ looked[f] = 0 => IsOver(wanted[f].app)

\* A review call makes the request of its execution, which has looked before it.
ReviewerKnows(c) ==
  LET f == owner[c] IN
  pc[c] # "idle" =>
    /\ f \in Flow /\ stage[f] \notin {"idle", "looking"} /\ HasLooked(f)
    /\ arg[c] = [app |-> wanted[f].app, key |-> wanted[f].key, want |-> wanted[f].want]
    /\ Posted(c) => looked[f] = wanted[f].revision
    /\ pc[c] \in {"returned", "replayed"} /\ result[c] = "completed" =>
         IsDone(arg[c].app, arg[c].key, arg[c].want)

FlowKnows(f) ==
  /\ stage[f] # "idle" => wanted[f] \in Request
  /\ stage[f] \in {"idle", "looking"} => tries[f] = 0
  /\ stage[f] = "looking" =>
       tool[f] \in ReadCall /\ arg[tool[f]].app = wanted[f].app /\ pc[tool[f]] # "idle"
  /\ stage[f] = "reviewing" =>
       /\ HasLooked(f)
       /\ tool[f] # None =>
            tool[f] \in ReviewCall /\ owner[tool[f]] = f /\ pc[tool[f]] # "idle"
  /\ stage[f] = "reviewed" => IsDone(wanted[f].app, wanted[f].key, wanted[f].want)

FlowInv ==
  /\ FlowTypeOK
  /\ \A c \in ReadCall : ReadKnows(c)
  /\ \A c \in ReviewCall : ReviewerKnows(c)
  /\ \A f \in Flow : FlowKnows(f)

-----------------------------------------------------------------------------
(* The workflow uses the hub as its clients do.                            *)

\* A call that an execution takes has not been used.
LEMMA UnusedIsIdle ==
  ASSUME NEW calls, Unused(calls) # {}
  PROVE  LET c == CHOOSE x \in Unused(calls) : TRUE IN c \in calls /\ pc[c] = "idle"
BY DEF Unused

\* The call a look or a decision makes, and what it leaves alone.
LEMMA LookBegins ==
  ASSUME NEW f \in Flow, FlowBegin(f)
  PROVE  \E c \in ReadCall, a \in App, k \in Key, d \in Decision :
           /\ pc[c] = "idle" /\ ReadBegin(c, a) /\ tool' = [tool EXCEPT ![f] = c]
           /\ preparation[a].thread # None
           /\ \E v \in 1..revision[preparation[a].thread] :
                wanted' = [wanted EXCEPT ![f] = [app |-> a, key |-> k, want |-> d, revision |-> v]]
<1>. DEFINE c == CHOOSE x \in Unused(ReadCall) : TRUE
<1>1. c \in ReadCall /\ pc[c] = "idle"
  BY UnusedIsIdle DEF FlowBegin
<1>2. \E a \in App, k \in Key, d \in Decision :
        /\ ReadBegin(c, a) /\ tool' = [tool EXCEPT ![f] = c]
        /\ preparation[a].thread # None
        /\ \E v \in 1..revision[preparation[a].thread] :
             wanted' = [wanted EXCEPT ![f] = [app |-> a, key |-> k, want |-> d, revision |-> v]]
  BY DEF FlowBegin
<1>. HIDE DEF c
<1> QED
  BY <1>1, <1>2

\* The decision begins a call of the hub with what the execution was asked for.
LEMMA DecisionBegins ==
  ASSUME NEW f \in Flow, Decide(f)
  PROVE  \E c \in ReviewCall :
           /\ pc[c] = "idle" /\ ReviewBegin(c, wanted[f].app, wanted[f].key, wanted[f].want)
           /\ tool' = [tool EXCEPT ![f] = c] /\ owner' = [owner EXCEPT ![c] = f]
<1>. DEFINE c == CHOOSE x \in Unused(ReviewCall) : TRUE
<1>1. c \in ReviewCall /\ pc[c] = "idle"
  BY UnusedIsIdle DEF Decide
<1>2. /\ ReviewBegin(c, wanted[f].app, wanted[f].key, wanted[f].want)
      /\ tool' = [tool EXCEPT ![f] = c] /\ owner' = [owner EXCEPT ![c] = f]
  BY DEF Decide
<1>. HIDE DEF c
<1> QED
  BY <1>1, <1>2

\* A step of the workflow is a step of the hub or leaves it alone.
LEMMA FlowStepsAreHubSteps ==
  ASSUME FlowInv, [FlowNext]_flowVars
  PROVE  [Next]_vars
<1>1. ASSUME NEW f \in Flow, FlowBegin(f) PROVE Next
  BY <1>1, LookBegins DEF Next, Arrive
<1>2. ASSUME NEW f \in Flow, Decide(f) PROVE Next
  <2>1. wanted[f].app \in App /\ wanted[f].key \in Key /\ wanted[f].want \in Decision
    BY <1>2 DEF Decide, FlowInv, FlowKnows, Request
  <2> QED
    BY <1>2, <2>1, DecisionBegins DEF Next, Arrive
<1>3. HubStep => Next
  BY DEF HubStep, Next, Arrive
<1>4. ASSUME NEW f \in Flow, Looked(f) \/ Decided(f) \/ TryFails(f) PROVE UNCHANGED vars
  BY <1>4 DEF Looked, Decided, TryFails
<1>5. UNCHANGED flowVars => UNCHANGED vars
  BY DEF flowVars
<1> QED
  BY <1>1, <1>2, <1>3, <1>4, <1>5 DEF FlowNext

-----------------------------------------------------------------------------
(* What does not change any more.                                          *)

\* An analysis that is over stays over.
LEMMA OverStands ==
  ASSUME HubInv, [Next]_vars, NEW a \in App, IsOver(a)
  PROVE  IsOver(a)'
<1>1. preparation[a].thread \in Thread
  BY DEF IsOver, HubInv, EngineInv, RecordInv, PreparationKnows, CallsInv, TypeInv, TypeOK, StoreTypeOK,
     Preparation
<1> QED
  BY <1>1, PreparationsStand, ThreadsStand DEF IsOver

\* A review that was recorded as done stays so.
LEMMA DoneStands ==
  ASSUME HubInv, [Next]_vars, NEW a, NEW k \in Key, NEW d, IsDone(a, k, d)
  PROVE  IsDone(a, k, d)'
BY SubmissionsStand DEF IsDone, HasStatus

\* The hub sends nothing to an analysis that is over.
LEMMA OverIsNotReviewed ==
  ASSUME HubInv, NEW c \in ReviewCall, ReviewPost(c)
  PROVE  ~IsOver(arg[c].app)
<1>. DEFINE k == arg[c].key
<1>1. /\ c \in Call /\ pc[c] # "idle" /\ pc[c] \in SubmittedPC /\ Sends(c) /\ ~Posted(c)
  BY CallsAreDistinct DEF ReviewPost, SubmittedPC, UnsentPC, Sends, HubInv, EngineInv, ExchangeInv,
     ExchangeKnows
<1>2. k \in Key /\ arg[c].app \in App
  BY <1>1, Begun DEF HubInv, EngineInv, CallsInv
<1>3. submission[k] # None /\ submission[k].app = arg[c].app /\ submission[k].status = "submitting"
  BY <1>1 DEF HubInv, EngineInv, CallsInv, ReviewInv, ReviewKnows
<1>4. /\ preparation[arg[c].app].thread = submission[k].thread
      /\ \/ thread[submission[k].thread] = "awaiting_review"
         \/ \E d \in applied : arg[d].key = k
  BY <1>2, <1>3 DEF HubInv, EngineInv, RecordInv, SubmissionKnows, WaitingInv, WaitsForSubmission,
     Pending, UnresolvedStatus
<1>5. ASSUME NEW d \in applied, arg[d].key = k PROVE FALSE
  <2>1. d \in ReviewCall /\ Posted(d) /\ Sends(d)
    BY SendersHaveBegun DEF Sends, HubInv, EngineInv, CallsInv, TypeInv, TypeOK, EngineTypeOK
  <2>2. d = c
    BY <1>1, <1>5, <2>1 DEF HubInv, EngineInv, CallsInv, ReviewInv
  <2> QED
    BY <1>1, <2>1, <2>2
<1> QED
  BY <1>4, <1>5 DEF IsOver

\* A review is sent by its own step.
LEMMA PostingIsOwn ==
  ASSUME HubInv, [Next]_vars, NEW c \in ReviewCall, Posted(c)', ~Posted(c)
  PROVE  ReviewPost(c)
<1>1. post \in [Call -> {"unsent", "in_flight"} \cup Reply] /\ c \in Call
  BY DEF HubInv, EngineInv, CallsInv, TypeInv, TypeOK, EngineTypeOK
<1>2. ASSUME NEW d \in PrepareCall, PrepareAdd(d) \/ PreparePost(d) \/ PrepareSave(d) PROVE FALSE
  BY <1>1, <1>2, CallsAreDistinct DEF PrepareAdd, PreparePost, PrepareSave, Send, Posted, engine
<1>3. ASSUME NEW d \in ReviewCall, ReviewAdd(d) \/ ReviewPost(d) \/ ReviewSave(d) PROVE ReviewPost(c)
  BY <1>1, <1>3 DEF ReviewAdd, ReviewPost, ReviewSave, Send, Posted, engine
<1>4. ~EngineStep
  <2>1. ASSUME EngineStep
        PROVE  \E d \in Call : post[d] = "in_flight" /\ \E reply : post' = [post EXCEPT ![d] = reply]
    BY <2>1 DEF EngineStep, EngineAnalyse, EngineReview, Execute, Refuse
  <2> QED
    BY <1>1, <2>1 DEF Posted
<1>5. ~Silent
  BY DEF Silent, Posted
<1> QED
  BY <1>2, <1>3, <1>4, <1>5, StepsOfOperations DEF HubInv

-----------------------------------------------------------------------------
(* What the calls know.                                                    *)

\* What is outside the hub follows its steps; no call ends as it begins.
Watched == Observe \/ (UNCHANGED outside /\ (UNCHANGED vars \/ Arrive))

\* A call that moves is observed by the execution it belongs to.
LEMMA StepsAreWatched ==
  ASSUME HubInv, Watched, NEW c \in Call, pc[c] # "idle", pc'[c] # pc[c]
  PROVE  Observe
<1>1. ~UNCHANGED vars
  BY DEF vars
<1>2. ASSUME Arrive PROVE FALSE
  <2>1. PICK d \in Call : pc[d] = "idle" /\ \E next : Goto(d, next)
    BY <1>2 DEF Arrive, PrepareBegin, ReviewBegin, UpdateBegin, CreateBegin, ReadBegin,
       ReadApplication, Proceed
  <2> QED
    BY <2>1 DEF Goto, HubInv, EngineInv, CallsInv, TypeInv, TypeOK, CallTypeOK
<1> QED
  BY <1>1, <1>2 DEF Watched

\* The thread a read is about is its own.
LEMMA TargetStands ==
  ASSUME HubInv, [Next]_vars, NEW c \in ReadCall, pc[c] = "read:get"
  PROVE  target'[c] = target[c]
<1>1. \A d, x : d # c /\ target' = [target EXCEPT ![d] = x] => target'[c] = target[c]
  BY DEF HubInv, EngineInv, CallsInv, TypeInv, TypeOK, EngineTypeOK
<1>2. ASSUME NEW d \in PrepareCall, PrepareStep(d) PROVE target'[c] = target[c]
  BY <1>1, <1>2, CallsAreDistinct DEF PrepareStep, PrepareFind, PrepareSaveApplication, PrepareAddFails,
     PrepareAdd, PreparePost, PrepareAnswer, PrepareReadApplication, PrepareRequireStarting,
     PrepareSaveReady, PrepareSave, Send, engine
<1>3. ASSUME NEW d \in ReviewCall, ReviewStep(d) PROVE target'[c] = target[c]
  BY <1>1, <1>3, CallsAreDistinct DEF ReviewStep, ReviewFindKey, ReviewLockFails, ReviewLock,
     ReviewRecheck, ReviewFindUnresolved, ReviewAddFails, ReviewAdd, ReviewPost, ReviewAnswer,
     ReviewLockAgain, ReviewReadApplication, ReviewRequireSubmitting, ReviewSaveReady, ReviewSave,
     Send, engine
<1>4. ASSUME NEW d \in Call, UpdateStep(d) \/ CreateStep(d) \/ ReadStep(d) PROVE target'[c] = target[c]
  BY <1>1, <1>4 DEF UpdateStep, UpdateReplay, UpdateClaim, UpdateSave, CreateStep, CreateReplay,
     CreateClaim, CreateSave, ReadStep, ReadFind, ReadGet, ReadFails, engine
<1>5. CASE Arrive \/ EngineStep \/ UNCHANGED vars \/ \E d \in Call : Crash(d)
  BY <1>5 DEF Arrive, PrepareBegin, ReviewBegin, UpdateBegin, CreateBegin, ReadBegin, EngineStep,
     EngineAnalyse, EngineReview, Crash, vars, engine
<1> QED
  BY <1>2, <1>3, <1>4, <1>5 DEF Next, Advance

\* What a read call answered stays true of it.
LEMMA ReadKept ==
  ASSUME HubInv, FlowTypeOK, [Next]_vars, Watched, NEW c \in ReadCall, ReadKnows(c)
  PROVE  ReadKnows(c)'
<1>1. c \in Call /\ pc \in [Call -> PC] /\ shown \in [ReadCall -> Nat]
  BY DEF HubInv, EngineInv, CallsInv, TypeInv, TypeOK, CallTypeOK, FlowTypeOK
<1>2. pc[c] # "idle" => arg[c].app \in App /\ arg'[c] = arg[c]
  BY <1>1, CallsStand, Begun DEF HubInv, EngineInv, CallsInv
<1>3. CASE pc'[c] = pc[c]
  <2>1. pc[c] = "returned" => shown'[c] = shown[c]
    BY <1>1, <1>3 DEF Watched, Observe, outside
  <2>2. pc[c] = "read:get" => target'[c] = target[c]
    BY TargetStands
  <2> QED
    BY <1>2, <1>3, <2>1, <2>2, PreparationsStand, OverStands DEF ReadKnows
<1>4. CASE pc'[c] # pc[c] /\ \E a \in App : ReadBegin(c, a)
  BY <1>1, <1>4 DEF ReadBegin, ReadApplication, Proceed, Goto, ReadKnows
<1>5. CASE pc'[c] # pc[c] /\ Crash(c)
  BY <1>1, <1>5 DEF Crash, Proceed, Goto, ReadKnows
<1>6. CASE ReadFind(c)
  <2>1. pc[c] = "read:find" /\ UNCHANGED preparation /\ arg[c].app \in App /\ arg' = arg
    BY <1>2, <1>6 DEF ReadFind, tables
  <2>2. pc'[c] # "returned"
    BY <1>1, <1>6 DEF ReadFind, Proceed, Goto
  <2>3. pc'[c] = "read:get" =>
          target'[c] = preparation[arg[c].app].thread /\ preparation[arg[c].app].thread # None
    BY <1>1, <1>6 DEF ReadFind, Proceed, Goto, HubInv, EngineInv, CallsInv, TypeInv, TypeOK, EngineTypeOK
  <2>4. pc'[c] = "read:get" => preparation[arg[c].app].status \in ThreadStatus
    BY <2>1, <2>3 DEF HubInv, EngineInv, RecordInv, PreparationKnows
  <2> QED
    BY <2>1, <2>2, <2>3, <2>4 DEF ReadKnows
<1>7. CASE ReadGet(c)
  <2>. DEFINE t == target[c]
  <2>1. /\ pc[c] = "read:get" /\ pc'[c] = "returned" /\ Observe
        /\ UNCHANGED preparation /\ UNCHANGED thread /\ arg' = arg
    BY <1>1, <1>7, StepsAreWatched DEF ReadGet, Goto, tables, engine
  <2>2. /\ t = preparation[arg[c].app].thread /\ preparation[arg[c].app].status \in ThreadStatus
        /\ arg[c].app \in App
    BY <1>2, <2>1 DEF ReadKnows
  <2>3. t \in Thread /\ thread[t] \in ThreadStatus
    BY <2>2 DEF HubInv, EngineInv, RecordInv, PreparationKnows, CallsInv, TypeInv, TypeOK,
       StoreTypeOK, EngineTypeOK, Preparation
  <2>4. revision[t] > 0 /\ revision[t] \in Nat
    BY <2>3, NoneIsNoStatus DEF FlowTypeOK
  <2>5. thread[t] = "awaiting_review" => shown'[c] = revision[t]
    BY <2>1 DEF Observe
  <2> QED
    BY <2>1, <2>2, <2>3, <2>4, <2>5 DEF ReadKnows, IsOver, ThreadStatus
<1>8. CASE ReadFails(c)
  BY <1>1, <1>8 DEF ReadFails, Goto, ReadKnows
<1> QED
  BY <1>3, <1>4, <1>5, <1>6, <1>7, <1>8, <1>1, MovesAreOwn, CallsAreDistinct DEF ReadStep

\* An execution that has looked keeps its request and what it found.
Steady(f) ==
  stage[f] \notin {"idle", "looking"} =>
    stage'[f] \notin {"idle", "looking"} /\ wanted'[f] = wanted[f] /\ looked'[f] = looked[f]

\* What an execution found stays true.
LEMMA LookStands ==
  ASSUME HubInv, [Next]_vars, NEW f, wanted'[f] = wanted[f], looked'[f] = looked[f], HasLooked(f)
  PROVE  HasLooked(f)'
<1>1. wanted[f].app \in App
  BY DEF HasLooked, Request
<1> QED
  BY <1>1, OverStands DEF HasLooked

\* What a review call that ends now answers with.
LEMMA AnswerIsTrue ==
  ASSUME HubInv, WitnessInv, Observe, [Next]_vars, NEW c \in ReviewCall, ReviewStep(c),
         pc'[c] \in {"returned", "replayed"}, result'[c] = "completed"
  PROVE  IsDone(arg[c].app, arg[c].key, arg[c].want)'
<1>. DEFINE k == arg[c].key
<1>1. c \in Call /\ pc \in [Call -> PC] /\ pc[c] \notin Ended /\ pc[c] # "idle"
  BY DEF ReviewStep, ReviewFindKey, ReviewLockFails, ReviewLock, ReviewRecheck,
     ReviewFindUnresolved, ReviewAddFails, ReviewAdd, ReviewPost, ReviewAnswer, ReviewLockAgain,
     ReviewReadApplication, ReviewRequireSubmitting, ReviewSaveReady, ReviewSave, Ended,
     HubInv, EngineInv, CallsInv, TypeInv, TypeOK, CallTypeOK
<1>2. arg'[c] = arg[c] /\ k \in Key
  BY <1>1, CallsStand, Begun DEF HubInv, EngineInv, CallsInv
<1>3. submission'[k].status = "completed"
  BY <1>1, <1>2 DEF Observe
<1>4. \/ ReviewSave(c)
      \/ /\ submission[k] # None /\ submission[k].app = arg[c].app /\ submission[k].want = arg[c].want
         /\ UNCHANGED submission
  BY <1>1 DEF ReviewStep, ReviewFindKey, ReviewLockFails, ReviewLock, ReviewRecheck,
     ReviewFindUnresolved, ReviewAddFails, ReviewAdd, ReviewPost, ReviewAnswer, ReviewLockAgain,
     ReviewReadApplication, ReviewRequireSubmitting, ReviewSaveReady, Lookup, Proceed, Commit,
     ReadApplication, Goto, tables
<1>5. CASE ReviewSave(c)
  <2>1. Sends(c)
    BY <1>5, SenderSubmitting DEF ReviewSave, LockedPC, Sends, HubInv
  <2> QED
    BY <1>2, <1>3, <1>5, <2>1, ReviewWrites, ReviewSaveWrites DEF HubInv, EngineInv, CallsInv, WitnessInv, IsDone, HasStatus
<1> QED
  BY <1>2, <1>3, <1>4, <1>5 DEF IsDone, HasStatus

\* What a review call was asked, and by whom, stays.
LEMMA ReviewerKept ==
  ASSUME HubInv, WitnessInv, [Next]_vars, Watched, NEW c \in ReviewCall, ReviewerKnows(c),
         pc[c] # "idle", owner'[c] = owner[c], \A f \in Flow : Steady(f)
  PROVE  ReviewerKnows(c)'
<1>. DEFINE f == owner[c]
<1>1. c \in Call /\ pc \in [Call -> PC]
  BY DEF HubInv, EngineInv, CallsInv, TypeInv, TypeOK, CallTypeOK
<1>2. /\ f \in Flow /\ stage[f] \notin {"idle", "looking"} /\ HasLooked(f)
      /\ arg[c] = [app |-> wanted[f].app, key |-> wanted[f].key, want |-> wanted[f].want]
  BY DEF ReviewerKnows
<1>3. /\ arg'[c] = arg[c] /\ arg[c].key \in Key
      /\ stage'[f] \notin {"idle", "looking"} /\ wanted'[f] = wanted[f] /\ looked'[f] = looked[f]
  BY <1>1, <1>2, CallsStand, Begun DEF Steady, HubInv, EngineInv, CallsInv
<1>4. ASSUME NEW g, g = f PROVE HasLooked(g)'
  BY <1>2, <1>3, <1>4, LookStands
<1>5. Posted(c)' => looked[f] = wanted[f].revision
  <2>1. ASSUME ReviewPost(c) PROVE looked[f] = wanted[f].revision
    BY <1>2, <2>1, OverIsNotReviewed DEF HasLooked
  <2> QED
    BY <2>1, PostingIsOwn DEF ReviewerKnows
<1>6. ASSUME pc'[c] \in {"returned", "replayed"}, result'[c] = "completed"
      PROVE  IsDone(arg[c].app, arg[c].key, arg[c].want)'
  <2>1. CASE pc'[c] = pc[c]
    <3>1. result'[c] = result[c]
      BY <1>6, <2>1 DEF Watched, Observe, outside, Ended
    <3>2. IsDone(arg[c].app, arg[c].key, arg[c].want)
      BY <1>6, <2>1, <3>1 DEF ReviewerKnows
    <3>3. submission[arg[c].key] # None
      BY <3>2 DEF IsDone, HasStatus
    <3> QED
      BY <1>3, <3>2, <3>3, SubmissionsStand DEF IsDone, HasStatus
  <2>2. CASE pc'[c] # pc[c]
    <3>1. Observe
      BY <1>1, <2>2, StepsAreWatched
    <3>2. ~Crash(c) /\ ~\E a \in App, k \in Key, d \in Decision : ReviewBegin(c, a, k, d)
      BY <1>1, <1>6 DEF Crash, Proceed, Goto, ReviewBegin
    <3>3. ReviewStep(c)
      BY <1>1, <2>2, <3>2, MovesAreOwn, CallsAreDistinct
    <3> QED
      BY <1>6, <3>1, <3>3, AnswerIsTrue
  <2> QED
    BY <2>1, <2>2
<1> QED
  BY <1>2, <1>3, <1>4, <1>5, <1>6 DEF ReviewerKnows

-----------------------------------------------------------------------------
(* What the executions know.                                               *)

\* Execution f is left alone, and its calls remain its own.
Alone(f) ==
  /\ stage'[f] = stage[f] /\ tool'[f] = tool[f] /\ tries'[f] = tries[f]
  /\ wanted'[f] = wanted[f] /\ looked'[f] = looked[f]

OwnersStay == \A c \in ReviewCall : pc[c] # "idle" => owner'[c] = owner[c]

\* An execution that is left alone keeps what it knows.
LEMMA FlowKept ==
  ASSUME HubInv, [Next]_vars, OwnersStay, NEW f \in Flow, FlowKnows(f), Alone(f)
  PROVE  FlowKnows(f)'
<1>1. ASSUME tool[f] \in Call, pc[tool[f]] # "idle"
      PROVE  arg'[tool[f]] = arg[tool[f]] /\ pc'[tool[f]] # "idle"
  BY <1>1, CallsStand
<1>2. stage[f] = "reviewing" => HasLooked(f)'
  BY LookStands DEF FlowKnows, Alone
<1>3. stage[f] = "reviewed" => IsDone(wanted[f].app, wanted[f].key, wanted[f].want)'
  <2>1. ASSUME stage[f] = "reviewed"
        PROVE  /\ wanted[f].key \in Key /\ wanted'[f] = wanted[f]
               /\ IsDone(wanted[f].app, wanted[f].key, wanted[f].want)
    BY <2>1 DEF FlowKnows, Alone, Request
  <2> QED
    BY <2>1, SubmissionsStand DEF IsDone, HasStatus
<1> QED
  BY <1>1, <1>2, <1>3 DEF FlowKnows, Alone, OwnersStay

\* A step of the hub, of one execution, or of both.
LEMMA StepKeepsFlows ==
  ASSUME HubInv, WitnessInv, FlowInv, [Next]_vars, Watched, FlowTypeOK', OwnersStay,
         \A f \in Flow : Steady(f) /\ (FlowKnows(f)' \/ Alone(f)),
         \A c \in ReviewCall : pc[c] = "idle" => ReviewerKnows(c)'
  PROVE  FlowInv'
<1>1. ASSUME NEW f \in Flow PROVE FlowKnows(f)'
  BY FlowKept DEF FlowInv
<1>2. ASSUME NEW c \in ReviewCall PROVE ReviewerKnows(c)'
  BY ReviewerKept DEF FlowInv, OwnersStay
<1>3. ASSUME NEW c \in ReadCall PROVE ReadKnows(c)'
  BY ReadKept DEF FlowInv
<1> QED
  BY <1>1, <1>2, <1>3 DEF FlowInv

\* A review call that has not begun knows nothing yet.
LEMMA IdleKnows ==
  ASSUME NEW c \in ReviewCall, pc'[c] = "idle"
  PROVE  ReviewerKnows(c)'
BY DEF ReviewerKnows

\* And it is steady.
LEMMA AloneIsSteady == \A f : Alone(f) => Steady(f)
BY DEF Alone, Steady

\* What is outside the hub stays well formed.
LEMMA OutsideKept ==
  ASSUME HubInv, FlowInv, [Next]_vars, Watched
  PROVE  /\ revision' \in [Thread -> Nat] /\ shown' \in [ReadCall -> Nat]
         /\ \A t \in Thread : thread'[t] # None => revision'[t] > 0
<1>1. CASE Observe
  <2>1. \A t \in Thread : revision[t] \in Nat /\ (thread[t] # None => revision[t] > 0)
    BY DEF FlowInv, FlowTypeOK
  <2>2. revision' \in [Thread -> Nat] /\ \A t \in Thread : thread'[t] # None => revision'[t] > 0
    BY <1>1, <2>1 DEF Observe
  <2>3. ASSUME NEW c \in ReadCall, pc[c] = "read:get" PROVE target[c] \in Thread
    <3>1. arg[c].app \in App
      BY <2>3, Begun DEF HubInv, EngineInv, CallsInv
    <3> QED
      BY <2>3, <3>1 DEF FlowInv, ReadKnows, HubInv, EngineInv, RecordInv, PreparationKnows, CallsInv,
         TypeInv, TypeOK, StoreTypeOK, Preparation
  <2>4. shown' \in [ReadCall -> Nat]
    BY <1>1, <2>1, <2>3 DEF Observe, FlowInv, FlowTypeOK
  <2> QED
    BY <2>2, <2>4
<1>2. CASE UNCHANGED outside /\ (UNCHANGED vars \/ Arrive)
  <2>1. UNCHANGED thread
    BY <1>2 DEF Arrive, PrepareBegin, ReviewBegin, UpdateBegin, CreateBegin, ReadBegin, vars, engine
  <2> QED
    BY <1>2, <2>1 DEF outside, FlowInv, FlowTypeOK
<1> QED
  BY <1>1, <1>2 DEF Watched

\* An execution begins with its look at the analysis.
LEMMA BeginKeepsFlows ==
  ASSUME HubInv, WitnessInv, FlowInv, [Next]_vars, NEW f \in Flow, FlowBegin(f)
  PROVE  FlowInv'
<1>1. PICK c \in ReadCall, a \in App, k \in Key, d \in Decision :
        /\ pc[c] = "idle" /\ ReadBegin(c, a) /\ tool' = [tool EXCEPT ![f] = c]
        /\ preparation[a].thread # None
        /\ \E v \in 1..revision[preparation[a].thread] :
             wanted' = [wanted EXCEPT ![f] = [app |-> a, key |-> k, want |-> d, revision |-> v]]
  BY LookBegins
<1>2. /\ stage[f] = "idle" /\ stage' = [stage EXCEPT ![f] = "looking"]
      /\ UNCHANGED <<tries, looked, owner, outside>>
  BY DEF FlowBegin
<1>3. PICK v \in Nat \ {0} :
        wanted' = [wanted EXCEPT ![f] = [app |-> a, key |-> k, want |-> d, revision |-> v]]
  <2>1. preparation[a].thread \in Thread
    BY <1>1 DEF HubInv, EngineInv, CallsInv, TypeInv, TypeOK, StoreTypeOK, Preparation
  <2>2. revision[preparation[a].thread] \in Nat
    BY <2>1 DEF FlowInv, FlowTypeOK
  <2>3. PICK v \in 1..revision[preparation[a].thread] :
          wanted' = [wanted EXCEPT ![f] = [app |-> a, key |-> k, want |-> d, revision |-> v]]
    BY <1>1
  <2>4. v \in Nat \ {0}
    BY <2>2, <2>3
  <2> QED
    BY <2>3, <2>4
<1>4. Watched
  BY <1>1, <1>2 DEF Watched, Arrive
<1>5. FlowTypeOK'
  <2>1. [app |-> a, key |-> k, want |-> d, revision |-> v] \in Request
    BY DEF Request
  <2>2. wanted' \in [Flow -> Request \cup {None}]
    BY <1>3, <2>1 DEF FlowInv, FlowTypeOK
  <2>3. /\ stage' \in [Flow -> {"idle", "looking", "reviewing"} \cup Over]
        /\ tool' \in [Flow -> ReadCall \cup ReviewCall \cup {None}]
        /\ UNCHANGED <<tries, looked, owner>>
    BY <1>1, <1>2 DEF FlowInv, FlowTypeOK
  <2> QED
    BY <1>4, <2>2, <2>3, OutsideKept DEF FlowInv, FlowTypeOK
<1>6. pc'[c] # "idle" /\ arg'[c].app = a
  BY <1>1 DEF ReadBegin, ReadApplication, Proceed, Goto, HubInv, EngineInv, CallsInv, TypeInv, TypeOK,
     CallTypeOK, Arguments
<1>7. FlowKnows(f)'
  <2>1. /\ stage'[f] = "looking" /\ tool'[f] = c /\ tries'[f] = 0
        /\ wanted'[f] = [app |-> a, key |-> k, want |-> d, revision |-> v]
    BY <1>1, <1>2, <1>3 DEF FlowInv, FlowTypeOK, FlowKnows
  <2> QED
    BY <1>6, <2>1 DEF FlowKnows, Request
<1>8. \A g \in Flow \ {f} : Alone(g)
  BY <1>1, <1>2, <1>3 DEF Alone, FlowInv, FlowTypeOK
<1>9. ASSUME NEW r \in ReviewCall, pc[r] = "idle" PROVE ReviewerKnows(r)'
  <2>1. pc'[r] = "idle"
    BY <1>1, <1>9, CallsAreDistinct DEF ReadBegin, ReadApplication, Proceed, Goto, HubInv, EngineInv,
       CallsInv, TypeInv, TypeOK, CallTypeOK
  <2> QED
    BY <2>1, IdleKnows
<1>10. Steady(f) /\ OwnersStay
  BY <1>2 DEF Steady, OwnersStay
<1> QED
  BY <1>4, <1>5, <1>7, <1>8, <1>9, <1>10, AloneIsSteady, StepKeepsFlows

\* A step of execution f alone.
LEMMA OwnStepKeepsFlows ==
  ASSUME HubInv, WitnessInv, FlowInv, NEW f \in Flow, UNCHANGED <<vars, owner, outside>>,
         stage' \in [Flow -> {"idle", "looking", "reviewing"} \cup Over],
         tool' \in [Flow -> ReadCall \cup ReviewCall \cup {None}],
         tries' \in [Flow -> Nat], UNCHANGED wanted, looked' \in [Flow -> Nat],
         FlowKnows(f)', Steady(f), \A g \in Flow \ {f} : Alone(g)
  PROVE  FlowInv'
<1>1. FlowTypeOK'
  BY DEF FlowInv, FlowTypeOK, outside, vars, engine
<1>2. ASSUME NEW c \in ReviewCall, pc[c] = "idle" PROVE ReviewerKnows(c)'
  BY <1>2, IdleKnows DEF vars
<1>3. Watched /\ OwnersStay
  BY DEF Watched, OwnersStay
<1> QED
  BY <1>1, <1>2, <1>3, AloneIsSteady, StepKeepsFlows

\* It takes in what it found.
LEMMA LookedKeepsFlows ==
  ASSUME HubInv, WitnessInv, FlowInv, NEW f \in Flow, Looked(f)
  PROVE  FlowInv'
<1>. DEFINE v == shown[tool[f]]
<1>1. /\ stage[f] = "looking" /\ pc[tool[f]] = "returned"
      /\ stage' = [stage EXCEPT ![f] = Validate(f, v)] /\ looked' = [looked EXCEPT ![f] = v]
      /\ tool' = [tool EXCEPT ![f] = None] /\ tries' = [tries EXCEPT ![f] = MaxTries]
      /\ UNCHANGED <<vars, wanted, owner, outside>>
  BY DEF Looked
<1>2. tool[f] \in ReadCall /\ arg[tool[f]].app = wanted[f].app /\ wanted[f] \in Request
  BY <1>1 DEF FlowInv, FlowKnows
<1>3. v \in Nat /\ (v = 0 => IsOver(wanted[f].app))
  BY <1>1, <1>2 DEF FlowInv, FlowTypeOK, ReadKnows
<1>4. /\ Validate(f, v) \in {"reviewing", "stale"}
      /\ Validate(f, v) = "reviewing" => v \in {0, wanted[f].revision}
  BY DEF Validate
<1>. HIDE DEF v
<1>5. /\ stage' \in [Flow -> {"idle", "looking", "reviewing"} \cup Over]
      /\ tool' \in [Flow -> ReadCall \cup ReviewCall \cup {None}]
      /\ tries' \in [Flow -> Nat] /\ looked' \in [Flow -> Nat]
  BY <1>1, <1>3, <1>4, TriesAreCounted DEF FlowInv, FlowTypeOK, Over
<1>6. FlowKnows(f)'
  <2>1. /\ stage'[f] = Validate(f, v) /\ tool'[f] = None /\ looked'[f] = v /\ wanted'[f] = wanted[f]
    BY <1>1 DEF FlowInv, FlowTypeOK
  <2>2. UNCHANGED thread /\ UNCHANGED preparation
    BY <1>1 DEF vars, engine, tables
  <2> QED
    BY <1>2, <1>3, <1>4, <2>1, <2>2 DEF FlowKnows, HasLooked, IsOver
<1>7. Steady(f) /\ \A g \in Flow \ {f} : Alone(g)
  BY <1>1 DEF Steady, Alone, FlowInv, FlowTypeOK
<1> QED
  BY <1>1, <1>5, <1>6, <1>7, OwnStepKeepsFlows

\* It decides on what it found.
LEMMA DecideKeepsFlows ==
  ASSUME HubInv, WitnessInv, FlowInv, [Next]_vars, NEW f \in Flow, Decide(f)
  PROVE  FlowInv'
<1>1. PICK c \in ReviewCall :
        /\ pc[c] = "idle" /\ ReviewBegin(c, wanted[f].app, wanted[f].key, wanted[f].want)
        /\ tool' = [tool EXCEPT ![f] = c] /\ owner' = [owner EXCEPT ![c] = f]
  BY DecisionBegins
<1>2. /\ stage[f] = "reviewing" /\ tries[f] > 0 /\ tries' = [tries EXCEPT ![f] = @ - 1]
      /\ UNCHANGED <<stage, wanted, looked, outside>>
  BY DEF Decide
<1>3. HasLooked(f) /\ wanted[f] \in Request
  BY <1>2 DEF FlowInv, FlowKnows, HasLooked
<1>4. Watched
  BY <1>1, <1>2, <1>3 DEF Watched, Arrive, Request
<1>5. FlowTypeOK'
  <2>1. tool' \in [Flow -> ReadCall \cup ReviewCall \cup {None}]
    BY <1>1 DEF FlowInv, FlowTypeOK
  <2>2. owner' \in [ReviewCall -> Flow \cup {None}]
    BY <1>1 DEF FlowInv, FlowTypeOK
  <2>3. tries' \in [Flow -> Nat] /\ UNCHANGED <<stage, wanted, looked>>
    BY <1>2 DEF FlowInv, FlowTypeOK
  <2> QED
    BY <1>4, <2>1, <2>2, <2>3, OutsideKept DEF FlowInv, FlowTypeOK
<1>6. HasLooked(f)'
  BY <1>2, <1>3, LookStands
<1>7. owner'[c] = f /\ tool'[f] = c /\ stage'[f] = "reviewing" /\ wanted'[f] = wanted[f]
  BY <1>1, <1>2 DEF FlowInv, FlowTypeOK
<1>8. /\ pc'[c] \in {"review:find_key", "not_found"} /\ ~Posted(c)'
      /\ arg'[c] = [app |-> wanted[f].app, key |-> wanted[f].key, want |-> wanted[f].want]
      /\ \A r \in ReviewCall \ {c} : pc'[r] = pc[r]
  <2>1. ~Posted(c) /\ UNCHANGED post
    BY <1>1 DEF ReviewBegin, engine, HubInv, EngineInv, CallsInv, ReviewInv, ReviewKnows
  <2> QED
    BY <1>1, <2>1 DEF ReviewBegin, ReadApplication, Proceed, Goto, Posted, HubInv, EngineInv, CallsInv,
       TypeInv, TypeOK, CallTypeOK
<1>9. ReviewerKnows(c)'
  BY <1>6, <1>7, <1>8 DEF ReviewerKnows
<1>10. ASSUME NEW r \in ReviewCall, pc[r] = "idle" PROVE ReviewerKnows(r)'
  BY <1>8, <1>9, <1>10, IdleKnows
<1>11. FlowKnows(f)'
  BY <1>3, <1>6, <1>7, <1>8 DEF FlowKnows
<1>12. /\ \A g \in Flow \ {f} : Alone(g)
       /\ Steady(f)
  BY <1>1, <1>2 DEF Alone, Steady, FlowInv, FlowTypeOK
<1>13. OwnersStay
  BY <1>1 DEF OwnersStay, FlowInv, FlowTypeOK
<1> QED
  BY <1>4, <1>5, <1>10, <1>11, <1>12, <1>13, AloneIsSteady, StepKeepsFlows

\* It reports what its call answered.
LEMMA DecidedKeepsFlows ==
  ASSUME HubInv, WitnessInv, FlowInv, NEW f \in Flow, Decided(f)
  PROVE  FlowInv'
<1>. DEFINE c == tool[f]
            node == Normalize(result[c])
<1>1. /\ stage[f] = "reviewing" /\ c # None /\ pc[c] \in {"returned", "replayed"}
      /\ stage' = [stage EXCEPT ![f] = node]
      /\ UNCHANGED <<vars, tool, tries, wanted, looked, owner, outside>>
  BY DEF Decided
<1>2. c \in ReviewCall /\ owner[c] = f /\ wanted[f] \in Request
  BY <1>1 DEF FlowInv, FlowKnows, HasLooked
<1>3. node \in Over /\ (node = "reviewed" => result[c] = "completed")
  BY DEF Normalize, Over
<1>4. result[c] = "completed" => IsDone(wanted[f].app, wanted[f].key, wanted[f].want)
  <2>1. ReviewerKnows(c)
    BY <1>2 DEF FlowInv
  <2> QED
    BY <1>1, <1>2, <2>1 DEF ReviewerKnows
<1>. HIDE DEF node, c
<1>5. stage' \in [Flow -> {"idle", "looking", "reviewing"} \cup Over] /\ stage'[f] = node
  BY <1>1, <1>3 DEF FlowInv, FlowTypeOK
<1>6. node \notin {"idle", "looking", "reviewing"}
  BY <1>3 DEF Over
<1>7. FlowKnows(f)'
  <2>1. UNCHANGED submission
    BY <1>1 DEF vars, tables
  <2> QED
    BY <1>1, <1>2, <1>3, <1>4, <1>5, <1>6, <2>1 DEF FlowKnows, IsDone, HasStatus
<1>8. Steady(f) /\ \A g \in Flow \ {f} : Alone(g)
  BY <1>1, <1>5, <1>6 DEF Steady, Alone, FlowInv, FlowTypeOK
<1> QED
  BY <1>1, <1>5, <1>7, <1>8, OwnStepKeepsFlows DEF FlowInv, FlowTypeOK

\* A try fails, and the execution tries again or reports it.
LEMMA FailureKeepsFlows ==
  ASSUME HubInv, WitnessInv, FlowInv, NEW f \in Flow, TryFails(f)
  PROVE  FlowInv'
<1>1. /\ stage[f] \in {"looking", "reviewing"}
      /\ UNCHANGED <<vars, tries, wanted, looked, owner, outside>>
  BY DEF TryFails
<1>2. wanted[f] \in Request
  BY <1>1 DEF FlowInv, FlowKnows
<1>3. CASE tries[f] > 0 /\ tool' = [tool EXCEPT ![f] = None] /\ UNCHANGED stage
  <2>1. stage[f] = "reviewing"
    BY <1>1, <1>3 DEF FlowInv, FlowKnows
  <2>2. FlowKnows(f)'
    <3>1. tool'[f] = None
      BY <1>3 DEF FlowInv, FlowTypeOK
    <3>2. HasLooked(f)'
      BY <1>1, <2>1 DEF FlowInv, FlowKnows, HasLooked, IsOver, vars, engine, tables
    <3> QED
      BY <1>1, <1>2, <1>3, <2>1, <3>1, <3>2 DEF FlowKnows
  <2>3. Steady(f) /\ \A g \in Flow \ {f} : Alone(g)
    BY <1>1, <1>3 DEF Steady, Alone, FlowInv, FlowTypeOK
  <2> QED
    BY <1>1, <1>3, <2>2, <2>3, OwnStepKeepsFlows DEF FlowInv, FlowTypeOK
<1>4. CASE stage' = [stage EXCEPT ![f] = "error"] /\ UNCHANGED tool
  <2>1. stage'[f] = "error" /\ stage' \in [Flow -> {"idle", "looking", "reviewing"} \cup Over]
    BY <1>4 DEF FlowInv, FlowTypeOK, Over
  <2>2. FlowKnows(f)'
    BY <1>1, <1>2, <2>1 DEF FlowKnows
  <2>3. Steady(f) /\ \A g \in Flow \ {f} : Alone(g)
    BY <1>1, <1>4, <2>1 DEF Steady, Alone, FlowInv, FlowTypeOK
  <2> QED
    BY <1>1, <1>4, <2>1, <2>2, <2>3, OwnStepKeepsFlows DEF FlowInv, FlowTypeOK
<1> QED
  BY <1>3, <1>4 DEF TryFails

\* Reviews reach the hub through the workflow only.
LEMMA HubKeepsFlows ==
  ASSUME HubInv, WitnessInv, FlowInv, [Next]_vars, HubStep
  PROVE  FlowInv'
<1>1. Observe /\ UNCHANGED <<stage, tool, tries, wanted, looked, owner>>
  BY DEF HubStep, flows
<1>2. Watched /\ OwnersStay /\ \A f \in Flow : Alone(f)
  BY <1>1 DEF Watched, OwnersStay, Alone
<1>3. FlowTypeOK'
  BY <1>1, <1>2, OutsideKept DEF FlowInv, FlowTypeOK
<1>4. ASSUME NEW c \in ReviewCall, pc[c] = "idle" PROVE pc'[c] = "idle"
  <2>1. \A d \in Call : \A next : d # c /\ Goto(d, next) => pc'[c] = "idle"
    BY <1>4 DEF Goto, HubInv, EngineInv, CallsInv, TypeInv, TypeOK, CallTypeOK
  <2>2. ASSUME NEW d \in PrepareCall, NEW a \in App, PrepareBegin(d, a) PROVE pc'[c] = "idle"
    BY <2>1, <2>2, CallsAreDistinct DEF PrepareBegin, ReadApplication, Proceed
  <2>3. CASE EngineStep
    BY <1>4, <2>3 DEF EngineStep
  <2>4. CASE Advance \/ \E d \in Call : Crash(d)
    BY <1>4, <2>1, <2>4, StepsMove DEF Running
  <2> QED
    BY <2>2, <2>3, <2>4 DEF HubStep
<1>5. ASSUME NEW c \in ReviewCall, pc[c] = "idle" PROVE ReviewerKnows(c)'
  BY <1>4, <1>5, IdleKnows
<1> QED
  BY <1>2, <1>3, <1>5, AloneIsSteady, StepKeepsFlows

FlowSafe == HubInv /\ WitnessInv /\ FlowInv

\* Every step of the hub and of the executions keeps the invariant.
LEMMA NextKeepsFlows == FlowSafe /\ [FlowNext]_flowVars => FlowSafe'
<1>. SUFFICES ASSUME HubInv, WitnessInv, FlowInv, [FlowNext]_flowVars PROVE FlowSafe'
  BY DEF FlowSafe
<1>1. [Next]_vars
  BY FlowStepsAreHubSteps
<1>2. HubInv' /\ WitnessInv'
  BY <1>1, NextKeepsHub, NextKeepsWitnesses
<1>3. ASSUME UNCHANGED flowVars PROVE FlowInv'
  <2>1. UNCHANGED <<vars, stage, tool, tries, wanted, looked, owner, outside>>
    BY <1>3 DEF flowVars, flows
  <2>2. FlowTypeOK' /\ Watched /\ OwnersStay /\ \A f \in Flow : Alone(f)
    BY <2>1 DEF FlowInv, FlowTypeOK, Watched, OwnersStay, Alone, vars, engine, outside
  <2>3. ASSUME NEW c \in ReviewCall, pc[c] = "idle" PROVE ReviewerKnows(c)'
    BY <2>1, <2>3, IdleKnows DEF vars
  <2> QED
    BY <1>1, <2>2, <2>3, AloneIsSteady, StepKeepsFlows
<1> QED
  BY <1>1, <1>2, <1>3, BeginKeepsFlows, LookedKeepsFlows, DecideKeepsFlows, DecidedKeepsFlows,
     FailureKeepsFlows, HubKeepsFlows DEF FlowNext, FlowSafe

\* No execution has begun to begin with.
LEMMA FlowsBegin == FlowInit => FlowSafe
<1>. SUFFICES ASSUME FlowInit PROVE FlowSafe
  OBVIOUS
<1>1. HubInv /\ WitnessInv /\ \A c \in Call : pc[c] = "idle"
  BY InitHub, WitnessesBegin DEF FlowInit, Init, CallInit
<1>2. FlowTypeOK
  BY DEF FlowInit, FlowTypeOK, Init, EngineInit
<1> QED
  BY <1>1, <1>2 DEF FlowSafe, FlowInv, FlowInit, FlowKnows, ReadKnows, ReviewerKnows

-----------------------------------------------------------------------------
(* Theorems.                                                               *)

\* The workflow is one of the clients the hub is modelled with.
THEOREM WorkflowUsesTheHub == FlowSpec => Spec
<1>1. FlowInit => Init
  BY DEF FlowInit
<1>2. FlowSafe /\ [FlowNext]_flowVars => [Next]_vars
  BY FlowStepsAreHubSteps DEF FlowSafe
<1> QED
  BY <1>1, <1>2, FlowsBegin, NextKeepsFlows, PTL DEF FlowSpec, Spec

\* The invariant of the executions over the hub.
LEMMA FlowsAreSound == FlowSpec => []FlowSafe
BY FlowsBegin, NextKeepsFlows, PTL DEF FlowSpec

\* A decision that was sent was made about the proposals its workflow found when
\* it looked (Validate Current Review State): the check is not repeated, but the
\* one case in which it lets a request pass unseen, an analysis that is over,
\* does not come back, and the hub refuses to send anything to it.
THEOREM StaleDecisionsStop == FlowSpec => []StaleDecisionsAreStopped
<1>1. FlowSafe => StaleDecisionsAreStopped
  <2>. SUFFICES ASSUME FlowSafe, NEW c \in ReviewCall, Posted(c)
                PROVE  looked[owner[c]] = wanted[owner[c]].revision
    BY DEF StaleDecisionsAreStopped
  <2>1. pc[c] # "idle"
    BY DEF FlowSafe, HubInv, EngineInv, CallsInv, ReviewInv, ReviewKnows
  <2> QED
    BY <2>1 DEF FlowSafe, FlowInv, ReviewerKnows
<1> QED
  BY <1>1, FlowsAreSound, PTL

\* An execution that reports a review done (Normalize Review Result) had exactly
\* its decision carried out by the engine, whichever of its calls, retries or
\* repeated requests sent it.
THEOREM ReportedReviewsAreReal == FlowSpec => []ReportedReviewsHappened
<1>1. FlowSafe => ReportedReviewsHappened
  <2>. SUFFICES ASSUME FlowSafe, NEW f \in Flow, stage[f] = "reviewed"
                PROVE  \E c \in applied : arg[c] = [app |-> wanted[f].app, key |-> wanted[f].key,
                                                    want |-> wanted[f].want]
    BY DEF ReportedReviewsHappened
  <2>1. wanted[f].key \in Key /\ IsDone(wanted[f].app, wanted[f].key, wanted[f].want)
    BY DEF FlowSafe, FlowInv, FlowKnows, Request
  <2> QED
    BY <2>1 DEF FlowSafe, WitnessInv, IsDone
<1> QED
  BY <1>1, FlowsAreSound, PTL
=============================================================================
