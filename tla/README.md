# A TLA+ model of the CareerOps Automation Hub

The Automation Hub (Module 2) is an MCP server that keeps the lifecycle of job
applications in PostgreSQL and has the Agent Engine (Module 1, a service of its
own) analyse them. What makes it hard is written between the lines of its
services: each is a coroutine that alternates database transactions with one
HTTP request that may be lost, time out, or be executed after the caller has
given up; clients retry; calls race; the process may die at any statement.
Around the services stand surfaces that pass requests on to Module 1, and n8n
workflows that call the services, try again and report to people.

## 1. Inventory

All paths are below `src/src/careerops_automation_mcp_hub` unless they begin
with another directory.

| Component | State it keeps | Operations | What makes it correct |
|---|---|---|---|
| Application lifecycle (`domain/application_lifecycle.py`, `domain/job_application.py`) | status of an application, its events | `transition_to` | moves only along the transition table; the events form a chain |
| `PrepareApplicationService` | `application_preparations` (one row per application), review action items | start or replay, request the analysis, record it | at most one analysis per application; the row says what the engine did |
| `ReviewApplicationService` | `application_review_submissions` (one row per idempotency key) | start or replay, send the decision, record it | reviews of an application do not overlap; a key sends one; an unknown outcome blocks further reviews |
| `UpdateApplicationStatusService`, `CreateApplicationService` | applications, events, `idempotency_records` | one transaction each | a key acts once; a retry is answered with what happened |
| `GetApplicationAnalysisService` | none | read a thread back from the engine | recovers analyses whose answer was lost |
| Idempotency (`application/idempotency.py`) | claims with stored responses | claim, resolve, complete | the second call with a key waits for the first |
| Repositories, unit of work, tables (`infrastructure/database`) | the tables, row locks | SELECT, SELECT FOR UPDATE, UPDATE, INSERT, commit, rollback | constraints and locks order the services' steps |
| In-memory adapter (`infrastructure/memory`) | dictionaries | the same ports | the same promises without locks, constraints or rollback |
| Agent Engine client (`infrastructure/agent_engine/http_client.py`) | none | one request, classified answer | never mistakes an executed request for a refused one |
| Gateways to Module 1 (`application/services/evidence_*`, `job_cv_gateway.py`) | none | eighteen operations, passed on | a lost answer can be found by reading; everything is done for the caller's subject |
| HTTP API, MCP server, authentication (`api`, `mcp`, `infrastructure/auth`, `mcp/principal.py`) | none | translate calls, tokens and errors | both surfaces serve and refuse alike, but for the moment after a token's expiry; a refusal means that nothing was done |
| Validators (`application/evidence.py`, `job_analysis.py`, `application_review.py`) | none | normalise and validate decisions and answers | one decision has one meaning whichever way it comes; a retry is recognised |
| n8n workflows (`src/n8n/workflows`) | one execution | preparation, reconciliation, human review | retries are safe; what is reported is so |
| Reads (`get_application`, `list_applications`, `get_pending_actions`) | none | SELECT | - |
| Approval requests (`domain/approval_request.py`) | status, expiry | approve, reject, expire | decided once, never after expiry |
| Configuration, migrations, OpenClaw policy (`src/openclaw`) | none | - | - |

Interactions: a tool call of the MCP server executes one service; services share
nothing but the database; the engine is reached over HTTP by the client alone;
no transaction is open during a request; the workflows reach the hub through
its tools and know nothing but their results.

Hard behaviours: two calls between each other's SELECT and UPDATE; the gap
between the transaction that claims work and the one that records it; an answer
lost after the engine acted, or a request that the engine executes late; a retry
with the same key while the first call is still running; a call that dies with
its row in progress; locks of two tables taken in both orders; a decision that
reaches a tracked analysis beside the hub; a workflow that decides by what it
read a moment ago. `PROJECT.json` lists each at its line under "hazards".

## 2. The modules

The hub. Each module extends the one before it; the services extend the store.

| Module | Models |
|---|---|
| `ApplicationLifecycle` | statuses and the allowed transitions, as a relation |
| `HubCalls` | the calls in progress: `pc`, `arg`, `seen` (the status the call's last plain SELECT returned), `verdict` (what it concluded from the engine's answer) |
| `AgentEngine` | the HTTP exchange of a call (`post`, `target`), what the client concludes, and the engine itself (`thread`, `applied`), which is outside the repository |
| `HubStore` | the tables, row locks, READ COMMITTED reads, commit and rollback, `Crash` |
| `PrepareApplication`, `ReviewApplication`, `UpdateApplicationStatus`, `CreateApplication`, `GetApplicationAnalysis` | the services: one action per statement that can see or make others see a change |
| `Idempotency` | the claims that the update and create services share |
| `CareerOpsHub` | all of it: `Init`, `Next`, `Spec`, fairness |
| `HubProperties` | its properties |
| `RemoteOperation`, `HubRefinement` | the abstract specification of "claim, request at most once, record no more than is known", and the two mappings under which the hub implements it: the analyses, named by application, and the reviews, named by key and scoped by application |

Around it. Each of the first four extends `HubProperties` or `HubRefinement`, and so runs
the services as they are.

| Module | Models |
|---|---|
| `MemoryHub`, `Stores` | the services over dictionaries, a transaction one step and rollback discarding nothing; and the choice between the two stores, over which the same is promised |
| `DirectReviews` | decisions that reach the thread of a tracked application through the standalone review operation |
| `PreparationWorkflow` | the preparation and reconciliation workflows: nodes that try again, switches, a request the platform sends twice |
| `HumanReviewWorkflow` | the review workflow: the look at the proposals, the comparison, the decision under a key made of the request |
| `AccessControl` | token claims, their extraction, their expiry as the verifier and as the MCP library judge it, the principal of either surface |
| `EngineAnswers` | what the HTTP client raises for each answer, what the services record and what the REST handlers tell |
| `Gateway`, `GatewayProperties` | a request of each of the eighteen operations on its way through REST, MCP or a tracked service to Module 1 and back |
| `ReviewDecisions`, `ReviewSurfaces` | the three ways a decision is normalised and validated (tracked, direct, evidence), on one input, and the comparison of a retry |

Checking and proving: `MCHub`, `MCStores` and `MCGateway` are the instances for
TLC. `HubInvariant` holds the inductive invariants of the hub, `HubOnceProofs`,
`HubEngineProofs` and `HubLifecycleProofs` its theorems, the last also those about
`DirectReviews`. `GatewayProofs`, `PreparationProofs`, `HumanReviewProofs`,
`ReviewSurfacesProofs` and `StoresProofs` hold the theorems about the parts around
it, each with the invariant it needs.

How the code became actions:

* **A call** is one execution of a service. A client's retry is another call with
  the same arguments. `arg` is chosen freely when a call begins, so equal keys,
  different requests under one key, and calls for one or several applications
  all occur.
* **A transaction** runs under READ COMMITTED: every plain SELECT is an action,
  and sees what is committed when it executes. `SELECT ... FOR UPDATE`, `UPDATE`
  and an `INSERT` on a unique key wait for the row and hold it until the
  transaction ends (`Acquire`, `Release`). Writes are published by the last
  action of the transaction; statements between the last one that can wait and
  the commit are one step, since no other session sees the difference.
* **An exception** inside a transaction rolls it back: the call ends and its
  locks are released (`Proceed` to a state in `Ended`). Over the dictionaries
  nothing is rolled back, so a refused transition leaves its claim without a
  response, and later calls with the key end in `replay_unavailable`
  (`MemUpdate`).
* **The engine** executes a request it was sent at any time, also after the
  client stopped waiting or died, and need not execute it at all; it answers with
  the thread's status, a refusal, a 409, a 5xx, or a body the client rejects. It
  is given no idempotency. `EngineAnswers.Recorded` is the except clauses of the
  two services; a 409 is among the answers they record as `outcome_unknown`.
* **A crash** (`Crash`) ends a call between two statements, rolls back its open
  transaction and leaves everything committed and sent. Over the dictionaries a
  coroutine can only be cancelled where it suspends (`MemCancel`).
* **A workflow** knows of a call only its result; a node whose call fails, or
  whose answer is lost or late, calls again while it has a try left, also while
  the first call still runs.
* **Module 1 behind the gateway** keeps the resources it made, for whom it holds
  them, and what it was made from (`sort`, `holder`, `origin`). `Gateway.Forget`
  reuses the name of a finished call for the next request, so that short runs of
  several requests need few names; nothing in the code corresponds to it, and
  nothing but the finished call's own variables changes.
* **Abstraction**: a review decision, a company and role, a user's text are
  single values, except in `ReviewDecisions`, where a decision is its lists of
  identifiers with their white space; an answer is a code and a class of body;
  a token is the claims that the code looks at, and whether it is presented
  before its expiry, within the leeway after it, or later. Identifiers are the application
  and the key; timestamps and wording are left out. A row of
  `application_preparations` is found by its application, which a unique
  constraint allows; its status is never `pending` because the only caller marks
  it starting before it inserts it, and the same holds for submissions. One user
  is modelled in the hub, since every statement filters on `user_id`; `Gateway`
  has two.

## 3. What is checked

| Run | Instance | Shows |
|---|---|---|
| `PrepareRace` | 3 prepare, 2 update, 1 key, 1 application; `preparing` and `withdrawn` asked for | one analysis is requested (`AtMostOneAnalysis`), a call that reached the engine always gets to record the outcome (`OutcomesAreRecorded`), the preparation claims no more than the engine knows (`PreparationMatchesEngine`), a stored answer is true (`ClaimsAreWitnessed`), and the calls together implement `RemoteOperation` (`AnalysesAreRemoteOperations`) |
| `ReviewRace` | 1 prepare, 2 review, 1 update, 2 keys, 2 decisions, either store | reviews do not overlap even when their clients gave up (`NoOverlappingReviews`), never reach a finished analysis (`ReviewsTargetOpenThreads`), a doubtful outcome blocks (`DoubtBlocksReviews`), preparation, action and submissions agree (`RowsAgree`), the reviews implement `RemoteOperation`; over the dictionaries no status is overwritten (`MemoryTransitionsAreLegal`) |
| `IdempotentWrites` | 2 create, 2 update, 2 keys, 2 applications, none at the start, either store | a key acts once (`KeysActOnce`), and what a retry is answered happened (`ClaimsAreTrue`) |
| `Orchestration` | 2 prepare, 2 review, 2 keys, 2 applications | a key sends one review although the applications' locks do not exclude each other (`OneReviewPerKey`); without foreign updates the lifecycle is respected and review gates readiness (`LegalTransitions`, `EventsFormAChain`, `ReviewGatesReadiness`) |
| `Progress` | 1 prepare, 2 review, 1 update, 1 key, decisions beside the hub, fairness | every call ends (`CallsEnd`), no row stays in progress unless its owner died (`PreparationsSettle`, `SubmissionsSettle`); whoever decided, the rows agree among themselves and claim no completion the engine does not know (`RowsAgree`, `CompletionIsEarned`) |
| `Workflow` | 2 executions, 2 tries a node, 2 create, 3 prepare | a request sent twice starts one analysis (`OneAnalysisPerRequest`); no end of a workflow says what is not so (`ReportsAreTrue`) |
| `HumanReview` | 2 executions, 2 tries, 2 keys, 1 prepare, 3 review, 2 read | a decision on proposals that had changed when the workflow looked is not sent (`StaleDecisionsAreStopped`); a review reported done was done (`ReportedReviewsHappened`) |
| `Gateway` | 3 names, 3 resources, REST, MCP and tracked requests, every answer code | what a lost answer hid can be found (`LostAnswersAreFound`), refusals and successes are true (`RefusalsAreFinal`, `SuccessesAreReal`), everything is done for the subject of a good token (`ServedForTheSubject`), and no tool acts on a token that has expired, which is all that the two surfaces differ in (`SurfacesDifferByLeeway`) |
| `ReviewSurfaces` | decisions on up to 2 items of 2 proposals | no proposal is decided twice where the code checks it (`OneFatePerProposal`), the ways send the same decision (`SurfacesSendAlike`), and a retry is told from a request with another action, other edits, proposals or comment (`RetriesAreRecognised`) |

Three runs end in a violation and document where the program does not do what
its documentation says:

* `LostUpdate`: `prepare_application` writes back a status it judged with a plain
  SELECT; a withdrawal committed in between is overwritten, against
  `docs/ARCHITECTURE.md:222`. The review service's and the update service's
  writes are exposed to the same race; `Orchestration` therefore states the
  lifecycle properties for instances without foreign updates, and says
  no more than that. Over the dictionaries, where no transaction interleaves,
  the lifecycle holds with them (`MemoryTransitionsAreLegal`): the tests, which
  run there, cannot meet the race.
* `ReviewBypassed`: `update_application_status` makes an application
  `ready_to_apply` while its analysis awaits review
  (`docs/ARCHITECTURE.md:476`).
* `AmbiguousRead`: the recovery read needs the thread identifier that an
  ambiguous preparation never stored (`docs/ARCHITECTURE.md:454`).

Other behaviour that the models make visible and no document speaks of, so that
no property takes a side:

* A token is good for the REST routes for 30 seconds after its expiry, the
  verifier's `leeway`. The verifier hands `expires_at` on, and the bearer backend
  of the MCP library allows no leeway: in these seconds the same token is
  refused by every tool.

* A direct review of a tracked thread is not told to the hub: the preparation
  stays `awaiting_review`, and a tracked review sent later gets a 409, is
  recorded `outcome_unknown` and blocks every further one.
* The tracked way does not compare approved, rejected and edited proposals with
  each other, the direct way does; the evidence way does not strip white space,
  so that `' p1'` and `'p1'` are two proposals to it and may meet two fates
  (`OneFatePerProposal` speaks of identifiers that are written alike).
* A review of an application that was withdrawn after the service read it is
  sent to the engine all the same; the rows stay in agreement.
* A job analysis started directly whose answer is lost appears in no list
  (`LostAnswersAreFound` leaves this operation out).
* A decision may reach proposals that changed after the workflow looked, since
  `review_application` takes no expected revision; and a `regenerate` request
  sent again after it was executed ends as stale.

**Bounds.** Each call runs once, so the calls of a configuration bound the
behaviour and no counter needs a cap; `CHECK_DEADLOCK FALSE` because a finite
number of calls really ends. Two calls of a kind are needed for every race, a
third prepare call adds a late retry to a race of two; two keys and two
decisions give the replay, the conflict and the independent review; two
applications are what the key constraint, as opposed to the row lock, is for.
Every row has one owner, so a further party adds no new kind of interleaving.
`MaxTries` is the workflows' own number of tries. In `HumanReview` three review
calls let one execution try again while the other decides. In `Gateway` one
request is in flight at a time, because requests share nothing in Module 2; the
resources bound how many can be made: a source, something made from it, and one
of another user. One token has expired within the leeway and one before.
`MaxItems` allows one proposal to be named twice and two to be confused; a used
key is used again for the decision, as it came or stripped, with each one of its
parts replaced, and two words tell two texts apart. The sets of calls, keys, decisions and applications are symmetric (all
applications or none exist at the start); runs with a `CHOOSE` over calls
(the workflows) and the liveness run use no symmetry.

**Fairness** (`Progress` only): weak fairness of each call's steps. The event
loop runs every coroutine that can proceed, PostgreSQL grants a lock whose
holder has ended, and the client's read timeout (`TimeOut`) ends every wait for
the engine. Nothing is assumed of the engine, of arrivals, of direct reviews or
of crashes. Each property of a passing run is checked to fail when the code it is about is
changed in a plausible way; the changed operators stand before the originals,
marked as mutants.

## 4. What is proved

Every invariant that a passing run checks, and every action property, is also a
theorem, for any sets of applications, keys, decisions, calls, executions, users
and resources. The assumptions are those of the modules: the kinds of calls are
distinct (`CallsAreDistinct`), clients ask for statuses (`TargetsAreStatuses`),
seeded applications are applications (`SeededAreApplications`), `None` is no row,
status, name, resource or answer (`NoneIsNoRow`, `NoneIsNoStatus`,
`NoneIsNothing`, `NoneIsNoAnswer`), a word says something (`SilenceIsNoWord`), tokens and answer codes are among those the
code tells apart (`GatewayAssumption`), and tries and items are counted
(`TriesAreCounted`, `ItemsAreCounted`). Three theorems of the lifecycle and one
about direct reviews have a hypothesis of their own, stated below.

**The hub.** Each line uses the invariants above it.

| Theorem | Says | Induction |
|---|---|---|
| `TypeCorrect` | `[]TypeOK` | `TypeInv` |
| `OneAnalysisPerApplication` | `[]AtMostOneAnalysis` | `AnalysisInv` |
| `OneReviewOutstanding`, `OneSenderPerKey`, `DoubtIsFinal` | `[]NoOverlappingReviews`, `[]OneReviewPerKey`, `DoubtBlocksReviews` | `ReviewInv` |
| `RecordsKnowTheEngine` | `[]EngineInv`, all of the above | `ExchangeInv`, `RecordInv` |
| `RowsMatchEngine`, `OpenThreadsReviewed` | `[]PreparationMatchesEngine`, `[]ReviewsTargetOpenThreads` | `WaitingInv` |
| `ReachedEngineRecorded` | `[]OutcomesAreRecorded` | `OutcomeInv` |
| `RetriesActOnce`, `AnswersAreWitnessed` | `[]KeysActOnce`, `[]ClaimsAreWitnessed` | `ClaimInv` |
| `TablesAgree` | `[]RowsAgree` | `RowsInv` |
| `EventsChain`, `ReviewsGate`, `TransitionsAreLegal` | `[]EventsFormAChain`, `[]ReviewGatesReadiness`, `LegalTransitions` | `LifecycleInv` |
| `CompletedReviewsHappened` | a submission recorded as completed was carried out as it was asked for | `WitnessInv` |
| `AnalysesImplemented`, `ReviewsImplemented` | `Spec => Analyses!Spec`, `Spec => Reviews!Spec` | `EngineInv` |
| `RowsAgreeDespiteDirectReviews`, `DoubtIsFinalDespiteDirectReviews` | `RowsAgree`, `DoubtBlocksReviews` and four more of the above, under `DirectSpec` | `DirectInv` |
| `CompletionEarned` | `[]CompletionIsEarned`, under `DirectSpec` | `DirectInv`, `ReadyInv` |

* `TypeInv`: `TypeOK` alone is not inductive. A row is well formed only because
  the call that writes it has its arguments, has a verdict once the exchange is
  over, and finds the submission it stored; the four facts are added. Most steps
  move one call within its transaction, and `StatementTypes` and `KnowledgeKept`
  treat them once.
* `AnalysisInv`: a call *owns* the analysis of its application from the commit
  of its row on, whatever becomes of it; an owner's application is prepared, and
  no two calls own the same one. Only `PrepareAdd` makes an owner, it needs an
  application that is not prepared, and no step removes a preparation. The locks
  play no part: the unique constraint alone carries the argument.
* `ReviewInv`: from its checks to its INSERT a review holds the lock of the
  preparation's row, so what it found (no unresolved submission of the
  application, none with its key) still holds when it inserts; a submission
  outlives the call that inserted it and names what that call sends; no two
  unresolved submissions concern one application. A row in doubt is written by
  nobody, because only its owner writes a submission and only while it is
  `submitting`.
* `ExchangeInv` and `RecordInv`: an exchange passes its stages once, in step with
  `pc`. A preparation is `starting` until its owner saves it, and what the owner
  saves is what its exchange allows the engine to have done.
* `WaitingInv`: while a submission is unresolved its analysis awaits review in
  the engine, unless this very review has been carried out. It is apart from
  `RecordInv` because it is the one thing that a review decided beside the hub
  breaks: the rest is what `DirectSpec` keeps.
* `OutcomeInv`: the last transaction of a call finds its application (nothing is deleted), its row as
  it left it, and the preparation still awaiting review, because a review that
  can finish it is the only unresolved one. Hence no call ends `inconsistent`.
* `ClaimInv`: a claim's lock is held from the INSERT until the response is
  committed with the change it reports, and a committed claim is never replaced.
* `RowsInv`: `RowsAgree` counts, the induction does not. A preparation's review
  actions are none, one pending or one completed, and the submissions that
  finished it are none or exactly one key; counting follows (`RowsCounted`).
* `LifecycleInv`: an application's preparation decides its status, its last event
  tells it, and a call that writes it read what is still so. The hypothesis is
  `StatusUntouched`, that no update calls exist: an update overwrites a status
  that it did not read (`LostUpdate`) and declares ready what still awaits its
  review (`ReviewBypassed`). Over the dictionaries
  `LegalTransitions` needs no such hypothesis (below).
* `WitnessInv`: a submission asks for what its sender asks for, so the answer
  that completes it is an answer to that decision.
* `DirectInv` and `ReadyInv`: a direct review completes a thread that a saved
  preparation names, so no owner still waits to save it, and every fact that
  says an analysis *exists* or *is over* survives. An application becomes ready
  in the transaction that completes its preparation. The hypothesis of
  `CompletionEarned` is that no client declares an application
  `ready_to_apply`; the code lets one (`ReviewBypassed`), and the theorem says
  that nothing else can go wrong.
* The refinements: the INSERT of the row is `Claim`, the POST is `Request`, the
  engine's execution is `Perform`, the final UPDATE is `Record`, and every other
  step leaves the mapped variables unchanged (`Silent`). `Perform` needs that an
  engine acting after its client gave up finds the row still in doubt. A step is
  classified by its effect first (`Operates`), so that the same proof serves
  both stores.

**Both stores** (`StoresProofs`, over `StoresSpec`). A transaction over the
dictionaries writes what the last statement of its PostgreSQL counterpart
writes (`InsertsPreparation`, `SavesSubmission`, ...), so most of the hub's lemmas
apply to it as they are. What the row locks did is done by `NothingOpen`: between
two steps no call is inside a transaction. `ClaimInv` is false there, as a
refused update leaves a claim without a response; `MemClaimsKnow` says of whose
claims this is true. Proved over either store: `StoresAreSound` (`StoresInv`),
`RowsSoundOverStores`, `KeysActOnceOverStores`, `AnswersAreTrueOverStores`
(`ClaimsAreTrue`), `DoubtIsFinalOverStores`, and both refinements
(`AnalysesImplementedOverStores`, `ReviewsImplementedOverStores`);
`MemoryKeepsTransitions`: over the dictionaries every status change is legal,
with clients that set statuses, because the check and the write are one step.

**The workflows.** `WorkflowUsesTheHub`: every behaviour of the preparation
executions is one of the hub, so all of the above holds under it.
`OneAnalysisForARequest` and `WorkflowsReportTheTruth` follow from `FlowInv` of
`PreparationProofs`: what an execution was answered is what a row still says,
because the rows it saw do not change any more (`CallsStand`, `ClaimsStand`,
`PreparationsStand`). `StaleDecisionsStop` and `ReportedReviewsAreReal` follow
from `FlowInv` of `HumanReviewProofs`, over `HubInv` and `WitnessInv`: what the
workflow compared with was the answer to its own look, an analysis that is over
stays over, and a replay is of a submission with the same key and decision.

**The gateway.** `RefusedIsNotDone`, `SuccessIsDone`, `ServedAsTheSubject`,
`SurfacesDifferOnlyByLeeway` and `LostIsFound`, from `GatewayInv`: a request is admitted
only with its user authenticated, an answer and what Module 1 did agree whatever
code it carries, what the caller is told follows from the answer, and what was
made belongs to the user of the call. The translations of tokens and answers are
lemmas of their own (`PrincipalIsSubject`: what either surface makes of a token, for
every combination of claims).

**The review surfaces.** `NoProposalHasTwoFates`, `WaysSendAlike` and
`RetriesAreTold` are about operators and need no induction: each way is a
function of the decision, and the theorems hold for decisions of any length over
any identifiers and texts, of which TLC enumerates those with up to `MaxItems`.
`RetriesAreTold` compares what a client asked for, proposal by proposal, with what
`_same_review_request` compares, which is what was stored: `StoredAlikeAsksAlike`
says that nothing asked for is lost between the two.

Model-checked only: `CallsEnd`, `PreparationsSettle` and `SubmissionsSettle`,
which need fairness and ENABLED. `OutcomesAreRecorded` is proved over PostgreSQL and
checked over both stores (`ReviewRace`), over the dictionaries with one update
call: with two it is false there, since a second update with the key of a
refused one ends in `replay_unavailable`.

## 5. What is not modelled

* **Application reads**: single SELECTs; they change nothing, and no later step
  uses what they return.
* **Approval requests**: a state machine with tests, a table and no repository;
  no service creates, decides or expires one, so there is no caller whose
  behaviour could be checked.
* **Schema migrations**: DDL. The constraints that matter are modelled where the
  ORM models declare them.
* **OpenClaw policy and scripts**: configuration of an external agent, and
  contract checks that run outside the program.
* **Database tables**, in part: `approval_requests`, timestamps and the order of
  listings are left out.
* **Validators**, in part: the resolutions of duplicates and the edits of the
  registry are not modelled; response models are a class of answer.
* **MCP server and schemas**, in part: resources and the formatting of results
  change nothing. A result is modelled by what it discloses.
* **Configuration and bootstrap**, in part: the client's timeouts and the wait
  for one of its connections are modelled, settings and wiring are not.
* **Authentication**: the verification of a signature, which a library does, is
  one Boolean; the MCP library's check of the expiry is modelled from what the
  verifier hands it; the verifier of development tokens is left out.

What could come next: the workflows over `StoresSpec`; a refinement of the
claims, as there is one of the analyses and the reviews; the refinements under
`DirectSpec`, which needs an abstract operation whose result may change.
