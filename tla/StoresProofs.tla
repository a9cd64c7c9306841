---------------------------- MODULE StoresProofs ----------------------------
(***************************************************************************)
(* Theorems about the services over either store, for any sets of calls,   *)
(* keys and applications.  A transaction over the dictionaries writes what *)
(* the last statement of the same transaction writes over PostgreSQL, and  *)
(* what its other statements make sure of is sure without locks, because   *)
(* no other call is within a transaction (NothingOpen).                    *)
(***************************************************************************)
EXTENDS Stores, HubLifecycleProofs

USE DEF Call

-----------------------------------------------------------------------------

\* Where a call over the dictionaries is between two steps: no transaction is
\* open then.
MemPC ==
  {"idle", "prepare:find", "prepare:post", "prepare:await", "prepare:read_application",
   "prepare:require_starting", "review:find_key", "review:post", "review:await",
   "review:lock_again", "review:require_submitting", "update:claim", "create:claim",
   "read:find", "read:get"} \cup Ended

\* No transaction is open, and a call that was not answered with a status skips
\* the look at the application.
NothingOpen ==
  /\ \A row \in Lockable : lock[row] = None
  /\ \A c \in Call : pc[c] \in MemPC
  /\ \A c \in Call : pc[c] \in {"prepare:require_starting", "review:require_submitting"} =>
       verdict[c] \notin ThreadStatus

\* The claim of an update or create call carries the response it was answered.
AnswerStored(c) ==
  idempotency[ClaimRow(c)] # None /\ idempotency[ClaimRow(c)].response # None

\* A call that acted or was answered has its response stored; only an update can
\* be refused after its claim was stored.
MemClaimsKnow ==
  /\ \A c \in Call : Acted(c) => pc[c] # "idle"
  /\ \A c \in UpdateCall \cup CreateCall :
       Acted(c) \/ pc[c] \in {"returned", "replayed"} => AnswerStored(c)
  /\ \A k \in Key : idempotency[<<"create", k>>] # None =>
       idempotency[<<"create", k>>].response # None
  /\ KeysActOnce
  /\ StoredAnswersAreTrue

\* What holds of the hub over the dictionaries.
MemInv ==
  /\ NothingOpen
  /\ MemClaimsKnow
  /\ \A c \in CreateCall : CreatorKnows(c)

\* The claims are the one thing that the stores keep differently.
StoresInv ==
  /\ store \in {"postgresql", "memory"}
  /\ EngineInv /\ WaitingInv /\ RowsInv
  /\ store = "postgresql" => ClaimInv
  /\ store = "memory" => MemInv

-----------------------------------------------------------------------------
(* The steps of the services over the dictionaries.                        *)

\* A call ends, or goes on to ask the engine for a result, without a change to
\* what the engine is about.
EndsQuietly(c) ==
  /\ pc[c] # "idle"
  /\ \/ UNCHANGED target /\ \E next \in Ended : Goto(c, next)
     \/ /\ c \in ReadCall
        /\ \E t \in Thread \cup {None}, next \in Ended \cup {"read:get"} :
             /\ target' = [target EXCEPT ![c] = t]
             /\ next = "read:get" => t # None
             /\ Goto(c, next)
  /\ UNCHANGED <<preparation, submission, reviewActions, lock, arg, seen, verdict, post, thread,
                 applied>>

\* The statuses a transaction writes to an application, if it writes one.
WritesStatus(c) ==
  \/ UNCHANGED <<application, events>>
  \/ \E from, to \in ApplicationStatus :
       /\ application[arg[c].app] = from
       /\ ValidTransition(from, to)
       /\ SaveStatus(c, arg[c].app, from, to)

\* The two transitions that the services make themselves.
LEMMA ServiceTransitions ==
  ValidTransition("saved", "preparing") /\ ValidTransition("preparing", "ready_to_apply")
BY DEF ValidTransition, AllowedTransitions

\* The statuses they go between.
LEMMA StatusesOfServices ==
  {"saved", "preparing", "ready_to_apply"} \subseteq ApplicationStatus
BY DEF ApplicationStatus

\* prepare_application's first transaction ends the call or inserts its row.
LEMMA MemPrepareStartWrites ==
  ASSUME TypeInv, NothingOpen, NEW c \in PrepareCall, MemPrepareStart(c)
  PROVE  /\ WritesStatus(c)
         /\ UNCHANGED <<lock, arg, seen, verdict, idempotency>>
         /\ \/ EndsQuietly(c)
            \/ InsertsPreparation(c) /\ pc'[c] = "prepare:post"
<1>. c \in Call /\ pc \in [Call -> PC] /\ pc[c] = "prepare:find"
  BY DEF MemPrepareStart, TypeInv, TypeOK, CallTypeOK
<1>1. CASE UNCHANGED tables /\ \E end \in Ended : Leave(c, end)
  BY <1>1 DEF MemPrepareStart, Leave, tables, engine, WritesStatus, EndsQuietly
<1>2. CASE ~(UNCHANGED tables /\ \E end \in Ended : Leave(c, end))
  <2>1. /\ ~Prepared(arg[c].app) /\ application[arg[c].app] \in {"saved", "preparing"}
        /\ preparation' = [preparation EXCEPT ![arg[c].app] = [status |-> "starting", thread |-> None]]
        /\ IF application[arg[c].app] = "saved"
             THEN SaveStatus(c, arg[c].app, "saved", "preparing")
             ELSE UNCHANGED <<application, events>>
        /\ Goto(c, "prepare:post")
        /\ UNCHANGED <<submission, reviewActions, idempotency, lock, arg, seen, verdict, engine>>
    BY <1>2 DEF MemPrepareStart, Leave, Ended
  <2>2. WritesStatus(c)
    BY <2>1, ServiceTransitions, StatusesOfServices DEF WritesStatus
  <2>3. InsertsPreparation(c)
    BY <2>1 DEF InsertsPreparation, KeepsLocks
  <2> QED
    BY <2>1, <2>2, <2>3 DEF Goto
<1> QED
  BY <1>1, <1>2

\* The finished analysis moves an application on that is still preparing.
LEMMA MemSaveReadyWrites ==
  ASSUME NEW c \in Call, MemSaveReady(c, arg[c].app)
  PROVE  WritesStatus(c)
BY ServiceTransitions, StatusesOfServices DEF MemSaveReady, WritesStatus

\* Its second one records the outcome, unless the row is not as it left it.
LEMMA MemPrepareRecordWrites ==
  ASSUME TypeInv, NothingOpen, NEW c \in PrepareCall, MemPrepareRecord(c)
  PROVE  /\ WritesStatus(c)
         /\ UNCHANGED <<lock, arg, seen, verdict, idempotency>>
         /\ EndsQuietly(c) \/ SavesPreparation(c)
<1>. c \in Call /\ pc[c] \in {"prepare:read_application", "prepare:require_starting"}
  BY DEF MemPrepareRecord
<1>1. CASE preparation[arg[c].app].status # "starting"
  <2>1. Leave(c, "inconsistent") /\ "inconsistent" \in Ended
        /\ UNCHANGED <<lock, arg, seen, verdict, engine>>
    BY <1>1 DEF MemPrepareRecord, Ended
  <2> QED
    BY <2>1 DEF Leave, tables, engine, WritesStatus, EndsQuietly
<1>2. CASE preparation[arg[c].app].status = "starting"
  <2>1. MemSaveReady(c, arg[c].app) /\ UNCHANGED <<lock, arg, seen, verdict, idempotency>>
    BY <1>2 DEF MemPrepareRecord
  <2>2. SavesPreparation(c)
    BY <1>2, <2>1 DEF MemPrepareRecord, SavesPreparation, KeepsLocks
  <2> QED
    BY <2>1, <2>2, MemSaveReadyWrites
<1> QED
  BY <1>1, <1>2

\* review_application's first transaction ends the call or inserts its row.
LEMMA MemReviewStartWrites ==
  ASSUME TypeInv, NothingOpen, NEW c \in ReviewCall, MemReviewStart(c)
  PROVE  /\ UNCHANGED <<application, events, lock, arg, seen, verdict, idempotency>>
         /\ \/ EndsQuietly(c)
            \/ InsertsSubmission(c) /\ preparation[arg[c].app].status = "awaiting_review"
<1>. c \in Call /\ pc[c] = "review:find_key"
  BY DEF MemReviewStart
<1>. DEFINE a    == arg[c].app
            next == IF preparation[a].status # "awaiting_review" \/ preparation[a].thread = None
                      THEN "blocked"
                    ELSE IF application[a] # "preparing" THEN "invalid_transition"
                    ELSE IF Unresolved(a) # {} THEN "blocked"
                    ELSE "review:post"
            end  == IF application[a] = Absent THEN "not_found" ELSE Lookup(c, next)
<1>1. /\ IF end # "review:post" THEN Leave(c, end)
           ELSE /\ submission' = [submission EXCEPT ![arg[c].key] =
                     [app |-> a, want |-> arg[c].want, thread |-> preparation[a].thread,
                      status |-> "submitting", outcome |-> None]]
                /\ Goto(c, end)
                /\ UNCHANGED <<application, events, preparation, reviewActions, idempotency>>
      /\ UNCHANGED <<lock, arg, seen, verdict, engine>>
  BY DEF MemReviewStart
<1>2. CASE end = "review:post"
  <2>1. Lookup(c, next) = "review:post"
    BY <1>2
  <2>2. submission[arg[c].key] = None /\ next = "review:post"
    BY <2>1 DEF Lookup
  <2>3. preparation[a].status = "awaiting_review" /\ Unresolved(a) = {}
    BY <2>2
  <2>4. \A d \in ReviewCall \ {c} : pc[d] \notin UnderLockPC
    BY DEF NothingOpen, MemPC, UnderLockPC, Ended
  <2>. HIDE DEF next, end
  <2> QED
    BY <1>1, <1>2, <2>2, <2>3, <2>4 DEF InsertsSubmission, KeepsLocks
<1>3. CASE end # "review:post"
  <2>1. next \in {"blocked", "invalid_transition", "review:post"}
    OBVIOUS
  <2>2. end \in Ended
    BY <1>3, <2>1 DEF Lookup, Ended
  <2>. HIDE DEF end
  <2> QED
    BY <1>1, <1>3, <2>2 DEF Leave, tables, engine, EndsQuietly
<1> QED
  BY <1>2, <1>3

\* Its second one records the outcome, unless a row is not as it left it.
LEMMA MemReviewRecordWrites ==
  ASSUME TypeInv, NothingOpen, NEW c \in ReviewCall, MemReviewRecord(c)
  PROVE  /\ WritesStatus(c)
         /\ UNCHANGED <<lock, arg, seen, verdict, idempotency>>
         /\ EndsQuietly(c) \/ SavesSubmission(c)
<1>. c \in Call /\ pc[c] \in {"review:lock_again", "review:require_submitting"}
  BY DEF MemReviewRecord
<1>. DEFINE refused == \/ submission[arg[c].key].status # "submitting"
                       \/ /\ verdict[c] = "completed"
                          /\ preparation[arg[c].app].status # "awaiting_review"
<1>1. CASE refused
  <2>1. Leave(c, "inconsistent") /\ "inconsistent" \in Ended
        /\ UNCHANGED <<lock, arg, seen, verdict, engine>>
    BY <1>1 DEF MemReviewRecord, Ended
  <2> QED
    BY <2>1 DEF Leave, tables, engine, WritesStatus, EndsQuietly
<1>2. CASE ~refused
  <2>1. MemSaveReady(c, arg[c].app) /\ UNCHANGED <<lock, arg, seen, verdict, idempotency>>
    BY <1>2 DEF MemReviewRecord
  <2>2. SavesSubmission(c)
    BY <1>2, <2>1 DEF MemReviewRecord, SavesSubmission, KeepsLocks
  <2> QED
    BY <2>1, <2>2, MemSaveReadyWrites
<1> QED
  BY <1>1, <1>2

\* get_application_analysis looks for the thread of the analysis.
LEMMA MemReadWrites ==
  ASSUME TypeInv, NEW c \in ReadCall, MemRead(c)
  PROVE  EndsQuietly(c) /\ UNCHANGED <<application, events, idempotency>>
<1>. DEFINE t    == preparation[arg[c].app].thread
            next == IF application[arg[c].app] = Absent THEN "not_found"
                    ELSE IF t = None THEN "unavailable" ELSE "read:get"
<1>1. pc[c] = "read:find" /\ arg[c].app \in App
  BY Begun DEF MemRead
<1>2. t \in Thread \cup {None}
  BY <1>1 DEF TypeInv, TypeOK, StoreTypeOK, Preparation
<1>3. next \in Ended \cup {"read:get"} /\ (next = "read:get" => t # None)
  BY DEF Ended
<1>4. /\ target' = [target EXCEPT ![c] = t] /\ Leave(c, next)
      /\ UNCHANGED <<lock, arg, seen, verdict, post, thread, applied>>
  BY DEF MemRead
<1>. HIDE DEF t, next
<1> QED
  BY <1>1, <1>2, <1>3, <1>4 DEF EndsQuietly, Leave, tables

\* What an idempotent write does: it finds the claim of its key, is refused
\* before or after it stored one, or writes with its claim.
Refused(c) ==
  /\ UNCHANGED <<application, events, idempotency>>
  /\ \E next \in Ended \ {"returned"} :
       Goto(c, next) /\ (next = "replayed" => AnswerStored(c))

ClaimsInVain(c) ==
  /\ c \in UpdateCall /\ idempotency[ClaimRow(c)] = None
  /\ idempotency' = [idempotency EXCEPT ![ClaimRow(c)] =
       [app |-> arg[c].app, want |-> arg[c].want, response |-> None]]
  /\ Goto(c, "invalid_transition")
  /\ UNCHANGED <<application, events>>

ClaimsAndActs(c) ==
  /\ idempotency[ClaimRow(c)] = None
  /\ \E app \in App \cup {None} : idempotency' = [idempotency EXCEPT ![ClaimRow(c)] =
       [app |-> app, want |-> arg[c].want, response |-> arg[c].app]]
  /\ \E from \in ApplicationStatus \cup {Absent}, to \in ApplicationStatus :
       /\ application[arg[c].app] = from
       /\ IF c \in CreateCall THEN from = Absent /\ to = "saved" ELSE ValidTransition(from, to)
       /\ SaveStatus(c, arg[c].app, from, to)
  /\ Goto(c, "returned")

\* update_application_status stores its claim before it judges the transition.
LEMMA MemUpdateWrites ==
  ASSUME TypeInv, NEW c \in UpdateCall, MemUpdate(c)
  PROVE  EndsQuietly(c) /\ (Refused(c) \/ ClaimsInVain(c) \/ ClaimsAndActs(c))
<1>. DEFINE a == arg[c].app
<1>1. /\ pc[c] = "update:claim" /\ c \in Call /\ a \in App /\ arg[c].want \in ApplicationStatus
      /\ c \notin CreateCall /\ ClaimRow(c) = <<"update", arg[c].key>>
      /\ UNCHANGED <<lock, arg, seen, verdict, engine>>
  BY Begun, TargetsAreStatuses, CallsAreDistinct DEF MemUpdate, ClaimRow
<1>2. CASE application[a] = Absent
  <2>1. Leave(c, "not_found") /\ "not_found" \in Ended \ {"returned"}
    BY <1>2 DEF MemUpdate, Ended
  <2> QED
    BY <1>1, <2>1 DEF Leave, tables, engine, EndsQuietly, Refused
<1>3. CASE application[a] # Absent /\ idempotency[ClaimRow(c)] # None
  <2>1. Leave(c, Resolve(c, "update"))
    BY <1>1, <1>3 DEF MemUpdate
  <2>2. /\ Resolve(c, "update") \in Ended \ {"returned"}
        /\ Resolve(c, "update") = "replayed" => AnswerStored(c)
    BY <1>1, <1>3 DEF Resolve, AnswerStored, Ended
  <2> QED
    BY <1>1, <2>1, <2>2 DEF Leave, tables, engine, EndsQuietly, Refused
<1>4. CASE application[a] # Absent /\ idempotency[ClaimRow(c)] = None
  <2>1. application[a] \in ApplicationStatus
    BY <1>1, <1>4 DEF TypeInv, TypeOK, StoreTypeOK
  <2>2. CASE ValidTransition(application[a], arg[c].want)
    <3>1. /\ SaveStatus(c, a, application[a], arg[c].want)
          /\ CompleteClaim(c, "update", a) /\ Goto(c, "returned")
          /\ UNCHANGED <<preparation, submission, reviewActions>>
      BY <1>1, <1>4, <2>2 DEF MemUpdate
    <3>2. ClaimsAndActs(c)
      BY <1>1, <1>4, <2>1, <2>2, <3>1 DEF ClaimsAndActs, CompleteClaim
    <3>3. EndsQuietly(c)
      BY <1>1, <3>1 DEF EndsQuietly, engine, Ended
    <3> QED
      BY <3>2, <3>3
  <2>3. CASE ~ValidTransition(application[a], arg[c].want)
    <3>1. /\ CompleteClaimWithoutResponse(c, "update", a) /\ Goto(c, "invalid_transition")
          /\ UNCHANGED <<application, events, preparation, submission, reviewActions>>
      BY <1>1, <1>4, <2>3 DEF MemUpdate
    <3>2. ClaimsInVain(c)
      BY <1>1, <1>4, <3>1 DEF ClaimsInVain, CompleteClaimWithoutResponse
    <3>3. EndsQuietly(c)
      BY <1>1, <3>1 DEF EndsQuietly, engine, Ended
    <3> QED
      BY <3>2, <3>3
  <2> QED
    BY <2>2, <2>3
<1> QED
  BY <1>2, <1>3, <1>4

\* create_application refuses nothing but a used key.
LEMMA MemCreateWrites ==
  ASSUME TypeInv, NEW c \in CreateCall, CreatorKnows(c), MemCreate(c)
  PROVE  EndsQuietly(c) /\ (Refused(c) \/ ClaimsAndActs(c))
<1>. DEFINE a == arg[c].app
<1>1. /\ pc[c] = "create:claim" /\ c \in Call /\ a \in App
      /\ c \notin UpdateCall /\ ClaimRow(c) = <<"create", arg[c].key>>
      /\ UNCHANGED <<lock, arg, seen, verdict, engine>>
  BY Begun, CallsAreDistinct DEF MemCreate, ClaimRow
<1>2. CASE idempotency[ClaimRow(c)] # None
  <2>1. Leave(c, Resolve(c, "create"))
    BY <1>1, <1>2 DEF MemCreate
  <2>2. /\ Resolve(c, "create") \in Ended \ {"returned"}
        /\ Resolve(c, "create") = "replayed" => AnswerStored(c)
    BY <1>1, <1>2 DEF Resolve, AnswerStored, Ended
  <2> QED
    BY <1>1, <2>1, <2>2 DEF Leave, tables, engine, EndsQuietly, Refused
<1>3. CASE idempotency[ClaimRow(c)] = None
  <2>1. /\ application' = [application EXCEPT ![a] = "saved"]
        /\ events' = [events EXCEPT ![a] = Append(@, Created(c))]
        /\ CompleteClaim(c, "create", None) /\ Goto(c, "returned")
        /\ UNCHANGED <<preparation, submission, reviewActions>>
    BY <1>1, <1>3 DEF MemCreate
  <2>2. SaveStatus(c, a, Absent, "saved") /\ application[a] = Absent
    BY <1>1, <2>1 DEF SaveStatus, Created, CreatorKnows, CreatePC
  <2>3. ClaimsAndActs(c)
    BY <1>1, <1>3, <2>1, <2>2, StatusesOfServices DEF ClaimsAndActs, CompleteClaim
  <2>4. EndsQuietly(c)
    BY <1>1, <2>1 DEF EndsQuietly, engine, Ended
  <2> QED
    BY <2>3, <2>4
<1> QED
  BY <1>2, <1>3

-----------------------------------------------------------------------------
(* Types.                                                                  *)

\* A step of a call that keeps the shape of what it writes keeps what the calls
\* know.
LEMMA WritesTyped ==
  ASSUME TypeInv, NEW c \in Call, pc[c] # "idle", NEW next \in PC \ ConcludedPC, Goto(c, next),
         UNCHANGED <<arg, seen, verdict, lock, post, thread, applied>>,
         application' \in [App -> ApplicationStatus \cup {Absent}],
         events' \in [App -> Seq(Event)],
         preparation' \in [App -> Preparation],
         submission' \in [Key -> Submission \cup {None}],
         reviewActions' \in [App -> Seq({"pending", "completed"})],
         idempotency' \in [Operation \X Key -> Claim \cup {None}],
         target' \in [Call -> Thread \cup {None}],
         \A d \in Call \ {c} : target'[d] = target[d],
         \A k \in Key : submission[k] # None => submission'[k] # None,
         c \in ReviewCall /\ next \in SubmittedPC => submission'[arg[c].key] # None,
         c \in ReadCall /\ next = "read:get" => target'[c] \in Thread
  PROVE  TypeInv'
<1>1. /\ pc' \in [Call -> PC] /\ pc'[c] = next
      /\ \A d \in Call \ {c} : pc'[d] = pc[d]
  BY MoveTypes
<1>2. TypeOK'
  BY <1>1 DEF TypeInv, TypeOK, CallTypeOK, EngineTypeOK, StoreTypeOK
<1> QED
  BY <1>1, <1>2, KnowledgeKept

\* A status that a transaction writes is one of the domain model.
LEMMA StatusTyped ==
  ASSUME TypeInv, NEW c \in Call, arg[c].app \in App, WritesStatus(c)
  PROVE  /\ application' \in [App -> ApplicationStatus \cup {Absent}]
         /\ events' \in [App -> Seq(Event)]
BY SaveStatusTypes DEF WritesStatus, TypeInv, TypeOK, StoreTypeOK

\* A call that ends leaves the rows well formed.
LEMMA QuietEndTyped ==
  ASSUME TypeInv, NEW c \in Call, EndsQuietly(c),
         application' \in [App -> ApplicationStatus \cup {Absent}],
         events' \in [App -> Seq(Event)],
         idempotency' \in [Operation \X Key -> Claim \cup {None}]
  PROVE  TypeInv'
<1>1. (Ended \cup {"read:get"}) \subseteq PC \ ConcludedPC
  BY DEF PC, Ended, ReadPC, ConcludedPC
<1>2. /\ Ended \cap SubmittedPC = {} /\ "read:get" \notin SubmittedPC /\ "read:get" \notin Ended
  BY DEF Ended, SubmittedPC
<1>3. /\ preparation' \in [App -> Preparation]
      /\ submission' \in [Key -> Submission \cup {None}]
      /\ reviewActions' \in [App -> Seq({"pending", "completed"})]
      /\ target \in [Call -> Thread \cup {None}]
      /\ UNCHANGED submission /\ pc[c] # "idle"
      /\ UNCHANGED <<arg, seen, verdict, lock, post, thread, applied>>
  BY DEF EndsQuietly, TypeInv, TypeOK, StoreTypeOK, EngineTypeOK
<1>4. CASE UNCHANGED target /\ \E next \in Ended : Goto(c, next)
  <2>1. PICK next \in Ended : Goto(c, next)
    BY <1>4
  <2> QED
    BY <1>1, <1>2, <1>3, <1>4, <2>1, WritesTyped
<1>5. CASE c \in ReadCall /\ ~(UNCHANGED target /\ \E next \in Ended : Goto(c, next))
  <2>1. PICK t \in Thread \cup {None}, next \in Ended \cup {"read:get"} :
          /\ target' = [target EXCEPT ![c] = t]
          /\ next = "read:get" => t # None
          /\ Goto(c, next)
    BY <1>5 DEF EndsQuietly
  <2>2. /\ target' \in [Call -> Thread \cup {None}] /\ target'[c] = t
        /\ \A d \in Call \ {c} : target'[d] = target[d]
    BY <1>3, <2>1
  <2> QED
    BY <1>1, <1>2, <1>3, <1>5, <2>1, <2>2, WritesTyped
<1> QED
  BY <1>4, <1>5 DEF EndsQuietly

\* The row of a new preparation is well formed.
LEMMA InsertedPreparationTyped ==
  ASSUME TypeInv, NEW c \in PrepareCall, InsertsPreparation(c), WritesStatus(c),
         UNCHANGED <<lock, seen, idempotency>>
  PROVE  TypeInv'
<1>1. c \in Call /\ c \notin ReviewCall \cup ReadCall /\ pc[c] # "idle" /\ arg[c].app \in App
  BY Begun, CallsAreDistinct DEF InsertsPreparation
<1>2. "prepare:post" \in PC \ ConcludedPC
  BY DEF PC, PreparePC, ConcludedPC
<1>3. preparation' \in [App -> Preparation]
  BY DEF InsertsPreparation, TypeInv, TypeOK, StoreTypeOK, Preparation, PreparationStatus
<1>4. /\ application' \in [App -> ApplicationStatus \cup {Absent}]
      /\ events' \in [App -> Seq(Event)]
  BY <1>1, StatusTyped
<1> QED
  BY <1>1, <1>2, <1>3, <1>4, WritesTyped DEF InsertsPreparation, TypeInv, TypeOK, StoreTypeOK,
     EngineTypeOK, engine

\* The outcome of an analysis is written to a well-formed row.
LEMMA SavedPreparationTyped ==
  ASSUME TypeInv, NEW c \in PrepareCall, SavesPreparation(c), WritesStatus(c),
         UNCHANGED <<lock, seen, idempotency>>
  PROVE  TypeInv'
<1>1. c \in Call /\ c \notin ReviewCall \cup ReadCall /\ pc[c] # "idle" /\ arg[c].app \in App
  BY Begun, CallsAreDistinct DEF SavesPreparation
<1>2. {"returned", "agent_error"} \subseteq PC \ ConcludedPC
  BY DEF PC, Ended, ConcludedPC
<1>3. verdict[c] \in PreparationStatus
  BY DEF SavesPreparation, TypeInv, VerdictGiven, ConcludedPC, Verdict, PreparationStatus
<1>4. preparation' \in [App -> Preparation]
  <2>. DEFINE row == [status |-> verdict[c], thread |-> IF verdict[c] \in ThreadStatus THEN c ELSE None]
  <2>1. row \in Preparation
    BY <1>3 DEF Preparation, Thread
  <2>2. preparation' = [preparation EXCEPT ![arg[c].app] = row]
    BY DEF SavesPreparation
  <2>. HIDE DEF row
  <2> QED
    BY <2>1, <2>2 DEF TypeInv, TypeOK, StoreTypeOK
<1>5. reviewActions' \in [App -> Seq({"pending", "completed"})]
  <2>1. reviewActions[arg[c].app] \in Seq({"pending", "completed"})
    BY <1>1 DEF TypeInv, TypeOK, StoreTypeOK
  <2>2. Append(reviewActions[arg[c].app], "pending") \in Seq({"pending", "completed"})
    BY <2>1
  <2>3. \/ reviewActions' =
             [reviewActions EXCEPT ![arg[c].app] = Append(reviewActions[arg[c].app], "pending")]
        \/ reviewActions' = reviewActions
    BY <1>1 DEF SavesPreparation, TypeInv, TypeOK, StoreTypeOK
  <2> QED
    BY <2>2, <2>3 DEF TypeInv, TypeOK, StoreTypeOK
<1>6. /\ application' \in [App -> ApplicationStatus \cup {Absent}]
      /\ events' \in [App -> Seq(Event)]
  BY <1>1, StatusTyped
<1>7. \E next \in {"returned", "agent_error"} : Goto(c, next)
  BY DEF SavesPreparation
<1> QED
  BY <1>1, <1>2, <1>4, <1>5, <1>6, <1>7, WritesTyped DEF SavesPreparation, TypeInv, TypeOK,
     StoreTypeOK, EngineTypeOK, engine

\* The row of a new submission is well formed.
LEMMA InsertedSubmissionTyped ==
  ASSUME TypeInv, NEW c \in ReviewCall, InsertsSubmission(c),
         UNCHANGED <<lock, seen, application, events, idempotency>>
  PROVE  TypeInv'
<1>. DEFINE a   == arg[c].app
            row == [app |-> a, want |-> arg[c].want, thread |-> preparation[a].thread,
                    status |-> "submitting", outcome |-> None]
<1>1. /\ c \in Call /\ c \notin ReadCall /\ pc[c] # "idle"
      /\ a \in App /\ arg[c].key \in Key /\ arg[c].want \in Decision
  BY Begun, CallsAreDistinct DEF InsertsSubmission
<1>2. "review:post" \in PC \ ConcludedPC
  BY DEF PC, ReviewPC, ConcludedPC
<1>3. row \in Submission /\ row # None
  <2>1. preparation[a].thread \in Thread \cup {None}
    BY <1>1 DEF TypeInv, TypeOK, StoreTypeOK, Preparation
  <2> QED
    BY <1>1, <2>1, NoneIsNoRow DEF Submission, SubmissionStatus
<1>4. submission' = [submission EXCEPT ![arg[c].key] = row]
      /\ submission \in [Key -> Submission \cup {None}]
  BY DEF InsertsSubmission, TypeInv, TypeOK, StoreTypeOK
<1>. HIDE DEF row
<1>5. /\ submission' \in [Key -> Submission \cup {None}] /\ submission'[arg[c].key] # None
      /\ \A k \in Key : submission[k] # None => submission'[k] # None
  BY <1>1, <1>3, <1>4
<1> QED
  BY <1>1, <1>2, <1>5, WritesTyped DEF InsertsSubmission, TypeInv, TypeOK, StoreTypeOK,
     EngineTypeOK, engine

\* The outcome of a review is written to a well-formed row.
LEMMA SavedSubmissionTyped ==
  ASSUME EngineInv, NEW c \in ReviewCall, SavesSubmission(c), WritesStatus(c),
         UNCHANGED <<lock, seen, idempotency>>
  PROVE  TypeInv'
<1>. DEFINE a == arg[c].app
            k == arg[c].key
<1>0. TypeInv
  BY DEF EngineInv, CallsInv
<1>1. c \in Call /\ c \notin ReadCall /\ pc[c] # "idle" /\ a \in App /\ k \in Key
  BY <1>0, Begun, CallsAreDistinct DEF SavesSubmission
<1>2. {"returned", "agent_error"} \subseteq PC \ ConcludedPC
      /\ {"returned", "agent_error"} \cap SubmittedPC = {}
  BY DEF PC, Ended, ConcludedPC, SubmittedPC
<1>3. /\ submission'[k] \in Submission /\ submission'[k] # None
      /\ \A l \in Key \ {k} : submission'[l] = submission[l]
  BY ReviewSaveWrites
<1>4. submission' \in [Key -> Submission \cup {None}]
  BY <1>0, <1>3 DEF SavesSubmission, TypeInv, TypeOK, StoreTypeOK
<1>5. preparation' \in [App -> Preparation]
  <2>1. [preparation[a] EXCEPT !.status = "completed"] \in Preparation
    BY <1>0, <1>1 DEF TypeInv, TypeOK, StoreTypeOK, Preparation, PreparationStatus
  <2>2. \/ preparation' = [preparation EXCEPT ![a] = [preparation[a] EXCEPT !.status = "completed"]]
        \/ preparation' = preparation
    BY <1>0 DEF SavesSubmission, TypeInv, TypeOK, StoreTypeOK
  <2> QED
    BY <1>0, <2>1, <2>2 DEF TypeInv, TypeOK, StoreTypeOK
<1>6. reviewActions' \in [App -> Seq({"pending", "completed"})]
  <2>. DEFINE done == [i \in DOMAIN reviewActions[a] |-> "completed"]
  <2>1. reviewActions[a] \in Seq({"pending", "completed"})
    BY <1>0, <1>1 DEF TypeInv, TypeOK, StoreTypeOK
  <2>2. done \in Seq({"pending", "completed"})
    BY <2>1
  <2>3. reviewActions' = [reviewActions EXCEPT ![a] = done] \/ reviewActions' = reviewActions
    BY <1>0 DEF SavesSubmission, CompleteReviewAction, TypeInv, TypeOK, StoreTypeOK
  <2>. HIDE DEF done
  <2> QED
    BY <1>0, <2>2, <2>3 DEF TypeInv, TypeOK, StoreTypeOK
<1>7. /\ application' \in [App -> ApplicationStatus \cup {Absent}]
      /\ events' \in [App -> Seq(Event)]
  BY <1>0, <1>1, StatusTyped
<1>8. PICK next \in {"returned", "agent_error"} : Goto(c, next)
  BY DEF SavesSubmission
<1>9. /\ UNCHANGED <<arg, seen, verdict, lock, post, thread, applied, target, idempotency>>
      /\ target \in [Call -> Thread \cup {None}]
      /\ idempotency \in [Operation \X Key -> Claim \cup {None}]
      /\ \A l \in Key : submission[l] # None => submission'[l] # None
  BY <1>0, <1>3 DEF SavesSubmission, TypeInv, TypeOK, EngineTypeOK, StoreTypeOK, engine
<1> QED
  BY <1>0, <1>1, <1>2, <1>4, <1>5, <1>6, <1>7, <1>8, <1>9, WritesTyped

\* A claim that is stored with or without a response.
LEMMA ClaimTyped ==
  ASSUME TypeInv, NEW c \in UpdateCall \cup CreateCall, EndsQuietly(c),
         Refused(c) \/ ClaimsInVain(c) \/ ClaimsAndActs(c)
  PROVE  TypeInv'
<1>1. /\ c \in Call /\ pc[c] # "idle" /\ ClaimRow(c) \in Operation \X Key
      /\ arg[c].app \in App /\ arg[c].want \in Wish
  BY Begun, ClaimRows DEF EndsQuietly, Wish
<1>2. idempotency' \in [Operation \X Key -> Claim \cup {None}]
  <2>1. \A app \in App \cup {None}, r \in App \cup {None} :
          [app |-> app, want |-> arg[c].want, response |-> r] \in Claim
    BY <1>1 DEF Claim
  <2>2. \/ UNCHANGED idempotency
        \/ \E row \in Claim : idempotency' = [idempotency EXCEPT ![ClaimRow(c)] = row]
    BY <1>1, <2>1 DEF Refused, ClaimsInVain, ClaimsAndActs
  <2> QED
    BY <1>1, <2>2 DEF TypeInv, TypeOK, StoreTypeOK
<1>3. /\ application' \in [App -> ApplicationStatus \cup {Absent}]
      /\ events' \in [App -> Seq(Event)]
  BY <1>1, SaveStatusTypes DEF Refused, ClaimsInVain, ClaimsAndActs, TypeInv, TypeOK, StoreTypeOK
<1> QED
  BY <1>1, <1>2, <1>3, QuietEndTyped

-----------------------------------------------------------------------------
(* What the hub knows of the engine stays true over the dictionaries.      *)

\* A call that begins, ends or goes on to ask for a result, and the steps of a
\* client, leave alone what the invariants are about.
LEMMA QuietKeepsEngine ==
  ASSUME EngineInv, RowsInv, TypeInv', NEW c \in Call,
         NEW next \in Ended \cup {"read:get", "prepare:find", "review:find_key", "update:claim",
                                 "create:claim", "read:find"},
         Goto(c, next), next \in Ended \cup {"read:get"} \/ pc[c] = "idle",
         UNCHANGED arg \/ (pc[c] = "idle" /\ \A d \in Call \ {c} : arg'[d] = arg[d]),
         UNCHANGED <<preparation, submission, reviewActions, lock, verdict, post, thread, applied>>,
         \A d \in ReviewCall : target'[d] = target[d]
  PROVE  EngineInv' /\ RowsInv'
<1>1. TypeInv /\ AnalysisInv /\ ReviewInv /\ ExchangeInv
  BY DEF EngineInv, CallsInv
<1>2. /\ pc'[c] = next /\ \A d \in Call \ {c} : pc'[d] = pc[d]
      /\ \A d \in Call \ {c} : arg'[d] = arg[d]
      /\ pc[c] = "idle" \/ arg'[c] = arg[c]
  BY <1>1 DEF Goto, TypeInv, TypeOK, CallTypeOK
<1>3. AnalysisInv'
  <2>1. next \notin {"idle", "prepare:post"}
    BY DEF Ended
  <2>2. CASE c \in PrepareCall
    BY <1>1, <2>1, <2>2, StatementKeepsAnalysis DEF Prepared
  <2>3. CASE c \notin PrepareCall
    BY <1>1, <1>2, <2>3, OthersKeepAnalysis DEF Prepared
  <2> QED
    BY <2>2, <2>3
<1>4. ReviewInv'
  <2>1. next \notin {"idle", "review:recheck", "review:find_unresolved", "review:add"}
                       \cup SubmittedPC \cup ConcludedPC
    BY DEF Ended, SubmittedPC, ConcludedPC
  <2>2. CASE c \in ReviewCall
    BY <1>1, <2>1, <2>2, StatementKeepsReviews
  <2>3. CASE c \notin ReviewCall
    BY <1>1, <1>2, <2>3, OthersKeepReviews
  <2> QED
    BY <2>2, <2>3
<1>5. ExchangeInv'
  <2>1. (next \in UnsentPC => pc[c] = "idle") /\ next \notin ConcludedPC /\ "idle" \in UnsentPC
    BY DEF Ended, UnsentPC, ConcludedPC
  <2> QED
    BY <1>1, <2>1, StatementKeepsExchanges
<1>6. RecordInv'
  <2>1. next \notin OwnerPC \cup CheckedPC \cup LockedPC
    BY DEF Ended, OwnerPC, CheckedPC, LockedPC
  <2> QED
    BY <1>2, <2>1, QuietKeepsRecords
<1>7. RowsInv'
  BY QuietKeepsRows
<1> QED
  BY <1>3, <1>4, <1>5, <1>6, <1>7 DEF EngineInv, CallsInv

\* A call that ends has told the engine nothing.
LEMMA QuietEndKeepsEngine ==
  ASSUME EngineInv, RowsInv, TypeInv', NEW c \in Call, EndsQuietly(c)
  PROVE  EngineInv' /\ RowsInv'
<1>1. PICK next \in Ended \cup {"read:get"} : Goto(c, next)
  BY DEF EndsQuietly
<1>2. \A d \in ReviewCall : target'[d] = target[d]
  BY CallsAreDistinct DEF EndsQuietly, EngineInv, CallsInv, TypeInv, TypeOK, EngineTypeOK
<1>3. UNCHANGED <<arg, preparation, submission, reviewActions, lock, verdict, post, thread, applied>>
  BY DEF EndsQuietly
<1> QED
  BY <1>1, <1>2, <1>3, QuietKeepsEngine

\* The row of a new preparation is the caller's own.
LEMMA InsertKeepsEngine ==
  ASSUME EngineInv, RowsInv, TypeInv', NothingOpen, NEW c \in PrepareCall, InsertsPreparation(c),
         UNCHANGED lock
  PROVE  EngineInv' /\ RowsInv'
<1>1. TypeInv /\ AnalysisInv /\ ReviewInv /\ ExchangeInv /\ c \in Call
  BY DEF EngineInv, CallsInv
<1>2. \A d \in Call \ {c} : pc'[d] = pc[d]
  BY <1>1 DEF InsertsPreparation, Goto, TypeInv, TypeOK, CallTypeOK
<1>3. AnalysisInv'
  BY <1>1, InsertKeepsAnalysis
<1>4. ReviewInv'
  <2>1. c \notin ReviewCall
    BY CallsAreDistinct
  <2> QED
    BY <1>1, <1>2, <2>1, OthersKeepReviews DEF InsertsPreparation, engine
<1>5. ExchangeInv'
  <2>1. pc[c] \in UnsentPC /\ "prepare:post" \notin ConcludedPC
    BY DEF InsertsPreparation, UnsentPC, ConcludedPC
  <2> QED
    BY <1>1, <2>1, StatementKeepsExchanges DEF InsertsPreparation, engine
<1>6. RecordInv' /\ RowsInv'
  BY PrepareAddKeepsRecords, PrepareAddKeepsRows
<1> QED
  BY <1>3, <1>4, <1>5, <1>6 DEF EngineInv, CallsInv

\* The outcome of an analysis is what the caller knows of it.
LEMMA SaveKeepsEngine ==
  ASSUME EngineInv, RowsInv, TypeInv', NothingOpen, NEW c \in PrepareCall, SavesPreparation(c),
         UNCHANGED lock
  PROVE  EngineInv' /\ RowsInv'
<1>1. TypeInv /\ AnalysisInv /\ ReviewInv /\ ExchangeInv /\ c \in Call /\ arg[c].app \in App
  BY Begun DEF SavesPreparation, EngineInv, CallsInv
<1>2. \A d \in Call \ {c} : pc'[d] = pc[d]
  BY <1>1 DEF SavesPreparation, Goto, TypeInv, TypeOK, CallTypeOK
<1>3. AnalysisInv'
  BY <1>1, SaveKeepsAnalysis
<1>4. ReviewInv'
  <2>1. c \notin ReviewCall
    BY CallsAreDistinct
  <2> QED
    BY <1>1, <1>2, <2>1, OthersKeepReviews DEF SavesPreparation, engine
<1>5. ExchangeInv'
  <2>1. {"returned", "agent_error"} \cap (UnsentPC \cup ConcludedPC) = {}
    BY DEF UnsentPC, ConcludedPC
  <2>2. PICK next \in {"returned", "agent_error"} : Goto(c, next)
    BY DEF SavesPreparation
  <2>3. UNCHANGED post /\ UNCHANGED verdict /\ UNCHANGED thread /\ UNCHANGED applied
    BY DEF SavesPreparation, engine
  <2> QED
    BY <1>1, <2>1, <2>2, <2>3, StatementKeepsExchanges
<1>6. RecordInv' /\ RowsInv'
  BY <1>1, PrepareSaveKeepsRecords, PrepareSaveKeepsRows
<1> QED
  BY <1>3, <1>4, <1>5, <1>6 DEF EngineInv, CallsInv

\* The row of a new submission is the only unresolved one of its application.
LEMMA SubmitKeepsEngine ==
  ASSUME EngineInv, RowsInv, TypeInv', NothingOpen, NEW c \in ReviewCall, InsertsSubmission(c),
         preparation[arg[c].app].status = "awaiting_review"
  PROVE  EngineInv' /\ RowsInv'
<1>1. TypeInv /\ AnalysisInv /\ ReviewInv /\ ExchangeInv /\ c \in Call \ PrepareCall
  BY CallsAreDistinct DEF EngineInv, CallsInv
<1>2. AnalysisInv'
  BY <1>1, OthersKeepAnalysis DEF InsertsSubmission, Prepared, engine
<1>3. ReviewInv'
  BY <1>1, AddKeepsReviews
<1>4. ExchangeInv'
  <2>1. pc[c] \in UnsentPC /\ "review:post" \notin ConcludedPC
    BY DEF InsertsSubmission, UnsentPC, ConcludedPC
  <2> QED
    BY <1>1, <2>1, StatementKeepsExchanges DEF InsertsSubmission, engine
<1>5. RecordInv' /\ RowsInv'
  BY ReviewAddKeepsRecords, ReviewAddKeepsRows
<1> QED
  BY <1>2, <1>3, <1>4, <1>5 DEF EngineInv, CallsInv

\* The outcome of a review is what the caller knows of it.
LEMMA OutcomeKeepsEngine ==
  ASSUME EngineInv, RowsInv, TypeInv', NothingOpen, NEW c \in ReviewCall, SavesSubmission(c)
  PROVE  EngineInv' /\ RowsInv'
<1>1. /\ TypeInv /\ AnalysisInv /\ ReviewInv /\ ExchangeInv /\ c \in Call \ PrepareCall
      /\ arg[c].app \in App /\ arg[c].key \in Key
  BY Begun, CallsAreDistinct DEF SavesSubmission, EngineInv, CallsInv
<1>2. PICK next \in {"returned", "agent_error"} : Goto(c, next)
  BY DEF SavesSubmission
<1>3. UNCHANGED post /\ UNCHANGED verdict /\ UNCHANGED thread /\ UNCHANGED applied /\ UNCHANGED arg
  BY DEF SavesSubmission, engine
<1>4. AnalysisInv'
  <2>1. \A a \in App : Prepared(a) => Prepared(a)'
    BY <1>1, ReviewSaveWrites DEF Prepared, NoPreparation, Absent
  <2> QED
    BY <1>1, <1>2, <1>3, <2>1, OthersKeepAnalysis
<1>5. ReviewInv'
  BY <1>1, SaveKeepsReviews
<1>6. ExchangeInv'
  <2>1. {"returned", "agent_error"} \cap (UnsentPC \cup ConcludedPC) = {}
    BY DEF UnsentPC, ConcludedPC
  <2> QED
    BY <1>1, <1>2, <1>3, <2>1, StatementKeepsExchanges
<1>7. RecordInv'
  <2>1. \A d \in ReviewCall \ {c} : pc[d] \notin CheckedPC
    BY DEF NothingOpen, MemPC, CheckedPC, Ended
  <2> QED
    BY <2>1, ReviewSaveKeepsRecords
<1>8. RowsInv'
  BY <1>1, ReviewSaveKeepsRows
<1> QED
  BY <1>4, <1>5, <1>6, <1>7, <1>8 DEF EngineInv, CallsInv

-----------------------------------------------------------------------------
(* Every step keeps what is known of the engine, and leaves no transaction *)
(* open.                                                                   *)

BeginPC == {"prepare:find", "review:find_key", "update:claim", "create:claim", "read:find"}

\* A call begins with the arguments of its service.
LEMMA MemArriveWrites ==
  ASSUME TypeInv, NEW c \in Call, MemArrive(c)
  PROVE  /\ pc[c] = "idle" /\ UNCHANGED <<tables, lock, seen, verdict, engine>>
         /\ \E next \in BeginPC : Goto(c, next)
         /\ \E given \in Arguments :
              /\ arg' = [arg EXCEPT ![c] = given]
              /\ given.app \in App
              /\ c \in ReviewCall => given.key \in Key /\ given.want \in Decision
              /\ c \in UpdateCall => given.key \in Key /\ given.want \in Target
              /\ c \in CreateCall => given.key \in Key /\ given.want \in Content /\ Fresh(given.app)
<1>1. /\ pc[c] = "idle" /\ UNCHANGED <<tables, lock, seen, verdict, engine>>
      /\ \E next \in BeginPC : Goto(c, next)
  BY DEF MemArrive, BeginPC
<1>. DEFINE Given(given) ==
       /\ arg' = [arg EXCEPT ![c] = given]
       /\ given.app \in App
       /\ c \in ReviewCall => given.key \in Key /\ given.want \in Decision
       /\ c \in UpdateCall => given.key \in Key /\ given.want \in Target
       /\ c \in CreateCall => given.key \in Key /\ given.want \in Content /\ Fresh(given.app)
<1>2. CASE c \in PrepareCall \cup ReadCall
  <2>1. PICK a \in App : arg' = [arg EXCEPT ![c].app = a]
    BY <1>2, CallsAreDistinct DEF MemArrive
  <2>. DEFINE given == [arg[c] EXCEPT !.app = a]
  <2>2. given \in Arguments /\ arg' = [arg EXCEPT ![c] = given] /\ given.app = a
    BY <2>1 DEF TypeInv, TypeOK, CallTypeOK, Arguments
  <2>. HIDE DEF given
  <2>3. Given(given)
    BY <1>2, <2>2, CallsAreDistinct
  <2> QED
    BY <1>1, <2>2, <2>3
<1>3. CASE c \in ReviewCall \cup UpdateCall \cup CreateCall
  <2>1. PICK a \in App, k \in Key, w \in Wish :
          /\ arg' = [arg EXCEPT ![c] = [app |-> a, key |-> k, want |-> w]]
          /\ c \in ReviewCall => w \in Decision
          /\ c \in UpdateCall => w \in Target
          /\ c \in CreateCall => w \in Content /\ Fresh(a)
    BY <1>3, CallsAreDistinct DEF MemArrive, Wish
  <2>2. [app |-> a, key |-> k, want |-> w] \in Arguments
    BY DEF Arguments
  <2>3. Given([app |-> a, key |-> k, want |-> w])
    BY <2>1
  <2> QED
    BY <1>1, <2>2, <2>3
<1> QED
  BY <1>2, <1>3

\* It has written and sent nothing.
LEMMA MemArriveKeepsEngine ==
  ASSUME EngineInv, RowsInv, NEW c \in Call, MemArrive(c)
  PROVE  EngineInv' /\ RowsInv'
<1>1. TypeInv
  BY DEF EngineInv, CallsInv
<1>2. /\ pc[c] = "idle"
      /\ UNCHANGED tables /\ UNCHANGED lock /\ UNCHANGED seen /\ UNCHANGED verdict
      /\ UNCHANGED engine
  BY <1>1, MemArriveWrites
<1>3. PICK next \in BeginPC : Goto(c, next)
  BY <1>1, MemArriveWrites
<1>4. PICK given \in Arguments :
        /\ arg' = [arg EXCEPT ![c] = given]
        /\ given.app \in App
        /\ c \in ReviewCall => given.key \in Key /\ given.want \in Decision
        /\ c \in UpdateCall => given.key \in Key /\ given.want \in Target
        /\ c \in CreateCall => given.key \in Key /\ given.want \in Content
  BY <1>1, MemArriveWrites
<1>5. /\ next \in PC /\ next \notin ConcludedPC \cup SubmittedPC \cup {"read:get"}
      /\ next \in Ended \cup {"read:get", "prepare:find", "review:find_key", "update:claim",
                              "create:claim", "read:find"}
  BY DEF BeginPC, PC, PreparePC, ReviewPC, UpdatePC, CreatePC, ReadPC, ConcludedPC, SubmittedPC
<1>6. pc' \in [Call -> PC] /\ pc'[c] = next /\ \A d \in Call \ {c} : pc'[d] = pc[d]
  BY <1>1, <1>3, <1>5, MoveTypes
<1>7. /\ seen' \in [Call -> ApplicationStatus \cup {Absent}]
      /\ lock' \in [Lockable -> Call \cup {None}]
  BY <1>1, <1>2 DEF TypeInv, TypeOK, CallTypeOK, StoreTypeOK
<1>8. TypeInv'
  BY <1>1, <1>2, <1>4, <1>5, <1>6, <1>7, BeginTypes
<1>9. \A d \in Call \ {c} : arg'[d] = arg[d]
  BY <1>1, <1>4 DEF TypeInv, TypeOK, CallTypeOK
<1> QED
  BY <1>2, <1>3, <1>5, <1>8, <1>9, QuietKeepsEngine DEF tables, engine

\* A call that is cancelled holds no lock.
LEMMA MemCancelIsCrash ==
  ASSUME TypeInv, NothingOpen, NEW c \in Call, MemCancel(c)
  PROVE  Crash(c)
<1>1. Running(c)
  BY DEF MemCancel, Running, Ended
<1>2. lock \in [Lockable -> Call \cup {None}] /\ \A row \in Lockable : lock[row] = None
  BY DEF TypeInv, TypeOK, StoreTypeOK, NothingOpen
<1>3. Release(c)
  <2>1. lock = [row \in Lockable |-> IF lock[row] = c THEN None ELSE lock[row]]
    BY <1>2
  <2> QED
    BY <2>1 DEF MemCancel, Release
<1> QED
  BY <1>1, <1>3 DEF MemCancel, Crash, Proceed, Ended

\* The steps that the services take whatever the store.
SharedStep ==
  \/ \E c \in PrepareCall : PreparePost(c) \/ PrepareAnswer(c)
  \/ \E c \in ReviewCall : ReviewPost(c) \/ ReviewAnswer(c)
  \/ \E c \in ReadCall : ReadGet(c) \/ ReadFails(c)
  \/ EngineStep
  \/ UNCHANGED vars

\* They are steps of the hub over PostgreSQL.
LEMMA SharedSteps == SharedStep => [Next]_vars
BY DEF SharedStep, Next, Advance, PrepareStep, ReviewStep, ReadStep

\* The transactions of the services, each a single step.
LEMMA TransactionKeepsEngine ==
  ASSUME EngineInv, RowsInv, NothingOpen, NEW c \in Call,
         \/ c \in PrepareCall /\ (MemPrepareStart(c) \/ MemPrepareRecord(c))
         \/ c \in ReviewCall /\ (MemReviewStart(c) \/ MemReviewRecord(c))
  PROVE  EngineInv' /\ RowsInv'
<1>1. TypeInv /\ application \in [App -> ApplicationStatus \cup {Absent}]
      /\ events \in [App -> Seq(Event)] /\ idempotency \in [Operation \X Key -> Claim \cup {None}]
  BY DEF EngineInv, CallsInv, TypeInv, TypeOK, StoreTypeOK
<1>2. ASSUME UNCHANGED idempotency, EndsQuietly(c), WritesStatus(c), arg[c].app \in App
      PROVE  EngineInv' /\ RowsInv'
  BY <1>1, <1>2, StatusTyped, QuietEndTyped, QuietEndKeepsEngine
<1>3. CASE c \in PrepareCall /\ MemPrepareStart(c)
  <2>1. arg[c].app \in App
    BY <1>1, <1>3, Begun DEF MemPrepareStart
  <2>2. CASE EndsQuietly(c)
    BY <1>1, <1>2, <1>3, <2>1, <2>2, MemPrepareStartWrites
  <2>3. CASE InsertsPreparation(c)
    BY <1>1, <1>3, <2>3, MemPrepareStartWrites, InsertedPreparationTyped, InsertKeepsEngine
  <2> QED
    BY <1>1, <1>3, <2>2, <2>3, MemPrepareStartWrites
<1>4. CASE c \in PrepareCall /\ MemPrepareRecord(c)
  <2>1. arg[c].app \in App
    BY <1>1, <1>4, Begun DEF MemPrepareRecord
  <2>2. CASE EndsQuietly(c)
    BY <1>1, <1>2, <1>4, <2>1, <2>2, MemPrepareRecordWrites
  <2>3. CASE SavesPreparation(c)
    BY <1>1, <1>4, <2>3, MemPrepareRecordWrites, SavedPreparationTyped, SaveKeepsEngine
  <2> QED
    BY <1>1, <1>4, <2>2, <2>3, MemPrepareRecordWrites
<1>5. CASE c \in ReviewCall /\ MemReviewStart(c)
  <2>1. arg[c].app \in App
    BY <1>1, <1>5, Begun DEF MemReviewStart
  <2>2. CASE EndsQuietly(c)
    BY <1>1, <1>2, <1>5, <2>1, <2>2, MemReviewStartWrites DEF WritesStatus
  <2>3. CASE InsertsSubmission(c) /\ ~EndsQuietly(c)
    BY <1>1, <1>5, <2>3, MemReviewStartWrites, InsertedSubmissionTyped, SubmitKeepsEngine
  <2> QED
    BY <1>1, <1>5, <2>2, <2>3, MemReviewStartWrites
<1>6. CASE c \in ReviewCall /\ MemReviewRecord(c)
  <2>1. arg[c].app \in App
    BY <1>1, <1>6, Begun DEF MemReviewRecord
  <2>2. CASE EndsQuietly(c)
    BY <1>1, <1>2, <1>6, <2>1, <2>2, MemReviewRecordWrites
  <2>3. CASE SavesSubmission(c)
    BY <1>1, <1>6, <2>3, MemReviewRecordWrites, SavedSubmissionTyped, OutcomeKeepsEngine
  <2> QED
    BY <1>1, <1>6, <2>2, <2>3, MemReviewRecordWrites
<1> QED
  BY <1>3, <1>4, <1>5, <1>6

\* The writes of the other services, of which the engine hears nothing.
LEMMA ClaimKeepsEngine ==
  ASSUME EngineInv, RowsInv, MemInv, NEW c \in Call,
         \/ c \in UpdateCall /\ MemUpdate(c)
         \/ c \in CreateCall /\ MemCreate(c)
         \/ c \in ReadCall /\ MemRead(c)
  PROVE  EngineInv' /\ RowsInv'
<1>1. TypeInv /\ application \in [App -> ApplicationStatus \cup {Absent}]
      /\ events \in [App -> Seq(Event)] /\ idempotency \in [Operation \X Key -> Claim \cup {None}]
  BY DEF EngineInv, CallsInv, TypeInv, TypeOK, StoreTypeOK
<1>2. CASE c \in UpdateCall /\ MemUpdate(c)
  BY <1>1, <1>2, MemUpdateWrites, ClaimTyped, QuietEndKeepsEngine
<1>3. CASE c \in CreateCall /\ MemCreate(c)
  BY <1>1, <1>3, MemCreateWrites, ClaimTyped, QuietEndKeepsEngine DEF MemInv
<1>4. CASE c \in ReadCall /\ MemRead(c)
  <2>1. EndsQuietly(c) /\ UNCHANGED application /\ UNCHANGED events /\ UNCHANGED idempotency
    BY <1>1, <1>4, MemReadWrites
  <2> QED
    BY <1>1, <2>1, QuietEndTyped, QuietEndKeepsEngine
<1> QED
  BY <1>2, <1>3, <1>4

\* The kinds of steps over the dictionaries.
LEMMA MemSteps ==
  ASSUME [MemNext]_vars
  PROVE  \/ SharedStep
         \/ \E c \in Call : MemArrive(c) \/ MemCancel(c)
         \/ \E c \in PrepareCall : MemPrepareStart(c) \/ MemPrepareRecord(c)
         \/ \E c \in ReviewCall : MemReviewStart(c) \/ MemReviewRecord(c)
         \/ \E c \in UpdateCall : MemUpdate(c)
         \/ \E c \in CreateCall : MemCreate(c)
         \/ \E c \in ReadCall : MemRead(c)
BY DEF MemNext, SharedStep

\* What is known of the engine, and how its rows agree, over the dictionaries.
LEMMA MemKeepsEngine ==
  ASSUME EngineInv, RowsInv, MemInv, [MemNext]_vars
  PROVE  EngineInv' /\ RowsInv'
<1>1. TypeInv /\ NothingOpen
  BY DEF EngineInv, CallsInv, MemInv
<1>2. ASSUME [Next]_vars PROVE EngineInv' /\ RowsInv'
  BY <1>2, NextKeepsEngine, NextKeepsRows
<1>3. CASE SharedStep
  BY <1>2, <1>3, SharedSteps
<1>4. ASSUME NEW c \in Call, MemCancel(c) PROVE EngineInv' /\ RowsInv'
  BY <1>1, <1>2, <1>4, MemCancelIsCrash DEF Next
<1> QED
  BY <1>1, <1>3, <1>4, MemSteps, MemArriveKeepsEngine, TransactionKeepsEngine, ClaimKeepsEngine

\* A step of one call that ends its transaction, if it was one.
LEMMA NothingOpenKept ==
  ASSUME TypeInv, NothingOpen, NEW c \in Call, NEW next \in MemPC, Goto(c, next),
         UNCHANGED lock, \A d \in Call \ {c} : verdict'[d] = verdict[d],
         next \in {"prepare:require_starting", "review:require_submitting"} =>
           verdict'[c] \notin ThreadStatus
  PROVE  NothingOpen'
<1>1. pc'[c] = next /\ \A d \in Call \ {c} : pc'[d] = pc[d]
  BY DEF Goto, TypeInv, TypeOK, CallTypeOK
<1> QED
  BY <1>1 DEF NothingOpen

\* Every step over the dictionaries.
LEMMA MemKeepsNothingOpen ==
  ASSUME EngineInv, MemInv, [MemNext]_vars
  PROVE  NothingOpen'
<1>1. TypeInv /\ NothingOpen
  BY DEF EngineInv, CallsInv, MemInv
<1>2. ASSUME NEW c \in Call, NEW next \in MemPC, Goto(c, next), UNCHANGED <<lock, verdict>>,
             next \notin {"prepare:require_starting", "review:require_submitting"}
      PROVE  NothingOpen'
  BY <1>1, <1>2, NothingOpenKept
<1>3. ASSUME NEW c \in Call, EndsQuietly(c) PROVE NothingOpen'
  <2>1. PICK next \in Ended \cup {"read:get"} : Goto(c, next)
    BY <1>3 DEF EndsQuietly
  <2>2. next \in MemPC /\ next \notin {"prepare:require_starting", "review:require_submitting"}
    BY DEF MemPC, Ended
  <2> QED
    BY <1>2, <1>3, <2>1, <2>2 DEF EndsQuietly
<1>4. ASSUME NEW c \in PrepareCall, MemPrepareStart(c) \/ MemPrepareRecord(c) PROVE NothingOpen'
  <2>1. c \in Call /\ UNCHANGED <<lock, verdict>>
    BY <1>1, <1>4, MemPrepareStartWrites, MemPrepareRecordWrites
  <2>2. {"prepare:post", "returned", "agent_error"} \subseteq MemPC
    BY DEF MemPC, Ended
  <2>3. CASE \E next \in {"prepare:post", "returned", "agent_error"} : Goto(c, next)
    BY <1>2, <2>1, <2>2, <2>3
  <2> QED
    BY <1>1, <1>3, <1>4, <2>3, MemPrepareStartWrites, MemPrepareRecordWrites
       DEF InsertsPreparation, SavesPreparation
<1>5. ASSUME NEW c \in ReviewCall, MemReviewStart(c) \/ MemReviewRecord(c) PROVE NothingOpen'
  <2>1. c \in Call /\ UNCHANGED <<lock, verdict>>
    BY <1>1, <1>5, MemReviewStartWrites, MemReviewRecordWrites
  <2>2. {"review:post", "returned", "agent_error"} \subseteq MemPC
    BY DEF MemPC, Ended
  <2>3. CASE \E next \in {"review:post", "returned", "agent_error"} : Goto(c, next)
    BY <1>2, <2>1, <2>2, <2>3
  <2> QED
    BY <1>1, <1>3, <1>5, <2>3, MemReviewStartWrites, MemReviewRecordWrites
       DEF InsertsSubmission, SavesSubmission
<1>6. ASSUME NEW c \in Call, MemArrive(c) \/ MemCancel(c) PROVE NothingOpen'
  <2>1. BeginPC \cup {"crashed"} \subseteq MemPC
    BY DEF MemPC, BeginPC, Ended
  <2>2. UNCHANGED <<lock, verdict>> /\ \E next \in BeginPC \cup {"crashed"} : Goto(c, next)
    BY <1>1, <1>6, MemArriveWrites DEF MemCancel
  <2> QED
    BY <1>2, <2>1, <2>2 DEF BeginPC
<1>7. ASSUME NEW c \in PrepareCall, PrepareAnswer(c) PROVE NothingOpen'
  <2>1. PICK v : verdict' = [verdict EXCEPT ![c] = v]
    BY <1>7 DEF PrepareAnswer, Receive, TimeOut
  <2>2. verdict'[c] = v /\ \A d \in Call \ {c} : verdict'[d] = verdict[d]
    BY <1>1, <2>1 DEF TypeInv, TypeOK, CallTypeOK
  <2>3. {"prepare:read_application", "prepare:require_starting"} \subseteq MemPC
    BY DEF MemPC
  <2>4. PICK next \in {"prepare:read_application", "prepare:require_starting"} :
          Goto(c, next) /\ (next = "prepare:require_starting" => verdict'[c] \notin ThreadStatus)
    BY <1>7 DEF PrepareAnswer
  <2> QED
    BY <1>1, <1>7, <2>2, <2>3, <2>4, NothingOpenKept DEF PrepareAnswer
<1>8. ASSUME NEW c \in ReviewCall, ReviewAnswer(c) PROVE NothingOpen'
  <2>1. PICK v : verdict' = [verdict EXCEPT ![c] = v]
    BY <1>8 DEF ReviewAnswer, Receive, TimeOut
  <2>2. verdict'[c] = v /\ \A d \in Call \ {c} : verdict'[d] = verdict[d]
    BY <1>1, <2>1 DEF TypeInv, TypeOK, CallTypeOK
  <2>3. {"review:lock_again", "review:require_submitting"} \subseteq MemPC
    BY DEF MemPC
  <2>4. PICK next \in {"review:lock_again", "review:require_submitting"} :
          Goto(c, next) /\ (next = "review:require_submitting" => verdict'[c] \notin ThreadStatus)
    BY <1>8 DEF ReviewAnswer
  <2> QED
    BY <1>1, <1>8, <2>2, <2>3, <2>4, NothingOpenKept DEF ReviewAnswer
<1>9. ASSUME NEW c \in Call, PreparePost(c) \/ ReviewPost(c) \/ ReadFails(c) PROVE NothingOpen'
  <2>1. PICK next \in {"prepare:await", "review:await", "agent_error"} : Goto(c, next)
    BY <1>9 DEF PreparePost, ReviewPost, ReadFails
  <2>2. UNCHANGED <<lock, verdict>>
    BY <1>9 DEF PreparePost, ReviewPost, ReadFails
  <2>3. next \in MemPC
    BY DEF MemPC, Ended
  <2> QED
    BY <1>2, <2>1, <2>2, <2>3
<1>10. ASSUME NEW c \in ReadCall, ReadGet(c) PROVE NothingOpen'
  <2>1. \A d \in Call \ {c} : verdict'[d] = verdict[d]
    BY <1>1, <1>10 DEF ReadGet, TypeInv, TypeOK, CallTypeOK
  <2>2. "returned" \in MemPC
    BY DEF MemPC, Ended
  <2> QED
    BY <1>1, <1>10, <2>1, <2>2, NothingOpenKept DEF ReadGet
<1>11. CASE EngineStep \/ UNCHANGED vars
  BY <1>1, <1>11 DEF EngineStep, vars, NothingOpen
<1>12. CASE SharedStep
  BY <1>7, <1>8, <1>9, <1>10, <1>11, <1>12 DEF SharedStep
<1>13. ASSUME NEW c \in UpdateCall, MemUpdate(c) PROVE NothingOpen'
  BY <1>1, <1>3, <1>13, MemUpdateWrites
<1>14. ASSUME NEW c \in CreateCall, MemCreate(c) PROVE NothingOpen'
  BY <1>1, <1>3, <1>14, MemCreateWrites DEF MemInv
<1>15. ASSUME NEW c \in ReadCall, MemRead(c) PROVE NothingOpen'
  BY <1>1, <1>3, <1>15, MemReadWrites
<1> QED
  BY <1>4, <1>5, <1>6, <1>12, <1>13, <1>14, <1>15, MemSteps

-----------------------------------------------------------------------------
(* Claims over the dictionaries.                                           *)

\* A call acts by an event of its own.
LEMMA ActedIsActedOn == \A d \in Call : Acted(d) <=> \E a \in App : ActedOn(d, a)
BY DEF Acted, ActedOn

\* A step that stores no claim, of a call that claims nothing, has not begun, or
\* is answered from the claim it found.
LEMMA MoveKeepsMemClaims ==
  ASSUME TypeInv, MemClaimsKnow, NEW c \in Call,
         \A d \in Call \ {c} : pc'[d] = pc[d] /\ arg'[d] = arg[d],
         pc[c] = "idle" \/ arg'[c] = arg[c],
         UNCHANGED idempotency,
         \A d \in Call, a \in App : ActedOn(d, a) => ActedOn(d, a)',
         \A d \in UpdateCall \cup CreateCall, a \in App : ActedOn(d, a)' => ActedOn(d, a),
         \A d \in Call \ {c}, a \in App : ActedOn(d, a)' => ActedOn(d, a),
         pc'[c] # "idle",
         c \in UpdateCall \cup CreateCall /\ pc'[c] \in {"returned", "replayed"} => AnswerStored(c)'
  PROVE  MemClaimsKnow'
<1>1. \A d \in Call : Acted(d) <=> \E a \in App : ActedOn(d, a)
  BY DEF Acted, ActedOn
<1>2. \A d \in Call : Acted(d)' <=> \E a \in App : ActedOn(d, a)'
  BY DEF Acted, ActedOn
<1>3. \A d \in UpdateCall \cup CreateCall : Acted(d)' => Acted(d)
  BY <1>1, <1>2
<1>4. \A d \in Call : Acted(d) => pc[d] # "idle" /\ arg'[d] = arg[d]
  BY DEF MemClaimsKnow
<1>5. \A d \in Call : Acted(d)' => pc'[d] # "idle"
  BY <1>1, <1>2, <1>4
<1>6. ASSUME NEW d \in UpdateCall \cup CreateCall, Acted(d)' \/ pc'[d] \in {"returned", "replayed"}
      PROVE  AnswerStored(d)'
  <2>1. AnswerStored(d) /\ arg'[d] = arg[d] => AnswerStored(d)'
    BY DEF AnswerStored, ClaimRow
  <2>2. Acted(d) \/ pc[d] \in {"returned", "replayed"} => AnswerStored(d)
    BY DEF MemClaimsKnow
  <2> QED
    BY <1>3, <1>4, <1>6, <2>1, <2>2
<1>7. KeysActOnce'
  BY <1>3, <1>4 DEF MemClaimsKnow, KeysActOnce
<1>8. StoredAnswersAreTrue'
  <2>. SUFFICES ASSUME NEW op \in Operation, NEW k \in Key, idempotency[<<op, k>>] # None
                PROVE  LET row == idempotency[<<op, k>>] IN
                       IF row.response = None
                       THEN \A d \in UpdateCall :
                              arg'[d].key = k => pc'[d] \notin {"returned", "replayed"}
                       ELSE \E d \in Call :
                              /\ arg'[d].app = row.response /\ arg'[d].want = row.want
                              /\ \E i \in DOMAIN events'[row.response] :
                                   events'[row.response][i].by = d
    BY DEF StoredAnswersAreTrue
  <2>. DEFINE row == idempotency[<<op, k>>]
  <2>1. CASE row.response = None
    <3>1. op = "update"
      BY <2>1 DEF Operation, MemClaimsKnow
    <3>2. ASSUME NEW d \in UpdateCall, arg'[d].key = k, AnswerStored(d)' PROVE FALSE
      <4>1. ClaimRow(d)' = <<op, k>>
        BY <3>1, <3>2 DEF ClaimRow
      <4> QED
        BY <2>1, <3>2, <4>1 DEF AnswerStored
    <3> QED
      BY <1>6, <2>1, <3>2
  <2>2. CASE row.response # None
    <3>1. row.response \in App
      BY <2>2 DEF TypeInv, TypeOK, StoreTypeOK, Claim
    <3>2. PICK d \in Call : /\ arg[d].app = row.response /\ arg[d].want = row.want
                            /\ ActedOn(d, row.response)
      BY <2>2 DEF MemClaimsKnow, StoredAnswersAreTrue, ActedOn
    <3>3. arg'[d] = arg[d]
      BY <1>1, <1>4, <3>1, <3>2
    <3>4. \A a \in App : ActedOn(d, a) => \E i \in DOMAIN events'[a] : events'[a][i].by = d
      BY DEF ActedOn
    <3> QED
      BY <2>2, <3>1, <3>2, <3>3, <3>4
  <2> QED
    BY <2>1, <2>2
<1> QED
  BY <1>5, <1>6, <1>7, <1>8 DEF MemClaimsKnow

\* A call whose transition is refused after its claim was stored: no update
\* with the key was or will be answered.
LEMMA VainClaimKeepsMemClaims ==
  ASSUME TypeInv, MemClaimsKnow, NEW c \in UpdateCall, pc[c] # "idle", UNCHANGED arg,
         ClaimsInVain(c)
  PROVE  MemClaimsKnow'
<1>. DEFINE row == [app |-> arg[c].app, want |-> arg[c].want, response |-> None]
<1>1. /\ c \in Call /\ ClaimRow(c) \in Operation \X Key /\ idempotency[ClaimRow(c)] = None
      /\ UNCHANGED events
  BY ClaimRows DEF ClaimsInVain
<1>2. pc'[c] = "invalid_transition" /\ \A d \in Call \ {c} : pc'[d] = pc[d]
  BY <1>1 DEF ClaimsInVain, Goto, TypeInv, TypeOK, CallTypeOK
<1>3. /\ idempotency'[ClaimRow(c)].response = None
      /\ \A r \in (Operation \X Key) \ {ClaimRow(c)} : idempotency'[r] = idempotency[r]
  BY <1>1 DEF ClaimsInVain, TypeInv, TypeOK, StoreTypeOK
<1>4. \A d \in Call : Acted(d)' <=> Acted(d)
  BY <1>1 DEF Acted
<1>5. \A d \in Call : Acted(d)' => pc'[d] # "idle"
  BY <1>2, <1>4 DEF MemClaimsKnow
<1>6. ASSUME NEW d \in UpdateCall \cup CreateCall, Acted(d)' \/ pc'[d] \in {"returned", "replayed"}
      PROVE  AnswerStored(d)' /\ ClaimRow(d) # ClaimRow(c)
  <2>1. Acted(d) \/ pc[d] \in {"returned", "replayed"}
    BY <1>2, <1>4, <1>6
  <2>2. AnswerStored(d)
    BY <2>1 DEF MemClaimsKnow
  <2>3. ClaimRow(d) # ClaimRow(c)
    BY <1>1, <2>2 DEF AnswerStored
  <2>4. ClaimRow(d) \in Operation \X Key
    BY <2>1, ClaimRows DEF MemClaimsKnow
  <2> QED
    BY <1>3, <2>2, <2>3, <2>4 DEF AnswerStored, ClaimRow
<1>7. \A k \in Key : idempotency'[<<"create", k>>] # None => idempotency'[<<"create", k>>].response # None
  <2>1. \A k \in Key : <<"create", k>> \in (Operation \X Key) \ {ClaimRow(c)}
    BY DEF ClaimRow, Operation
  <2> QED
    BY <1>3, <2>1 DEF MemClaimsKnow
<1>8. KeysActOnce'
  BY <1>4 DEF MemClaimsKnow, KeysActOnce
<1>9. StoredAnswersAreTrue'
  <2>. SUFFICES ASSUME NEW op \in Operation, NEW k \in Key, idempotency'[<<op, k>>] # None
                PROVE  LET r == idempotency'[<<op, k>>] IN
                       IF r.response = None
                       THEN \A d \in UpdateCall :
                              arg'[d].key = k => pc'[d] \notin {"returned", "replayed"}
                       ELSE \E d \in Call :
                              /\ arg'[d].app = r.response /\ arg'[d].want = r.want
                              /\ \E i \in DOMAIN events'[r.response] :
                                   events'[r.response][i].by = d
    BY DEF StoredAnswersAreTrue
  <2>1. CASE <<op, k>> = ClaimRow(c)
    <3>1. ASSUME NEW d \in UpdateCall, arg[d].key = k PROVE ClaimRow(d) = ClaimRow(c)
      BY <2>1, <3>1 DEF ClaimRow
    <3>2. \A d \in UpdateCall : arg[d].key = k => pc'[d] \notin {"returned", "replayed"}
      BY <1>6, <3>1
    <3> QED
      BY <1>3, <2>1, <3>2
  <2>2. CASE <<op, k>> # ClaimRow(c)
    <3>1. idempotency'[<<op, k>>] = idempotency[<<op, k>>]
      BY <1>3, <2>2
    <3>2. \A d \in UpdateCall : pc'[d] \in {"returned", "replayed"} => pc[d] \in {"returned", "replayed"}
      BY <1>2
    <3>3. StoredAnswersAreTrue
      BY DEF MemClaimsKnow
    <3> QED
      BY <1>1, <3>1, <3>2, <3>3 DEF StoredAnswersAreTrue
  <2> QED
    BY <2>1, <2>2
<1> QED
  BY <1>5, <1>6, <1>7, <1>8, <1>9 DEF MemClaimsKnow

\* A call that writes with its claim: no other call with the key did.
LEMMA ActKeepsMemClaims ==
  ASSUME TypeInv, MemClaimsKnow, NEW c \in UpdateCall \cup CreateCall, pc[c] # "idle",
         UNCHANGED arg, ClaimsAndActs(c)
  PROVE  MemClaimsKnow'
<1>1. /\ c \in Call /\ ClaimRow(c) \in Operation \X Key /\ idempotency[ClaimRow(c)] = None
      /\ arg[c].app \in App /\ arg[c].want \in Wish
  BY Begun, ClaimRows DEF ClaimsAndActs, Wish
<1>2. PICK app \in App \cup {None} : idempotency' = [idempotency EXCEPT ![ClaimRow(c)] =
        [app |-> app, want |-> arg[c].want, response |-> arg[c].app]]
  BY DEF ClaimsAndActs
<1>. DEFINE row == [app |-> app, want |-> arg[c].want, response |-> arg[c].app]
<1>3. /\ row # None /\ row.response = arg[c].app /\ row.want = arg[c].want
      /\ row.response # None
  <2>1. row \in Claim
    BY <1>1 DEF Claim
  <2> QED
    BY <1>1, <2>1, NoneIsNoRow, CallsAreDistinct
<1>4. /\ idempotency'[ClaimRow(c)] = row
      /\ \A r \in (Operation \X Key) \ {ClaimRow(c)} : idempotency'[r] = idempotency[r]
  BY <1>1, <1>2 DEF TypeInv, TypeOK, StoreTypeOK
<1>. HIDE DEF row
<1>5. PICK from \in ApplicationStatus \cup {Absent}, to \in ApplicationStatus :
        SaveStatus(c, arg[c].app, from, to)
  BY DEF ClaimsAndActs
<1>6. /\ \A d \in Call, b \in App : ActedOn(d, b) => ActedOn(d, b)'
      /\ \A d \in Call \ {c}, b \in App : ActedOn(d, b)' => ActedOn(d, b)
  BY <1>1, <1>5, SavedByCaller DEF SaveStatus
<1>7. ASSUME NEW a \in App, a = arg[c].app PROVE ActedOn(c, a)'
  BY <1>1, <1>5, <1>7, SavedByCaller DEF SaveStatus
<1>8. pc'[c] = "returned" /\ \A d \in Call \ {c} : pc'[d] = pc[d]
  BY <1>1 DEF ClaimsAndActs, Goto, TypeInv, TypeOK, CallTypeOK
<1>9. \A d \in Call \ {c} : Acted(d)' => Acted(d)
  BY <1>6 DEF Acted, ActedOn
<1>10. \A d \in Call : Acted(d)' => pc'[d] # "idle"
  BY <1>8, <1>9 DEF MemClaimsKnow
<1>11. ASSUME NEW d \in (UpdateCall \cup CreateCall) \ {c},
              Acted(d)' \/ pc'[d] \in {"returned", "replayed"}
       PROVE  AnswerStored(d)' /\ ClaimRow(d) # ClaimRow(c)
  <2>1. Acted(d) \/ pc[d] \in {"returned", "replayed"}
    BY <1>8, <1>9, <1>11 DEF Call
  <2>2. AnswerStored(d)
    BY <2>1 DEF MemClaimsKnow
  <2>3. ClaimRow(d) # ClaimRow(c)
    BY <1>1, <2>2 DEF AnswerStored
  <2>4. ClaimRow(d) \in Operation \X Key
    BY <2>1, ClaimRows DEF MemClaimsKnow
  <2> QED
    BY <1>4, <2>2, <2>3, <2>4 DEF AnswerStored, ClaimRow
<1>12. AnswerStored(c)'
  BY <1>3, <1>4 DEF AnswerStored, ClaimRow
<1>13. \A k \in Key : idempotency'[<<"create", k>>] # None => idempotency'[<<"create", k>>].response # None
  <2>1. \A k \in Key : <<"create", k>> \in Operation \X Key
    BY DEF Operation
  <2> QED
    BY <1>3, <1>4, <2>1 DEF MemClaimsKnow
<1>14. KeysActOnce'
  <2>. SUFFICES ASSUME NEW calls \in {UpdateCall, CreateCall}, NEW d \in calls, NEW e \in calls,
                       Acted(d)', Acted(e)', arg[d].key = arg[e].key
                PROVE  d = e
    BY DEF KeysActOnce
  <2>1. ClaimRow(d) = ClaimRow(e)
    BY CallsAreDistinct DEF ClaimRow
  <2>2. d # c /\ e # c => d = e
    BY <1>9 DEF MemClaimsKnow, KeysActOnce
  <2> QED
    BY <1>11, <2>1, <2>2
<1>15. StoredAnswersAreTrue'
  <2>. SUFFICES ASSUME NEW op \in Operation, NEW k \in Key, idempotency'[<<op, k>>] # None
                PROVE  LET r == idempotency'[<<op, k>>] IN
                       IF r.response = None
                       THEN \A d \in UpdateCall :
                              arg'[d].key = k => pc'[d] \notin {"returned", "replayed"}
                       ELSE \E d \in Call :
                              /\ arg'[d].app = r.response /\ arg'[d].want = r.want
                              /\ \E i \in DOMAIN events'[r.response] :
                                   events'[r.response][i].by = d
    BY DEF StoredAnswersAreTrue
  <2>1. \A d \in Call, a \in App : ActedOn(d, a) => \E i \in DOMAIN events'[a] : events'[a][i].by = d
    BY <1>6 DEF ActedOn
  <2>2. CASE <<op, k>> = ClaimRow(c)
    <3>1. \E i \in DOMAIN events'[arg[c].app] : events'[arg[c].app][i].by = c
      <4>1. \A a \in App : a = arg[c].app => \E i \in DOMAIN events'[a] : events'[a][i].by = c
        BY <1>7 DEF ActedOn
      <4> QED
        BY <1>1, <4>1
    <3> QED
      BY <1>1, <1>3, <1>4, <2>2, <3>1
  <2>3. CASE <<op, k>> # ClaimRow(c)
    <3>. DEFINE r == idempotency[<<op, k>>]
    <3>1. idempotency'[<<op, k>>] = r /\ r # None
      BY <1>4, <2>3
    <3>2. CASE r.response = None
      <4>1. op = "update"
        BY <3>1, <3>2 DEF Operation, MemClaimsKnow
      <4>2. ASSUME NEW d \in UpdateCall, arg[d].key = k PROVE ClaimRow(d) = <<op, k>>
        BY <4>1, <4>2 DEF ClaimRow
      <4>3. ASSUME NEW d \in UpdateCall, arg[d].key = k PROVE ~AnswerStored(d)' /\ d # c
        <5>1. ClaimRow(d) = <<op, k>> /\ ClaimRow(d)' = <<op, k>>
          BY <4>2, <4>3 DEF ClaimRow
        <5> QED
          BY <2>3, <3>1, <3>2, <5>1 DEF AnswerStored
      <4>4. \A d \in UpdateCall : arg[d].key = k => pc'[d] \notin {"returned", "replayed"}
        BY <1>11, <4>3
      <4> QED
        BY <3>1, <3>2, <4>4
    <3>3. CASE r.response # None
      <4>1. r.response \in App
        BY <3>1, <3>3 DEF TypeInv, TypeOK, StoreTypeOK, Claim
      <4>2. PICK d \in Call : /\ arg[d].app = r.response /\ arg[d].want = r.want
                              /\ ActedOn(d, r.response)
        BY <3>1, <3>3 DEF MemClaimsKnow, StoredAnswersAreTrue, ActedOn
      <4> QED
        BY <2>1, <3>1, <3>3, <4>1, <4>2
    <3> QED
      BY <3>2, <3>3
  <2> QED
    BY <2>2, <2>3
<1> QED
  BY <1>10, <1>11, <1>12, <1>13, <1>14, <1>15 DEF MemClaimsKnow

\* A step of one call that appends at most an event of its own, and stores no
\* claim.
LEMMA EventKeepsMemClaims ==
  ASSUME TypeInv, MemClaimsKnow, NEW c \in Call, NEW next, Goto(c, next),
         pc[c] # "idle", next # "idle", UNCHANGED arg, UNCHANGED idempotency,
         \/ UNCHANGED <<application, events>>
         \/ c \notin UpdateCall \cup CreateCall /\ WritesStatus(c),
         c \in UpdateCall \cup CreateCall /\ next \in {"returned", "replayed"} => AnswerStored(c)
  PROVE  MemClaimsKnow'
<1>1. pc'[c] = next /\ \A d \in Call \ {c} : pc'[d] = pc[d]
  BY DEF Goto, TypeInv, TypeOK, CallTypeOK
<1>2. AnswerStored(c) => AnswerStored(c)'
  BY DEF AnswerStored, ClaimRow
<1>3. CASE UNCHANGED events
  BY <1>1, <1>2, <1>3, MoveKeepsMemClaims DEF ActedOn
<1>4. CASE c \notin UpdateCall \cup CreateCall /\ ~UNCHANGED events
  <2>1. PICK from \in ApplicationStatus \cup {Absent}, to \in ApplicationStatus :
          SaveStatus(c, arg[c].app, from, to)
    BY <1>4 DEF WritesStatus
  <2>2. arg[c].app \in App
    BY Begun
  <2>3. /\ \A d \in Call, b \in App : ActedOn(d, b) => ActedOn(d, b)'
        /\ \A d \in Call \ {c}, b \in App : ActedOn(d, b)' => ActedOn(d, b)
    BY <2>1, <2>2, SavedByCaller DEF SaveStatus
  <2> QED
    BY <1>1, <1>4, <2>3, MoveKeepsMemClaims
<1> QED
  BY <1>3, <1>4

\* The transactions of prepare_application and review_application in one form:
\* the call goes on, with at most one change of status.
Transacts(c) ==
  /\ pc[c] # "idle" /\ arg[c].app \in App
  /\ \E next \in PC \ {"idle"} : Goto(c, next)
  /\ WritesStatus(c)
  /\ UNCHANGED <<lock, arg, seen, verdict, idempotency>>

\* Each of them has it.
LEMMA TransactionsTransact ==
  ASSUME TypeInv, NothingOpen, NEW c \in Call,
         \/ c \in PrepareCall /\ (MemPrepareStart(c) \/ MemPrepareRecord(c))
         \/ c \in ReviewCall /\ (MemReviewStart(c) \/ MemReviewRecord(c))
         \/ c \in ReadCall /\ MemRead(c)
  PROVE  Transacts(c)
<1>1. Ended \cup {"prepare:post", "review:post", "read:get"} \subseteq PC \ {"idle"}
  BY DEF PC, Ended, PreparePC, ReviewPC, ReadPC
<1>2. /\ EndsQuietly(c) \/ InsertsPreparation(c) \/ SavesPreparation(c) \/ InsertsSubmission(c)
           \/ SavesSubmission(c)
      /\ WritesStatus(c) /\ UNCHANGED <<lock, arg, seen, verdict, idempotency>>
  <2>1. CASE c \in PrepareCall /\ MemPrepareStart(c)
    BY <2>1, MemPrepareStartWrites
  <2>2. CASE c \in PrepareCall /\ MemPrepareRecord(c)
    BY <2>2, MemPrepareRecordWrites
  <2>3. CASE c \in ReviewCall /\ MemReviewStart(c)
    BY <2>3, MemReviewStartWrites DEF WritesStatus
  <2>4. CASE c \in ReviewCall /\ MemReviewRecord(c)
    BY <2>4, MemReviewRecordWrites
  <2>5. CASE c \in ReadCall /\ MemRead(c)
    BY <2>5, MemReadWrites DEF EndsQuietly, WritesStatus, MemRead
  <2> QED
    BY <2>1, <2>2, <2>3, <2>4, <2>5
<1>3. pc[c] # "idle"
  BY DEF MemPrepareStart, MemPrepareRecord, MemReviewStart, MemReviewRecord, MemRead
<1>4. \E next \in Ended \cup {"prepare:post", "review:post", "read:get"} : Goto(c, next)
  BY <1>2 DEF EndsQuietly, InsertsPreparation, SavesPreparation, InsertsSubmission,
     SavesSubmission, Ended
<1> QED
  BY <1>1, <1>2, <1>3, <1>4, Begun DEF Transacts

\* Every step.
LEMMA MemKeepsClaims ==
  ASSUME EngineInv, MemInv, [MemNext]_vars
  PROVE  MemClaimsKnow'
<1>1. TypeInv /\ NothingOpen /\ MemClaimsKnow
  BY DEF EngineInv, CallsInv, MemInv
<1>2. ASSUME NEW c \in Call, Transacts(c), c \notin UpdateCall \cup CreateCall PROVE MemClaimsKnow'
  BY <1>1, <1>2, EventKeepsMemClaims DEF Transacts
<1>3. ASSUME NEW c \in PrepareCall \cup ReviewCall \cup ReadCall
      PROVE  c \in Call /\ c \notin UpdateCall \cup CreateCall
  BY CallsAreDistinct
<1>4. ASSUME NEW c \in Call, NEW next, Goto(c, next), pc[c] # "idle", next # "idle",
             UNCHANGED arg, UNCHANGED idempotency, UNCHANGED application, UNCHANGED events,
             next \notin {"returned", "replayed"} \/ c \notin UpdateCall \cup CreateCall
      PROVE  MemClaimsKnow'
  BY <1>1, <1>4, EventKeepsMemClaims
<1>5. ASSUME NEW c \in PrepareCall, PreparePost(c) \/ PrepareAnswer(c) PROVE MemClaimsKnow'
  <2>1. UNCHANGED arg /\ UNCHANGED tables /\ pc[c] # "idle"
    BY <1>5 DEF PreparePost, PrepareAnswer
  <2>2. PICK next \in PC \ {"idle"} : Goto(c, next)
    BY <1>5 DEF PreparePost, PrepareAnswer, PC, PreparePC
  <2> QED
    BY <1>3, <1>4, <2>1, <2>2 DEF tables
<1>6. ASSUME NEW c \in ReviewCall, ReviewPost(c) \/ ReviewAnswer(c) PROVE MemClaimsKnow'
  <2>1. UNCHANGED arg /\ UNCHANGED tables /\ pc[c] # "idle"
    BY <1>6 DEF ReviewPost, ReviewAnswer
  <2>2. PICK next \in PC \ {"idle"} : Goto(c, next)
    BY <1>6 DEF ReviewPost, ReviewAnswer, PC, ReviewPC
  <2> QED
    BY <1>3, <1>4, <2>1, <2>2 DEF tables
<1>7. ASSUME NEW c \in ReadCall, ReadGet(c) \/ ReadFails(c) PROVE MemClaimsKnow'
  <2>1. UNCHANGED arg /\ UNCHANGED tables /\ pc[c] # "idle"
    BY <1>7 DEF ReadGet, ReadFails
  <2>2. PICK next \in {"returned", "agent_error"} : Goto(c, next)
    BY <1>7 DEF ReadGet, ReadFails
  <2> QED
    BY <1>3, <1>4, <2>1, <2>2 DEF tables
<1>8. CASE EngineStep \/ UNCHANGED vars
  <2>1. UNCHANGED pc /\ UNCHANGED arg /\ UNCHANGED idempotency /\ UNCHANGED events
    BY <1>8 DEF EngineStep, vars, tables
  <2> QED
    BY <1>1, <2>1 DEF MemClaimsKnow, AnswerStored, ClaimRow, Acted, KeysActOnce,
       StoredAnswersAreTrue
<1>9. CASE SharedStep
  BY <1>5, <1>6, <1>7, <1>8, <1>9 DEF SharedStep
<1>10. ASSUME NEW c \in Call, MemCancel(c) PROVE MemClaimsKnow'
  <2>1. UNCHANGED arg /\ UNCHANGED tables /\ pc[c] # "idle" /\ Goto(c, "crashed")
    BY <1>10 DEF MemCancel
  <2> QED
    BY <1>4, <2>1 DEF tables
<1>11. ASSUME NEW c \in Call, MemArrive(c) PROVE MemClaimsKnow'
  <2>1. /\ pc[c] = "idle" /\ UNCHANGED idempotency /\ UNCHANGED events
        /\ \E next \in BeginPC : Goto(c, next)
        /\ \E given : arg' = [arg EXCEPT ![c] = given]
    BY <1>1, <1>11, MemArriveWrites DEF tables
  <2>2. \A d \in Call \ {c} : pc'[d] = pc[d] /\ arg'[d] = arg[d]
    BY <1>1, <2>1 DEF Goto, TypeInv, TypeOK, CallTypeOK
  <2>3. pc'[c] \in BeginPC
    BY <1>1, <2>1 DEF Goto, TypeInv, TypeOK, CallTypeOK
  <2> QED
    BY <1>1, <2>1, <2>2, <2>3, MoveKeepsMemClaims DEF ActedOn, BeginPC
<1>12. ASSUME NEW c \in UpdateCall \cup CreateCall, EndsQuietly(c),
              Refused(c) \/ ClaimsInVain(c) \/ ClaimsAndActs(c)
       PROVE  MemClaimsKnow'
  <2>1. pc[c] # "idle" /\ UNCHANGED arg /\ c \in Call
    BY <1>12 DEF EndsQuietly
  <2>2. CASE Refused(c)
    <3>1. PICK next \in Ended \ {"returned"} : Goto(c, next) /\ (next = "replayed" => AnswerStored(c))
      BY <2>2 DEF Refused
    <3>2. next # "idle"
      BY DEF Ended
    <3> QED
      BY <1>1, <2>1, <2>2, <3>1, <3>2, EventKeepsMemClaims DEF Refused
  <2>3. CASE ClaimsInVain(c)
    BY <1>1, <2>1, <2>3, VainClaimKeepsMemClaims DEF ClaimsInVain
  <2>4. CASE ClaimsAndActs(c)
    BY <1>1, <2>1, <2>4, ActKeepsMemClaims
  <2> QED
    BY <1>12, <2>2, <2>3, <2>4
<1>13. ASSUME NEW c \in UpdateCall, MemUpdate(c) PROVE MemClaimsKnow'
  BY <1>1, <1>12, <1>13, MemUpdateWrites
<1>14. ASSUME NEW c \in CreateCall, MemCreate(c) PROVE MemClaimsKnow'
  BY <1>1, <1>12, <1>14, MemCreateWrites DEF MemInv
<1>15. ASSUME NEW c \in PrepareCall, MemPrepareStart(c) \/ MemPrepareRecord(c) PROVE MemClaimsKnow'
  BY <1>1, <1>2, <1>3, <1>15, TransactionsTransact
<1>16. ASSUME NEW c \in ReviewCall, MemReviewStart(c) \/ MemReviewRecord(c) PROVE MemClaimsKnow'
  BY <1>1, <1>2, <1>3, <1>16, TransactionsTransact
<1>17. ASSUME NEW c \in ReadCall, MemRead(c) PROVE MemClaimsKnow'
  BY <1>1, <1>2, <1>3, <1>17, TransactionsTransact
<1> QED
  BY <1>9, <1>10, <1>11, <1>13, <1>14, <1>15, <1>16, <1>17, MemSteps

-----------------------------------------------------------------------------
(* Statuses and identifiers over the dictionaries.                         *)

\* How a step changes the status of applications: along a legal transition, or
\* as the creation of one.
StatusMoves ==
  \A a \in App : application'[a] # application[a] =>
    \/ application[a] = Absent /\ application'[a] = "saved"
    \/ ValidTransition(application[a], application'[a])

\* A call that runs leaves absent applications absent, but for the one it
\* creates.
LEMMA CreatorsKept ==
  ASSUME TypeInv, \A d \in CreateCall : CreatorKnows(d), NEW c \in Call, UNCHANGED arg,
         NEW next, Goto(c, next), next \notin CreatePC, pc[c] # "idle",
         \A a \in App : application[a] = Absent /\ application'[a] # Absent =>
           c \in CreateCall /\ a = arg[c].app
  PROVE  \A d \in CreateCall : CreatorKnows(d)'
<1>1. pc'[c] = next /\ \A d \in Call \ {c} : pc'[d] = pc[d]
  BY DEF Goto, TypeInv, TypeOK, CallTypeOK
<1>2. \A d \in CreateCall : pc[d] # "idle" => arg[d].app \in App
  BY Begun
<1>3. "idle" \notin CreatePC
  BY DEF CreatePC
<1> QED
  BY <1>1, <1>2, <1>3 DEF CreatorKnows

\* The status that a call writes.
LEMMA SavedStatus ==
  ASSUME TypeInv, NEW c \in Call, NEW a \in App, NEW from, NEW to, SaveStatus(c, a, from, to)
  PROVE  application'[a] = to /\ \A b \in App \ {a} : application'[b] = application[b]
BY DEF SaveStatus, TypeInv, TypeOK, StoreTypeOK

\* Every step of the services over the dictionaries.
LEMMA MemMovesStatuses ==
  ASSUME EngineInv, MemInv, [MemNext]_vars
  PROVE  StatusMoves /\ \A c \in CreateCall : CreatorKnows(c)'
<1>1. TypeInv /\ NothingOpen /\ \A c \in CreateCall : CreatorKnows(c)
  BY DEF EngineInv, CallsInv, MemInv
<1>2. ASSUME NEW c \in Call, UNCHANGED application, UNCHANGED arg, pc[c] # "idle",
             NEW next, Goto(c, next), next \notin CreatePC
      PROVE  StatusMoves /\ \A d \in CreateCall : CreatorKnows(d)'
  BY <1>1, <1>2, CreatorsKept DEF StatusMoves
<1>3. ASSUME NEW c \in Call, UNCHANGED arg, pc[c] # "idle", arg[c].app \in App,
             NEW from \in ApplicationStatus \cup {Absent}, NEW to \in ApplicationStatus,
             application[arg[c].app] = from, SaveStatus(c, arg[c].app, from, to),
             IF c \in CreateCall THEN from = Absent /\ to = "saved" ELSE ValidTransition(from, to),
             c \notin CreateCall => from # Absent,
             NEW next, Goto(c, next), next \notin CreatePC
      PROVE  StatusMoves /\ \A d \in CreateCall : CreatorKnows(d)'
  <2>1. /\ application'[arg[c].app] = to
        /\ \A b \in App \ {arg[c].app} : application'[b] = application[b]
    BY <1>1, <1>3, SavedStatus
  <2>2. StatusMoves
    BY <1>3, <2>1 DEF StatusMoves
  <2>3. \A d \in CreateCall : CreatorKnows(d)'
    BY <1>1, <1>3, <2>1, CreatorsKept
  <2> QED
    BY <2>2, <2>3
<1>4. ASSUME NEW c \in Call, Transacts(c), c \notin UpdateCall \cup CreateCall,
             \A next \in CreatePC : ~Goto(c, next)
      PROVE  StatusMoves /\ \A d \in CreateCall : CreatorKnows(d)'
  <2>1. /\ UNCHANGED arg /\ pc[c] # "idle" /\ arg[c].app \in App /\ WritesStatus(c)
    BY <1>4 DEF Transacts
  <2>2. PICK next \in PC : Goto(c, next)
    BY <1>4 DEF Transacts
  <2>3. next \notin CreatePC
    BY <1>4, <2>2
  <2>4. CASE UNCHANGED application
    BY <1>2, <2>1, <2>2, <2>3, <2>4
  <2>5. CASE ~UNCHANGED application
    <3>1. PICK from \in ApplicationStatus, to \in ApplicationStatus :
            /\ application[arg[c].app] = from
            /\ ValidTransition(from, to)
            /\ SaveStatus(c, arg[c].app, from, to)
      BY <2>1, <2>5 DEF WritesStatus
    <3> QED
      BY <1>3, <1>4, <2>1, <2>2, <2>3, <3>1, StatusIsPresent
  <2> QED
    BY <2>4, <2>5
<1>5. ASSUME NEW c \in PrepareCall \cup ReviewCall \cup ReadCall
      PROVE  c \in Call /\ c \notin UpdateCall \cup CreateCall
  BY CallsAreDistinct
<1>6. ASSUME NEW c \in PrepareCall, MemPrepareStart(c) \/ MemPrepareRecord(c)
      PROVE  StatusMoves /\ \A d \in CreateCall : CreatorKnows(d)'
  <2>1. pc'[c] \notin CreatePC /\ c \in DOMAIN pc
    <3>1. EndsQuietly(c) \/ InsertsPreparation(c) \/ SavesPreparation(c)
      BY <1>1, <1>6, MemPrepareStartWrites, MemPrepareRecordWrites
    <3>2. \E next \in Ended \cup {"prepare:post", "read:get"} : Goto(c, next)
      BY <3>1 DEF EndsQuietly, InsertsPreparation, SavesPreparation, Ended
    <3> QED
      BY <1>1, <3>2 DEF Goto, TypeInv, TypeOK, CallTypeOK, CreatePC, Ended
  <2>2. \A next \in CreatePC : ~Goto(c, next)
    BY <2>1 DEF Goto
  <2> QED
    BY <1>1, <1>4, <1>5, <1>6, <2>2, TransactionsTransact
<1>7. ASSUME NEW c \in ReviewCall, MemReviewStart(c) \/ MemReviewRecord(c)
      PROVE  StatusMoves /\ \A d \in CreateCall : CreatorKnows(d)'
  <2>1. pc'[c] \notin CreatePC /\ c \in DOMAIN pc
    <3>1. EndsQuietly(c) \/ InsertsSubmission(c) \/ SavesSubmission(c)
      BY <1>1, <1>7, MemReviewStartWrites, MemReviewRecordWrites
    <3>2. \E next \in Ended \cup {"review:post", "read:get"} : Goto(c, next)
      BY <3>1 DEF EndsQuietly, InsertsSubmission, SavesSubmission, Ended
    <3> QED
      BY <1>1, <3>2 DEF Goto, TypeInv, TypeOK, CallTypeOK, CreatePC, Ended
  <2>2. \A next \in CreatePC : ~Goto(c, next)
    BY <2>1 DEF Goto
  <2> QED
    BY <1>1, <1>4, <1>5, <1>7, <2>2, TransactionsTransact
<1>8. ASSUME NEW c \in UpdateCall \cup CreateCall, EndsQuietly(c),
             Refused(c) \/ ClaimsInVain(c) \/ ClaimsAndActs(c)
      PROVE  StatusMoves /\ \A d \in CreateCall : CreatorKnows(d)'
  <2>1. pc[c] # "idle" /\ UNCHANGED arg /\ c \in Call /\ arg[c].app \in App
    BY <1>1, <1>8, Begun DEF EndsQuietly
  <2>2. Ended \cap CreatePC = {}
    BY DEF Ended, CreatePC
  <2>3. CASE Refused(c) \/ ClaimsInVain(c)
    <3>1. UNCHANGED application /\ \E next \in Ended : Goto(c, next)
      BY <2>3 DEF Refused, ClaimsInVain, Ended
    <3> QED
      BY <1>2, <2>1, <2>2, <3>1
  <2>4. CASE ClaimsAndActs(c)
    <3>1. PICK from \in ApplicationStatus \cup {Absent}, to \in ApplicationStatus :
            /\ application[arg[c].app] = from
            /\ IF c \in CreateCall THEN from = Absent /\ to = "saved" ELSE ValidTransition(from, to)
            /\ SaveStatus(c, arg[c].app, from, to)
      BY <2>4 DEF ClaimsAndActs
    <3>2. ~ValidTransition(Absent, to)
      BY StatusIsPresent DEF ValidTransition, AllowedTransitions, ApplicationStatus, Absent
    <3>3. Goto(c, "returned") /\ "returned" \notin CreatePC
      BY <2>4 DEF ClaimsAndActs, CreatePC
    <3> QED
      BY <1>3, <2>1, <3>1, <3>2, <3>3
  <2> QED
    BY <1>8, <2>3, <2>4
<1>9. ASSUME NEW c \in UpdateCall, MemUpdate(c)
      PROVE  StatusMoves /\ \A d \in CreateCall : CreatorKnows(d)'
  BY <1>1, <1>8, <1>9, MemUpdateWrites
<1>10. ASSUME NEW c \in CreateCall, MemCreate(c)
       PROVE  StatusMoves /\ \A d \in CreateCall : CreatorKnows(d)'
  BY <1>1, <1>8, <1>10, MemCreateWrites
<1>11. ASSUME NEW c \in ReadCall, MemRead(c)
       PROVE  StatusMoves /\ \A d \in CreateCall : CreatorKnows(d)'
  <2>1. PICK next \in Ended \cup {"read:get"} : Goto(c, next)
    BY <1>1, <1>11, MemReadWrites DEF EndsQuietly
  <2>2. next \notin CreatePC
    BY DEF Ended, CreatePC
  <2> QED
    BY <1>1, <1>2, <1>11, <2>1, <2>2, MemReadWrites DEF EndsQuietly
<1>12. ASSUME NEW c \in Call, MemArrive(c)
       PROVE  StatusMoves /\ \A d \in CreateCall : CreatorKnows(d)'
  <2>1. pc[c] = "idle" /\ UNCHANGED application
    BY <1>1, <1>12, MemArriveWrites DEF tables
  <2>2. PICK given \in Arguments :
          /\ arg' = [arg EXCEPT ![c] = given]
          /\ c \in CreateCall => Fresh(given.app)
    BY <1>1, <1>12, MemArriveWrites
  <2>3. arg'[c] = given /\ \A d \in Call \ {c} : arg'[d] = arg[d] /\ pc'[d] = pc[d]
    BY <1>1, <1>12, <2>2, MemArriveWrites DEF Goto, TypeInv, TypeOK, CallTypeOK
  <2>4. ASSUME NEW d \in CreateCall PROVE CreatorKnows(d)'
    <3>1. CASE d = c
      BY <2>1, <2>2, <2>3, <3>1 DEF CreatorKnows, Fresh
    <3>2. CASE d # c
      <4>1. CASE c \in CreateCall
        BY <1>1, <2>1, <2>2, <2>3, <3>2, <4>1 DEF CreatorKnows, Fresh
      <4>2. CASE c \notin CreateCall
        BY <1>1, <2>1, <2>3, <3>2, <4>2 DEF CreatorKnows
      <4> QED
        BY <4>1, <4>2
    <3> QED
      BY <3>1, <3>2
  <2> QED
    BY <2>1, <2>4 DEF StatusMoves
<1>13. CASE EngineStep \/ UNCHANGED vars
  BY <1>1, <1>13 DEF EngineStep, vars, tables, StatusMoves, CreatorKnows
<1>14. ASSUME NEW c \in Call,
              PreparePost(c) \/ PrepareAnswer(c) \/ ReviewPost(c) \/ ReviewAnswer(c)
                \/ ReadGet(c) \/ ReadFails(c) \/ MemCancel(c)
       PROVE  StatusMoves /\ \A d \in CreateCall : CreatorKnows(d)'
  <2>1. UNCHANGED application /\ UNCHANGED arg /\ pc[c] # "idle"
    BY <1>14 DEF PreparePost, PrepareAnswer, ReviewPost, ReviewAnswer, ReadGet, ReadFails,
       MemCancel, tables
  <2>2. PICK next \in {"prepare:await", "prepare:read_application", "prepare:require_starting",
                       "review:await", "review:lock_again", "review:require_submitting",
                       "returned", "agent_error", "crashed"} : Goto(c, next)
    BY <1>14 DEF PreparePost, PrepareAnswer, ReviewPost, ReviewAnswer, ReadGet, ReadFails, MemCancel
  <2>3. next \notin CreatePC
    BY DEF CreatePC
  <2> QED
    BY <1>2, <2>1, <2>2, <2>3
<1>15. CASE SharedStep
  BY <1>13, <1>14, <1>15 DEF SharedStep, Call
<1> QED
  BY <1>6, <1>7, <1>9, <1>10, <1>11, <1>12, <1>14, <1>15, MemSteps

-----------------------------------------------------------------------------
(* The operations of the engine.                                           *)

\* A call that ends quietly has done nothing that an operation consists of.
LEMMA QuietIsSilent == \A c \in Call : EndsQuietly(c) => Silent
BY DEF EndsQuietly, Silent

\* A call that begins has not done anything yet, either.
LEMMA ArrivalIsSilent ==
  ASSUME TypeInv, NEW c \in Call, MemArrive(c)
  PROVE  Silent
<1>1. /\ pc[c] = "idle" /\ UNCHANGED <<tables, engine>>
      /\ \E given \in Arguments : arg' = [arg EXCEPT ![c] = given]
  BY MemArriveWrites
<1>2. \A d \in Call : pc[d] # "idle" => arg'[d] = arg[d]
  BY <1>1 DEF TypeInv, TypeOK, CallTypeOK
<1> QED
  BY <1>1, <1>2 DEF Silent, tables, engine

\* Every step over the dictionaries is one that an operation takes.
LEMMA MemOperates ==
  ASSUME EngineInv, MemInv, [MemNext]_vars
  PROVE  Operates
<1>1. TypeInv /\ NothingOpen /\ \A c \in CreateCall : CreatorKnows(c)
  BY DEF EngineInv, CallsInv, MemInv
<1>2. \A c \in PrepareCall \cup ReviewCall \cup UpdateCall \cup CreateCall \cup ReadCall : c \in Call
  BY DEF Call
<1>3. CASE SharedStep
  BY <1>3, SharedSteps, NextOperates
<1>4. ASSUME NEW c \in Call, MemCancel(c) PROVE Operates
  BY <1>1, <1>4, MemCancelIsCrash, NextOperates DEF Next
<1>5. ASSUME NEW c \in Call, MemArrive(c) PROVE Operates
  BY <1>1, <1>5, ArrivalIsSilent DEF Operates
<1>6. ASSUME NEW c \in PrepareCall, MemPrepareStart(c) \/ MemPrepareRecord(c) PROVE Operates
  <2>1. EndsQuietly(c) \/ InsertsPreparation(c) \/ SavesPreparation(c)
    BY <1>1, <1>6, MemPrepareStartWrites, MemPrepareRecordWrites
  <2> QED
    BY <1>2, <2>1, QuietIsSilent DEF Operates
<1>7. ASSUME NEW c \in ReviewCall, MemReviewStart(c) \/ MemReviewRecord(c) PROVE Operates
  <2>1. EndsQuietly(c) \/ InsertsSubmission(c) \/ SavesSubmission(c)
    BY <1>1, <1>7, MemReviewStartWrites, MemReviewRecordWrites
  <2> QED
    BY <1>2, <2>1, QuietIsSilent DEF Operates
<1>8. ASSUME NEW c \in UpdateCall, MemUpdate(c) PROVE Operates
  BY <1>1, <1>2, <1>8, MemUpdateWrites, QuietIsSilent DEF Operates
<1>9. ASSUME NEW c \in CreateCall, MemCreate(c) PROVE Operates
  BY <1>1, <1>2, <1>9, MemCreateWrites, QuietIsSilent DEF Operates
<1>10. ASSUME NEW c \in ReadCall, MemRead(c) PROVE Operates
  BY <1>1, <1>2, <1>10, MemReadWrites, QuietIsSilent DEF Operates
<1> QED
  BY <1>3, <1>4, <1>5, <1>6, <1>7, <1>8, <1>9, <1>10, MemSteps

\* And so is every step over either store.
LEMMA StoresOperate ==
  ASSUME StoresInv, [StoresNext]_allVars
  PROVE  Operates
<1>1. CASE UNCHANGED vars \/ (store = "postgresql" /\ Next)
  BY <1>1, NextOperates DEF StoresInv
<1>2. CASE store = "memory" /\ MemNext
  BY <1>2, MemOperates DEF StoresInv
<1> QED
  BY <1>1, <1>2 DEF StoresNext, allVars

-----------------------------------------------------------------------------
(* Both stores.                                                            *)

\* No call is running, and no key is used, to begin with.
LEMMA MemBegins == Init => MemInv
<1>. SUFFICES ASSUME Init PROVE MemInv
  OBVIOUS
<1>1. /\ \A c \in Call : pc[c] = "idle"
      /\ \A r \in Operation \X Key : idempotency[r] = None
      /\ \A row \in Lockable : lock[row] = None
  BY DEF Init, CallInit, StoreInit
<1>2. NothingOpen /\ \A c \in CreateCall : CreatorKnows(c)
  BY <1>1 DEF NothingOpen, MemPC, CreatorKnows, CreatePC
<1>3. \A c \in Call : ~Acted(c)
  BY <1>1, ClaimsBegin DEF ClaimInv
<1>4. \A op \in Operation, k \in Key : idempotency[<<op, k>>] = None
  BY <1>1
<1>5. "create" \in Operation
  BY DEF Operation
<1> QED
  BY <1>1, <1>2, <1>3, <1>4, <1>5 DEF MemInv, MemClaimsKnow, KeysActOnce, StoredAnswersAreTrue

\* The invariant holds to begin with, over either store.
LEMMA StoresBegin == StoresInit => StoresInv
BY InitEngine, WaitingBegins, RowsBegin, ClaimsBegin, MemBegins DEF StoresInit, StoresInv

\* A step over one store, and the other store stays unused.
LEMMA StoresNextKeeps == StoresInv /\ [StoresNext]_allVars => StoresInv'
<1>. SUFFICES ASSUME StoresInv, [StoresNext]_allVars PROVE StoresInv'
  OBVIOUS
<1>1. EngineInv /\ WaitingInv /\ RowsInv /\ TypeInv
  BY DEF StoresInv, EngineInv, CallsInv
<1>2. UNCHANGED store
  BY DEF StoresNext, allVars
<1>3. CASE UNCHANGED vars \/ (store = "postgresql" /\ Next)
  <2>1. [Next]_vars
    BY <1>3
  <2>2. EngineInv' /\ WaitingInv' /\ RowsInv' /\ (ClaimInv => ClaimInv')
    BY <1>1, <2>1, NextKeepsEngine, StoresOperate, WaitingKept, NextKeepsRows, NextKeepsClaims
  <2>3. UNCHANGED vars => (MemInv => MemInv')
    BY DEF vars, tables, engine, MemInv, NothingOpen, MemClaimsKnow, AnswerStored, ClaimRow, Acted,
       KeysActOnce, StoredAnswersAreTrue, CreatorKnows
  <2> QED
    BY <1>2, <1>3, <2>2, <2>3 DEF StoresInv
<1>4. CASE store = "memory" /\ MemNext
  <2>1. MemInv /\ [MemNext]_vars
    BY <1>4 DEF StoresInv
  <2>2. EngineInv' /\ WaitingInv' /\ RowsInv'
    BY <1>1, <2>1, MemKeepsEngine, StoresOperate, WaitingKept
  <2>3. MemInv'
    BY <1>1, <2>1, MemKeepsNothingOpen, MemKeepsClaims, MemMovesStatuses DEF MemInv
  <2> QED
    BY <1>2, <1>4, <2>2, <2>3 DEF StoresInv
<1> QED
  BY <1>3, <1>4 DEF StoresNext, allVars

\* Over either store the hub knows what its rows, its claims and the engine say
\* of each other (application/services over infrastructure/database and over
\* infrastructure/memory).
THEOREM StoresAreSound == StoresSpec => []StoresInv
BY StoresBegin, StoresNextKeeps, PTL DEF StoresSpec

\* What holds of the rows over PostgreSQL holds over the dictionaries, although
\* they have no locks and no constraints: reviews of an application do not
\* overlap and are about open analyses, a preparation claims no more than the
\* engine did, the rows of different transactions agree, and an application is
\* analysed once.
THEOREM RowsSoundOverStores ==
  StoresSpec => [](/\ NoOverlappingReviews /\ ReviewsTargetOpenThreads
                   /\ PreparationMatchesEngine /\ RowsAgree
                   /\ AtMostOneAnalysis)
<1>1. StoresInv => /\ NoOverlappingReviews /\ ReviewsTargetOpenThreads
                   /\ PreparationMatchesEngine /\ RowsAgree
                   /\ AtMostOneAnalysis
  BY ReviewsDoNotOverlap, OpenThreads, RecordsMatch, RowsCounted
     DEF StoresInv, EngineInv, CallsInv, AnalysisInv, Owns, AtMostOneAnalysis
<1> QED
  BY <1>1, StoresAreSound, PTL

\* A key sends at most one review and changes or creates at most one
\* application, over either store (SqlAlchemyIdempotencyRepository,
\* InMemoryIdempotencyRepository).
THEOREM KeysActOnceOverStores == StoresSpec => [](OneReviewPerKey /\ KeysActOnce)
<1>1. StoresInv => OneReviewPerKey
  BY DEF StoresInv, EngineInv, CallsInv, ReviewInv, Sends, OneReviewPerKey
<1>2. StoresInv => KeysActOnce
  <2>1. StoresInv /\ store = "postgresql" => KeysActOnce
    BY DEF StoresInv, ClaimInv
  <2>2. StoresInv /\ store = "memory" => KeysActOnce
    BY DEF StoresInv, MemInv, MemClaimsKnow
  <2> QED
    BY <2>1, <2>2 DEF StoresInv
<1> QED
  BY <1>1, <1>2, StoresAreSound, PTL

\* A retry is answered what really happened; over the dictionaries, which keep
\* the claim of a refused update, a key whose update was refused is never
\* answered (resolve_idempotency_claim).
THEOREM AnswersAreTrueOverStores == StoresSpec => []ClaimsAreTrue
<1>1. StoresInv => ClaimsAreTrue
  <2>1. StoresInv /\ store = "postgresql" => ClaimsAreWitnessed
    BY DEF StoresInv, ClaimInv
  <2>2. StoresInv /\ store # "postgresql" => StoredAnswersAreTrue
    BY DEF StoresInv, MemInv, MemClaimsKnow
  <2> QED
    BY <2>1, <2>2 DEF ClaimsAreTrue
<1> QED
  BY <1>1, StoresAreSound, PTL

\* Over the dictionaries a status changes along the transitions of the domain
\* model alone, with preparations, reviews and clients all setting it: a read
\* and the write that follows from it are one step
\* (infrastructure/memory/repositories.py).
THEOREM MemoryKeepsTransitions == StoresSpec => MemoryTransitionsAreLegal
<1>. DEFINE Legal ==
       store = "memory" =>
         \A a \in App : application'[a] # application[a] =>
           \/ application[a] = Absent /\ application'[a] = "saved"
           \/ ValidTransition(application[a], application'[a])
<1>1. StoresInv /\ [StoresNext]_allVars => [Legal]_allVars
  <2>. SUFFICES ASSUME StoresInv, StoresNext, store = "memory" PROVE StatusMoves
    BY DEF StatusMoves
  <2>1. [MemNext]_vars
    BY DEF StoresNext
  <2> QED
    BY <2>1, MemMovesStatuses DEF StoresInv
<1> QED
  BY <1>1, StoresBegin, StoresNextKeeps, PTL DEF StoresSpec, MemoryTransitionsAreLegal

\* Over either store a review whose outcome is unknown stays so, and keeps the
\* reviews of its application from being sent
\* (get_unresolved_for_preparation of both repositories).
THEOREM DoubtIsFinalOverStores == StoresSpec => DoubtBlocksReviews
<1>1. StoresInv /\ [StoresNext]_allVars =>
        [\A k \in Key : HasStatus(k, "outcome_unknown") =>
           /\ submission'[k] = submission[k]
           /\ \A c \in ReviewCall :
                arg[c].app = submission[k].app /\ ~Posted(c) => post'[c] = "unsent"]_vars
  BY StoresOperate, DoubtStands DEF StoresInv
<1> QED
  BY <1>1, StoresAreSound, PTL DEF StoresSpec, DoubtBlocksReviews

\* The analyses implement the operation that is done at most once, over the
\* dictionaries as over PostgreSQL.
THEOREM AnalysesImplementedOverStores == StoresSpec => AnalysesAreRemoteOperations
<1>1. StoresInv /\ [StoresNext]_allVars => [Analyses!Next]_(Analyses!vars)
  BY StoresOperate, AnalysesOperate DEF StoresInv
<1>2. StoresInit => Analyses!Init
  BY AnalysesBegin DEF StoresInit
<1> QED
  BY <1>1, <1>2, StoresAreSound, PTL DEF StoresSpec, AnalysesAreRemoteOperations, Analyses!Spec

\* So do the reviews, whose scope is the application.
THEOREM ReviewsImplementedOverStores == StoresSpec => ReviewsAreRemoteOperations
<1>1. StoresInv /\ [StoresNext]_allVars => [Reviews!Next]_(Reviews!vars)
  BY StoresOperate, ReviewsOperate DEF StoresInv
<1>2. StoresInit => Reviews!Init
  BY ReviewsOpen DEF StoresInit
<1> QED
  BY <1>1, <1>2, StoresAreSound, PTL DEF StoresSpec, ReviewsAreRemoteOperations, Reviews!Spec

=============================================================================
