----------------------------- MODULE MemoryHub ------------------------------
(***************************************************************************)
(* The services over the in-memory adapter (infrastructure/memory), the    *)
(* store of development and of the unit tests.  Its methods never suspend, *)
(* so a transaction is one step, and the only suspension left is the       *)
(* exchange with the engine.  It has no locks and no constraints, and its  *)
(* rollback discards nothing: what a service wrote before it raised stays. *)
(*                                                                         *)
(* The state is that of CareerOpsHub, with every lock free.                *)
(***************************************************************************)
EXTENDS HubRefinement

\* A client calls a service.
MemArrive(c) ==
  /\ pc[c] = "idle"
  /\ \/ /\ c \in PrepareCall
        /\ \E a \in App : arg' = [arg EXCEPT ![c].app = a]
        /\ Goto(c, "prepare:find")
     \/ /\ c \in ReviewCall
        /\ \E a \in App, k \in Key, d \in Decision :
             arg' = [arg EXCEPT ![c] = [app |-> a, key |-> k, want |-> d]]
        /\ Goto(c, "review:find_key")
     \/ /\ c \in UpdateCall
        /\ \E a \in App, k \in Key, s \in Target :
             arg' = [arg EXCEPT ![c] = [app |-> a, key |-> k, want |-> s]]
        /\ Goto(c, "update:claim")
     \/ /\ c \in CreateCall
        /\ \E a \in App, k \in Key, w \in Content :
             Fresh(a) /\ arg' = [arg EXCEPT ![c] = [app |-> a, key |-> k, want |-> w]]
        /\ Goto(c, "create:claim")
     \/ /\ c \in ReadCall
        /\ \E a \in App : arg' = [arg EXCEPT ![c].app = a]
        /\ Goto(c, "read:find")
  /\ UNCHANGED <<tables, lock, seen, verdict, engine>>

\* The transaction raises, or finds its answer, before it writes anything.
Leave(c, end) ==
  /\ Goto(c, end)
  /\ UNCHANGED tables

MemPrepareStart(c) ==
  LET a == arg[c].app IN
  /\ pc[c] = "prepare:find"
  /\ IF application[a] = Absent THEN Leave(c, "not_found")
     ELSE IF Prepared(a) THEN Leave(c, "replayed")
     ELSE IF application[a] \notin {"saved", "preparing"} THEN Leave(c, "invalid_transition")
     ELSE /\ preparation' = [preparation EXCEPT ![a] = [status |-> "starting", thread |-> None]]
          /\ IF application[a] = "saved"
               THEN SaveStatus(c, a, "saved", "preparing")
               ELSE UNCHANGED <<application, events>>
          /\ Goto(c, "prepare:post")
          /\ UNCHANGED <<submission, reviewActions, idempotency>>
  /\ UNCHANGED <<lock, arg, seen, verdict, engine>>

\* Mutant: whatever its status.
MemSaveReadyAlways(c, a) ==
  IF verdict[c] = "completed"
  THEN SaveStatus(c, a, application[a], "ready_to_apply")
  ELSE UNCHANGED <<application, events>>

\* The finished analysis moves on an application that is still preparing.
MemSaveReady(c, a) ==
  IF verdict[c] = "completed" /\ application[a] = "preparing"
  THEN SaveStatus(c, a, "preparing", "ready_to_apply")
  ELSE UNCHANGED <<application, events>>

MemPrepareRecord(c) ==
  LET a == arg[c].app IN
  /\ pc[c] \in {"prepare:read_application", "prepare:require_starting"}
  /\ IF preparation[a].status # "starting" THEN Leave(c, "inconsistent")
     ELSE /\ preparation' = [preparation EXCEPT ![a] =
               [status |-> verdict[c],
                thread |-> IF verdict[c] \in ThreadStatus THEN c ELSE None]]
          /\ reviewActions' = IF verdict[c] = "awaiting_review" /\ PendingActions(a) = {}
               THEN [reviewActions EXCEPT ![a] = Append(@, "pending")]
               ELSE reviewActions
          /\ MemSaveReady(c, a)
          /\ Goto(c, IF verdict[c] \in ThreadStatus THEN "returned" ELSE "agent_error")
          /\ UNCHANGED <<submission, idempotency>>
  /\ UNCHANGED <<lock, arg, seen, verdict, engine>>

MemReviewStart(c) ==
  LET a    == arg[c].app
      prep == preparation[a]
      end  == IF application[a] = Absent THEN "not_found"
              ELSE Lookup(c,
                IF prep.status # "awaiting_review" \/ prep.thread = None THEN "blocked"
                ELSE IF application[a] # "preparing" THEN "invalid_transition"
                ELSE IF Unresolved(a) # {} THEN "blocked"
                ELSE "review:post") IN
  /\ pc[c] = "review:find_key"
  /\ IF end # "review:post" THEN Leave(c, end)
     ELSE /\ submission' = [submission EXCEPT ![arg[c].key] =
               [app |-> a, want |-> arg[c].want, thread |-> prep.thread,
                status |-> "submitting", outcome |-> None]]
          /\ Goto(c, end)
          /\ UNCHANGED <<application, events, preparation, reviewActions, idempotency>>
  /\ UNCHANGED <<lock, arg, seen, verdict, engine>>

MemReviewRecord(c) ==
  LET a        == arg[c].app
      row      == submission[arg[c].key]
      answered == verdict[c] \in ThreadStatus
      finished == verdict[c] = "completed" IN
  /\ pc[c] \in {"review:lock_again", "review:require_submitting"}
  /\ IF row.status # "submitting"
          \/ (finished /\ preparation[a].status # "awaiting_review")
     THEN Leave(c, "inconsistent")
     ELSE /\ submission' = [submission EXCEPT
               ![arg[c].key].status = IF answered THEN "completed" ELSE verdict[c],
               ![arg[c].key].outcome = IF answered THEN verdict[c] ELSE None]
          /\ IF finished
               THEN /\ preparation' = [preparation EXCEPT ![a].status = "completed"]
                    /\ CompleteReviewAction(a)
               ELSE UNCHANGED <<preparation, reviewActions>>
          /\ MemSaveReady(c, a)
          /\ Goto(c, IF answered THEN "returned" ELSE "agent_error")
          /\ UNCHANGED idempotency
  /\ UNCHANGED <<lock, arg, seen, verdict, engine>>

-----------------------------------------------------------------------------
(* The idempotent writes.  The claim is stored before the transition is    *)
(* judged, and a refused transition leaves it stored, without a response.  *)

\* Mutant: the dictionary of claims is not looked at.
MemUpdateUnclaimed(c) ==
  LET a == arg[c].app IN
  /\ pc[c] = "update:claim"
  /\ ValidTransition(application[a], arg[c].want)
  /\ SaveStatus(c, a, application[a], arg[c].want)
  /\ CompleteClaim(c, "update", a)
  /\ Goto(c, "returned")
  /\ UNCHANGED <<preparation, submission, reviewActions, lock, arg, seen, verdict, engine>>

MemUpdate(c) ==
  LET a == arg[c].app IN
  /\ pc[c] = "update:claim"
  /\ IF application[a] = Absent THEN Leave(c, "not_found")
     ELSE IF idempotency[<<"update", arg[c].key>>] # None THEN Leave(c, Resolve(c, "update"))
     ELSE IF ValidTransition(application[a], arg[c].want)
     THEN /\ SaveStatus(c, a, application[a], arg[c].want)
          /\ CompleteClaim(c, "update", a)
          /\ Goto(c, "returned")
          /\ UNCHANGED <<preparation, submission, reviewActions>>
     ELSE /\ CompleteClaimWithoutResponse(c, "update", a)
          /\ Goto(c, "invalid_transition")
          /\ UNCHANGED <<application, events, preparation, submission, reviewActions>>
  /\ UNCHANGED <<lock, arg, seen, verdict, engine>>

MemCreate(c) ==
  LET a == arg[c].app IN
  /\ pc[c] = "create:claim"
  /\ IF idempotency[<<"create", arg[c].key>>] # None THEN Leave(c, Resolve(c, "create"))
     ELSE /\ application' = [application EXCEPT ![a] = "saved"]
          /\ events' = [events EXCEPT ![a] = Append(@, Created(c))]
          /\ CompleteClaim(c, "create", None)
          /\ Goto(c, "returned")
          /\ UNCHANGED <<preparation, submission, reviewActions>>
  /\ UNCHANGED <<lock, arg, seen, verdict, engine>>

MemRead(c) ==
  LET a == arg[c].app
      t == preparation[a].thread IN
  /\ pc[c] = "read:find"
  /\ target' = [target EXCEPT ![c] = t]
  /\ Leave(c, IF application[a] = Absent THEN "not_found"
              ELSE IF t = None THEN "unavailable" ELSE "read:get")
  /\ UNCHANGED <<lock, arg, seen, verdict, post, thread, applied>>

-----------------------------------------------------------------------------
\* A coroutine can be cancelled where it waits: for a connection to the engine,
\* for its answer.
MemCancel(c) ==
  /\ pc[c] \in {"prepare:post", "prepare:await", "review:post", "review:await", "read:get"}
  /\ Goto(c, "crashed")
  /\ UNCHANGED <<tables, lock, arg, seen, verdict, engine>>

MemNext ==
  \/ \E c \in Call : MemArrive(c) \/ MemCancel(c)
  \/ \E c \in PrepareCall :
       MemPrepareStart(c) \/ PreparePost(c) \/ PrepareAnswer(c) \/ MemPrepareRecord(c)
  \/ \E c \in ReviewCall :
       MemReviewStart(c) \/ ReviewPost(c) \/ ReviewAnswer(c) \/ MemReviewRecord(c)
  \/ \E c \in UpdateCall : MemUpdate(c)
  \/ \E c \in CreateCall : MemCreate(c)
  \/ \E c \in ReadCall : MemRead(c) \/ ReadGet(c) \/ ReadFails(c)
  \/ EngineStep

MemSpec == Init /\ [][MemNext]_vars

-----------------------------------------------------------------------------
\* What a retry is answered really happened; a key whose request was refused
\* is never answered (resolve_idempotency_claim over the in-memory claims).
StoredAnswersAreTrue ==
  \A op \in Operation, k \in Key :
    LET row == idempotency[<<op, k>>] IN
    row # None =>
      IF row.response = None
      THEN \A c \in UpdateCall : arg[c].key = k => pc[c] \notin {"returned", "replayed"}
      ELSE \E c \in Call : /\ arg[c].app = row.response /\ arg[c].want = row.want
                           /\ \E i \in DOMAIN events[row.response] :
                                events[row.response][i].by = c

=============================================================================
