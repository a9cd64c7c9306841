---------------------------- MODULE AgentEngine -----------------------------
(***************************************************************************)
(* The HTTP exchange of a call with the Agent Engine (Module 1), and what  *)
(* the engine may do with the request.                                     *)
(*                                                                         *)
(* The engine is not part of the repository.  It is modelled from what     *)
(* infrastructure/agent_engine/http_client.py sends it and distinguishes   *)
(* in its answers, and is given no idempotency of its own: it executes     *)
(* every request it receives, at any time after the request was sent, even *)
(* when the client has stopped waiting or has crashed, or it never does.   *)
(* An analysis creates a thread, named here by the call that asked for it. *)
(*                                                                         *)
(*   post[c]    the exchange of call c (the client never resends)          *)
(*   target[c]  the thread the request is about                            *)
(*   thread[t]  the status of thread t inside the engine                   *)
(*   applied    the review calls whose decision the engine has executed    *)
(***************************************************************************)
EXTENDS HubCalls

VARIABLES post, target, thread, applied

engine == <<post, target, thread, applied>>

Thread == PrepareCall

ThreadStatus == {"awaiting_review", "completed"}

\* A missing thread is told from every thread.
ASSUME NoneIsNoStatus == None \notin ThreadStatus

\* Answers the client tells apart: 200 with the thread's status; 401, 403, 404,
\* 422 and other 4xx; 409; 5xx; 200 with a body that breaks the contract or
\* names another job or thread.
Reply == ThreadStatus \cup {"rejected", "conflict", "server_error", "malformed"}

EngineTypeOK ==
  /\ post \in [Call -> {"unsent", "in_flight"} \cup Reply]
  /\ target \in [Call -> Thread \cup {None}]
  /\ thread \in [Thread -> ThreadStatus \cup {None}]
  /\ applied \subseteq ReviewCall

EngineInit ==
  /\ post = [c \in Call |-> "unsent"]
  /\ target = [c \in Call |-> None]
  /\ thread = [t \in Thread |-> None]
  /\ applied = {}

-----------------------------------------------------------------------------
(* The engine's side.                                                      *)

\* The request of call c leaves thread t in status s, and the answer is the
\* new status, or is spoilt on the way: a 5xx, an unreadable body.
Execute(c, t) ==
  \E s \in ThreadStatus :
    /\ thread' = [thread EXCEPT ![t] = s]
    /\ \E reply \in {s, "server_error", "malformed"} :
         post' = [post EXCEPT ![c] = reply]

\* The engine refuses the request, or fails, without executing it.
Refuse(c) ==
  /\ \E reply \in {"rejected", "conflict", "server_error"} :
       post' = [post EXCEPT ![c] = reply]
  /\ UNCHANGED <<thread, applied>>

EngineAnalyse(c) ==
  /\ post[c] = "in_flight"
  /\ \/ Execute(c, c) /\ UNCHANGED applied
     \/ Refuse(c)
  /\ UNCHANGED target

EngineReview(c) ==
  /\ post[c] = "in_flight"
  /\ \/ Execute(c, target[c]) /\ applied' = applied \cup {c}
     \/ Refuse(c)
  /\ UNCHANGED target

-----------------------------------------------------------------------------
(* The client's side.                                                      *)

Send(c, t) ==
  /\ post' = [post EXCEPT ![c] = "in_flight"]
  /\ target' = [target EXCEPT ![c] = t]
  /\ UNCHANGED <<thread, applied>>

\* Mutants: the answer is stored as it came; a 5xx, a broken body counts as a
\* refusal; a conflict means that the work is done.
ClassifyNothing(reply) == reply
ClassifyServerErrorAsFailure(reply) ==
  IF reply \in ThreadStatus THEN reply
  ELSE IF reply \in {"rejected", "server_error"} THEN "failed" ELSE "outcome_unknown"
ClassifyMalformedAsFailure(reply) ==
  IF reply \in ThreadStatus THEN reply
  ELSE IF reply \in {"rejected", "malformed"} THEN "failed" ELSE "outcome_unknown"

ClassifyConflictAsCompleted(reply) ==
  IF reply = "conflict" THEN "completed"
  ELSE IF reply \in ThreadStatus THEN reply
  ELSE IF reply = "rejected" THEN "failed" ELSE "outcome_unknown"

\* The services' except clauses over the exceptions the client raises: a
\* definitive refusal is a failure, everything else that is not the expected
\* answer leaves the outcome unknown.
Classify(reply) ==
  CASE reply \in ThreadStatus -> reply
    [] reply = "rejected"     -> "failed"
    [] OTHER                  -> "outcome_unknown"

\* The client reads the answer.
Receive(c) ==
  /\ post[c] \in Reply
  /\ verdict' = [verdict EXCEPT ![c] = Classify(post[c])]

\* Mutant: a client without a read timeout.
TimeOutNever(c) == FALSE

\* The connection fails or the read times out, whatever the engine did.
TimeOut(c) == verdict' = [verdict EXCEPT ![c] = "outcome_unknown"]

=============================================================================
