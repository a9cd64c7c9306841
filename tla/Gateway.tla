------------------------------- MODULE Gateway ------------------------------
(***************************************************************************)
(* The way of a request through Module 2 to Module 1 and back, for the     *)
(* operations the hub passes on: the evidence workflow, the evidence       *)
(* registry, job analyses and final CVs, as REST routes and MCP tools, and *)
(* the two requests the tracked services send ("hub").                     *)
(*                                                                         *)
(*   step[c]     where call c is in its handler                            *)
(*   request[c]  what it asks, through which surface, with which token     *)
(*   user[c]     the user its principal names                              *)
(*   wire[c]     its exchange with Module 1                                *)
(*   reply[c]    the answer on its way back, and the resources it shows    *)
(*   told[c]     what the caller is told                                   *)
(*                                                                         *)
(* Module 1 is not part of the repository: its side is what the gateway's  *)
(* contract and clients expect of it.  It keeps the resources, for whom    *)
(* it holds each, and the calls it carried out.                            *)
(***************************************************************************)
EXTENDS AccessControl, EngineAnswers, FiniteSets

CONSTANTS
  None, Call, Resource,
  Token,           \* the tokens callers present
  Op,              \* the operations callers ask for
  Surfaces,        \* among "rest", "mcp" and "hub"
  AnswerCode       \* the status codes Module 1 answers with

ASSUME GatewayAssumption ==
  /\ Token \subseteq Claims
  /\ AnswerCode \subseteq Code
  /\ Surfaces \subseteq {"rest", "mcp", "hub"}

\* Nobody is a user, nothing is a resource, nor is it of a sort.
ASSUME NoneIsNothing ==
  None \notin Name \cup Resource
               \cup {"document", "review", "evidence", "analysis", "cv_version"}

VARIABLES step, request, user, wire, reply, told
VARIABLES sort, holder, origin, archived, decided, done, known

client == <<step, request, user, told, known>>
engine == <<sort, holder, origin, archived, decided, done>>
vars == <<step, request, user, wire, reply, told, known, engine>>

-----------------------------------------------------------------------------
(* The operations.                                                         *)

Lists    == {"list_documents", "list_reviews", "query_registry"}
Gets     == {"get_review", "get_evidence", "recover_analysis", "get_final_cv",
             "download_artifact"}
Creates  == {"upload_document", "create_text_source", "start_analysis"}
Decides  == {"submit_review", "review_analysis"}
Lifecycle == {"edit_evidence", "archive_evidence", "restore_evidence"}
Operation == Lists \cup Gets \cup Creates \cup Decides \cup Lifecycle
               \cup {"start_review", "generate_final_cv"}

RestOnly == {"upload_document", "download_artifact"}
HubOps   == {"start_analysis", "review_analysis"}

\* What kind of resource the operation's path or body names.
Names(op) ==
  CASE op = "start_review"                              -> "document"
    [] op \in {"get_review", "submit_review"}           -> "review"
    [] op \in {"get_evidence"} \cup Lifecycle           -> "evidence"
    [] op \in {"recover_analysis", "review_analysis",
               "generate_final_cv"}                     -> "analysis"
    [] op \in {"get_final_cv", "download_artifact"}     -> "cv_version"
    [] OTHER                                            -> None

\* Mutant: no list of the registry.
ShownByListOfSources(op, u, onlyArchived) ==
  {r \in Resource :
     /\ holder[r] = u
     /\ \/ op = "list_documents" /\ sort[r] = "document"
        \/ op = "list_reviews" /\ sort[r] = "review"}

\* What a list shows the user; q, category and paging are left out, the
\* lifecycle filter is not.
ShownByList(op, u, onlyArchived) ==
  {r \in Resource :
     /\ holder[r] = u
     /\ \/ op = "list_documents" /\ sort[r] = "document"
        \/ op = "list_reviews" /\ sort[r] = "review"
        \/ /\ op = "query_registry"
           /\ sort[r] = "evidence"
           /\ r \in archived <=> onlyArchived}

\* What may be asked: on is the resource the request names, None an identifier
\* that is nobody's; fits says that the arguments keep to the declared bounds.
Requests ==
  {q \in [surface : Surfaces, op : Op, token : Token, header : {"bearer", "none"},
          on : Resource \cup {None}, fits : BOOLEAN, archived : BOOLEAN] :
     /\ q.op \in RestOnly => q.surface = "rest"
     /\ q.surface = "hub" => q.op \in HubOps /\ q.fits
     /\ q.archived => q.op = "query_registry"
     /\ q.on # None => Names(q.op) # None}

NoReply == [answer |-> [got |-> "timeout", code |-> 503, body |-> "valid"], shows |-> {}]

-----------------------------------------------------------------------------
(* The gateway.                                                            *)

Init ==
  /\ step = [c \in Call |-> "idle"]
  /\ request = [c \in Call |-> None]
  /\ user = [c \in Call |-> None]
  /\ wire = [c \in Call |-> "none"]
  /\ reply = [c \in Call |-> NoReply]
  /\ told = [c \in Call |-> None]
  /\ known = [u \in Name |-> {}]
  /\ sort = [r \in Resource |-> None]
  /\ holder = [r \in Resource |-> None]
  /\ origin = [r \in Resource |-> None]
  /\ archived = {} /\ decided = {} /\ done = {}

\* Identifiers come from earlier answers.
Arrive(c) ==
  /\ step[c] = "idle"
  /\ \E q \in Requests :
       /\ q.on \in {None} \cup UNION {known[u] : u \in Name}
       /\ request' = [request EXCEPT ![c] = q]
  /\ step' = [step EXCEPT ![c] = "authenticating"]
  /\ UNCHANGED <<user, wire, reply, told, known, engine>>

\* Nothing of the call is under way any more, and its name can be used again.
Forget(c) ==
  /\ step[c] = "done" /\ wire[c] # "in_flight"
  /\ step' = [step EXCEPT ![c] = "idle"]
  /\ request' = [request EXCEPT ![c] = None]
  /\ user' = [user EXCEPT ![c] = None]
  /\ wire' = [wire EXCEPT ![c] = "none"]
  /\ reply' = [reply EXCEPT ![c] = NoReply]
  /\ told' = [told EXCEPT ![c] = None]
  /\ done' = done \ {c}
  /\ UNCHANGED <<known, sort, holder, origin, archived, decided>>

Tell(c, what) ==
  /\ told' = [told EXCEPT ![c] = what]
  /\ step' = [step EXCEPT ![c] = "done"]

PrincipalOf(q) ==
  IF q.surface = "rest" THEN RestPrincipal(q.header, VerifyToken(q.token))
  ELSE McpPrincipal(q.header, VerifyToken(q.token))

Authenticate(c) ==
  LET p == PrincipalOf(request[c]) IN
  /\ step[c] = "authenticating"
  /\ IF p.answer = "served"
     THEN /\ user' = [user EXCEPT ![c] = p.user]
          /\ step' = [step EXCEPT ![c] = "checking"]
          /\ UNCHANGED told
     ELSE Tell(c, p.answer) /\ UNCHANGED user
  /\ UNCHANGED <<request, wire, reply, known, engine>>

\* The tools that take a contract model; other tools declare no bounds.
ModelOps == Decides \cup {"edit_evidence", "start_analysis", "generate_final_cv"}

Check(c) ==
  LET q == request[c] IN
  /\ step[c] = "checking"
  /\ IF q.fits \/ (q.surface = "mcp" /\ q.op \notin ModelOps)
     THEN step' = [step EXCEPT ![c] = "pooled"] /\ UNCHANGED told
     ELSE Tell(c, CASE q.surface = "mcp"           -> "invalid_arguments"
                    [] q.op = "upload_document"    -> "413"
                    [] OTHER                       -> "422")
  /\ UNCHANGED <<request, user, wire, reply, known, engine>>

\* The request leaves with the principal's user in X-User-ID.
Forward(c) ==
  /\ step[c] = "pooled"
  /\ step' = [step EXCEPT ![c] = "sent"]
  /\ wire' = [wire EXCEPT ![c] = "in_flight"]
  /\ UNCHANGED <<request, user, reply, told, known, engine>>

NotFoundOf(q) ==
  IF q.surface = "hub" \/ q.op \in {"recover_analysis", "review_analysis"}
  THEN "AnalysisNotFound" ELSE "NotFound"

Outcome(q, a) ==
  LET error == Raised(a, NotFoundOf(q)) IN
  CASE q.surface = "rest" -> RestStatus(error)
    [] q.surface = "mcp"  -> error
    [] q.surface = "hub"  -> Recorded(a, error)

Succeeded(what) == what \in {"ok", "recorded"}

Conclude(c, a, shows) ==
  LET what == Outcome(request[c], a) IN
  /\ Tell(c, what)
  /\ known' = IF Succeeded(what) THEN [known EXCEPT ![user[c]] = @ \cup shows] ELSE known

Receive(c) ==
  /\ step[c] = "sent"
  /\ wire[c] = "answered"
  /\ Conclude(c, reply[c].answer, reply[c].shows)
  /\ UNCHANGED <<request, user, wire, reply, engine>>

\* The pool has no free connection, none can be made, or the answer does not come in
\* time, whatever Module 1 does with a request that was sent.
GiveUp(c) ==
  /\ step[c] \in {"pooled", "sent"}
  /\ \E got \in {"timeout", "no_connection"} :
       Conclude(c, [NoReply.answer EXCEPT !.got = got], {})
  /\ UNCHANGED <<request, user, wire, reply, engine>>

-----------------------------------------------------------------------------
(* Module 1.                                                               *)

Held(u, r, s) == r \in Resource /\ holder[r] = u /\ sort[r] = s

\* It carries the request out; the answer may be spoilt on the way.
Answered(c, shows) ==
  /\ wire' = [wire EXCEPT ![c] = "answered"]
  /\ done' = done \cup {c}
  /\ \E a \in {b \in Answer : b.got = "response" /\ b.code \in AnswerCode \cap {200, 201, 500, 503}} :
       reply' = [reply EXCEPT ![c] = [answer |-> a, shows |-> shows]]
  /\ UNCHANGED client

\* It makes r, of sort s and derived from o, for user u.
Make(r, s, u, o) ==
  /\ sort[r] = None
  /\ sort' = [sort EXCEPT ![r] = s]
  /\ holder' = [holder EXCEPT ![r] = u]
  /\ origin' = [origin EXCEPT ![r] = o]
  /\ UNCHANGED archived

Same == UNCHANGED <<sort, holder, origin, archived>>

ServeRead(c) ==
  LET q == request[c] IN
  /\ \/ q.op \in Lists /\ Answered(c, ShownByList(q.op, user[c], q.archived))
     \/ /\ q.op \in Gets
        /\ Held(user[c], q.on, Names(q.op))
        /\ Answered(c, {q.on})
  /\ Same /\ UNCHANGED decided

ServeCreate(c) ==
  /\ request[c].op \in Creates
  /\ \E r \in Resource :
       /\ Make(r, IF request[c].op = "start_analysis" THEN "analysis" ELSE "document",
               user[c], None)
       /\ Answered(c, {r})
  /\ UNCHANGED decided

\* One review per document, one CV per analysis: a repeated request finds it.
ServeOnce(c, op, s) ==
  LET q == request[c]
      existing == {r \in Resource : Held(user[c], r, s) /\ origin[r] = q.on}
  IN
  /\ q.op = op
  /\ Held(user[c], q.on, Names(op))
  /\ \/ existing # {} /\ Answered(c, existing) /\ Same
     \/ /\ existing = {}
        /\ \E r \in Resource : Make(r, s, user[c], q.on) /\ Answered(c, {r})
  /\ UNCHANGED decided

ServeDecision(c) ==
  LET q == request[c] IN
  /\ q.op \in Decides
  /\ Held(user[c], q.on, Names(q.op))
  /\ q.on \notin decided
  /\ decided' = decided \cup {q.on}
  /\ \/ /\ q.op = "submit_review"
        /\ \E r \in Resource :
             Make(r, "evidence", user[c], q.on) /\ Answered(c, {q.on, r})
     \/ Answered(c, {q.on}) /\ Same

ServeLifecycle(c) ==
  LET q == request[c] IN
  /\ q.op \in Lifecycle
  /\ Held(user[c], q.on, "evidence")
  /\ archived' = CASE q.op = "archive_evidence" -> archived \cup {q.on}
                   [] q.op = "restore_evidence" -> archived \ {q.on}
                   [] OTHER                     -> archived
  /\ Answered(c, {q.on})
  /\ UNCHANGED <<sort, holder, origin, decided>>

\* It refuses the request or fails before doing anything.
Refuse(c) ==
  /\ wire' = [wire EXCEPT ![c] = "answered"]
  /\ \E code \in {k \in AnswerCode : k >= 300} :
       reply' = [reply EXCEPT ![c] =
         [answer |-> [got |-> "response", code |-> code, body |-> "valid"], shows |-> {}]]
  /\ UNCHANGED <<client, engine>>

Module1(c) ==
  /\ wire[c] = "in_flight"
  /\ \/ ServeRead(c)
     \/ ServeCreate(c)
     \/ ServeOnce(c, "start_review", "review")
     \/ ServeOnce(c, "generate_final_cv", "cv_version")
     \/ ServeDecision(c)
     \/ ServeLifecycle(c)
     \/ Refuse(c)

-----------------------------------------------------------------------------
Handle(c) == Authenticate(c) \/ Check(c) \/ Forward(c) \/ Receive(c) \/ GiveUp(c)

Next == \E c \in Call : Arrive(c) \/ Handle(c) \/ Module1(c) \/ Forget(c)

Spec == Init /\ [][Next]_vars

=============================================================================
