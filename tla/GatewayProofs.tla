---------------------------- MODULE GatewayProofs ---------------------------
(***************************************************************************)
(* What the callers of the gateway rely on, for any users, tokens, calls   *)
(* and resources.  A resource keeps its holder, its sort and its origin    *)
(* for good, and what a user knows only grows, so that what an answer      *)
(* shows stays his to find; a call's exchange passes its stages once, so   *)
(* that what he is told of it stays true.                                  *)
(***************************************************************************)
EXTENDS GatewayProperties, TLAPS

-----------------------------------------------------------------------------
(* The inductive invariant.                                                *)

Steps == {"idle", "authenticating", "checking", "pooled", "sent", "done"}

Sorts == {"document", "review", "evidence", "analysis", "cv_version"}

Told ==
  {"ok", "recorded", "outcome_unknown", "unavailable", "500", "502", "503"}
    \cup Refusals \cup Error

\* Each variable has its type.
GatewayTypeOK ==
  /\ step \in [Call -> Steps]
  /\ request \in [Call -> Requests \cup {None}]
  /\ user \in [Call -> Name \cup {None}]
  /\ wire \in [Call -> {"none", "in_flight", "answered"}]
  /\ reply \in [Call -> [answer : Answer, shows : SUBSET Resource]]
  /\ told \in [Call -> Told \cup {None}]
  /\ known \in [Name -> SUBSET Resource]
  /\ sort \in [Resource -> Sorts \cup {None}]
  /\ holder \in [Resource -> Name \cup {None}]
  /\ origin \in [Resource -> Resource \cup {None}]
  /\ archived \subseteq Resource /\ decided \subseteq Resource /\ done \subseteq Call

\* A request of the call is on its way to Module 1, or was.
Admitted(c) == step[c] \in {"checking", "pooled", "sent"} \/ wire[c] # "none"

\* The token of the call is good for the user it is served for.
Authenticated(c) ==
  LET token == request[c].token IN
  /\ token.genuine /\ token.expiry # "past"
  /\ request[c].surface # "rest" => token.expiry = "ahead"
  /\ RequiredScope \in ExtractScopes(token)
  /\ user[c] = Strip(token.sub).core
  /\ user[c] \in Name

Seen == UNION {known[u] : u \in Name}

\* What user u will always find.
Lasting(u) ==
  known[u]
    \cup {r \in Resource : holder[r] = u /\ sort[r] \in {"document", "review", "evidence"}}
    \cup {r \in Resource : sort[r] = "cv_version" /\ origin[r] \in known[u]}

\* A request that is admitted is the subject's own.
RequestKnows(c) ==
  /\ step[c] # "idle" => request[c] \in Requests /\ request[c].on \in Seen \cup {None}
  /\ Admitted(c) => Authenticated(c)

\* A request that was done is answered so, and shows what belongs to its user.
ExchangeKnows(c) ==
  /\ wire[c] # "none" => step[c] \in {"sent", "done"}
  /\ step[c] = "sent" => wire[c] # "none"
  /\ c \in done => wire[c] = "answered"
  /\ wire[c] = "answered" =>
       /\ reply[c].answer.got = "response"
       /\ IF c \in done THEN reply[c].answer.code \in {200, 201, 500, 503}
          ELSE reply[c].answer.code >= 300
       /\ \A r \in reply[c].shows : holder[r] = user[c]
  /\ c \in done /\ request[c].op # "start_analysis" => reply[c].shows \subseteq Lasting(user[c])

\* What the caller was told is about what was done.
ToldKnows(c) ==
  /\ told[c] # None => step[c] = "done"
  /\ told[c] \in Refusals => c \notin done /\ wire[c] # "in_flight"
  /\ Succeeded(told[c]) => c \in done

\* A resource that is known is its holder's.
ResourcesKnow ==
  /\ \A r \in Resource : sort[r] = None => holder[r] = None /\ origin[r] = None
  /\ \A u \in Name : \A r \in known[u] : holder[r] = u

GatewayInv ==
  /\ GatewayTypeOK
  /\ \A c \in Call : RequestKnows(c) /\ ExchangeKnows(c) /\ ToldKnows(c)
  /\ ResourcesKnow

-----------------------------------------------------------------------------
(* Tokens and answers.                                                     *)

\* Stripping leaves the name in a claim.
LEMMA StripKeepsCore ==
  ASSUME NEW t \in TextClaims
  PROVE  Strip(t).core = t.core /\ t.core \in Name \cup {Blank, NotText, Missing}
BY DEF Strip, TextClaims, Texts, NoText

\* A token that gets through names its subject, on both surfaces; MCP turns away
\* those that expired within the leeway, and else the surfaces do the same.
LEMMA PrincipalIsSubject ==
  ASSUME NEW token \in Claims, NEW header
  PROVE  LET rest == RestPrincipal(header, VerifyToken(token))
             mcp  == McpPrincipal(header, VerifyToken(token)) IN
         /\ rest.answer \in {"served", "401", "403"}
         /\ rest.answer = "served" =>
              /\ token.genuine /\ token.expiry # "past"
              /\ RequiredScope \in ExtractScopes(token)
              /\ rest.user = Strip(token.sub).core /\ rest.user \in Name
         /\ mcp = IF token.expiry = "leeway" THEN TurnedAway("401") ELSE rest
<1>. DEFINE verified == VerifyToken(token)
            accepted == Accepted(token)
<1>1. /\ token.sub \in TextClaims /\ token.client_id \in TextClaims /\ token.azp \in TextClaims
  BY DEF Claims
<1>2. CASE ~accepted
  <2>1. verified.subject.core = Missing
    BY <1>2 DEF VerifyToken, Accepted, Refused, NoText
  <2>2. /\ RestPrincipal(header, verified) = TurnedAway("401")
        /\ McpPrincipal(header, verified) = TurnedAway("401")
    BY <2>1 DEF RestPrincipal, McpPrincipal
  <2> QED
    BY <2>2 DEF TurnedAway
<1>3. CASE accepted
  <2>1. /\ verified.subject = Strip(token.sub) /\ verified.client = ExtractClientId(token)
        /\ verified.scopes = ExtractScopes(token)
        /\ verified.expired <=> token.expiry = "leeway"
        /\ token.genuine /\ token.expiry # "past"
    BY <1>3 DEF VerifyToken, Accepted
  <2>2. Strip(token.sub).core \in Name \ {Blank, NotText, Missing}
    BY <1>1, <1>3, StripKeepsCore DEF Accepted, IsText, IsBlank
  <2>3. ~IsBlank(ExtractClientId(token))
    <3>. DEFINE raw == IF token.client_id.core = Missing THEN token.azp ELSE token.client_id
    <3>1. raw \in TextClaims
      BY <1>1
    <3>2. IsText(raw) /\ ~IsBlank(raw) => Strip(raw).core # Blank
      BY <3>1, StripKeepsCore DEF IsBlank
    <3>3. NoText(Missing).core # Blank
      BY DEF NoText, Missing, Blank
    <3> QED
      BY <1>3, <3>2, <3>3 DEF ExtractClientId, IsBlank
  <2>4. Strip(Strip(token.sub)).core = Strip(token.sub).core
    BY DEF Strip
  <2>. DEFINE served == Served(Strip(token.sub).core)
  <2>5. \A answer : Principal(verified.subject, verified.client, answer) = served
    BY <2>1, <2>2, <2>3, <2>4 DEF Principal, IsBlank
  <2>6. served.answer = "served" /\ served.user = Strip(token.sub).core
    BY DEF Served
  <2>. HIDE DEF served, verified
  <2>7. verified.subject.core # Missing
    BY <2>1, <2>2
  <2>8. /\ header # "bearer" => RestPrincipal(header, verified) = TurnedAway("401")
        /\ header = "bearer" /\ RequiredScope \notin verified.scopes =>
             RestPrincipal(header, verified) = TurnedAway("403")
        /\ header = "bearer" /\ RequiredScope \in verified.scopes =>
             RestPrincipal(header, verified) = served
    BY <2>5, <2>7 DEF RestPrincipal
  <2>9. McpPrincipal(header, verified) =
          IF token.expiry = "leeway" THEN TurnedAway("401") ELSE RestPrincipal(header, verified)
    BY <2>1, <2>5, <2>7, <2>8 DEF McpPrincipal
  <2>10. TurnedAway("401").answer = "401" /\ TurnedAway("403").answer = "403"
    BY DEF TurnedAway
  <2> QED
    BY <2>1, <2>2, <2>6, <2>8, <2>9, <2>10 DEF verified
<1> QED
  BY <1>2, <1>3

\* What the caller is told of an answer, or of none: a refusal is a refusal of
\* Module 1, which it does not send of what it carried out.
LEMMA ToldOfAnswer ==
  ASSUME NEW q \in Requests, NEW a \in Answer
  PROVE  /\ Outcome(q, a) \in Told
         /\ a.got # "response" \/ a.code \in {200, 201, 500, 503} => Outcome(q, a) \notin Refusals
         /\ a.got # "response" \/ a.code >= 300 => ~Succeeded(Outcome(q, a))
<1>. DEFINE error == Raised(a, NotFoundOf(q))
<1>1. q.surface \in {"rest", "mcp", "hub"}
  BY GatewayAssumption DEF Requests
<1>2. /\ a.got \in {"response", "timeout", "no_connection"} /\ a.code \in Code
      /\ a.body \in {"valid", "miscorrelated", "off_contract"}
  BY DEF Answer, Body
<1>3. NotFoundOf(q) \in {"NotFound", "AnalysisNotFound"}
  BY DEF NotFoundOf
<1>4. error \in Error \cup {NoError}
  BY <1>2, <1>3 DEF Raised, RaisedForStatus, Error, NoError, Code
<1>5. a.got # "response" \/ a.code \in {200, 201, 500, 503} =>
        error \in {"Unavailable", "Contract", NoError}
  <2>1. CASE a.got # "response"
    BY <2>1 DEF Raised
  <2>2. CASE a.got = "response" /\ a.code \in {200, 201}
    <3>1. IsSuccess(a)
      BY <2>2 DEF IsSuccess
    <3> QED
      BY <2>2, <3>1 DEF Raised
  <2>3. CASE a.got = "response" /\ a.code \in {500, 503}
    <3>1. ~IsSuccess(a) /\ RaisedForStatus(a.code, NotFoundOf(q)) = "Unavailable"
      BY <2>3 DEF IsSuccess, RaisedForStatus
    <3> QED
      BY <2>3, <3>1 DEF Raised
  <2> QED
    BY <2>1, <2>2, <2>3
<1>6. a.got # "response" \/ a.code >= 300 => error # NoError
  BY <1>2, <1>3 DEF Raised, RaisedForStatus, IsSuccess, NoError, Code
<1>. HIDE DEF error
<1>7. Outcome(q, a) = CASE q.surface = "rest" -> RestStatus(error)
                        [] q.surface = "mcp"  -> error
                        [] q.surface = "hub"  -> Recorded(a, error)
  BY DEF Outcome, error
<1>8. CASE q.surface = "rest"
  <2>1. Outcome(q, a) = RestStatus(error)
    BY <1>7, <1>8
  <2> QED
    BY <1>4, <1>5, <1>6, <2>1 DEF RestStatus, Told, Refusals, Error, NoError, Succeeded
<1>9. CASE q.surface = "mcp"
  <2>1. Outcome(q, a) = error
    BY <1>7, <1>9
  <2> QED
    BY <1>4, <1>5, <1>6, <2>1 DEF Told, Refusals, Error, NoError, Succeeded
<1>10. CASE q.surface = "hub"
  <2>1. Outcome(q, a) = Recorded(a, error)
    BY <1>7, <1>10
  <2> QED
    BY <1>4, <1>5, <1>6, <2>1 DEF Recorded, Told, Refusals, Error, NoError, Succeeded
<1> QED
  BY <1>1, <1>8, <1>9, <1>10

-----------------------------------------------------------------------------
(* What a step leaves of the calls it is not about.                        *)

\* What users know and what they can find only grow, and holders stay.
Lasts ==
  /\ Seen \subseteq Seen'
  /\ \A u \in Name : known[u] \subseteq known'[u] /\ Lasting(u) \subseteq Lasting(u)'
  /\ \A r \in Resource : holder[r] # None => holder'[r] = holder[r]

\* What is only added to lasts.
LEMMA ResourcesLast ==
  ASSUME GatewayTypeOK, ResourcesKnow,
         \A u \in Name : known[u] \subseteq known'[u],
         \A r \in Resource :
           sort[r] # None => sort'[r] = sort[r] /\ holder'[r] = holder[r] /\ origin'[r] = origin[r]
  PROVE  Lasts
<1>1. Seen \subseteq Seen'
  BY DEF Seen
<1>2. ASSUME NEW u \in Name
      PROVE  Lasting(u) \subseteq Lasting(u)'
  BY NoneIsNothing DEF Lasting
<1>3. ASSUME NEW r \in Resource, holder[r] # None
      PROVE  holder'[r] = holder[r]
  BY <1>3 DEF ResourcesKnow
<1> QED
  BY <1>1, <1>2, <1>3 DEF Lasts

CallKnows(c) == RequestKnows(c) /\ ExchangeKnows(c) /\ ToldKnows(c)

\* A call that is not moved.
Unmoved(c) ==
  /\ step'[c] = step[c] /\ request'[c] = request[c] /\ user'[c] = user[c]
  /\ wire'[c] = wire[c] /\ reply'[c] = reply[c] /\ told'[c] = told[c]
  /\ c \in done' <=> c \in done

\* What a call knows of its request outlasts every step that keeps the request.
LEMMA RequestStands ==
  ASSUME Lasts, NEW c \in Call, RequestKnows(c),
         step[c] # "idle", request'[c] = request[c],
         user'[c] = user[c], Admitted(c)' => Admitted(c)
  PROVE  RequestKnows(c)'
BY DEF Lasts, RequestKnows, Authenticated

\* What an answered call was shown stays with its user.
LEMMA ShownStays ==
  ASSUME GatewayTypeOK, Lasts, NEW c \in Call, RequestKnows(c), ExchangeKnows(c),
         user'[c] = user[c], reply'[c] = reply[c], wire[c] = "answered"
  PROVE  /\ \A r \in reply'[c].shows : holder'[r] = user'[c]
         /\ c \in done /\ request[c].op # "start_analysis" =>
              (reply[c].shows \subseteq Lasting(user[c]))'
<1>1. user[c] \in Name
  BY DEF RequestKnows, Admitted, Authenticated
<1>2. reply[c].shows \subseteq Resource /\ user[c] # None
  BY <1>1, NoneIsNothing DEF GatewayTypeOK
<1> QED
  BY <1>1, <1>2 DEF Lasts, ExchangeKnows

\* A call that no step moves keeps what is known of it while resources last.
LEMMA OthersUnmoved ==
  ASSUME GatewayTypeOK, Lasts, NEW c \in Call, CallKnows(c), Unmoved(c)
  PROVE  CallKnows(c)'
<1>. USE DEF CallKnows
<1>1. RequestKnows(c)'
  BY DEF Unmoved, Lasts, RequestKnows, Admitted, Authenticated
<1>2. ExchangeKnows(c)'
  <2>1. /\ c \in done => wire[c] = "answered"
        /\ c \in done' <=> c \in done
    BY DEF ExchangeKnows, Unmoved
  <2>2. wire[c] = "answered" =>
          /\ \A r \in reply'[c].shows : holder'[r] = user'[c]
          /\ c \in done /\ request[c].op # "start_analysis" =>
               (reply[c].shows \subseteq Lasting(user[c]))'
    BY ShownStays DEF Unmoved
  <2> QED
    BY <2>1, <2>2 DEF ExchangeKnows, Unmoved
<1>3. ToldKnows(c)'
  BY DEF ToldKnows, Unmoved
<1> QED
  BY <1>1, <1>2, <1>3

-----------------------------------------------------------------------------
(* The gateway's steps.                                                    *)

\* The reply before there is one is well formed.
LEMMA NoReplyIsAReply == NoReply \in [answer : Answer, shows : SUBSET Resource]
BY DEF NoReply, Answer, Body, Code

\* The invariant holds to begin with.
LEMMA InitIsSound == Init => GatewayInv
<1>. SUFFICES ASSUME Init PROVE GatewayInv
  OBVIOUS
<1>1. GatewayTypeOK
  BY NoReplyIsAReply DEF Init, GatewayTypeOK, Steps
<1>2. ResourcesKnow
  BY DEF Init, ResourcesKnow
<1>3. ASSUME NEW c \in Call PROVE RequestKnows(c) /\ ExchangeKnows(c) /\ ToldKnows(c)
  BY NoneIsNoAnswer DEF Init, RequestKnows, ExchangeKnows, ToldKnows, Admitted, Succeeded
<1> QED
  BY <1>1, <1>2, <1>3 DEF GatewayInv

\* A step of one call, seen from the invariant.
LEMMA StepOfOneCall ==
  ASSUME GatewayInv, GatewayTypeOK', ResourcesKnow', Lasts, NEW c \in Call,
         CallKnows(c)', \A d \in Call \ {c} : Unmoved(d)
  PROVE  GatewayInv'
<1>1. ASSUME NEW d \in Call, d # c PROVE CallKnows(d)'
  BY <1>1, OthersUnmoved DEF GatewayInv, CallKnows
<1> QED
  BY <1>1 DEF GatewayInv, CallKnows

\* A request arrives.
LEMMA ArriveIsSound ==
  ASSUME GatewayInv, NEW c \in Call, Arrive(c)
  PROVE  GatewayInv'
<1>. USE DEF Arrive, engine
<1>1. GatewayTypeOK'
  BY DEF GatewayInv, GatewayTypeOK, Steps
<1>2. ResourcesKnow' /\ Lasts
  BY ResourcesLast DEF GatewayInv, ResourcesKnow
<1>3. \A d \in Call \ {c} : Unmoved(d)
  BY DEF GatewayInv, GatewayTypeOK, Unmoved
<1>4. CallKnows(c)'
  <2>1. step'[c] = "authenticating" /\ wire'[c] = "none" /\ told'[c] = None /\ c \notin done'
    BY DEF GatewayInv, GatewayTypeOK, ExchangeKnows, ToldKnows
  <2>2. request'[c] \in Requests /\ request'[c].on \in Seen \cup {None}
    <3>1. PICK q \in Requests : q.on \in Seen \cup {None} /\ request' = [request EXCEPT ![c] = q]
      BY DEF Seen
    <3>2. request'[c] = q
      BY <3>1 DEF GatewayInv, GatewayTypeOK
    <3> QED
      BY <3>1, <3>2
  <2> QED
    BY <1>2, <2>1, <2>2, NoneIsNoAnswer
    DEF CallKnows, RequestKnows, ExchangeKnows, ToldKnows, Admitted, Succeeded, Lasts
<1> QED
  BY <1>1, <1>2, <1>3, <1>4, StepOfOneCall

\* A call that is over starts anew.
LEMMA ForgetIsSound ==
  ASSUME GatewayInv, NEW c \in Call, Forget(c)
  PROVE  GatewayInv'
<1>. USE DEF Forget
<1>1. GatewayTypeOK'
  BY NoReplyIsAReply DEF GatewayInv, GatewayTypeOK, Steps
<1>2. ResourcesKnow' /\ Lasts
  BY ResourcesLast DEF GatewayInv, ResourcesKnow
<1>3. \A d \in Call \ {c} : Unmoved(d)
  BY DEF GatewayInv, GatewayTypeOK, Unmoved
<1>4. CallKnows(c)'
  <2>1. step'[c] = "idle" /\ wire'[c] = "none" /\ told'[c] = None /\ c \notin done'
    BY DEF GatewayInv, GatewayTypeOK
  <2> QED
    BY <2>1, NoneIsNoAnswer
    DEF CallKnows, RequestKnows, ExchangeKnows, ToldKnows, Admitted, Succeeded
<1> QED
  BY <1>1, <1>2, <1>3, <1>4, StepOfOneCall

\* The surface finds out who asks, or turns the request away.
LEMMA AuthenticateIsSound ==
  ASSUME GatewayInv, NEW c \in Call, Authenticate(c)
  PROVE  GatewayInv'
<1>. DEFINE q == request[c]
            p == PrincipalOf(q)
<1>1. /\ step[c] = "authenticating" /\ wire[c] = "none" /\ told[c] = None /\ c \notin done
      /\ q \in Requests
  BY DEF GatewayInv, GatewayTypeOK, RequestKnows, ExchangeKnows, ToldKnows, Authenticate
<1>2. /\ p.answer \in {"served", "401", "403"}
      /\ p.answer = "served" =>
           /\ q.token.genuine /\ q.token.expiry # "past"
           /\ q.surface # "rest" => q.token.expiry = "ahead"
           /\ RequiredScope \in ExtractScopes(q.token)
           /\ p.user = Strip(q.token.sub).core /\ p.user \in Name
  <2>1. q.token \in Claims
    BY <1>1, GatewayAssumption DEF Requests
  <2>2. q.token.expiry \in {"ahead", "leeway", "past"}
    BY <2>1 DEF Claims
  <2>3. TurnedAway("401").answer = "401"
    BY DEF TurnedAway
  <2> QED
    BY <2>1, <2>2, <2>3, PrincipalIsSubject DEF PrincipalOf
<1>. HIDE DEF q, p
<1>3. /\ UNCHANGED <<request, wire, reply, known, sort, holder, origin, archived, decided, done>>
      /\ \/ /\ p.answer = "served" /\ p.user \in Name
            /\ user' = [user EXCEPT ![c] = p.user]
            /\ step' = [step EXCEPT ![c] = "checking"]
            /\ UNCHANGED told
         \/ /\ p.answer \in {"401", "403"}
            /\ told' = [told EXCEPT ![c] = p.answer]
            /\ step' = [step EXCEPT ![c] = "done"]
            /\ UNCHANGED user
  BY <1>2 DEF Authenticate, Tell, engine, p, q
<1>4. GatewayTypeOK'
  <2>1. GatewayTypeOK
    BY DEF GatewayInv
  <2>2. step' \in [Call -> Steps] /\ user' \in [Call -> Name \cup {None}]
    BY <1>3, <2>1 DEF GatewayTypeOK, Steps
  <2>3. told' \in [Call -> Told \cup {None}]
    BY <1>3, <2>1 DEF GatewayTypeOK, Told, Refusals
  <2> QED
    BY <1>3, <2>1, <2>2, <2>3 DEF GatewayTypeOK
<1>5. ResourcesKnow' /\ Lasts
  BY <1>3, ResourcesLast DEF GatewayInv, ResourcesKnow
<1>6. \A d \in Call \ {c} : Unmoved(d)
  BY <1>3 DEF GatewayInv, GatewayTypeOK, Unmoved
<1>7. CallKnows(c)'
  <2>1. RequestKnows(c)'
    BY <1>1, <1>2, <1>3, <1>5 DEF GatewayInv, GatewayTypeOK, RequestKnows, Admitted, Authenticated, Lasts, q
  <2>2. ExchangeKnows(c)'
    BY <1>1, <1>3 DEF GatewayInv, GatewayTypeOK, ExchangeKnows
  <2>3. ToldKnows(c)'
    BY <1>1, <1>3, NoneIsNoAnswer DEF GatewayInv, GatewayTypeOK, ToldKnows, Succeeded
  <2> QED
    BY <2>1, <2>2, <2>3 DEF CallKnows
<1> QED
  BY <1>4, <1>5, <1>6, <1>7, StepOfOneCall

\* The surface judges the request and prepares what it sends.
LEMMA CheckIsSound ==
  ASSUME GatewayInv, NEW c \in Call, Check(c)
  PROVE  GatewayInv'
<1>1. /\ step[c] = "checking" /\ wire[c] = "none" /\ told[c] = None /\ c \notin done
      /\ UNCHANGED <<request, user, wire, reply, known, sort, holder, origin, archived, decided, done>>
  BY DEF GatewayInv, GatewayTypeOK, ExchangeKnows, ToldKnows, Check, engine
<1>2. \/ step' = [step EXCEPT ![c] = "pooled"] /\ UNCHANGED told
      \/ \E what \in {"invalid_arguments", "413", "422"} :
           /\ told' = [told EXCEPT ![c] = what]
           /\ step' = [step EXCEPT ![c] = "done"]
  BY DEF Check, Tell
<1>3. GatewayTypeOK'
  <2>1. {"invalid_arguments", "413", "422"} \subseteq Told
    BY DEF Told, Refusals
  <2>2. step' \in [Call -> Steps] /\ told' \in [Call -> Told \cup {None}]
    BY <1>2, <2>1 DEF GatewayInv, GatewayTypeOK, Steps
  <2> QED
    BY <1>1, <2>2 DEF GatewayInv, GatewayTypeOK
<1>4. ResourcesKnow' /\ Lasts
  BY <1>1, ResourcesLast DEF GatewayInv, ResourcesKnow
<1>5. \A d \in Call \ {c} : Unmoved(d)
  BY <1>1, <1>2 DEF GatewayInv, GatewayTypeOK, Unmoved
<1>6. CallKnows(c)'
  <2>1. RequestKnows(c)'
    BY <1>1, <1>2, <1>4, RequestStands DEF GatewayInv, GatewayTypeOK, Admitted
  <2>2. ExchangeKnows(c)'
    BY <1>1, <1>2 DEF GatewayInv, GatewayTypeOK, ExchangeKnows
  <2>3. ToldKnows(c)'
    BY <1>1, <1>2, NoneIsNoAnswer DEF GatewayInv, GatewayTypeOK, ToldKnows, Succeeded
  <2> QED
    BY <2>1, <2>2, <2>3 DEF CallKnows
<1> QED
  BY <1>3, <1>4, <1>5, <1>6, StepOfOneCall

\* The gateway sends the request, and cannot take it back.
LEMMA ForwardIsSound ==
  ASSUME GatewayInv, NEW c \in Call, Forward(c)
  PROVE  GatewayInv'
<1>1. /\ step[c] = "pooled" /\ wire[c] = "none" /\ told[c] = None /\ c \notin done
      /\ UNCHANGED <<request, user, reply, told, known, sort, holder, origin, archived, decided, done>>
      /\ step' = [step EXCEPT ![c] = "sent"] /\ wire' = [wire EXCEPT ![c] = "in_flight"]
  BY DEF GatewayInv, GatewayTypeOK, ExchangeKnows, ToldKnows, Forward, engine
<1>2. GatewayTypeOK'
  BY <1>1 DEF GatewayInv, GatewayTypeOK, Steps
<1>3. ResourcesKnow' /\ Lasts
  BY <1>1, ResourcesLast DEF GatewayInv, ResourcesKnow
<1>4. \A d \in Call \ {c} : Unmoved(d)
  BY <1>1 DEF GatewayInv, GatewayTypeOK, Unmoved
<1>5. CallKnows(c)'
  <2>1. RequestKnows(c)'
    BY <1>1, <1>3, RequestStands DEF GatewayInv, GatewayTypeOK, Admitted
  <2>2. ExchangeKnows(c)'
    BY <1>1 DEF GatewayInv, GatewayTypeOK, ExchangeKnows
  <2>3. ToldKnows(c)'
    BY <1>1, NoneIsNoAnswer DEF GatewayInv, GatewayTypeOK, ToldKnows, Succeeded
  <2> QED
    BY <2>1, <2>2, <2>3 DEF CallKnows
<1> QED
  BY <1>2, <1>3, <1>4, <1>5, StepOfOneCall

\* The caller is told what an answer amounts to, and learns what it shows.
LEMMA ConcludeIsSound ==
  ASSUME GatewayInv, NEW c \in Call, NEW a \in Answer, NEW shows \in SUBSET Resource,
         step[c] \in {"pooled", "sent"}, Conclude(c, a, shows),
         UNCHANGED <<request, user, wire, reply, engine>>,
         \A r \in shows : holder[r] = user[c],
         c \in done => a.got # "response" \/ a.code \in {200, 201, 500, 503},
         c \notin done => a.got # "response" \/ a.code >= 300,
         wire[c] = "in_flight" => a.got # "response"
  PROVE  GatewayInv'
<1>. DEFINE what == Outcome(request[c], a)
<1>1. /\ request[c] \in Requests /\ user[c] \in Name
      /\ wire[c] \in {"none", "in_flight", "answered"}
      /\ told[c] = None
  BY DEF GatewayInv, GatewayTypeOK, RequestKnows, ToldKnows, Admitted, Authenticated
<1>2. /\ what \in Told
      /\ c \in done => what \notin Refusals
      /\ c \notin done => ~Succeeded(what)
      /\ a.got # "response" => what \notin Refusals
  BY <1>1, ToldOfAnswer
<1>. HIDE DEF what
<1>3. /\ told' = [told EXCEPT ![c] = what] /\ step' = [step EXCEPT ![c] = "done"]
      /\ UNCHANGED <<request, user, wire, reply, sort, holder, origin, archived, decided, done>>
      /\ \/ UNCHANGED known
         \/ known' = [known EXCEPT ![user[c]] = @ \cup shows]
  BY DEF Conclude, Tell, engine, what
<1>4. GatewayTypeOK'
  <2>1. known' \in [Name -> SUBSET Resource]
    BY <1>1, <1>3 DEF GatewayInv, GatewayTypeOK
  <2>2. told' \in [Call -> Told \cup {None}] /\ step' \in [Call -> Steps]
    BY <1>2, <1>3 DEF GatewayInv, GatewayTypeOK, Steps
  <2> QED
    BY <1>3, <2>1, <2>2 DEF GatewayInv, GatewayTypeOK
<1>5. \A u \in Name : known[u] \subseteq known'[u]
  BY <1>1, <1>3 DEF GatewayInv, GatewayTypeOK
<1>6. Lasts
  BY <1>3, <1>5, ResourcesLast DEF GatewayInv
<1>7. ResourcesKnow'
  <2>1. ASSUME NEW u \in Name, NEW r \in known'[u] PROVE holder[r] = u
    BY <1>1, <1>3, <2>1 DEF GatewayInv, GatewayTypeOK, ResourcesKnow
  <2> QED
    BY <1>3, <2>1 DEF GatewayInv, ResourcesKnow
<1>8. \A d \in Call \ {c} : Unmoved(d)
  BY <1>3 DEF GatewayInv, GatewayTypeOK, Unmoved
<1>9. CallKnows(c)'
  <2>1. RequestKnows(c)'
    BY <1>3, <1>6, RequestStands DEF GatewayInv, GatewayTypeOK, Admitted
  <2>2. ExchangeKnows(c)'
    <3>1. step'[c] = "done"
      BY <1>3 DEF GatewayInv, GatewayTypeOK
    <3>2. wire[c] = "answered" =>
            /\ \A r \in reply'[c].shows : holder'[r] = user'[c]
            /\ c \in done /\ request[c].op # "start_analysis" =>
                 (reply[c].shows \subseteq Lasting(user[c]))'
      BY <1>3, <1>6, ShownStays DEF GatewayInv
    <3> QED
      BY <1>3, <3>1, <3>2 DEF GatewayInv, ExchangeKnows
  <2>3. ToldKnows(c)'
    <3>1. told'[c] = what /\ step'[c] = "done"
      BY <1>3 DEF GatewayInv, GatewayTypeOK
    <3> QED
      BY <1>2, <1>3, <3>1 DEF ToldKnows
  <2> QED
    BY <2>1, <2>2, <2>3 DEF CallKnows
<1> QED
  BY <1>4, <1>6, <1>7, <1>8, <1>9, StepOfOneCall

\* The gateway translates the answer that came in.
LEMMA ReceiveIsSound ==
  ASSUME GatewayInv, NEW c \in Call, Receive(c)
  PROVE  GatewayInv'
<1>1. /\ reply[c].answer \in Answer /\ reply[c].shows \in SUBSET Resource
      /\ wire[c] = "answered" /\ step[c] = "sent"
  BY DEF GatewayInv, GatewayTypeOK, Receive
<1>2. /\ \A r \in reply[c].shows : holder[r] = user[c]
      /\ c \in done => reply[c].answer.code \in {200, 201, 500, 503}
      /\ c \notin done => reply[c].answer.code >= 300
  BY <1>1 DEF GatewayInv, ExchangeKnows
<1>3. /\ Conclude(c, reply[c].answer, reply[c].shows)
      /\ UNCHANGED <<request, user, wire, reply, engine>>
  BY DEF Receive
<1> QED
  BY <1>1, <1>2, <1>3, ConcludeIsSound

\* It gives up on an answer that has not come.
LEMMA GiveUpIsSound ==
  ASSUME GatewayInv, NEW c \in Call, GiveUp(c)
  PROVE  GatewayInv'
<1>1. PICK got \in {"timeout", "no_connection"} :
        Conclude(c, [NoReply.answer EXCEPT !.got = got], {})
  BY DEF GiveUp
<1>. DEFINE a == [NoReply.answer EXCEPT !.got = got]
<1>2. a \in Answer /\ a.got # "response"
  BY <1>1 DEF NoReply, Answer, Body, Code
<1>3. step[c] \in {"pooled", "sent"} /\ UNCHANGED <<request, user, wire, reply, engine>>
  BY DEF GiveUp
<1>. HIDE DEF a
<1>4. Conclude(c, a, {})
  BY <1>1 DEF a
<1> QED
  BY <1>2, <1>3, <1>4, ConcludeIsSound

-----------------------------------------------------------------------------
(* Module 1's steps.                                                       *)

\* A step of Module 1 for call c: what it does is lasting, and what the answer
\* shows is the user's and, unless an analysis was started, his to find again.
LEMMA AnsweredIsSound ==
  ASSUME GatewayInv, NEW c \in Call, NEW shows \in SUBSET Resource,
         wire[c] = "in_flight", Answered(c, shows),
         sort' \in [Resource -> Sorts \cup {None}],
         holder' \in [Resource -> Name \cup {None}],
         origin' \in [Resource -> Resource \cup {None}],
         archived' \subseteq Resource, decided' \subseteq Resource,
         \A r \in Resource : sort'[r] = None => holder'[r] = None /\ origin'[r] = None,
         \A r \in Resource :
           sort[r] # None => sort'[r] = sort[r] /\ holder'[r] = holder[r] /\ origin'[r] = origin[r],
         \A r \in shows : holder'[r] = user[c],
         request[c].op # "start_analysis" =>
           \A r \in shows : \/ r \in known[user[c]]
                            \/ sort'[r] \in {"document", "review", "evidence"}
                            \/ sort'[r] = "cv_version" /\ origin'[r] \in known[user[c]]
  PROVE  GatewayInv'
<1>1. /\ step[c] \in {"sent", "done"} /\ c \notin done /\ user[c] \in Name
  BY DEF GatewayInv, RequestKnows, ExchangeKnows, Admitted, Authenticated
<1>2. PICK a \in Answer :
        /\ a.got = "response" /\ a.code \in {200, 201, 500, 503}
        /\ reply' = [reply EXCEPT ![c] = [answer |-> a, shows |-> shows]]
  BY DEF Answered
<1>3. /\ wire' = [wire EXCEPT ![c] = "answered"] /\ done' = done \cup {c}
      /\ UNCHANGED <<step, request, user, told, known>>
  BY DEF Answered, client
<1>4. reply'[c] = [answer |-> a, shows |-> shows] /\ wire'[c] = "answered"
  BY <1>2, <1>3 DEF GatewayInv, GatewayTypeOK
<1>5. GatewayTypeOK'
  <2>1. reply' \in [Call -> [answer : Answer, shows : SUBSET Resource]]
    BY <1>2 DEF GatewayInv, GatewayTypeOK
  <2> QED
    BY <1>3, <2>1 DEF GatewayInv, GatewayTypeOK
<1>6. Lasts
  BY <1>3, ResourcesLast DEF GatewayInv
<1>7. ResourcesKnow'
  BY <1>3, <1>6, NoneIsNothing DEF GatewayInv, GatewayTypeOK, ResourcesKnow, Lasts
<1>8. \A d \in Call \ {c} : Unmoved(d)
  BY <1>2, <1>3 DEF GatewayInv, GatewayTypeOK, Unmoved
<1>9. CallKnows(c)'
  <2>1. RequestKnows(c)'
    BY <1>1, <1>3, <1>6, RequestStands DEF GatewayInv, Admitted
  <2>2. request[c].op # "start_analysis" => (reply[c].shows \subseteq Lasting(user[c]))'
    BY <1>3, <1>4 DEF Lasting
  <2>3. ExchangeKnows(c)'
    BY <1>1, <1>2, <1>3, <1>4, <2>2 DEF ExchangeKnows
  <2>4. ToldKnows(c)'
    BY <1>3, <1>4 DEF GatewayInv, ToldKnows
  <2> QED
    BY <2>1, <2>3, <2>4 DEF CallKnows
<1> QED
  BY <1>5, <1>6, <1>7, <1>8, <1>9, StepOfOneCall

\* The resource a request names is known to its user if it is his.
LEMMA NamedIsKnown ==
  ASSUME GatewayInv, NEW c \in Call, wire[c] = "in_flight",
         request[c].on \in Resource, holder[request[c].on] = user[c]
  PROVE  request[c].on \in known[user[c]]
<1>1. request[c].on \in Seen
  BY NoneIsNothing DEF GatewayInv, RequestKnows, ExchangeKnows
<1> QED
  BY <1>1 DEF GatewayInv, ResourcesKnow, Seen

\* A request that changes nothing keeps the resources.
LEMMA SameIsLasting ==
  ASSUME GatewayInv, Same
  PROVE  /\ sort' \in [Resource -> Sorts \cup {None}]
         /\ holder' \in [Resource -> Name \cup {None}]
         /\ origin' \in [Resource -> Resource \cup {None}]
         /\ archived' \subseteq Resource
         /\ \A r \in Resource : sort'[r] = None => holder'[r] = None /\ origin'[r] = None
         /\ \A r \in Resource : sort'[r] = sort[r] /\ holder'[r] = holder[r] /\ origin'[r] = origin[r]
BY DEF GatewayInv, GatewayTypeOK, ResourcesKnow, Same

\* A new resource belongs to the one who asked for it, and the others stay.
LEMMA MakeIsLasting ==
  ASSUME GatewayInv, NEW r \in Resource, NEW s \in Sorts, NEW u \in Name,
         NEW o \in Resource \cup {None}, Make(r, s, u, o)
  PROVE  /\ sort' \in [Resource -> Sorts \cup {None}]
         /\ holder' \in [Resource -> Name \cup {None}]
         /\ origin' \in [Resource -> Resource \cup {None}]
         /\ archived' \subseteq Resource
         /\ sort'[r] = s /\ holder'[r] = u /\ origin'[r] = o
         /\ \A x \in Resource : sort'[x] = None => holder'[x] = None /\ origin'[x] = None
         /\ \A x \in Resource :
              sort[x] # None => sort'[x] = sort[x] /\ holder'[x] = holder[x] /\ origin'[x] = origin[x]
BY NoneIsNothing DEF GatewayInv, GatewayTypeOK, ResourcesKnow, Make, Sorts

\* A request on the wire is authenticated and well formed.
LEMMA ServedUser ==
  ASSUME GatewayInv, NEW c \in Call, wire[c] = "in_flight"
  PROVE  user[c] \in Name /\ request[c] \in Requests /\ step[c] \in {"sent", "done"}
BY DEF GatewayInv, RequestKnows, ExchangeKnows, Admitted, Authenticated

\* Module 1 shows what belongs to the user.
LEMMA ServeReadIsSound ==
  ASSUME GatewayInv, NEW c \in Call, wire[c] = "in_flight", ServeRead(c)
  PROVE  GatewayInv'
<1>. DEFINE q == request[c]
<1>1. Same /\ decided' \subseteq Resource
  BY DEF ServeRead, GatewayInv, GatewayTypeOK
<1>2. CASE q.op \in Lists /\ Answered(c, ShownByList(q.op, user[c], q.archived))
  <2>. DEFINE shows == ShownByList(q.op, user[c], q.archived)
  <2>1. /\ shows \in SUBSET Resource
        /\ \A r \in shows : holder[r] = user[c] /\ sort[r] \in {"document", "review", "evidence"}
    BY DEF ShownByList
  <2>2. Answered(c, shows)
    BY <1>2
  <2>. HIDE DEF shows, q
  <2> QED
    BY <1>1, <2>1, <2>2, SameIsLasting, AnsweredIsSound
<1>3. CASE Held(user[c], q.on, Names(q.op)) /\ Answered(c, {q.on})
  <2>1. q.on \in Resource /\ holder[q.on] = user[c]
    BY <1>3 DEF Held
  <2>2. q.on \in known[user[c]]
    BY <2>1, NamedIsKnown
  <2>3. {q.on} \in SUBSET Resource /\ \A r \in {q.on} : holder[r] = user[c] /\ r \in known[user[c]]
    BY <2>1, <2>2
  <2> QED
    BY <1>1, <1>3, <2>3, SameIsLasting, AnsweredIsSound
<1> QED
  BY <1>2, <1>3 DEF ServeRead

\* Module 1 creates something of the user's, or finds that it has been.
LEMMA ServeCreateIsSound ==
  ASSUME GatewayInv, NEW c \in Call, wire[c] = "in_flight", ServeCreate(c)
  PROVE  GatewayInv'
<1>. DEFINE s == IF request[c].op = "start_analysis" THEN "analysis" ELSE "document"
<1>1. PICK r \in Resource : Make(r, s, user[c], None) /\ Answered(c, {r})
  BY DEF ServeCreate
<1>2. s \in Sorts /\ (request[c].op # "start_analysis" => s = "document")
  BY DEF Sorts
<1>3. user[c] \in Name /\ decided' \subseteq Resource
  BY ServedUser DEF ServeCreate, GatewayInv, GatewayTypeOK
<1>. HIDE DEF s
<1>4. /\ sort' \in [Resource -> Sorts \cup {None}]
      /\ holder' \in [Resource -> Name \cup {None}]
      /\ origin' \in [Resource -> Resource \cup {None}]
      /\ archived' \subseteq Resource
      /\ sort'[r] = s /\ holder'[r] = user[c]
      /\ \A x \in Resource : sort'[x] = None => holder'[x] = None /\ origin'[x] = None
      /\ \A x \in Resource :
           sort[x] # None => sort'[x] = sort[x] /\ holder'[x] = holder[x] /\ origin'[x] = origin[x]
  BY <1>1, <1>2, <1>3, MakeIsLasting
<1>5. {r} \in SUBSET Resource
  OBVIOUS
<1> QED
  BY <1>1, <1>2, <1>3, <1>4, <1>5, AnsweredIsSound

\* A review or a CV: the one there is, or a new one.
LEMMA ServeOnceIsSound ==
  ASSUME GatewayInv, NEW c \in Call, wire[c] = "in_flight", NEW op,
         NEW s \in {"review", "cv_version"}, ServeOnce(c, op, s)
  PROVE  GatewayInv'
<1>. DEFINE on == request[c].on
            existing == {r \in Resource : Held(user[c], r, s) /\ origin[r] = on}
<1>1. on \in Resource /\ holder[on] = user[c] /\ decided' \subseteq Resource
  BY DEF ServeOnce, Held, GatewayInv, GatewayTypeOK
<1>2. on \in known[user[c]]
  BY <1>1, NamedIsKnown
<1>3. CASE Answered(c, existing) /\ Same
  <2>1. /\ existing \in SUBSET Resource
        /\ \A r \in existing : holder[r] = user[c] /\ sort[r] = s /\ origin[r] = on
    BY DEF Held
  <2>. HIDE DEF existing, on
  <2> QED
    BY <1>1, <1>2, <1>3, <2>1, SameIsLasting, AnsweredIsSound
<1>4. CASE \E r \in Resource : Make(r, s, user[c], on) /\ Answered(c, {r})
  <2>1. PICK r \in Resource : Make(r, s, user[c], on) /\ Answered(c, {r})
    BY <1>4
  <2>2. user[c] \in Name /\ s \in Sorts
    BY ServedUser DEF Sorts
  <2>. HIDE DEF existing, on
  <2>3. /\ sort' \in [Resource -> Sorts \cup {None}]
        /\ holder' \in [Resource -> Name \cup {None}]
        /\ origin' \in [Resource -> Resource \cup {None}]
        /\ archived' \subseteq Resource
        /\ sort'[r] = s /\ holder'[r] = user[c] /\ origin'[r] = on
        /\ \A x \in Resource : sort'[x] = None => holder'[x] = None /\ origin'[x] = None
        /\ \A x \in Resource :
             sort[x] # None => sort'[x] = sort[x] /\ holder'[x] = holder[x] /\ origin'[x] = origin[x]
    BY <1>1, <2>1, <2>2, MakeIsLasting
  <2>4. {r} \in SUBSET Resource
    OBVIOUS
  <2> QED
    BY <1>1, <1>2, <2>1, <2>3, <2>4, AnsweredIsSound
<1> QED
  BY <1>3, <1>4 DEF ServeOnce

\* Module 1 judges a review of the user's.
LEMMA ServeDecisionIsSound ==
  ASSUME GatewayInv, NEW c \in Call, wire[c] = "in_flight", ServeDecision(c)
  PROVE  GatewayInv'
<1>. DEFINE on == request[c].on
<1>1. on \in Resource /\ holder[on] = user[c] /\ decided' = decided \cup {on}
  BY DEF ServeDecision, Held
<1>2. on \in known[user[c]] /\ decided' \subseteq Resource
  BY <1>1, NamedIsKnown DEF GatewayInv, GatewayTypeOK
<1>. HIDE DEF on
<1>3. CASE Answered(c, {on}) /\ Same
  <2>1. {on} \in SUBSET Resource /\ \A r \in {on} : holder[r] = user[c] /\ r \in known[user[c]]
    BY <1>1, <1>2
  <2> QED
    BY <1>2, <1>3, <2>1, SameIsLasting, AnsweredIsSound
<1>4. CASE \E r \in Resource : Make(r, "evidence", user[c], on) /\ Answered(c, {on, r})
  <2>1. PICK r \in Resource : Make(r, "evidence", user[c], on) /\ Answered(c, {on, r})
    BY <1>4
  <2>2. user[c] \in Name /\ "evidence" \in Sorts
    BY ServedUser DEF Sorts
  <2>3. /\ sort' \in [Resource -> Sorts \cup {None}]
        /\ holder' \in [Resource -> Name \cup {None}]
        /\ origin' \in [Resource -> Resource \cup {None}]
        /\ archived' \subseteq Resource
        /\ sort'[r] = "evidence" /\ holder'[r] = user[c]
        /\ \A x \in Resource : sort'[x] = None => holder'[x] = None /\ origin'[x] = None
        /\ \A x \in Resource :
             sort[x] # None => sort'[x] = sort[x] /\ holder'[x] = holder[x] /\ origin'[x] = origin[x]
    BY <1>1, <2>1, <2>2, MakeIsLasting
  <2>4. sort[on] # None
    BY <1>1, <2>2, NoneIsNothing DEF GatewayInv, ResourcesKnow
  <2>5. /\ {on, r} \in SUBSET Resource
        /\ \A x \in {on, r} :
             /\ holder'[x] = user[c]
             /\ x \in known[user[c]] \/ sort'[x] \in {"document", "review", "evidence"}
    BY <1>1, <1>2, <2>3, <2>4
  <2> QED
    BY <1>2, <2>1, <2>3, <2>5, AnsweredIsSound
<1> QED
  BY <1>3, <1>4 DEF ServeDecision, on

\* Module 1 archives or restores what belongs to the user.
LEMMA ServeLifecycleIsSound ==
  ASSUME GatewayInv, NEW c \in Call, wire[c] = "in_flight", ServeLifecycle(c)
  PROVE  GatewayInv'
<1>. DEFINE on == request[c].on
<1>1. on \in Resource /\ holder[on] = user[c]
  BY DEF ServeLifecycle, Held
<1>2. /\ archived' \subseteq Resource /\ decided' \subseteq Resource
      /\ UNCHANGED <<sort, holder, origin>> /\ Answered(c, {on})
  BY <1>1 DEF ServeLifecycle, Lifecycle, GatewayInv, GatewayTypeOK
<1>3. on \in known[user[c]]
  BY <1>1, NamedIsKnown
<1>4. /\ sort' \in [Resource -> Sorts \cup {None}]
      /\ holder' \in [Resource -> Name \cup {None}]
      /\ origin' \in [Resource -> Resource \cup {None}]
      /\ \A r \in Resource : sort'[r] = None => holder'[r] = None /\ origin'[r] = None
      /\ \A r \in Resource : sort'[r] = sort[r] /\ holder'[r] = holder[r] /\ origin'[r] = origin[r]
  BY <1>2 DEF GatewayInv, GatewayTypeOK, ResourcesKnow
<1>5. {on} \in SUBSET Resource /\ \A r \in {on} : holder'[r] = user[c] /\ r \in known[user[c]]
  BY <1>1, <1>2, <1>3
<1>. HIDE DEF on
<1> QED
  BY <1>2, <1>4, <1>5, AnsweredIsSound

\* Module 1, or what is before it, refuses.
LEMMA RefuseIsSound ==
  ASSUME GatewayInv, NEW c \in Call, wire[c] = "in_flight", Refuse(c)
  PROVE  GatewayInv'
<1>1. PICK code \in AnswerCode :
        /\ code >= 300
        /\ reply' = [reply EXCEPT ![c] =
             [answer |-> [got |-> "response", code |-> code, body |-> "valid"], shows |-> {}]]
  BY DEF Refuse
<1>2. /\ wire' = [wire EXCEPT ![c] = "answered"]
      /\ UNCHANGED <<step, request, user, told, known, sort, holder, origin, archived, decided, done>>
  BY DEF Refuse, client, engine
<1>3. [got |-> "response", code |-> code, body |-> "valid"] \in Answer
  BY GatewayAssumption DEF Answer, Body
<1>4. GatewayTypeOK'
  <2>1. reply' \in [Call -> [answer : Answer, shows : SUBSET Resource]]
    BY <1>1, <1>3 DEF GatewayInv, GatewayTypeOK
  <2> QED
    BY <1>2, <2>1 DEF GatewayInv, GatewayTypeOK
<1>5. ResourcesKnow' /\ Lasts
  BY <1>2, ResourcesLast DEF GatewayInv, ResourcesKnow
<1>6. \A d \in Call \ {c} : Unmoved(d)
  BY <1>1, <1>2 DEF GatewayInv, GatewayTypeOK, Unmoved
<1>7. CallKnows(c)'
  <2>1. RequestKnows(c)'
    BY <1>2, <1>5, ServedUser, RequestStands DEF GatewayInv, Admitted
  <2>2. ExchangeKnows(c)'
    <3>1. /\ wire'[c] = "answered" /\ reply'[c].shows = {} /\ c \notin done
          /\ reply'[c].answer.got = "response" /\ reply'[c].answer.code >= 300
      BY <1>1, <1>2 DEF GatewayInv, GatewayTypeOK, ExchangeKnows
    <3> QED
      BY <1>2, <3>1, ServedUser DEF ExchangeKnows
  <2>3. ToldKnows(c)'
    BY <1>2 DEF GatewayInv, GatewayTypeOK, ToldKnows
  <2> QED
    BY <2>1, <2>2, <2>3 DEF CallKnows
<1> QED
  BY <1>4, <1>5, <1>6, <1>7, StepOfOneCall

-----------------------------------------------------------------------------
(* The specification, and what its callers rely on.                        *)

\* Every step keeps the invariant.
LEMMA NextIsSound == GatewayInv /\ [Next]_vars => GatewayInv'
<1>1. ASSUME GatewayInv, UNCHANGED vars PROVE GatewayInv'
  BY <1>1 DEF vars, engine, GatewayInv, GatewayTypeOK, ResourcesKnow, RequestKnows, Admitted,
              Authenticated, ExchangeKnows, ToldKnows, Seen, Lasting
<1>2. ASSUME GatewayInv, NEW c \in Call, Handle(c) PROVE GatewayInv'
  BY <1>2, AuthenticateIsSound, CheckIsSound, ForwardIsSound, ReceiveIsSound, GiveUpIsSound
     DEF Handle
<1>3. ASSUME GatewayInv, NEW c \in Call, Module1(c) PROVE GatewayInv'
  BY <1>3, ServeReadIsSound, ServeCreateIsSound, ServeOnceIsSound, ServeDecisionIsSound,
     ServeLifecycleIsSound, RefuseIsSound DEF Module1
<1> QED
  BY <1>1, <1>2, <1>3, ArriveIsSound, ForgetIsSound DEF Next

\* The bookkeeping of the gateway and of Module 1 stays sound: the types of the
\* variables, what each call's request, exchange and answer amount to, and that
\* resources are their holders' for good.
THEOREM GatewayIsSound == Spec => []GatewayInv
<1>1. Init => GatewayInv
  BY InitIsSound
<1>2. GatewayInv /\ [Next]_vars => GatewayInv'
  BY NextIsSound
<1> QED
  BY <1>1, <1>2, PTL DEF Spec

\* However calls interleave, answers are lost or late and Module 1 refuses, a
\* caller who is told the request was turned down can take it that Module 1 did
\* not carry it out and is not about to: the gateway tells a refusal only of an
\* answer that refuses (http_client._raise_for_agent_engine_error), and never of
\* silence.
THEOREM RefusedIsNotDone == Spec => []RefusalsAreFinal
<1>1. GatewayInv => RefusalsAreFinal
  BY DEF GatewayInv, ToldKnows, RefusalsAreFinal
<1> QED
  BY <1>1, GatewayIsSound, PTL

\* A caller who is told of success is told so of a request Module 1 carried out.
THEOREM SuccessIsDone == Spec => []SuccessesAreReal
<1>1. GatewayInv => SuccessesAreReal
  BY DEF GatewayInv, ToldKnows, SuccessesAreReal
<1> QED
  BY <1>1, GatewayIsSound, PTL

\* What reaches Module 1 carries the subject of a genuine token of the required
\* scope, at most the leeway past its expiry, and no answer ever shows a user what is another's.
THEOREM ServedAsTheSubject == Spec => []ServedForTheSubject
<1>1. GatewayInv => ServedForTheSubject
  BY DEF GatewayInv, RequestKnows, Admitted, Authenticated, ResourcesKnow, ServedForTheSubject
<1> QED
  BY <1>1, GatewayIsSound, PTL

\* What an MCP tool does at Module 1 it does on a token that has not expired; the
\* REST routers differ from the MCP server in nothing but the tokens that expired
\* within the leeway, and neither lacks a principal for a token the verifier
\* accepted.
THEOREM SurfacesDifferOnlyByLeeway == Spec => []SurfacesDifferByLeeway
<1>1. ASSUME GatewayInv, NEW c \in Call, request[c] # None
      PROVE  LET q     == request[c]
                 token == VerifyToken(q.token)
                 rest  == RestPrincipal(q.header, token)
                 mcp   == McpPrincipal(q.header, token) IN
             /\ wire[c] # "none" /\ q.surface # "rest" => q.token.expiry = "ahead"
             /\ rest # mcp => q.token.expiry = "leeway" /\ mcp = TurnedAway("401")
             /\ {rest.answer, mcp.answer} \subseteq {"served", "401", "403"}
  <2>1. request[c].token \in Claims
    BY <1>1, GatewayAssumption DEF GatewayInv, GatewayTypeOK, Requests
  <2>2. wire[c] # "none" /\ request[c].surface # "rest" => request[c].token.expiry = "ahead"
    BY <1>1 DEF GatewayInv, RequestKnows, Admitted, Authenticated
  <2>3. TurnedAway("401").answer = "401"
    BY DEF TurnedAway
  <2> QED
    BY <2>1, <2>2, <2>3, PrincipalIsSubject
<1>2. GatewayInv => SurfacesDifferByLeeway
  BY <1>1 DEF SurfacesDifferByLeeway
<1> QED
  BY <1>2, GatewayIsSound, PTL

\* Of a request that was carried out, and of whose outcome the caller may have
\* heard nothing, he can find all that an answer shows with the read operations;
\* starting an analysis is the exception, its identifier is in the answer alone.
THEOREM LostIsFound == Spec => []LostAnswersAreFound
<1>1. ASSUME NEW u \in Name PROVE Lasting(u) \subseteq Reachable(u)
  <2>1. ASSUME NEW op \in Lists, NEW b \in BOOLEAN PROVE ShownByList(op, u, b) \subseteq Reachable(u)
    <3>1. ShownByList(op, u, b) \in {ShownByList(o, u, a) : o \in Lists, a \in BOOLEAN}
      OBVIOUS
    <3>2. ShownByList(op, u, b) \subseteq UNION {ShownByList(o, u, a) : o \in Lists, a \in BOOLEAN}
      BY <3>1
    <3> QED
      BY <3>2 DEF Reachable
  <2>2. ASSUME NEW r \in Resource, holder[r] = u, sort[r] = "document"
        PROVE  r \in ShownByList("list_documents", u, FALSE)
    BY <2>2 DEF ShownByList
  <2>3. ASSUME NEW r \in Resource, holder[r] = u, sort[r] = "review"
        PROVE  r \in ShownByList("list_reviews", u, FALSE)
    BY <2>3 DEF ShownByList
  <2>4. ASSUME NEW r \in Resource, holder[r] = u, sort[r] = "evidence"
        PROVE  r \in ShownByList("query_registry", u, TRUE) \cup ShownByList("query_registry", u, FALSE)
    BY <2>4 DEF ShownByList
  <2>5. {"list_documents", "list_reviews", "query_registry"} \subseteq Lists
    BY DEF Lists
  <2>6. known[u] \cup {r \in Resource : sort[r] = "cv_version" /\ origin[r] \in known[u]}
          \subseteq Reachable(u)
    BY DEF Reachable
  <2> QED
    BY <2>1, <2>2, <2>3, <2>4, <2>5, <2>6 DEF Lasting
<1>2. ASSUME GatewayInv, NEW c \in Call, request[c] # None, request[c].op # "start_analysis",
             step[c] = "done", c \in done
      PROVE  reply[c].shows \subseteq Reachable(user[c])
  BY <1>1, <1>2 DEF GatewayInv, RequestKnows, ExchangeKnows, Admitted, Authenticated
<1>3. GatewayInv => LostAnswersAreFound
  BY <1>2 DEF LostAnswersAreFound, Found
<1> QED
  BY <1>3, GatewayIsSound, PTL

=============================================================================
