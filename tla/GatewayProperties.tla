-------------------------- MODULE GatewayProperties -------------------------
(***************************************************************************)
(* What the callers of the gateway rely on.                                *)
(***************************************************************************)
EXTENDS Gateway

\* The answers that tell a caller the request was turned down.
Refusals ==
  {"401", "403", "404", "409", "413", "422", "invalid_arguments", "failed"}
    \cup (Error \ {"Unavailable", "Contract"})

\* Silence is told from every answer.
ASSUME NoneIsNoAnswer == None \notin Refusals \cup {"ok", "recorded"}

\* A caller told that the request was turned down may ask again: Module 1 did
\* not carry it out and never will (http_client._raise_for_agent_engine_error,
\* the handlers of api/app.py, the services' record of a failure).
RefusalsAreFinal ==
  \A c \in Call : told[c] \in Refusals => c \notin done /\ wire[c] # "in_flight"

\* A caller told of success is told the truth: Module 1 carried the request out
\* (http_client._request, _request_json).
SuccessesAreReal ==
  \A c \in Call : Succeeded(told[c]) => c \in done

\* Module 1 acts only on genuine tokens of the required scope that are not long
\* past their expiry, for their subject, and shows him only what is his
\* (get_principal of the routers, AccessTokenPrincipalProvider, the X-User-ID header).
ServedForTheSubject ==
  /\ \A c \in Call :
       wire[c] # "none" =>
         LET token == request[c].token IN
         /\ token.genuine /\ token.expiry # "past"
         /\ RequiredScope \in ExtractScopes(token)
         /\ user[c] = Strip(token.sub).core
  /\ \A u \in Name : \A r \in known[u] : holder[r] = u

\* No MCP tool acts on a token that has expired, although the verifier accepts it
\* for 30 seconds more and the routers then serve it (leeway and expires_at of
\* jwt_verifier.verify_token).  That is all the surfaces differ in: a token that
\* has not expired is good for the same user, or bad, on both, and neither fails
\* for want of a principal (the routers' get_principal, AccessTokenPrincipalProvider).
SurfacesDifferByLeeway ==
  \A c \in Call :
    request[c] # None =>
      LET q     == request[c]
          token == VerifyToken(q.token)
          rest  == RestPrincipal(q.header, token)
          mcp   == McpPrincipal(q.header, token) IN
      /\ wire[c] # "none" /\ q.surface # "rest" => q.token.expiry = "ahead"
      /\ rest # mcp => q.token.expiry = "leeway" /\ mcp = TurnedAway("401")
      /\ {rest.answer, mcp.answer} \subseteq {"served", "401", "403"}

\* What user u can still find: what answers showed him, what the lists show,
\* and the CVs that generating again from an analysis he knows returns.
Reachable(u) ==
  known[u]
    \cup {r \in Resource : sort[r] = "cv_version" /\ origin[r] \in known[u]}
    \cup UNION {ShownByList(op, u, b) : op \in Lists, b \in BOOLEAN}

Found(c) == step[c] = "done" /\ c \in done => reply[c].shows \subseteq Reachable(user[c])

\* Whatever a request made that its caller was not told of, he can find with
\* the read operations (docs/MODULE_2_API_CONTRACT.md section 7).
LostAnswersAreFound ==
  \A c \in Call : request[c] # None /\ request[c].op # "start_analysis" => Found(c)

=============================================================================
