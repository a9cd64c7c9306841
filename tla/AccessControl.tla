---------------------------- MODULE AccessControl ---------------------------
(***************************************************************************)
(* Who a request acts for.  A bearer token is verified by JwtTokenVerifier; *)
(* the REST routers and the MCP server then establish the principal, each  *)
(* by code of its own.                                                     *)
(*                                                                         *)
(* A text claim is kept as what strip() tells apart: its core and whether  *)
(* white space surrounds it.  A scope claim is its form (a string to be    *)
(* split, a list, something else, nothing) and the scopes it names.  Time  *)
(* is kept as what two checks tell apart: a token is presented before its  *)
(* exp ("ahead"), within the verifier's leeway after it, or later.         *)
(***************************************************************************)
CONSTANTS Name, RequiredScope, OtherScope

Blank == "blank"
NotText == "not_text"
Missing == "missing"

Texts == [core : Name \cup {Blank}, padded : BOOLEAN]
NoText(why) == [core |-> why, padded |-> FALSE]
TextClaims == Texts \cup {NoText(NotText), NoText(Missing)}
ScopeClaims == [form : {"string", "list", "other", "missing"},
                items : SUBSET {RequiredScope, OtherScope}]

\* genuine: signed by the resolved key, issuer and audience as required, no
\* required claim missing (jwt.decode); numeric_exp: exp a number.
Claims == [genuine : BOOLEAN, numeric_exp : BOOLEAN,
           expiry : {"ahead", "leeway", "past"},
           sub : TextClaims, client_id : TextClaims, azp : TextClaims,
           scope : ScopeClaims, scp : ScopeClaims]

Strip(t) == [t EXCEPT !.padded = FALSE]
IsText(t) == t.core \notin {NotText, Missing}
IsBlank(t) == t.core = Blank

-----------------------------------------------------------------------------
(* The verifier.                                                           *)

\* expired: the access token's expires_at, compared with the clock.
Refused ==
  [client |-> NoText(Missing), subject |-> NoText(Missing), scopes |-> {}, expired |-> FALSE]

\* Absent or empty, the result is no client; azp only stands in for a client_id
\* that is missing.
ExtractClientId(claims) ==
  LET raw == IF claims.client_id.core = Missing THEN claims.azp ELSE claims.client_id
  IN  IF IsText(raw) /\ ~IsBlank(raw) THEN Strip(raw) ELSE NoText(Missing)

ExtractScopes(claims) ==
  LET raw == IF claims.scope.form = "missing" THEN claims.scp ELSE claims.scope
  IN  IF raw.form \in {"string", "list"} THEN raw.items ELSE {}

Accepted(claims) ==
  /\ claims.genuine
  /\ claims.expiry # "past"                \* jwt.decode with leeway=30
  /\ IsText(claims.sub)
  /\ ~IsBlank(claims.sub)
  /\ ExtractClientId(claims).core # Missing
  /\ claims.numeric_exp

\* Mutant: the access token carries no expires_at, so nobody looks at it again.
VerifyTokenWithoutExpiry(claims) ==
  IF Accepted(claims)
  THEN [client |-> ExtractClientId(claims), subject |-> Strip(claims.sub),
        scopes |-> ExtractScopes(claims), expired |-> FALSE]
  ELSE Refused

VerifyToken(claims) ==
  IF Accepted(claims)
  THEN [client |-> ExtractClientId(claims), subject |-> Strip(claims.sub),
        scopes |-> ExtractScopes(claims), expired |-> claims.expiry = "leeway"]
  ELSE Refused

-----------------------------------------------------------------------------
(* The two surfaces: the user they serve, or the answer they refuse with.  *)

Served(user) == [answer |-> "served", user |-> user]
TurnedAway(answer) == [answer |-> answer, user |-> Missing]

\* Principal.__post_init__ strips both names and raises on a blank one.
Principal(user, actor, onBlank) ==
  IF IsBlank(user) \/ IsBlank(actor) THEN TurnedAway(onBlank)
  ELSE Served(Strip(user).core)

\* Mutant: the routers serve the client.
RestPrincipalOfClient(header, token) ==
  IF header # "bearer" \/ token.subject.core = Missing THEN TurnedAway("401")
  ELSE IF RequiredScope \notin token.scopes THEN TurnedAway("403")
  ELSE Principal(token.client, token.subject, "500")

\* get_principal of the evidence and of the job and CV routers, which do not look
\* at expires_at.  The ValueError of a blank principal has no handler.
RestPrincipal(header, token) ==
  IF header # "bearer" \/ token.subject.core = Missing THEN TurnedAway("401")
  ELSE IF RequiredScope \notin token.scopes THEN TurnedAway("403")
  ELSE Principal(token.subject, token.client, "500")

\* The bearer backend of the MCP library (external) has the token verified, and
\* by expires_at, without leeway, refuses one that has expired; then it requires
\* the scope.  AccessTokenPrincipalProvider names the principal of a tool call.
McpPrincipal(header, token) ==
  IF header # "bearer" \/ token.subject.core = Missing \/ token.expired THEN TurnedAway("401")
  ELSE IF RequiredScope \notin token.scopes THEN TurnedAway("403")
  ELSE Principal(token.subject, token.client, "unavailable")

=============================================================================
