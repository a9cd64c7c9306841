---------------------------- MODULE EngineAnswers ---------------------------
(***************************************************************************)
(* What becomes of an answer of the Agent Engine: the exception            *)
(* HttpAgentEngineClient raises for it, the status a REST caller is given, *)
(* and what the tracked services record of it.                             *)
(***************************************************************************)
EXTENDS Integers

\* Beside what was received, if anything: the status code and whether the body
\* is what the operation's response contract asks for (JSON, the schema; for
\* an artifact the media type, the disposition, some content), and speaks of
\* the job and the thread the request was about.
Body == {"valid", "miscorrelated", "off_contract"}
Code == {200, 201, 307, 400, 401, 403, 404, 409, 422, 429, 500, 503}
Answer == [got : {"response", "timeout", "no_connection"}, code : Code, body : Body]

NoError == "ok"
Error == {"Authentication", "NotFound", "AnalysisNotFound", "Conflict",
          "Validation", "Unavailable", "Contract", "Request"}

\* Mutant: a redirect is a success.
IsSuccessBelow400(a) == a.got = "response" /\ a.code < 400

IsSuccess(a) == a.got = "response" /\ a.code \in 200..299

\* Mutant: a 5xx is an unexpected status like others.
RaisedForStatusNo5xx(code, notFound) ==
  CASE code \in {401, 403} -> "Authentication"
    [] code = 404          -> notFound
    [] code = 409          -> "Conflict"
    [] code = 422          -> "Validation"
    [] OTHER               -> "Request"

\* notFound is the exception the operation asks for on a 404.
RaisedForStatus(code, notFound) ==
  CASE code \in {401, 403} -> "Authentication"
    [] code = 404          -> notFound
    [] code = 409          -> "Conflict"
    [] code = 422          -> "Validation"
    [] code >= 500         -> "Unavailable"
    [] OTHER               -> "Request"

\* _request, then _request_json or the checks of an artifact.
Raised(a, notFound) ==
  IF a.got # "response" THEN "Unavailable"
  ELSE IF ~IsSuccess(a) THEN RaisedForStatus(a.code, notFound)
  ELSE IF a.body = "off_contract" THEN "Contract"
  ELSE NoError

\* The exception handlers of the HTTP application.
RestStatus(error) ==
  CASE error \in {"NotFound", "AnalysisNotFound"}             -> "404"
    [] error = "Conflict"                                     -> "409"
    [] error = "Validation"                                   -> "422"
    [] error = "Unavailable"                                  -> "503"
    [] error \in {"Authentication", "Contract", "Request"}    -> "502"
    [] OTHER                                                  -> "ok"

\* The except clauses of PrepareApplicationService and ReviewApplicationService,
\* after the check that the answer is about the job and the thread asked for.
Recorded(a, error) ==
  CASE error = NoError /\ a.body # "miscorrelated" -> "recorded"
    [] error \in {"Authentication", "Validation", "AnalysisNotFound", "Request"} -> "failed"
    [] OTHER -> "outcome_unknown"

=============================================================================
