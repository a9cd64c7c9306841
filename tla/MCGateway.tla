------------------------------ MODULE MCGateway -----------------------------
(***************************************************************************)
(* Instances of the gateway.                                               *)
(***************************************************************************)
EXTENDS GatewayProperties, TLC

Plain(name) == [core |-> name, padded |-> FALSE]
ScopesOf(S) == [form |-> "string", items |-> S]

\* A token of user u for the client n8n.
TokenOf(u) ==
  [genuine |-> TRUE, numeric_exp |-> TRUE, expiry |-> "ahead", sub |-> [core |-> u, padded |-> TRUE],
   client_id |-> NoText(Missing), azp |-> Plain("n8n"),
   scope |-> ScopesOf({RequiredScope}), scp |-> ScopesOf({})]

AliceAndBob == {TokenOf("alice"), TokenOf("bob")}

\* With one of too little scope, one that is not genuine, one for nobody, one that
\* expired a moment ago and one that did so earlier.
AllTokens ==
  AliceAndBob \cup {[TokenOf("bob") EXCEPT !.scope = ScopesOf({OtherScope})],
                   [TokenOf("bob") EXCEPT !.genuine = FALSE],
                   [TokenOf("bob") EXCEPT !.expiry = "leeway"],
                   [TokenOf("bob") EXCEPT !.expiry = "past"],
                   [TokenOf("bob") EXCEPT !.sub = [core |-> Blank, padded |-> TRUE]]}

\* One operation of each kind, and every one that changes what Module 1 keeps.
Ops ==
  {"query_registry", "create_text_source", "start_review", "submit_review",
   "archive_evidence", "restore_evidence", "start_analysis", "recover_analysis",
   "review_analysis", "generate_final_cv"}

MCSymmetry == Permutations(Resource)
=============================================================================
