---------------------------- MODULE ReviewSurfaces ---------------------------
(***************************************************************************)
(* One decision handed to each of the three ways, and a second one handed  *)
(* to the tracked way under the key of the first.                          *)
(***************************************************************************)
EXTENDS ReviewDecisions, FiniteSets

CONSTANT MaxItems     \* on which a decision decides

\* A decision lists a number of items.
ASSUME ItemsAreCounted == MaxItems \in Nat

VARIABLES
  decision,    \* as the client sent it
  retry,       \* the decision it sends under the same key afterwards
  stored,      \* the tracked submission: what is sent and compared
  direct,      \* what the direct way sends
  evidence,    \* what the evidence way sends
  replay       \* how the retry is answered

vars == <<decision, retry, stored, direct, evidence, replay>>

Waiting == NoDecision("waiting")

Init ==
  /\ decision \in Decisions(MaxItems)
  /\ retry = Waiting
  /\ stored = Waiting /\ direct = Waiting /\ evidence = Waiting
  /\ replay = "waiting"

Submit ==
  /\ stored = Waiting
  /\ stored' = TrackedSubmission(decision)
  /\ UNCHANGED <<decision, retry, direct, evidence, replay>>

SubmitDirectly ==
  /\ direct = Waiting
  /\ direct' = DirectDecision(decision)
  /\ UNCHANGED <<decision, retry, stored, evidence, replay>>

SubmitEvidence ==
  /\ evidence = Waiting
  /\ evidence' = EvidenceDecision(decision)
  /\ UNCHANGED <<decision, retry, stored, direct, replay>>

\* The edits with all their texts, or all their identifiers, replaced by t.
Reworded(edits, t) == [i \in DOMAIN edits |-> [edits[i] EXCEPT !.text = t]]
Redirected(edits, t) == [i \in DOMAIN edits |-> [edits[i] EXCEPT !.id = t]]

\* d as it came, or with one of its parts another.
Variants(d) ==
  {[d EXCEPT !.action = a] : a \in Action}
    \cup {[d EXCEPT !.comment = t] : t \in TextOf(Words) \cup {NoText}}
    \cup {[d EXCEPT !.edits = Reworded(d.edits, t)] : t \in TextOf(Words)}
    \cup {[d EXCEPT !.edits = Redirected(d.edits, t)] : t \in TextOf(Id)}
    \cup {[d EXCEPT !.edits = <<>>],
          [d EXCEPT !.approved = d.rejected, !.rejected = d.approved],
          [d EXCEPT !.approved = Reverse(d.approved)]}

\* The client sends the decision again under its key, or another one, with the
\* white space it came with or without.
Retry ==
  /\ stored \notin {Waiting, Refused}
  /\ replay = "waiting"
  /\ retry' \in Variants(decision) \cup Variants(Stripped(decision))
  /\ replay' = Replay(stored, retry')
  /\ UNCHANGED <<decision, stored, direct, evidence>>

Next == Submit \/ SubmitDirectly \/ SubmitEvidence \/ Retry

Spec == Init /\ [][Next]_vars

-----------------------------------------------------------------------------
Sent(d) == d \notin {Waiting, Refused}

Fates(d, t) ==
  Cardinality({i \in DOMAIN d.approved : d.approved[i] = t})
    + Cardinality({i \in DOMAIN d.rejected : d.rejected[i] = t})
    + Cardinality({i \in DOMAIN d.edits : d.edits[i].id = t})

\* What the direct and the evidence way send decides no proposal twice, and the
\* direct way's identifiers are told apart after white space is stripped
\* (JobAnalysisReviewDecision.validate_decision,
\* EvidenceReviewDecision.validate_decisions).
OneFatePerProposal ==
  /\ Sent(direct) => \A t \in TextOf(Id) : Fates(direct, t) <= 1
  /\ Sent(evidence) => \A t \in TextOf(Id) : Fates(evidence, t) <= 1

\* What Module 1 reads in a decision.
Meaning(d) == [d EXCEPT !.comment = IF IsBlank(@) THEN NoText ELSE @]

\* A decision that both ways to an analysis accept means the same to Module 1
\* whichever it took, and the tracked way refuses none that the direct way
\* accepts but for a blank identifier (ApplicationReviewSubmission.create,
\* JobAnalysisReviewDecision).
SurfacesSendAlike ==
  Sent(direct) =>
    /\ Sent(stored) => Meaning(stored) = Meaning(direct)
    /\ stored = Refused => \E t \in Items(direct.approved \o direct.rejected) : IsBlank(t)

\* What the client asked to be done with proposal p, however it wrote its name.
Asked(d, p) ==
  {<<"approve">> : i \in {j \in DOMAIN d.approved : d.approved[j].core = p}}
    \cup {<<"reject">> : i \in {j \in DOMAIN d.rejected : d.rejected[j].core = p}}
    \cup {<<"edit", d.edits[i].text.core>> : i \in {j \in DOMAIN d.edits : d.edits[j].id.core = p}}

\* A retry answered with the result of the decision before it asked for the same
\* action, the same fate for every proposal and said the same, so that a client
\* who changed his mind under a used key is told; and a client who changed only
\* the white space is not told of a conflict (_same_review_request,
\* _normalize_proposal_ids).
RetriesAreRecognised ==
  /\ replay = "replayed" =>
       /\ retry.action = decision.action
       /\ \A p \in Id : Asked(retry, p) = Asked(decision, p)
       /\ \A w \in Words : retry.comment.core = w <=> decision.comment.core = w
  /\ replay = "conflict" => Stripped(retry) # Stripped(decision)

=============================================================================
