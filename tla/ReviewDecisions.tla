--------------------------- MODULE ReviewDecisions ---------------------------
(***************************************************************************)
(* A human decision on proposals on its way to Module 1, by three ways:    *)
(*   tracked   review_application: ApplicationReviewEdit and               *)
(*             ApplicationReviewSubmission.create normalise it, the stored *)
(*             submission is what is sent;                                 *)
(*   direct    review_job_analysis: JobAnalysisReviewDecision, stripped by *)
(*             its model, then validated;                                  *)
(*   evidence  submit_evidence_review: EvidenceReviewDecision, validated   *)
(*             as it comes.                                                *)
(*                                                                         *)
(* A text is kept as its core and whether white space surrounds it.  What  *)
(* an edit changes is one text; length limits are left out.                *)
(***************************************************************************)
EXTENDS Naturals, Sequences, SequencesExt

CONSTANTS Id, Words

Blank == "blank"
NoText == [core |-> "none", padded |-> FALSE]

\* What is said is neither blank nor nothing.
ASSUME SilenceIsNoWord == Words \cap {Blank, NoText.core} = {}

TextOf(cores) == [core : cores \cup {Blank}, padded : BOOLEAN]

Action == {"approve", "edit", "reject", "regenerate"}

\* On at most n items.
Decisions(n) ==
  UNION {[action : Action,
          approved : TupleOf(TextOf(Id), sizes[1]),
          rejected : TupleOf(TextOf(Id), sizes[2]),
          edits : TupleOf([id : TextOf(Id), text : TextOf(Words)], sizes[3]),
          comment : TextOf(Words) \cup {NoText}] :
         sizes \in {c \in (0..n) \X (0..n) \X (0..n) : c[1] + c[2] + c[3] <= n}}

Strip(t) == [t EXCEPT !.padded = FALSE]
StripAll(texts) == [i \in DOMAIN texts |-> Strip(texts[i])]
IsBlank(t) == t.core = Blank

Distinct(s) == \A i, j \in DOMAIN s : s[i] = s[j] => i = j
Items(s) == {s[i] : i \in DOMAIN s}
EditIds(d) == [i \in DOMAIN d.edits |-> d.edits[i].id]

NoDecision(why) ==
  [action |-> why, approved |-> <<>>, rejected |-> <<>>, edits |-> <<>>, comment |-> NoText]
Refused == NoDecision("refused")

-----------------------------------------------------------------------------
(* The tracked way.                                                        *)

\* ApplicationReviewEdit.__post_init__, then create with
\* _normalize_proposal_ids.
Stripped(d) ==
  [d EXCEPT !.approved = StripAll(@),
            !.rejected = StripAll(@),
            !.edits = [i \in DOMAIN @ |-> [id |-> Strip(@[i].id), text |-> Strip(@[i].text)]],
            !.comment = Strip(@)]

\* Mutant: the comment is stored as it came.
TrackedSubmissionKeepsComment(raw) ==
  LET d == Stripped(raw) IN
  IF /\ \A t \in Items(d.approved) \cup Items(d.rejected) : ~IsBlank(t)
     /\ \A e \in Items(d.edits) : ~IsBlank(e.id) /\ ~IsBlank(e.text)
     /\ Distinct(d.approved) /\ Distinct(d.rejected) /\ Distinct(EditIds(d))
  THEN [d EXCEPT !.comment = raw.comment]
  ELSE Refused

TrackedSubmission(raw) ==
  LET d == Stripped(raw) IN
  IF /\ \A t \in Items(d.approved) \cup Items(d.rejected) : ~IsBlank(t)
     /\ \A e \in Items(d.edits) : ~IsBlank(e.id) /\ ~IsBlank(e.text)
     /\ Distinct(d.approved) /\ Distinct(d.rejected) /\ Distinct(EditIds(d))
  THEN [d EXCEPT !.comment = IF IsBlank(@) THEN NoText ELSE @]
  ELSE Refused

\* Mutant: the edits are not compared.
SameReviewRequestWithoutEdits(existing, candidate) ==
  /\ existing.action = candidate.action
  /\ existing.approved = candidate.approved
  /\ existing.rejected = candidate.rejected
  /\ existing.comment = candidate.comment

\* The application, user and thread, which it compares as well, are the same here.
SameReviewRequest(existing, candidate) ==
  /\ existing.action = candidate.action
  /\ existing.approved = candidate.approved
  /\ existing.rejected = candidate.rejected
  /\ existing.edits = candidate.edits
  /\ existing.comment = candidate.comment

\* _build_replay_result: a call with a used key.
Replay(existing, raw) ==
  LET candidate == TrackedSubmission(raw) IN
  IF candidate = Refused THEN "refused"
  ELSE IF SameReviewRequest(existing, candidate) THEN "replayed"
  ELSE "conflict"

-----------------------------------------------------------------------------
(* The direct way.                                                         *)

Apart(d) ==
  LET approved == Items(d.approved)
      rejected == Items(d.rejected)
      edited   == Items(EditIds(d)) IN
  /\ Distinct(d.approved) /\ Distinct(d.rejected) /\ Distinct(EditIds(d))
  /\ approved \cap rejected = {}
  /\ approved \cap edited = {}
  /\ rejected \cap edited = {}

\* A comment is truthy.
Said(comment) == comment # NoText /\ ~(IsBlank(comment) /\ ~comment.padded)

ActionFits(d) ==
  CASE d.action = "approve" -> d.approved # <<>> /\ d.edits = <<>>
    [] d.action = "edit"    -> d.edits # <<>>
    [] d.action = "reject"  -> d.rejected # <<>> /\ d.approved = <<>> /\ d.edits = <<>>
    [] d.action = "regenerate" ->
         d.approved = <<>> /\ d.edits = <<>> /\ (d.rejected # <<>> \/ Said(d.comment))

\* Mutant: validated before it is stripped.
DirectDecisionValidatedRaw(raw) ==
  IF /\ \A e \in Items(raw.edits) : ~IsBlank(e.id) /\ ~IsBlank(e.text)
     /\ Apart(raw)
     /\ ActionFits(raw)
  THEN Stripped(raw)
  ELSE Refused

\* JobAnalysisReviewDecision: stripped, edits of some length, then
\* validate_decision.
DirectDecision(raw) ==
  LET d == Stripped(raw) IN
  IF /\ \A e \in Items(d.edits) : ~IsBlank(e.id) /\ ~IsBlank(e.text)
     /\ Apart(d)
     /\ ActionFits(d)
  THEN d
  ELSE Refused

-----------------------------------------------------------------------------
(* The evidence way: no action; an edit that changes something.            *)

Empty(t) == IsBlank(t) /\ ~t.padded

\* Mutant: each kind of decision is looked at on its own.
EvidenceDecisionKindwise(raw) ==
  IF /\ \A e \in Items(raw.edits) : ~Empty(e.id) /\ ~Empty(e.text)
     /\ Distinct(raw.approved) /\ Distinct(raw.rejected) /\ Distinct(EditIds(raw))
     /\ raw.approved \o raw.rejected \o EditIds(raw) # <<>>
  THEN raw
  ELSE Refused

\* EvidenceReviewDecision.validate_decisions, EvidenceProposalEdit.
EvidenceDecision(raw) ==
  IF /\ \A e \in Items(raw.edits) : ~Empty(e.id) /\ ~Empty(e.text)
     /\ Apart(raw)
     /\ raw.approved \o raw.rejected \o EditIds(raw) # <<>>
  THEN raw
  ELSE Refused

=============================================================================
