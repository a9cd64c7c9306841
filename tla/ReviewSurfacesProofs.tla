------------------------ MODULE ReviewSurfacesProofs ------------------------
(***************************************************************************)
(* The three ways of a decision, for any identifiers and words and any     *)
(* number of items: no proposal is decided twice where the code checks it, *)
(* the ways send the same, and a retry is told from another request.       *)
(* Every way is a function of the decision, so what it sent is what it     *)
(* makes of the decision that came (SurfacesInv); the rest are facts about *)
(* stripping and comparing, above all that stripping keeps every name and  *)
(* word (StripKeepsTexts).                                                 *)
(***************************************************************************)
EXTENDS ReviewSurfaces, FiniteSetTheorems, TLAPS

-----------------------------------------------------------------------------
(* What the ways make of a decision.                                       *)

\* A decision that came, of any length.
Incoming ==
  [action : Action,
   approved : Seq(TextOf(Id)),
   rejected : Seq(TextOf(Id)),
   edits : Seq([id : TextOf(Id), text : TextOf(Words)]),
   comment : TextOf(Words) \cup {NoText}]

SurfacesInv ==
  /\ decision \in Incoming
  /\ stored \in {Waiting, TrackedSubmission(decision)}
  /\ direct \in {Waiting, DirectDecision(decision)}
  /\ evidence \in {Waiting, EvidenceDecision(decision)}
  /\ replay # "waiting" =>
       /\ stored = TrackedSubmission(decision) /\ stored # Refused
       /\ replay = Replay(stored, retry)
       /\ retry \in Incoming

\* Every decision the model enumerates is one that may come.
LEMMA DecisionsCome == Decisions(MaxItems) \subseteq Incoming
<1>. SUFFICES ASSUME NEW d \in Decisions(MaxItems) PROVE d \in Incoming
  OBVIOUS
<1>. DEFINE Sizes == {c \in (0..MaxItems) \X (0..MaxItems) \X (0..MaxItems) :
                       c[1] + c[2] + c[3] <= MaxItems}
<1>1. PICK c \in Sizes :
        d \in [action : Action,
               approved : TupleOf(TextOf(Id), c[1]),
               rejected : TupleOf(TextOf(Id), c[2]),
               edits : TupleOf([id : TextOf(Id), text : TextOf(Words)], c[3]),
               comment : TextOf(Words) \cup {NoText}]
  BY DEF Decisions
<1>2. c[1] \in Nat /\ c[2] \in Nat /\ c[3] \in Nat
  BY ItemsAreCounted
<1>3. ASSUME NEW S, NEW n \in Nat PROVE TupleOf(S, n) \subseteq Seq(S)
  BY DEF TupleOf
<1> QED
  BY <1>1, <1>2, <1>3 DEF Incoming

\* A stripped decision is one that may come.
LEMMA StrippedIsIncoming ==
  ASSUME NEW raw \in Incoming
  PROVE  /\ Stripped(raw) \in Incoming
         /\ Stripped(raw).action = raw.action
         /\ Stripped(raw).approved = StripAll(raw.approved)
         /\ Stripped(raw).rejected = StripAll(raw.rejected)
         /\ Stripped(raw).comment = Strip(raw.comment)
<1>1. /\ \A S : \A t \in TextOf(S) : Strip(t) \in TextOf(S)
      /\ Strip(NoText) = NoText
  <2>1. ASSUME NEW S, NEW t \in TextOf(S) PROVE Strip(t) \in TextOf(S)
    BY <2>1 DEF Strip, TextOf
  <2>2. Strip(NoText) = NoText
    <3>1. NoText \in [core : {"none"}, padded : {FALSE}]
      BY DEF NoText
    <3>2. \A t \in [core : {"none"}, padded : {FALSE}] : Strip(t) = t
      BY DEF Strip
    <3> QED
      BY <3>1, <3>2
  <2> QED
    BY <2>1, <2>2
<1>2. \A s \in Seq(TextOf(Id)) : StripAll(s) \in Seq(TextOf(Id))
  BY <1>1 DEF StripAll
<1>. DEFINE Edit == [id : TextOf(Id), text : TextOf(Words)]
            tidy(e) == [id |-> Strip(e.id), text |-> Strip(e.text)]
            tidied == [i \in DOMAIN raw.edits |-> tidy(raw.edits[i])]
<1>3. tidied \in Seq(Edit)
  <2>1. \A e \in Edit : tidy(e) \in Edit
    BY <1>1
  <2>2. raw.edits \in Seq(Edit)
    BY DEF Incoming
  <2>. HIDE DEF Edit, tidy
  <2> QED
    BY <2>1, <2>2
<1>4. Strip(raw.comment) \in TextOf(Words) \cup {NoText}
  BY <1>1 DEF Incoming
<1>5. Stripped(raw) = [raw EXCEPT !.approved = StripAll(@), !.rejected = StripAll(@),
                                  !.edits = tidied, !.comment = Strip(@)]
  BY DEF Stripped
<1>. HIDE DEF tidied
<1>6. /\ Stripped(raw).action = raw.action
      /\ Stripped(raw).approved = StripAll(raw.approved)
      /\ Stripped(raw).rejected = StripAll(raw.rejected)
      /\ Stripped(raw).comment = Strip(raw.comment)
  BY <1>5 DEF Incoming
<1>7. StripAll(raw.approved) \in Seq(TextOf(Id)) /\ StripAll(raw.rejected) \in Seq(TextOf(Id))
  BY <1>2 DEF Incoming
<1>8. Stripped(raw) \in Incoming
  BY <1>3, <1>4, <1>5, <1>7 DEF Incoming
<1> QED
  BY <1>6, <1>8

\* So is one of which a part is another.
LEMMA VariantsCome ==
  ASSUME NEW d \in Incoming
  PROVE  Variants(d) \subseteq Incoming
<1>. DEFINE Edit == [id : TextOf(Id), text : TextOf(Words)]
            Edits == Seq(Edit)
<1>1. /\ d.edits \in Edits /\ d.approved \in Seq(TextOf(Id)) /\ d.rejected \in Seq(TextOf(Id))
  BY DEF Incoming
<1>2. ASSUME NEW t \in TextOf(Words) PROVE Reworded(d.edits, t) \in Edits
  <2>1. \A e \in Edit : [e EXCEPT !.text = t] \in Edit
    OBVIOUS
  <2>. HIDE DEF Edit
  <2> QED
    BY <1>1, <2>1 DEF Reworded
<1>3. ASSUME NEW t \in TextOf(Id) PROVE Redirected(d.edits, t) \in Edits
  <2>1. \A e \in Edit : [e EXCEPT !.id = t] \in Edit
    OBVIOUS
  <2>. HIDE DEF Edit
  <2> QED
    BY <1>1, <2>1 DEF Redirected
<1>4. Reverse(d.approved) \in Seq(TextOf(Id))
  BY <1>1 DEF Reverse
<1>5. /\ \A e \in Edits : [d EXCEPT !.edits = e] \in Incoming
      /\ \A a, r \in Seq(TextOf(Id)) : [d EXCEPT !.approved = a, !.rejected = r] \in Incoming
      /\ \A a \in Seq(TextOf(Id)) : [d EXCEPT !.approved = a] \in Incoming
      /\ \A a \in Action : [d EXCEPT !.action = a] \in Incoming
      /\ \A t \in TextOf(Words) \cup {NoText} : [d EXCEPT !.comment = t] \in Incoming
  BY DEF Incoming
<1>6. <<>> \in Edits
  OBVIOUS
<1>. HIDE DEF Edits
<1> QED
  BY <1>1, <1>2, <1>3, <1>4, <1>5, <1>6 DEF Variants

\* Before a way is taken nothing is known of it.
LEMMA WaysBegin == Init => SurfacesInv
BY DecisionsCome DEF Init, SurfacesInv

\* A step takes one way, from the decision that came.
LEMMA WaysKeep == SurfacesInv /\ [Next]_vars => SurfacesInv'
<1>. SUFFICES ASSUME SurfacesInv, [Next]_vars PROVE SurfacesInv'
  OBVIOUS
<1>1. CASE Submit
  BY <1>1 DEF Submit, SurfacesInv, Waiting
<1>2. CASE SubmitDirectly \/ SubmitEvidence
  BY <1>2 DEF SubmitDirectly, SubmitEvidence, SurfacesInv
<1>3. CASE Retry
  <2>1. /\ stored \notin {Waiting, Refused} /\ replay' = Replay(stored, retry')
        /\ retry' \in Variants(decision) \cup Variants(Stripped(decision))
        /\ UNCHANGED <<decision, stored, direct, evidence>>
    BY <1>3 DEF Retry
  <2>2. retry' \in Incoming
    BY <2>1, StrippedIsIncoming, VariantsCome DEF SurfacesInv
  <2> QED
    BY <2>1, <2>2 DEF SurfacesInv
<1>4. CASE UNCHANGED vars
  BY <1>4 DEF vars, SurfacesInv
<1> QED
  BY <1>1, <1>2, <1>3, <1>4 DEF Next

\* What was sent is what the way makes of the decision.
LEMMA WaysAreSound == Spec => []SurfacesInv
BY WaysBegin, WaysKeep, PTL DEF Spec

-----------------------------------------------------------------------------
(* One fate.                                                               *)

\* A text stands at most once in a list without repetition.
LEMMA PlacesOfADistinct ==
  ASSUME NEW s, NEW t, Distinct(s)
  PROVE  LET places == {i \in DOMAIN s : s[i] = t} IN
         Cardinality(places) = IF t \in Items(s) THEN 1 ELSE 0
<1>. DEFINE places == {i \in DOMAIN s : s[i] = t}
<1>1. CASE t \in Items(s)
  <2>1. PICK i \in DOMAIN s : s[i] = t
    BY <1>1 DEF Items
  <2>2. places = {i}
    BY <2>1 DEF Distinct
  <2> QED
    BY <1>1, <2>2, FS_Singleton
<1>2. CASE t \notin Items(s)
  <2>1. places = {}
    BY <1>2 DEF Items
  <2> QED
    BY <1>2, <2>1, FS_EmptySet
<1> QED
  BY <1>1, <1>2

\* Lists that share nothing decide a proposal once.
LEMMA ApartIsOneFate ==
  ASSUME NEW d, NEW t, Apart(d)
  PROVE  Fates(d, t) <= 1
<1>1. {i \in DOMAIN d.edits : d.edits[i].id = t} = {i \in DOMAIN EditIds(d) : EditIds(d)[i] = t}
  BY DEF EditIds
<1>2. /\ Distinct(d.approved) /\ Distinct(d.rejected) /\ Distinct(EditIds(d))
      /\ ~(t \in Items(d.approved) /\ t \in Items(d.rejected))
      /\ ~(t \in Items(d.approved) /\ t \in Items(EditIds(d)))
      /\ ~(t \in Items(d.rejected) /\ t \in Items(EditIds(d)))
  BY DEF Apart
<1>. DEFINE Count(s) == Cardinality({i \in DOMAIN s : s[i] = t})
<1>3. /\ Count(d.approved) = IF t \in Items(d.approved) THEN 1 ELSE 0
      /\ Count(d.rejected) = IF t \in Items(d.rejected) THEN 1 ELSE 0
      /\ Count(EditIds(d)) = IF t \in Items(EditIds(d)) THEN 1 ELSE 0
  BY <1>2, PlacesOfADistinct
<1>4. Fates(d, t) = Count(d.approved) + Count(d.rejected) + Count(EditIds(d))
  BY <1>1 DEF Fates
<1>. HIDE DEF Count
<1> QED
  BY <1>2, <1>3, <1>4

\* What the direct and the evidence way send decides no proposal twice
\* (JobAnalysisReviewDecision.validate_decision, on what its model stripped, and
\* EvidenceReviewDecision.validate_decisions).
THEOREM NoProposalHasTwoFates == Spec => []OneFatePerProposal
<1>1. SurfacesInv => OneFatePerProposal
  <2>. SUFFICES ASSUME SurfacesInv PROVE OneFatePerProposal
    OBVIOUS
  <2>1. Sent(direct) => Apart(direct)
    BY DEF SurfacesInv, Sent, DirectDecision
  <2>2. Sent(evidence) => Apart(evidence)
    BY DEF SurfacesInv, Sent, EvidenceDecision
  <2> QED
    BY <2>1, <2>2, ApartIsOneFate DEF OneFatePerProposal
<1> QED
  BY <1>1, WaysAreSound, PTL

-----------------------------------------------------------------------------
(* One meaning.                                                            *)

\* The tracked way stores what a decision means, or refuses it.
LEMMA TrackedIsMeant ==
  ASSUME NEW raw
  PROVE  TrackedSubmission(raw) \in {Meaning(Stripped(raw)), Refused}
BY DEF TrackedSubmission, Meaning

\* A decision that both ways accept means the same whichever it took, and the
\* tracked way refuses none that the direct way accepts but for a blank
\* identifier (ApplicationReviewSubmission.create, JobAnalysisReviewDecision).
THEOREM WaysSendAlike == Spec => []SurfacesSendAlike
<1>1. SurfacesInv => SurfacesSendAlike
  <2>. SUFFICES ASSUME SurfacesInv, Sent(direct)
                PROVE  /\ Sent(stored) => Meaning(stored) = Meaning(direct)
                       /\ stored = Refused =>
                            \E t \in Items(direct.approved \o direct.rejected) : IsBlank(t)
    BY DEF SurfacesSendAlike
  <2>. DEFINE d == Stripped(decision)
  <2>1. /\ direct = d /\ Apart(d)
        /\ \A e \in Items(d.edits) : ~IsBlank(e.id) /\ ~IsBlank(e.text)
    BY DEF SurfacesInv, Sent, DirectDecision
  <2>2. /\ d.action \in Action /\ d.approved \in Seq(TextOf(Id)) /\ d.rejected \in Seq(TextOf(Id))
        /\ DOMAIN d = {"action", "approved", "rejected", "edits", "comment"}
    <3>1. d \in Incoming
      BY StrippedIsIncoming DEF SurfacesInv
    <3>. HIDE DEF d
    <3> QED
      BY <3>1 DEF Incoming
  <2>3. Sent(stored) => Meaning(stored) = Meaning(direct)
    <3>1. Sent(stored) => stored = Meaning(d)
      BY TrackedIsMeant DEF SurfacesInv, Sent
    <3>2. Meaning(Meaning(d)) = Meaning(d)
      <4>. HIDE DEF d
      <4> QED
        BY <2>2 DEF Meaning, IsBlank, NoText, Blank
    <3> QED
      BY <2>1, <3>1, <3>2
  <2>4. ASSUME stored = Refused
        PROVE  \E t \in Items(d.approved) \cup Items(d.rejected) : IsBlank(t)
    <3>1. Meaning(d) # Refused
      <4>1. Meaning(d).action = d.action
        BY <2>2 DEF Meaning
      <4> QED
        BY <2>2, <4>1 DEF Refused, NoDecision, Action
    <3>2. Waiting # Refused
      BY DEF Waiting, Refused, NoDecision
    <3>3. TrackedSubmission(decision) = Refused
      BY <2>4, <3>2 DEF SurfacesInv
    <3> QED
      BY <2>1, <3>1, <3>3 DEF TrackedSubmission, Meaning, Apart
  <2>5. Items(d.approved) \cup Items(d.rejected) \subseteq Items(d.approved \o d.rejected)
    <3>. DEFINE a == d.approved
                r == d.rejected
    <3>1. a \in Seq(TextOf(Id)) /\ r \in Seq(TextOf(Id))
      BY <2>2
    <3>. HIDE DEF a, r
    <3>2. /\ \A i \in DOMAIN a : i \in DOMAIN (a \o r) /\ (a \o r)[i] = a[i]
          /\ \A i \in DOMAIN r : Len(a) + i \in DOMAIN (a \o r) /\ (a \o r)[Len(a) + i] = r[i]
      BY <3>1
    <3>3. Items(a) \cup Items(r) \subseteq Items(a \o r)
      BY <3>2 DEF Items
    <3> QED
      BY <3>3 DEF a, r
  <2> QED
    BY <2>1, <2>3, <2>4, <2>5
<1> QED
  BY <1>1, WaysAreSound, PTL

-----------------------------------------------------------------------------
(* One request.                                                            *)

\* Lists that are the same without white space name and say the same.
LEMMA StripKeepsTexts ==
  ASSUME NEW S, NEW a \in Seq(TextOf(S)), NEW b \in Seq(TextOf(S)), StripAll(a) = StripAll(b)
  PROVE  /\ DOMAIN a = DOMAIN b
         /\ \A i \in DOMAIN a : a[i].core = b[i].core
<1>1. DOMAIN a = DOMAIN b
  BY DEF StripAll
<1>2. ASSUME NEW i \in DOMAIN a PROVE a[i].core = b[i].core
  <2>1. a[i] \in TextOf(S) /\ b[i] \in TextOf(S)
    BY <1>1, <1>2
  <2>2. Strip(a[i]) = Strip(b[i])
    BY <1>1, <1>2 DEF StripAll
  <2> QED
    BY <2>1, <2>2 DEF Strip, TextOf
<1> QED
  BY <1>1, <1>2

\* And so do edits.
LEMMA StrippedEdits ==
  ASSUME NEW d \in Incoming, NEW e \in Incoming, Stripped(d).edits = Stripped(e).edits
  PROVE  /\ DOMAIN d.edits = DOMAIN e.edits
         /\ \A i \in DOMAIN d.edits : /\ d.edits[i].id.core = e.edits[i].id.core
                                       /\ d.edits[i].text.core = e.edits[i].text.core
<1>. DEFINE Tidy(s) == [i \in DOMAIN s |-> [id |-> Strip(s[i].id), text |-> Strip(s[i].text)]]
<1>1. Stripped(d).edits = Tidy(d.edits) /\ Stripped(e).edits = Tidy(e.edits)
  BY DEF Stripped, Incoming
<1>2. DOMAIN d.edits = DOMAIN e.edits
  BY <1>1
<1>3. ASSUME NEW i \in DOMAIN d.edits
      PROVE  /\ d.edits[i].id.core = e.edits[i].id.core
             /\ d.edits[i].text.core = e.edits[i].text.core
  <2>1. /\ d.edits[i] \in [id : TextOf(Id), text : TextOf(Words)]
        /\ e.edits[i] \in [id : TextOf(Id), text : TextOf(Words)]
    <3>. DEFINE Edit == [id : TextOf(Id), text : TextOf(Words)]
    <3>1. d.edits \in Seq(Edit) /\ e.edits \in Seq(Edit)
      BY DEF Incoming
    <3>. HIDE DEF Edit
    <3>2. d.edits[i] \in Edit /\ e.edits[i] \in Edit
      BY <1>2, <1>3, <3>1
    <3> QED
      BY <3>2 DEF Edit
  <2>2. Tidy(d.edits)[i] = Tidy(e.edits)[i]
    BY <1>1
  <2>3. Strip(d.edits[i].id) = Strip(e.edits[i].id) /\ Strip(d.edits[i].text) = Strip(e.edits[i].text)
    BY <1>2, <1>3, <2>2
  <2> QED
    BY <2>1, <2>3 DEF Strip, TextOf
<1> QED
  BY <1>2, <1>3

\* Decisions that are stored alike ask for the same.
LEMMA StoredAlikeAsksAlike ==
  ASSUME NEW d \in Incoming, NEW e \in Incoming,
         SameReviewRequest(Meaning(Stripped(d)), Meaning(Stripped(e)))
  PROVE  /\ d.action = e.action
         /\ \A p \in Id : Asked(d, p) = Asked(e, p)
         /\ \A w \in Words : d.comment.core = w <=> e.comment.core = w
<1>. DEFINE said(c) == IF IsBlank(Strip(c)) THEN NoText ELSE Strip(c)
<1>1. ASSUME NEW x \in Incoming
      PROVE  LET m == Meaning(Stripped(x)) IN
             /\ m.action = x.action
             /\ m.approved = StripAll(x.approved) /\ m.rejected = StripAll(x.rejected)
             /\ m.edits = Stripped(x).edits
             /\ m.comment = said(x.comment)
  <2>. DEFINE s == Stripped(x)
  <2>1. /\ s \in Incoming /\ s.action = x.action /\ s.comment = Strip(x.comment)
        /\ s.approved = StripAll(x.approved) /\ s.rejected = StripAll(x.rejected)
    BY <1>1, StrippedIsIncoming
  <2>. HIDE DEF s
  <2>2. /\ Meaning(s).action = s.action /\ Meaning(s).approved = s.approved
        /\ Meaning(s).rejected = s.rejected /\ Meaning(s).edits = s.edits
        /\ Meaning(s).comment = IF IsBlank(s.comment) THEN NoText ELSE s.comment
    BY <2>1 DEF Meaning, Incoming
  <2> QED
    BY <2>1, <2>2 DEF s
<1>2. /\ d.action = e.action
      /\ StripAll(d.approved) = StripAll(e.approved) /\ StripAll(d.rejected) = StripAll(e.rejected)
      /\ Stripped(d).edits = Stripped(e).edits
      /\ said(d.comment) = said(e.comment)
  BY <1>1 DEF SameReviewRequest
<1>3. /\ d.approved \in Seq(TextOf(Id)) /\ e.approved \in Seq(TextOf(Id))
      /\ d.rejected \in Seq(TextOf(Id)) /\ e.rejected \in Seq(TextOf(Id))
      /\ d.comment \in TextOf(Words) \cup {NoText} /\ e.comment \in TextOf(Words) \cup {NoText}
  BY DEF Incoming
<1>4. ASSUME NEW p \in Id PROVE Asked(d, p) = Asked(e, p)
  <2>1. {j \in DOMAIN d.approved : d.approved[j].core = p}
          = {j \in DOMAIN e.approved : e.approved[j].core = p}
    BY <1>2, <1>3, StripKeepsTexts
  <2>2. {j \in DOMAIN d.rejected : d.rejected[j].core = p}
          = {j \in DOMAIN e.rejected : e.rejected[j].core = p}
    BY <1>2, <1>3, StripKeepsTexts
  <2>3. /\ {j \in DOMAIN d.edits : d.edits[j].id.core = p}
             = {j \in DOMAIN e.edits : e.edits[j].id.core = p}
        /\ \A i \in DOMAIN d.edits : d.edits[i].text.core = e.edits[i].text.core
    BY <1>2, StrippedEdits
  <2> QED
    BY <2>1, <2>2, <2>3 DEF Asked
<1>5. ASSUME NEW w \in Words PROVE d.comment.core = w <=> e.comment.core = w
  <2>1. \A c \in TextOf(Words) \cup {NoText} :
          /\ said(c).core = IF c.core = Blank THEN "none" ELSE c.core
          /\ c.core # Blank => said(c) = [core |-> c.core, padded |-> FALSE]
          /\ c.core = Blank => said(c) = NoText
    BY DEF IsBlank, Strip, NoText, TextOf
  <2>2. w # Blank /\ w # "none"
    BY SilenceIsNoWord DEF NoText
  <2>. HIDE DEF said
  <2> QED
    BY <1>2, <1>3, <2>1, <2>2
<1> QED
  BY <1>2, <1>4, <1>5

\* A retry that is replayed asks for what was asked before, and one that differs in
\* white space alone is no conflict, whatever lists, edits and comments the two hold
\* (_same_review_request, _normalize_proposal_ids).
THEOREM RetriesAreTold == Spec => []RetriesAreRecognised
<1>1. SurfacesInv => RetriesAreRecognised
  <2>. SUFFICES ASSUME SurfacesInv, replay # "waiting" PROVE RetriesAreRecognised
    BY DEF RetriesAreRecognised
  <2>1. /\ stored = TrackedSubmission(decision) /\ stored # Refused
        /\ replay = Replay(stored, retry)
        /\ decision \in Incoming /\ retry \in Incoming
    BY DEF SurfacesInv
  <2>2. stored = Meaning(Stripped(decision))
    BY <2>1, TrackedIsMeant
  <2>3. ASSUME replay = "replayed"
        PROVE  /\ retry.action = decision.action
               /\ \A p \in Id : Asked(retry, p) = Asked(decision, p)
               /\ \A w \in Words : retry.comment.core = w <=> decision.comment.core = w
    <3>1. TrackedSubmission(retry) = Meaning(Stripped(retry))
      BY <2>1, <2>3, TrackedIsMeant DEF Replay
    <3>2. SameReviewRequest(Meaning(Stripped(decision)), Meaning(Stripped(retry)))
      BY <2>1, <2>2, <2>3, <3>1 DEF Replay
    <3> QED
      BY <2>1, <3>2, StoredAlikeAsksAlike
  <2>4. ASSUME replay = "conflict" PROVE Stripped(retry) # Stripped(decision)
    <3>1. SUFFICES ASSUME Stripped(retry) = Stripped(decision) PROVE FALSE
      OBVIOUS
    <3>2. TrackedSubmission(retry) = Meaning(Stripped(retry))
      BY <2>1, <2>4, TrackedIsMeant DEF Replay
    <3> QED
      BY <2>1, <2>2, <2>4, <3>1, <3>2 DEF Replay, SameReviewRequest
  <2> QED
    BY <2>3, <2>4 DEF RetriesAreRecognised
<1> QED
  BY <1>1, WaysAreSound, PTL

=============================================================================
