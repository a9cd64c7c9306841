------------------------- MODULE HubLifecycleProofs -------------------------
(***************************************************************************)
(* What the tables of the hub tell of one another, for any sets of calls,  *)
(* keys and applications: the review actions and the submissions agree     *)
(* with the preparation (RowsInv), and, as long as no client sets a status *)
(* itself, so do the application and its events (LifecycleInv).  What the  *)
(* clients of the hub rely on (HubInv), and what remains of it when the    *)
(* reviews of its threads are decided beside it (DirectInv).               *)
(***************************************************************************)
EXTENDS HubEngineProofs, DirectReviews, FiniteSetTheorems

USE DEF Call

-----------------------------------------------------------------------------
(* The rows of a review.                                                   *)

\* Neither a new preparation nor one that a step leaves alone has anything to
\* do with the review rows.
LEMMA QuietKeepsRows ==
  ASSUME RowsInv, UNCHANGED reviewActions,
         \A k \in Key : HasStatus(k, "completed") \/ HasStatus(k, "completed")' =>
           submission'[k] = submission[k],
         \A a \in App :
           \/ preparation'[a].status = preparation[a].status
           \/ /\ preparation[a].status \notin ThreadStatus
              /\ preparation'[a].status \notin ThreadStatus
  PROVE  RowsInv'
<1>1. \A a \in App : FinishedReviews(a)' = FinishedReviews(a)
  BY DEF FinishedReviews, HasStatus
<1>2. ASSUME NEW a \in App PROVE ReviewRowsKnow(a)'
  BY <1>1 DEF RowsInv, ReviewRowsKnow, ThreadStatus
<1> QED
  BY <1>2 DEF RowsInv

\* The INSERT of a submission, which nothing has finished yet.
LEMMA ReviewAddKeepsRows ==
  ASSUME EngineInv, RowsInv, NEW c \in ReviewCall, InsertsSubmission(c)
  PROVE  RowsInv'
<1>1. /\ submission[arg[c].key] = None
      /\ \A k \in Key \ {arg[c].key} : submission'[k] = submission[k]
      /\ arg[c].key \in Key => submission'[arg[c].key].status = "submitting"
  BY DEF InsertsSubmission, EngineInv, CallsInv, TypeInv, TypeOK, StoreTypeOK
<1>2. UNCHANGED preparation /\ UNCHANGED reviewActions
  BY DEF InsertsSubmission
<1> QED
  BY <1>1, <1>2, QuietKeepsRows DEF HasStatus

\* A new preparation, which waits for no review.
LEMMA PrepareAddKeepsRows ==
  ASSUME EngineInv, RowsInv, NEW c \in PrepareCall, InsertsPreparation(c)
  PROVE  RowsInv'
<1>1. arg[c].app \in App
  BY Begun DEF InsertsPreparation, EngineInv, CallsInv
<1>2. preparation[arg[c].app].status = Absent
  BY <1>1, StatusOfPrepared DEF InsertsPreparation
<1>3. /\ UNCHANGED submission /\ UNCHANGED reviewActions
      /\ preparation'[arg[c].app].status = "starting"
      /\ \A b \in App \ {arg[c].app} : preparation'[b] = preparation[b]
  BY <1>1 DEF InsertsPreparation, EngineInv, CallsInv, TypeInv, TypeOK, StoreTypeOK
<1> QED
  BY <1>2, <1>3, QuietKeepsRows DEF ThreadStatus, Absent

\* An analysis that waits for a review gets its one review action.
LEMMA PrepareSaveKeepsRows ==
  ASSUME EngineInv, RowsInv, NEW c \in PrepareCall, NEW a \in App, arg[c].app = a, SavesPreparation(c)
  PROVE  RowsInv'
<1>1. /\ c \in Call /\ verdict[c] \in Verdict
      /\ preparation[a].status = "starting"
  BY Begun DEF SavesPreparation, OwnerPC, ConcludedPC, EngineInv, CallsInv, TypeInv, VerdictGiven,
     RecordInv, OwnerKnows
<1>2. /\ UNCHANGED submission /\ preparation'[a].status = verdict[c]
      /\ \A b \in App \ {a} : preparation'[b] = preparation[b]
  BY <1>1 DEF SavesPreparation, EngineInv, CallsInv, TypeInv, TypeOK, StoreTypeOK
<1>3. reviewActions[a] = <<>> /\ FinishedReviews(a) = {}
  BY <1>1 DEF RowsInv, ReviewRowsKnow
<1>4. CASE verdict[c] = "awaiting_review"
  <2>1. PendingActions(a) = {}
    BY <1>3 DEF PendingActions
  <2>2. reviewActions' = [reviewActions EXCEPT ![a] = Append(@, "pending")]
    BY <1>4, <2>1 DEF SavesPreparation
  <2>3. /\ reviewActions'[a] = <<"pending">>
        /\ \A b \in App \ {a} : reviewActions'[b] = reviewActions[b]
    BY <1>1, <1>3, <2>2 DEF EngineInv, CallsInv, TypeInv, TypeOK, StoreTypeOK
  <2>4. \A b \in App : FinishedReviews(b)' = FinishedReviews(b)
    BY <1>2 DEF FinishedReviews, HasStatus
  <2>5. ReviewRowsKnow(a)'
    BY <1>2, <1>3, <1>4, <2>3, <2>4 DEF ReviewRowsKnow
  <2>6. \A b \in App \ {a} : ReviewRowsKnow(b)'
    BY <1>2, <2>3, <2>4 DEF RowsInv, ReviewRowsKnow
  <2> QED
    BY <2>5, <2>6 DEF RowsInv
<1>5. CASE verdict[c] # "awaiting_review"
  <2>1. UNCHANGED reviewActions
    BY <1>5 DEF SavesPreparation
  <2>2. \A b \in App : FinishedReviews(b)' = FinishedReviews(b)
    BY <1>2 DEF FinishedReviews, HasStatus
  <2>3. ReviewRowsKnow(a)'
    BY <1>2, <1>3, <1>5, <2>1, <2>2 DEF ReviewRowsKnow
  <2>4. \A b \in App \ {a} : ReviewRowsKnow(b)'
    BY <1>2, <2>1, <2>2 DEF RowsInv, ReviewRowsKnow
  <2> QED
    BY <2>3, <2>4 DEF RowsInv
<1> QED
  BY <1>4, <1>5

\* The submission that finishes the analysis completes the preparation and its
\* review action with it; any other outcome finishes nothing.
LEMMA ReviewSaveKeepsRows ==
  ASSUME EngineInv, RowsInv, NEW c \in ReviewCall, SavesSubmission(c),
         NEW a \in App, arg[c].app = a, NEW k \in Key, arg[c].key = k
  PROVE  RowsInv'
<1>1. pc[c] \in {"review:lock_again"} \cup LockedPC
  BY DEF SavesSubmission, LockedPC
<1>2. /\ verdict[c] \in Verdict /\ submission[k] # None
      /\ submission[k].status = "submitting" /\ submission[k].app = a
      /\ preparation[a].status = "awaiting_review"
  BY <1>1, SenderSubmitting
<1>3. /\ submission'[k] # None /\ submission'[k].app = a
      /\ submission'[k].status = IF verdict[c] \in ThreadStatus THEN "completed" ELSE verdict[c]
      /\ submission'[k].outcome = IF verdict[c] \in ThreadStatus THEN verdict[c] ELSE None
      /\ \A l \in Key \ {k} : submission'[l] = submission[l]
      /\ preparation'[a].status = IF verdict[c] = "completed" THEN "completed" ELSE "awaiting_review"
      /\ \A b \in App \ {a} : preparation'[b] = preparation[b]
  BY ReviewSaveWrites
<1>4. reviewActions[a] = <<"pending">> /\ FinishedReviews(a) = {}
  BY <1>2 DEF RowsInv, ReviewRowsKnow
<1>5. \A b \in App \ {a} : FinishedReviews(b)' = FinishedReviews(b)
  BY <1>2, <1>3 DEF FinishedReviews, HasStatus
<1>6. CASE verdict[c] = "completed"
  <2>1. reviewActions' = [reviewActions EXCEPT ![a] = [i \in DOMAIN @ |-> "completed"]]
    BY <1>6 DEF SavesSubmission, CompleteReviewAction
  <2>2. [i \in DOMAIN <<"pending">> |-> "completed"] = <<"completed">>
    OBVIOUS
  <2>3. /\ reviewActions'[a] = <<"completed">>
        /\ \A b \in App \ {a} : reviewActions'[b] = reviewActions[b]
    BY <1>2, <1>4, <2>1, <2>2 DEF EngineInv, CallsInv, TypeInv, TypeOK, StoreTypeOK
  <2>4. FinishedReviews(a)' = {k}
    BY <1>2, <1>3, <1>4, <1>6 DEF FinishedReviews, HasStatus, ThreadStatus
  <2>5. ReviewRowsKnow(a)'
    BY <1>2, <1>3, <1>6, <2>3, <2>4 DEF ReviewRowsKnow
  <2>6. \A b \in App \ {a} : ReviewRowsKnow(b)'
    BY <1>3, <1>5, <2>3 DEF RowsInv, ReviewRowsKnow
  <2> QED
    BY <2>5, <2>6 DEF RowsInv
<1>7. CASE verdict[c] # "completed"
  <2>1. UNCHANGED reviewActions
    BY <1>7 DEF SavesSubmission
  <2>2. FinishedReviews(a)' = {}
    BY <1>2, <1>3, <1>4, <1>7, NoneIsNoStatus DEF FinishedReviews, HasStatus, ThreadStatus, Verdict
  <2>3. ReviewRowsKnow(a)'
    <3>1. reviewActions'[a] = <<"pending">> /\ preparation'[a].status = "awaiting_review"
      BY <1>3, <1>4, <1>7, <2>1
    <3> QED
      BY <2>2, <3>1 DEF ReviewRowsKnow
  <2>4. \A b \in App \ {a} : ReviewRowsKnow(b)'
    BY <1>3, <1>5, <2>1 DEF RowsInv, ReviewRowsKnow
  <2> QED
    BY <2>3, <2>4 DEF RowsInv
<1> QED
  BY <1>6, <1>7

\* Every step.
LEMMA NextKeepsRows == EngineInv /\ RowsInv /\ [Next]_vars => RowsInv'
<1>. SUFFICES ASSUME EngineInv, RowsInv, [Next]_vars PROVE RowsInv'
  OBVIOUS
<1>1. ASSUME NEW c \in PrepareCall, PrepareAdd(c) PROVE RowsInv'
  BY <1>1, PrepareWrites, PrepareAddKeepsRows DEF EngineInv, CallsInv
<1>2. ASSUME UNCHANGED preparation, UNCHANGED submission, UNCHANGED reviewActions
      PROVE  RowsInv'
  BY <1>2, QuietKeepsRows
<1>3. ASSUME NEW c \in PrepareCall, PreparePost(c) PROVE RowsInv'
  BY <1>2, <1>3 DEF PreparePost, tables
<1>4. ASSUME NEW c \in ReviewCall, ReviewPost(c) PROVE RowsInv'
  BY <1>2, <1>4 DEF ReviewPost, tables
<1>5. CASE EngineStep
  BY <1>2, <1>5 DEF EngineStep, tables
<1>6. CASE Silent
  BY <1>2, <1>6 DEF Silent
<1>7. ASSUME NEW c \in PrepareCall, PrepareSave(c) PROVE RowsInv'
  <2>1. arg[c].app \in App
    BY <1>7, Begun DEF PrepareSave, EngineInv, CallsInv
  <2> QED
    BY <1>7, <2>1, PrepareWrites, PrepareSaveKeepsRows DEF EngineInv, CallsInv
<1>8. ASSUME NEW c \in ReviewCall, ReviewSave(c) PROVE RowsInv'
  <2>1. arg[c].app \in App /\ arg[c].key \in Key
    BY <1>8, Begun DEF ReviewSave, EngineInv, CallsInv
  <2> QED
    BY <1>8, <2>1, ReviewWrites, ReviewSaveKeepsRows DEF EngineInv, CallsInv
<1>9. ASSUME NEW c \in ReviewCall, ReviewAdd(c) PROVE RowsInv'
  BY <1>9, ReviewWrites, ReviewAddKeepsRows DEF EngineInv, CallsInv
<1> QED
  BY <1>1, <1>3, <1>4, <1>5, <1>6, <1>7, <1>8, StepsOfOperations, <1>9

\* No row of a review is there before one is made.
LEMMA RowsBegin == Init => RowsInv
BY DEF Init, StoreInit, RowsInv, ReviewRowsKnow, FinishedReviews, HasStatus, NoPreparation, Absent

\* Counting the rows.
LEMMA RowsCounted == EngineInv /\ RowsInv => RowsAgree
<1>. SUFFICES ASSUME EngineInv, RowsInv, NEW a \in App
              PROVE  /\ Cardinality(PendingActions(a)) =
                          IF preparation[a].status = "awaiting_review" THEN 1 ELSE 0
                     /\ Cardinality(FinishedReviews(a)) =
                          IF preparation[a].status = "completed" /\ reviewActions[a] # <<>>
                            THEN 1 ELSE 0
  BY DEF RowsAgree, FinishedReviews
<1>. USE FS_EmptySet, FS_Singleton
<1>1. CASE reviewActions[a] = <<"pending">>
  <2>1. PendingActions(a) = {1}
    BY <1>1 DEF PendingActions
  <2>2. preparation[a].status = "awaiting_review" /\ FinishedReviews(a) = {}
    BY <1>1 DEF RowsInv, ReviewRowsKnow
  <2> QED
    BY <2>1, <2>2
<1>2. CASE reviewActions[a] = <<"completed">>
  <2>1. PendingActions(a) = {}
    BY <1>2 DEF PendingActions
  <2>2. PICK k \in Key : FinishedReviews(a) = {k}
    BY <1>2 DEF RowsInv, ReviewRowsKnow
  <2>3. preparation[a].status = "completed" /\ reviewActions[a] # <<>>
    BY <1>2 DEF RowsInv, ReviewRowsKnow
  <2> QED
    BY <2>1, <2>2, <2>3
<1>3. CASE reviewActions[a] = <<>>
  <2>1. PendingActions(a) = {}
    BY <1>3 DEF PendingActions
  <2>2. preparation[a].status # "awaiting_review" /\ FinishedReviews(a) = {}
    BY <1>3 DEF RowsInv, ReviewRowsKnow
  <2> QED
    BY <1>3, <2>1, <2>2
<1> QED
  BY <1>1, <1>2, <1>3 DEF RowsInv, ReviewRowsKnow

\* One review action is pending exactly while a preparation awaits review, and
\* one submission is finished exactly if the preparation completed by review:
\* rows that prepare_application._record_success and
\* review_application._record_success write in different transactions.
THEOREM TablesAgree == Spec => []RowsAgree
BY RowsBegin, RowsCounted, NextKeepsRows, RecordsKnowTheEngine, PTL DEF Spec

-----------------------------------------------------------------------------
(* The lifecycle.                                                          *)

\* The events of one application form a chain.
ChainOf(a) == \A i \in 2..Len(events[a]) : events[a][i].from = events[a][i - 1].to

\* One more event, which starts where the last one led.
LEMMA EventAppended ==
  ASSUME NEW S, NEW s \in Seq(S), NEW e \in S, s = <<>> \/ s[Len(s)].to = e.from,
         \A i \in 2..Len(s) : s[i].from = s[i - 1].to
  PROVE  LET t == Append(s, e) IN
         /\ t # <<>> /\ t[Len(t)] = e
         /\ \A i \in 2..Len(t) : t[i].from = t[i - 1].to
<1>. DEFINE t == Append(s, e)
<1>1. /\ Len(s) \in Nat /\ Len(t) = Len(s) + 1 /\ t[Len(t)] = e
      /\ \A i \in 1..Len(s) : t[i] = s[i]
  OBVIOUS
<1>. HIDE DEF t
<1>2. t # <<>>
  BY <1>1
<1>3. ASSUME NEW i \in 2..Len(t) PROVE t[i].from = t[i - 1].to
  <2>1. CASE i \in 2..Len(s)
    <3>1. t[i] = s[i] /\ t[i - 1] = s[i - 1]
      BY <1>1, <2>1
    <3> QED
      BY <2>1, <3>1
  <2>2. CASE i = Len(s) + 1
    <3>1. s # <<>> /\ t[i] = e /\ t[i - 1] = s[Len(s)]
      BY <1>1, <2>2
    <3> QED
      BY <3>1
  <2> QED
    BY <1>1, <2>1, <2>2
<1>4. /\ t # <<>> /\ t[Len(t)] = e
      /\ \A i \in 2..Len(t) : t[i].from = t[i - 1].to
  BY <1>1, <1>2, <1>3
<1> QED
  BY <1>4 DEF t

\* A status saved with the event that records it.
LEMMA SaveStatusTells ==
  ASSUME TypeInv, LifecycleInv, NEW c \in Call, NEW a \in App,
         NEW from \in ApplicationStatus, NEW to \in ApplicationStatus,
         application[a] = from, SaveStatus(c, a, from, to)
  PROVE  /\ application'[a] = to /\ EventsTell(a)' /\ ChainOf(a)'
         /\ \A b \in App \ {a} : application'[b] = application[b] /\ events'[b] = events[b]
<1>. DEFINE e == [from |-> from, to |-> to, by |-> c]
<1>1. e \in Event /\ e.from = from /\ e.to = to /\ events[a] \in Seq(Event)
  BY DEF Event, TypeInv, TypeOK, StoreTypeOK
<1>2. /\ application'[a] = to /\ events'[a] = Append(events[a], e)
      /\ \A b \in App \ {a} : application'[b] = application[b] /\ events'[b] = events[b]
  BY DEF SaveStatus, TypeInv, TypeOK, StoreTypeOK
<1>. HIDE DEF e
<1>3. events[a][Len(events[a])].to = from /\ ChainOf(a)
  BY StatusIsPresent DEF LifecycleInv, EventsTell, EventsFormAChain, ChainOf
<1>4. /\ events'[a] # <<>> /\ events'[a][Len(events'[a])] = e
      /\ \A i \in 2..Len(events'[a]) : events'[a][i].from = events'[a][i - 1].to
  BY <1>1, <1>2, <1>3, EventAppended DEF ChainOf
<1> QED
  BY <1>1, <1>2, <1>4, StatusIsPresent DEF EventsTell, ChainOf

\* A step of one call, which leaves every application alone or in order.
LEMMA StepKeepsLifecycle ==
  ASSUME TypeInv, LifecycleInv, NEW c \in Call,
         \A d \in Call \ {c} : /\ pc'[d] = pc[d] /\ arg'[d] = arg[d]
                               /\ seen'[d] = seen[d] /\ verdict'[d] = verdict[d],
         \A a \in App :
           \/ /\ application'[a] = application[a] /\ events'[a] = events[a]
              /\ preparation'[a] = preparation[a]
           \/ /\ StatusFollows(a)' /\ EventsTell(a)' /\ ChainOf(a)'
              /\ Prepared(a) => Prepared(a)',
         \A d \in CreateCall \ {c} : pc[d] \in CreatePC => application'[arg[d].app] = Absent,
         arg'[c] = arg[c] \/ (c \in CreateCall => \A d \in CreateCall : arg[d].app # arg'[c].app),
         c \in PrepareCall \cup ReviewCall => ReaderKnows(c)',
         c \in CreateCall => CreatorKnows(c)'
  PROVE  LifecycleInv'
<1>1. ASSUME NEW a \in App PROVE StatusFollows(a)' /\ EventsTell(a)' /\ ChainOf(a)'
  BY DEF LifecycleInv, StatusFollows, EventsTell, EventsFormAChain, ChainOf, Prepared
<1>2. \A a \in App : Prepared(a) => Prepared(a)'
  BY DEF Prepared
<1>3. ASSUME NEW d \in PrepareCall \cup ReviewCall PROVE ReaderKnows(d)'
  <2>1. CASE d = c
    BY <2>1
  <2>2. CASE d # c
    <3>1. ReaderKnows(d)
      BY DEF LifecycleInv
    <3>2. pc[d] \in {"prepare:find", "prepare:save_application", "prepare:add"} =>
            arg[d].app \in App
      BY Begun
    <3> QED
      BY <1>2, <2>2, <3>1, <3>2 DEF ReaderKnows, Prepared
  <2> QED
    BY <2>1, <2>2
<1>4. ASSUME NEW d \in CreateCall PROVE CreatorKnows(d)'
  BY DEF LifecycleInv, CreatorKnows
<1> QED
  BY <1>1, <1>3, <1>4 DEF LifecycleInv, EventsFormAChain, ChainOf

\* A call's statement that leaves the applications and their preparations alone.
LEMMA MoveKeepsLifecycle ==
  ASSUME TypeInv, LifecycleInv, NEW c \in Call, pc[c] # "idle",
         \A d \in Call \ {c} : pc'[d] = pc[d] /\ seen'[d] = seen[d] /\ verdict'[d] = verdict[d],
         UNCHANGED application, UNCHANGED events, UNCHANGED preparation, UNCHANGED arg,
         c \in PrepareCall \cup ReviewCall => ReaderKnows(c)',
         c \in CreateCall => (pc'[c] \in CreatePC => pc[c] \in CreatePC)
  PROVE  LifecycleInv'
<1>1. \A d \in CreateCall : CreatorKnows(d)
  BY DEF LifecycleInv
<1>2. \A d \in CreateCall \ {c} : pc[d] \in CreatePC => application'[arg[d].app] = Absent
  BY <1>1 DEF CreatorKnows
<1>3. c \in CreateCall => CreatorKnows(c)'
  BY <1>1 DEF CreatorKnows
<1> QED
  BY <1>2, <1>3, StepKeepsLifecycle

\* A transaction that moves a prepared application, or one that is being
\* prepared, along with its preparation.
LEMMA WriteKeepsLifecycle ==
  ASSUME TypeInv, LifecycleInv, NEW c \in PrepareCall \cup ReviewCall,
         NEW a \in App, application[a] # Absent,
         pc'[c] \in {"prepare:post"} \cup Ended,
         \A d \in Call \ {c} : pc'[d] = pc[d],
         UNCHANGED arg, UNCHANGED seen, UNCHANGED verdict,
         \A b \in App \ {a} : /\ application'[b] = application[b] /\ events'[b] = events[b]
                              /\ preparation'[b] = preparation[b],
         StatusFollows(a)', EventsTell(a)', ChainOf(a)', Prepared(a)'
  PROVE  LifecycleInv'
<1>1. c \notin CreateCall /\ c \in Call
  BY CallsAreDistinct
<1>2. ASSUME NEW d \in CreateCall, pc[d] \in CreatePC PROVE application'[arg[d].app] = Absent
  <2>1. application[arg[d].app] = Absent /\ arg[d].app \in App
    BY <1>2, Begun DEF LifecycleInv, CreatorKnows, CreatePC
  <2> QED
    BY <2>1
<1>3. ReaderKnows(c)'
  BY DEF ReaderKnows, ReadyingPC, Ended
<1> QED
  BY <1>1, <1>2, <1>3, StepKeepsLifecycle

\* The transaction that adds the preparation of a saved application.
LEMMA PrepareAddKeepsLifecycle ==
  ASSUME EngineInv, OutcomeInv, LifecycleInv, NEW c \in PrepareCall, PrepareAdd(c),
         NEW a \in App, arg[c].app = a
  PROVE  LifecycleInv' /\ application[a] = "saved" /\ application'[a] = "preparing"
<1>1. pc[c] = "prepare:add" /\ ~Prepared(a) /\ c \in Call /\ TypeInv
  BY DEF PrepareAdd, EngineInv, CallsInv
<1>2. seen[c] = "saved"
  BY <1>1 DEF LifecycleInv, ReaderKnows
<1>3. application[a] = "saved"
  <2>1. application[a] # Absent
    BY <1>1 DEF OutcomeInv, Running, Ended
  <2> QED
    BY <1>1, <2>1 DEF LifecycleInv, StatusFollows
<1>4. SaveStatus(c, a, "saved", "preparing")
  BY <1>2 DEF PrepareAdd
<1>5. /\ application'[a] = "preparing" /\ EventsTell(a)' /\ ChainOf(a)'
      /\ \A b \in App \ {a} : application'[b] = application[b] /\ events'[b] = events[b]
  BY <1>1, <1>3, <1>4, SaveStatusTells DEF ApplicationStatus
<1>6. /\ preparation'[a] = [status |-> "starting", thread |-> None]
      /\ \A b \in App \ {a} : preparation'[b] = preparation[b]
      /\ pc'[c] = "prepare:post" /\ \A d \in Call \ {c} : pc'[d] = pc[d]
      /\ UNCHANGED arg /\ UNCHANGED seen /\ UNCHANGED verdict
  BY <1>1 DEF PrepareAdd, Commit, Goto, TypeInv, TypeOK, CallTypeOK, StoreTypeOK
<1>7. StatusFollows(a)' /\ Prepared(a)'
  BY <1>5, <1>6 DEF StatusFollows, Prepared, NoPreparation, Absent
<1> QED
  BY <1>1, <1>3, <1>5, <1>6, <1>7, WriteKeepsLifecycle DEF Absent

\* The transaction that records the analysis.
LEMMA PrepareSaveKeepsLifecycle ==
  ASSUME EngineInv, LifecycleInv, NEW c \in PrepareCall, PrepareSave(c),
         NEW a \in App, arg[c].app = a
  PROVE  /\ LifecycleInv' /\ application[a] = "preparing"
         /\ application'[a] \in {"preparing", "ready_to_apply"}
         /\ \A b \in App \ {a} : application'[b] = application[b]
<1>1. /\ pc[c] = "prepare:save" /\ c \in Call /\ TypeInv /\ verdict[c] \in Verdict
      /\ preparation[a] = [status |-> "starting", thread |-> None]
  BY DEF PrepareSave, OwnerPC, ConcludedPC, EngineInv, CallsInv, TypeInv, VerdictGiven,
     RecordInv, OwnerKnows
<1>2. application[a] = "preparing"
  BY <1>1 DEF LifecycleInv, StatusFollows, Prepared, NoPreparation, Absent
<1>3. BecomesReady(c) <=> verdict[c] = "completed"
  BY <1>1 DEF BecomesReady, LifecycleInv, ReaderKnows, ReadyingPC, ThreadStatus
<1>4. /\ preparation'[a].status = verdict[c]
      /\ \A b \in App \ {a} : preparation'[b] = preparation[b]
      /\ pc'[c] \in Ended /\ \A d \in Call \ {c} : pc'[d] = pc[d]
      /\ UNCHANGED arg /\ UNCHANGED seen /\ UNCHANGED verdict
  BY <1>1 DEF PrepareSave, Commit, Goto, Ended, TypeInv, TypeOK, CallTypeOK, StoreTypeOK
<1>5. Prepared(a)'
  BY <1>1, <1>4 DEF Prepared, NoPreparation, Verdict, Absent
<1>6. /\ application'[a] = IF verdict[c] = "completed" THEN "ready_to_apply" ELSE "preparing"
      /\ EventsTell(a)' /\ ChainOf(a)'
      /\ \A b \in App \ {a} : application'[b] = application[b] /\ events'[b] = events[b]
  <2>1. CASE verdict[c] = "completed"
    <3>1. SaveStatus(c, a, "preparing", "ready_to_apply")
      BY <1>3, <2>1 DEF PrepareSave
    <3> QED
      BY <1>1, <1>2, <2>1, <3>1, SaveStatusTells DEF ApplicationStatus
  <2>2. CASE verdict[c] # "completed"
    <3>1. UNCHANGED application /\ UNCHANGED events
      BY <1>3, <2>2 DEF PrepareSave
    <3> QED
      BY <1>2, <2>2, <3>1 DEF LifecycleInv, EventsTell, ChainOf, EventsFormAChain
  <2> QED
    BY <2>1, <2>2
<1>7. StatusFollows(a)'
  BY <1>4, <1>5, <1>6 DEF StatusFollows
<1> QED
  BY <1>1, <1>2, <1>4, <1>5, <1>6, <1>7, WriteKeepsLifecycle DEF Absent

\* The transaction that records a review.
LEMMA ReviewSaveKeepsLifecycle ==
  ASSUME EngineInv, LifecycleInv, NEW c \in ReviewCall, ReviewSave(c),
         NEW a \in App, arg[c].app = a
  PROVE  /\ LifecycleInv' /\ application[a] = "preparing"
         /\ application'[a] \in {"preparing", "ready_to_apply"}
         /\ \A b \in App \ {a} : application'[b] = application[b]
<1>1. pc[c] = "review:save" /\ pc[c] \in LockedPC /\ c \in Call /\ TypeInv
  BY DEF ReviewSave, LockedPC, EngineInv, CallsInv
<1>2. verdict[c] \in Verdict /\ preparation[a].status = "awaiting_review"
  BY <1>1, SenderSubmitting
<1>3. application[a] = "preparing"
  BY <1>2, StatusOfPrepared DEF LifecycleInv, StatusFollows, Absent
<1>4. BecomesReady(c) <=> verdict[c] = "completed"
  BY <1>1 DEF BecomesReady, LifecycleInv, ReaderKnows, ReadyingPC, ThreadStatus
<1>5. /\ preparation'[a].status = IF verdict[c] = "completed" THEN "completed" ELSE "awaiting_review"
      /\ \A b \in App \ {a} : preparation'[b] = preparation[b]
  BY <1>1, ReviewWrites, ReviewSaveWrites DEF EngineInv, CallsInv
<1>6. /\ pc'[c] \in Ended /\ \A d \in Call \ {c} : pc'[d] = pc[d]
      /\ UNCHANGED arg /\ UNCHANGED seen /\ UNCHANGED verdict
  BY <1>1 DEF ReviewSave, Commit, Goto, Ended, TypeInv, TypeOK, CallTypeOK
<1>7. Prepared(a)'
  BY <1>5 DEF Prepared, NoPreparation, Absent
<1>8. /\ application'[a] = IF verdict[c] = "completed" THEN "ready_to_apply" ELSE "preparing"
      /\ EventsTell(a)' /\ ChainOf(a)'
      /\ \A b \in App \ {a} : application'[b] = application[b] /\ events'[b] = events[b]
  <2>1. CASE verdict[c] = "completed"
    <3>1. SaveStatus(c, a, "preparing", "ready_to_apply")
      BY <1>4, <2>1 DEF ReviewSave
    <3> QED
      BY <1>1, <1>3, <2>1, <3>1, SaveStatusTells DEF ApplicationStatus
  <2>2. CASE verdict[c] # "completed"
    <3>1. UNCHANGED application /\ UNCHANGED events
      BY <1>4, <2>2 DEF ReviewSave
    <3> QED
      BY <1>3, <2>2, <3>1 DEF LifecycleInv, EventsTell, ChainOf, EventsFormAChain
  <2> QED
    BY <2>1, <2>2
<1>9. StatusFollows(a)'
  BY <1>5, <1>7, <1>8 DEF StatusFollows
<1> QED
  BY <1>1, <1>3, <1>5, <1>6, <1>7, <1>8, <1>9, WriteKeepsLifecycle DEF Absent

\* The other statements of a preparation: what they read of the application
\* is what the preparation makes of it.
LEMMA PrepareKeepsLifecycle ==
  ASSUME EngineInv, OutcomeInv, LifecycleInv, NEW c \in PrepareCall, PrepareStep(c),
         ~PrepareAdd(c), ~PrepareSave(c)
  PROVE  LifecycleInv' /\ UNCHANGED application
<1>1. c \in Call /\ c \notin CreateCall /\ TypeInv
  BY CallsAreDistinct DEF EngineInv, CallsInv
<1>2. /\ pc[c] # "idle" /\ UNCHANGED arg
      /\ UNCHANGED application /\ UNCHANGED events /\ UNCHANGED preparation
  BY DEF PrepareStep, PrepareFind, PrepareSaveApplication, PrepareAddFails, PreparePost,
     PrepareAnswer, PrepareReadApplication, PrepareRequireStarting, PrepareSaveReady, tables
<1>3. \A d \in Call \ {c} : pc'[d] = pc[d] /\ seen'[d] = seen[d] /\ verdict'[d] = verdict[d]
  BY <1>1 DEF PrepareStep, PrepareFind, PrepareSaveApplication, PrepareAddFails, PreparePost,
     PrepareAnswer, PrepareReadApplication, PrepareRequireStarting, PrepareSaveReady,
     ReadApplication, Receive, TimeOut, Proceed, Goto, TypeInv, TypeOK, CallTypeOK
<1>4. ReaderKnows(c) /\ arg[c].app \in App
  BY <1>1, <1>2, Begun DEF LifecycleInv
<1>5. Prepared(arg[c].app)' = Prepared(arg[c].app)
  BY <1>2 DEF Prepared
<1>6. ReaderKnows(c)'
  <2>1. CASE PrepareReadApplication(c)
    <3>1. preparation[arg[c].app] = [status |-> "starting", thread |-> None]
      BY <1>1, <2>1 DEF PrepareReadApplication, OwnerPC, EngineInv, RecordInv, OwnerKnows
    <3>2. application[arg[c].app] = "preparing"
      BY <1>4, <3>1 DEF LifecycleInv, StatusFollows, Prepared, NoPreparation, Absent
    <3>3. pc'[c] \in {"not_found", "prepare:require_starting"} /\ seen'[c] = "preparing"
      BY <1>1, <2>1, <3>2 DEF PrepareReadApplication, ReadApplication, Proceed, Goto, TypeInv,
         TypeOK, CallTypeOK
    <3> QED
      BY <3>3 DEF ReaderKnows
  <2>2. CASE PrepareAnswer(c)
    <3>1. pc'[c] = IF verdict'[c] \in ThreadStatus
                     THEN "prepare:read_application" ELSE "prepare:require_starting"
      BY <1>1, <2>2 DEF PrepareAnswer, Goto, TypeInv, TypeOK, CallTypeOK
    <3> QED
      BY <3>1 DEF ReaderKnows, ReadyingPC
  <2>3. CASE PrepareFind(c)
    <3>1. /\ pc'[c] = IF Prepared(arg[c].app) THEN "replayed"
                      ELSE IF seen[c] = "saved" THEN "prepare:save_application"
                      ELSE IF seen[c] = "preparing" THEN "prepare:add"
                      ELSE "invalid_transition"
          /\ UNCHANGED seen /\ pc[c] = "prepare:find"
      BY <1>1, <2>3 DEF PrepareFind, Proceed, Goto, TypeInv, TypeOK, CallTypeOK
    <3> QED
      BY <1>4, <3>1 DEF ReaderKnows, ReadyingPC
  <2>4. CASE PrepareSaveApplication(c)
    <3>1. pc'[c] = "prepare:add" /\ UNCHANGED seen /\ pc[c] = "prepare:save_application"
      BY <1>1, <2>4 DEF PrepareSaveApplication, Goto, TypeInv, TypeOK, CallTypeOK
    <3> QED
      BY <1>4, <3>1 DEF ReaderKnows, ReadyingPC
  <2>5. CASE PrepareRequireStarting(c) \/ PrepareSaveReady(c)
    <3>1. /\ pc'[c] \in {"inconsistent", "prepare:save_ready", "prepare:save"}
          /\ UNCHANGED seen /\ UNCHANGED verdict /\ pc[c] \in ReadyingPC
      BY <1>1, <2>5 DEF PrepareRequireStarting, PrepareSaveReady, Proceed, Goto, ReadyingPC,
         TypeInv, TypeOK, CallTypeOK
    <3> QED
      BY <1>4, <3>1 DEF ReaderKnows
  <2>6. CASE PrepareAddFails(c) \/ PreparePost(c)
    <3>1. pc'[c] \in {"integrity_error", "prepare:await"}
      BY <1>1, <2>6 DEF PrepareAddFails, PreparePost, Proceed, Goto, TypeInv, TypeOK, CallTypeOK
    <3> QED
      BY <3>1 DEF ReaderKnows, ReadyingPC
  <2> QED
    BY <2>1, <2>2, <2>3, <2>4, <2>5, <2>6 DEF PrepareStep
<1> QED
  BY <1>1, <1>2, <1>3, <1>6, MoveKeepsLifecycle

\* Those of a review.
LEMMA ReviewKeepsLifecycle ==
  ASSUME EngineInv, LifecycleInv, NEW c \in ReviewCall, ReviewStep(c), ~ReviewSave(c)
  PROVE  LifecycleInv' /\ UNCHANGED application
<1>1. c \in Call /\ c \notin CreateCall /\ TypeInv
  BY CallsAreDistinct DEF EngineInv, CallsInv
<1>2. /\ pc[c] # "idle" /\ UNCHANGED arg
      /\ UNCHANGED application /\ UNCHANGED events /\ UNCHANGED preparation
  BY DEF ReviewStep, ReviewFindKey, ReviewLockFails, ReviewLock, ReviewRecheck,
     ReviewFindUnresolved, ReviewAddFails, ReviewAdd, ReviewPost, ReviewAnswer, ReviewLockAgain,
     ReviewReadApplication, ReviewRequireSubmitting, ReviewSaveReady, tables
<1>3. \A d \in Call \ {c} : pc'[d] = pc[d] /\ seen'[d] = seen[d] /\ verdict'[d] = verdict[d]
  BY <1>1 DEF ReviewStep, ReviewFindKey, ReviewLockFails, ReviewLock, ReviewRecheck,
     ReviewFindUnresolved, ReviewAddFails, ReviewAdd, ReviewPost, ReviewAnswer, ReviewLockAgain,
     ReviewReadApplication, ReviewRequireSubmitting, ReviewSaveReady,
     ReadApplication, Receive, TimeOut, Proceed, Commit, Goto, TypeInv, TypeOK, CallTypeOK
<1>4. ReaderKnows(c) /\ arg[c].app \in App
  BY <1>1, <1>2, Begun DEF LifecycleInv
<1>5. ReaderKnows(c)'
  <2>1. CASE ReviewReadApplication(c)
    <3>1. preparation[arg[c].app].status = "awaiting_review"
      BY <2>1, SenderSubmitting DEF ReviewReadApplication, LockedPC
    <3>2. application[arg[c].app] = "preparing"
      BY <1>4, <3>1, StatusOfPrepared DEF LifecycleInv, StatusFollows, Absent
    <3>3. pc'[c] \in {"not_found", "review:require_submitting"} /\ seen'[c] = "preparing"
      BY <1>1, <2>1, <3>2 DEF ReviewReadApplication, ReadApplication, Proceed, Goto, TypeInv,
         TypeOK, CallTypeOK
    <3> QED
      BY <3>3 DEF ReaderKnows
  <2>2. CASE ReviewAnswer(c)
    <3>1. pc'[c] = IF verdict'[c] \in ThreadStatus
                     THEN "review:lock_again" ELSE "review:require_submitting"
      BY <1>1, <2>2 DEF ReviewAnswer, Goto, TypeInv, TypeOK, CallTypeOK
    <3> QED
      BY <3>1 DEF ReaderKnows, ReadyingPC
  <2>3. CASE ReviewRequireSubmitting(c) \/ ReviewSaveReady(c)
    <3>1. /\ pc'[c] \in {"inconsistent", "review:save_ready", "review:save"}
          /\ UNCHANGED seen /\ UNCHANGED verdict /\ pc[c] \in ReadyingPC
      BY <1>1, <2>3 DEF ReviewRequireSubmitting, ReviewSaveReady, Proceed, Goto, ReadyingPC,
         TypeInv, TypeOK, CallTypeOK
    <3> QED
      BY <1>4, <3>1 DEF ReaderKnows
  <2>4. CASE ~ReviewReadApplication(c) /\ ~ReviewAnswer(c) /\ ~ReviewRequireSubmitting(c)
               /\ ~ReviewSaveReady(c)
    <3>1. pc'[c] \in {"review:lock", "review:recheck", "review:find_unresolved", "review:add",
                      "review:post", "review:await", "review:read_application"} \cup Ended
      BY <1>1, <2>4 DEF ReviewStep, ReviewFindKey, ReviewLockFails, ReviewLock, ReviewRecheck,
         ReviewFindUnresolved, ReviewAddFails, ReviewAdd, ReviewPost, ReviewLockAgain, Lookup,
         Proceed, Commit, Goto, Ended, TypeInv, TypeOK, CallTypeOK
    <3> QED
      BY <3>1 DEF ReaderKnows, ReadyingPC, Ended
  <2> QED
    BY <2>1, <2>2, <2>3, <2>4
<1> QED
  BY <1>1, <1>2, <1>3, <1>5, MoveKeepsLifecycle

\* A new application is saved, and its first event tells so.
LEMMA CreateSaveKeepsLifecycle ==
  ASSUME EngineInv, LifecycleInv, NEW c \in CreateCall, CreateSave(c),
         NEW a \in App, arg[c].app = a
  PROVE  /\ LifecycleInv' /\ application[a] = Absent /\ application'[a] = "saved"
         /\ \A b \in App \ {a} : application'[b] = application[b]
<1>1. pc[c] = "create:save" /\ c \in Call /\ c \notin PrepareCall \cup ReviewCall /\ TypeInv
  BY CallsAreDistinct DEF CreateSave, EngineInv, CallsInv
<1>2. application[a] = Absent /\ \A d \in CreateCall \ {c} : arg[d].app # a
  BY <1>1 DEF LifecycleInv, CreatorKnows, CreatePC
<1>3. events[a] = <<>> /\ ~Prepared(a)
  BY <1>2 DEF LifecycleInv, EventsTell, StatusFollows, Absent
<1>4. /\ application'[a] = "saved" /\ events'[a] = Append(<<>>, Created(c))
      /\ \A b \in App \ {a} : application'[b] = application[b] /\ events'[b] = events[b]
      /\ UNCHANGED preparation /\ UNCHANGED arg /\ UNCHANGED seen /\ UNCHANGED verdict
      /\ pc'[c] = "returned" /\ \A d \in Call \ {c} : pc'[d] = pc[d]
  BY <1>1, <1>3 DEF CreateSave, Commit, Goto, TypeInv, TypeOK, CallTypeOK, StoreTypeOK
<1>5. EventsTell(a)' /\ ChainOf(a)'
  <2>1. Len(events'[a]) = 1 /\ events'[a][1] = Created(c) /\ events'[a] # <<>>
    BY <1>4
  <2> QED
    BY <1>4, <2>1 DEF EventsTell, ChainOf, Created, Absent
<1>6. StatusFollows(a)' /\ Prepared(a)' = Prepared(a)
  BY <1>3, <1>4 DEF StatusFollows, Prepared
<1>7. ASSUME NEW d \in CreateCall \ {c}, pc[d] \in CreatePC PROVE application'[arg[d].app] = Absent
  <2>1. arg[d].app \in App \ {a} /\ application[arg[d].app] = Absent
    BY <1>1, <1>2, <1>7, Begun DEF LifecycleInv, CreatorKnows, CreatePC
  <2> QED
    BY <1>4, <2>1
<1>8. CreatorKnows(c)'
  BY <1>2, <1>4 DEF CreatorKnows, CreatePC
<1> QED
  BY <1>1, <1>2, <1>4, <1>5, <1>6, <1>7, <1>8, StepKeepsLifecycle

\* The other statements of a creation, those of a read, and a death: nothing is
\* learnt of an application.
LEMMA OthersKeepLifecycle ==
  ASSUME EngineInv, LifecycleInv, NEW c \in Call,
         \/ c \in CreateCall /\ CreateStep(c) /\ ~CreateSave(c)
         \/ c \in ReadCall /\ ReadStep(c)
         \/ Crash(c)
  PROVE  LifecycleInv' /\ UNCHANGED application
<1>1. TypeInv
  BY DEF EngineInv, CallsInv
<1>2. /\ pc[c] # "idle" /\ UNCHANGED arg
      /\ UNCHANGED application /\ UNCHANGED events /\ UNCHANGED preparation
  BY DEF CreateStep, CreateReplay, CreateClaim, ReadStep, ReadFind, ReadGet, ReadFails, Crash,
     Running, tables
<1>3. \A d \in Call \ {c} : pc'[d] = pc[d] /\ seen'[d] = seen[d] /\ verdict'[d] = verdict[d]
  BY <1>1 DEF CreateStep, CreateReplay, CreateClaim, ReadStep, ReadFind, ReadGet, ReadFails, Crash,
     Proceed, Goto, TypeInv, TypeOK, CallTypeOK
<1>4. c \in PrepareCall \cup ReviewCall => ReaderKnows(c)'
  <2>1. c \in PrepareCall \cup ReviewCall => pc'[c] = "crashed"
    BY <1>1, CallsAreDistinct DEF Crash, Proceed, Goto, TypeInv, TypeOK, CallTypeOK
  <2> QED
    BY <2>1 DEF ReaderKnows, ReadyingPC
<1>5. c \in CreateCall => (pc'[c] \in CreatePC => pc[c] \in CreatePC)
  <2>1. CASE Crash(c)
    <3>1. pc'[c] = "crashed"
      BY <1>1, <2>1 DEF Crash, Proceed, Goto, TypeInv, TypeOK, CallTypeOK
    <3> QED
      BY <3>1 DEF CreatePC
  <2>2. CASE c \in CreateCall /\ CreateStep(c)
    BY <2>2 DEF CreateStep, CreateReplay, CreateClaim, CreateSave, CreatePC
  <2>3. CASE c \in ReadCall
    BY <2>3, CallsAreDistinct
  <2> QED
    BY <2>1, <2>2, <2>3
<1> QED
  BY <1>1, <1>2, <1>3, <1>4, <1>5, MoveKeepsLifecycle

\* A call that arrives reads the application as it is; a creation draws an
\* identifier that nobody has.
LEMMA ArriveKeepsLifecycle ==
  ASSUME EngineInv, LifecycleInv, Arrive
  PROVE  LifecycleInv' /\ UNCHANGED application
<1>1. TypeInv
  BY DEF EngineInv, CallsInv
<1>2. UNCHANGED application /\ UNCHANGED events /\ UNCHANGED preparation /\ UNCHANGED verdict
  BY DEF Arrive, PrepareBegin, ReviewBegin, UpdateBegin, CreateBegin, ReadBegin, tables
<1>3. ASSUME NEW c \in Call, NEW given, arg' = [arg EXCEPT ![c] = given], NEW next, Goto(c, next),
             c \notin CreateCall,
             \A d \in Call \ {c} : seen'[d] = seen[d],
             c \in PrepareCall \cup ReviewCall =>
               /\ next \in {"prepare:find", "review:find_key", "not_found"}
               /\ given.app \in App /\ seen'[c] = application[given.app]
      PROVE  LifecycleInv'
  <2>1. /\ \A d \in Call \ {c} : pc'[d] = pc[d] /\ arg'[d] = arg[d]
        /\ pc'[c] = next /\ arg'[c] = given
    BY <1>1, <1>3 DEF Goto, TypeInv, TypeOK, CallTypeOK
  <2>2. \A d \in CreateCall \ {c} : pc[d] \in CreatePC => application'[arg[d].app] = Absent
    BY <1>2 DEF LifecycleInv, CreatorKnows
  <2>3. ASSUME c \in PrepareCall \cup ReviewCall PROVE ReaderKnows(c)'
    <3>1. seen'[c] = "preparing" => Prepared(given.app)
      BY <1>3, <2>3 DEF LifecycleInv, StatusFollows, Absent
    <3>2. Prepared(arg[c].app)' = Prepared(given.app)
      BY <1>2, <2>1 DEF Prepared
    <3> QED
      BY <1>3, <2>1, <2>3, <3>1, <3>2 DEF ReaderKnows, ReadyingPC
  <2> QED
    BY <1>1, <1>2, <1>3, <2>1, <2>2, <2>3, StepKeepsLifecycle
<1>4. ASSUME NEW c \in PrepareCall, NEW a \in App, PrepareBegin(c, a) PROVE LifecycleInv'
  <2>. DEFINE given == [arg[c] EXCEPT !.app = a]
              next == IF application[a] = Absent THEN "not_found" ELSE "prepare:find"
  <2>1. /\ arg' = [arg EXCEPT ![c] = given] /\ Goto(c, next) /\ given.app = a
        /\ seen'[c] = application[a] /\ \A d \in Call \ {c} : seen'[d] = seen[d]
        /\ next \in {"prepare:find", "not_found"}
    BY <1>1, <1>4 DEF PrepareBegin, ReadApplication, Proceed, Arguments, TypeInv, TypeOK, CallTypeOK
  <2>. HIDE DEF given, next
  <2> QED
    BY <1>3, <2>1, CallsAreDistinct
<1>5. ASSUME NEW c \in ReviewCall, NEW a \in App, NEW k \in Key, NEW d \in Decision,
             ReviewBegin(c, a, k, d)
      PROVE  LifecycleInv'
  <2>. DEFINE given == [app |-> a, key |-> k, want |-> d]
              next == IF application[a] = Absent THEN "not_found" ELSE "review:find_key"
  <2>1. /\ arg' = [arg EXCEPT ![c] = given] /\ Goto(c, next) /\ given.app = a
        /\ seen'[c] = application[a] /\ \A x \in Call \ {c} : seen'[x] = seen[x]
        /\ next \in {"review:find_key", "not_found"}
    BY <1>1, <1>5 DEF ReviewBegin, ReadApplication, Proceed, Arguments, TypeInv, TypeOK, CallTypeOK
  <2>. HIDE DEF given, next
  <2> QED
    BY <1>3, <2>1, CallsAreDistinct
<1>6. ASSUME NEW c \in UpdateCall \cup ReadCall, NEW a \in App, NEW given, NEW next,
             arg' = [arg EXCEPT ![c] = given], ReadApplication(c, a, next)
      PROVE  LifecycleInv'
  <2>1. /\ \E n : Goto(c, n)
        /\ \A d \in Call \ {c} : seen'[d] = seen[d]
        /\ c \notin CreateCall \cup PrepareCall \cup ReviewCall
    BY <1>1, <1>6, CallsAreDistinct DEF ReadApplication, Proceed, TypeInv, TypeOK, CallTypeOK
  <2> QED
    BY <1>3, <1>6, <2>1
<1>7. ASSUME NEW c \in CreateCall, NEW a \in App, NEW k \in Key, NEW w \in Content,
             CreateBegin(c, a, k, w)
      PROVE  LifecycleInv'
  <2>1. /\ \A d \in Call \ {c} : pc'[d] = pc[d] /\ arg'[d] = arg[d]
        /\ pc'[c] = "create:claim" /\ arg'[c].app = a /\ UNCHANGED seen
        /\ c \notin PrepareCall \cup ReviewCall
    BY <1>1, <1>7, CallsAreDistinct DEF CreateBegin, Goto, TypeInv, TypeOK, CallTypeOK
  <2>2. Fresh(a)
    BY <1>7 DEF CreateBegin
  <2>3. \A d \in CreateCall \ {c} : pc[d] \in CreatePC => application'[arg[d].app] = Absent
    BY <1>2 DEF LifecycleInv, CreatorKnows
  <2>4. CreatorKnows(c)'
    BY <1>2, <2>1, <2>2 DEF CreatorKnows, Fresh
  <2> QED
    BY <1>1, <1>2, <2>1, <2>2, <2>3, <2>4, StepKeepsLifecycle DEF Fresh
<1>8. ASSUME NEW c \in UpdateCall, NEW a \in App, NEW k \in Key, NEW s \in Target,
             UpdateBegin(c, a, k, s)
      PROVE  LifecycleInv'
  BY <1>6, <1>8 DEF UpdateBegin
<1>9. ASSUME NEW c \in ReadCall, NEW a \in App, ReadBegin(c, a) PROVE LifecycleInv'
  <2>. DEFINE given == [arg[c] EXCEPT !.app = a]
  <2>1. arg' = [arg EXCEPT ![c] = given] /\ ReadApplication(c, a, "read:find")
    BY <1>9 DEF ReadBegin
  <2>. HIDE DEF given
  <2> QED
    BY <1>6, <2>1
<1> QED
  BY <1>2, <1>4, <1>5, <1>7, <1>8, <1>9 DEF Arrive

\* The application moves as the domain model allows.
Moves(a) ==
  application'[a] # application[a] =>
    \/ application[a] = Absent /\ application'[a] = "saved"
    \/ ValidTransition(application[a], application'[a])

\* Every step, if no client sets a status itself.
LEMMA NextKeepsLifecycle ==
  ASSUME StatusUntouched, EngineInv, OutcomeInv, LifecycleInv, [Next]_vars
  PROVE  LifecycleInv' /\ \A a \in App : Moves(a)
<1>1. ASSUME LifecycleInv', NEW a \in App, Moves(a),
             \A b \in App \ {a} : application'[b] = application[b]
      PROVE  LifecycleInv' /\ \A b \in App : Moves(b)
  BY <1>1 DEF Moves
<1>2. ASSUME LifecycleInv', UNCHANGED application
      PROVE  LifecycleInv' /\ \A b \in App : Moves(b)
  BY <1>2 DEF Moves
<1>3. ASSUME NEW c \in PrepareCall, PrepareStep(c)
      PROVE  LifecycleInv' /\ \A b \in App : Moves(b)
  <2>1. CASE PrepareAdd(c)
    <3>. DEFINE a == arg[c].app
    <3>1. a \in App
      BY <2>1, Begun DEF PrepareAdd, EngineInv, CallsInv
    <3>2. LifecycleInv' /\ application[a] = "saved" /\ application'[a] = "preparing"
      BY <2>1, <3>1, PrepareAddKeepsLifecycle
    <3>3. \A b \in App \ {a} : application'[b] = application[b]
      BY <2>1, <3>1 DEF PrepareAdd, SaveStatus, EngineInv, CallsInv, TypeInv, TypeOK, StoreTypeOK
    <3>. HIDE DEF a
    <3> QED
      BY <1>1, <3>1, <3>2, <3>3 DEF Moves, ValidTransition, AllowedTransitions
  <2>2. CASE PrepareSave(c)
    <3>. DEFINE a == arg[c].app
    <3>1. a \in App
      BY <2>2, Begun DEF PrepareSave, EngineInv, CallsInv
    <3>2. /\ LifecycleInv' /\ application[a] = "preparing"
          /\ application'[a] \in {"preparing", "ready_to_apply"}
          /\ \A b \in App \ {a} : application'[b] = application[b]
      BY <2>2, <3>1, PrepareSaveKeepsLifecycle
    <3>. HIDE DEF a
    <3> QED
      BY <1>1, <3>1, <3>2 DEF Moves, ValidTransition, AllowedTransitions
  <2>3. CASE ~PrepareAdd(c) /\ ~PrepareSave(c)
    BY <1>2, <1>3, <2>3, PrepareKeepsLifecycle
  <2> QED
    BY <2>1, <2>2, <2>3
<1>4. ASSUME NEW c \in ReviewCall, ReviewStep(c)
      PROVE  LifecycleInv' /\ \A b \in App : Moves(b)
  <2>1. CASE ReviewSave(c)
    <3>. DEFINE a == arg[c].app
    <3>1. a \in App
      BY <2>1, Begun DEF ReviewSave, EngineInv, CallsInv
    <3>2. /\ LifecycleInv' /\ application[a] = "preparing"
          /\ application'[a] \in {"preparing", "ready_to_apply"}
          /\ \A b \in App \ {a} : application'[b] = application[b]
      BY <2>1, <3>1, ReviewSaveKeepsLifecycle
    <3>. HIDE DEF a
    <3> QED
      BY <1>1, <3>1, <3>2 DEF Moves, ValidTransition, AllowedTransitions
  <2>2. CASE ~ReviewSave(c)
    BY <1>2, <1>4, <2>2, ReviewKeepsLifecycle
  <2> QED
    BY <2>1, <2>2
<1>5. ASSUME NEW c \in CreateCall, CreateStep(c)
      PROVE  LifecycleInv' /\ \A b \in App : Moves(b)
  <2>1. CASE CreateSave(c)
    <3>. DEFINE a == arg[c].app
    <3>1. a \in App
      BY <2>1, Begun DEF CreateSave, EngineInv, CallsInv
    <3>2. /\ LifecycleInv' /\ application[a] = Absent /\ application'[a] = "saved"
          /\ \A b \in App \ {a} : application'[b] = application[b]
      BY <2>1, <3>1, CreateSaveKeepsLifecycle
    <3>. HIDE DEF a
    <3> QED
      BY <1>1, <3>1, <3>2 DEF Moves
  <2>2. CASE ~CreateSave(c)
    BY <1>2, <1>5, <2>2, OthersKeepLifecycle
  <2> QED
    BY <2>1, <2>2
<1>6. ASSUME NEW c \in Call, (c \in ReadCall /\ ReadStep(c)) \/ Crash(c)
      PROVE  LifecycleInv' /\ \A b \in App : Moves(b)
  BY <1>2, <1>6, OthersKeepLifecycle
<1>7. ASSUME UNCHANGED <<pc, arg, seen, verdict, tables, lock>>
      PROVE  LifecycleInv' /\ \A b \in App : Moves(b)
  <2>1. /\ UNCHANGED pc /\ UNCHANGED arg /\ UNCHANGED seen /\ UNCHANGED verdict
        /\ UNCHANGED application /\ UNCHANGED events /\ UNCHANGED preparation
    BY <1>7 DEF tables
  <2>2. /\ \A a \in App : StatusFollows(a)' /\ EventsTell(a)'
        /\ \A c \in PrepareCall \cup ReviewCall : ReaderKnows(c)'
        /\ \A c \in CreateCall : CreatorKnows(c)'
        /\ EventsFormAChain'
    BY <2>1 DEF LifecycleInv, StatusFollows, EventsTell, ReaderKnows, CreatorKnows,
       EventsFormAChain, Prepared
  <2>3. LifecycleInv'
    BY <2>2 DEF LifecycleInv
  <2> QED
    BY <1>2, <2>1, <2>3
<1>8. ~\E c \in UpdateCall : UpdateStep(c)
  BY DEF StatusUntouched
<1>9. CASE Advance
  BY <1>3, <1>4, <1>5, <1>6, <1>8, <1>9 DEF Advance
<1>10. CASE Arrive
  BY <1>2, <1>10, ArriveKeepsLifecycle
<1>11. CASE EngineStep
  BY <1>7, <1>11 DEF EngineStep
<1>12. CASE UNCHANGED vars
  BY <1>7, <1>12 DEF vars
<1> QED
  BY <1>6, <1>9, <1>10, <1>11, <1>12 DEF Next

\* The lifecycle invariant holds to begin with.
LEMMA LifecycleBegins == Init => LifecycleInv
<1>. SUFFICES ASSUME Init PROVE LifecycleInv
  OBVIOUS
<1>1. ASSUME NEW a \in App
      PROVE  StatusFollows(a) /\ EventsTell(a) /\ \A i \in 2..Len(events[a]) : FALSE
  <2>1. CASE a \in Seeded
    <3>1. application[a] = "saved" /\ ~Prepared(a) /\ events[a] = <<Created(None)>>
      BY <2>1 DEF Init, StoreInit, Prepared
    <3>2. Len(events[a]) = 1 /\ events[a][1].to = "saved" /\ events[a] # <<>>
      BY <3>1 DEF Created
    <3> QED
      BY <3>1, <3>2 DEF StatusFollows, EventsTell, Absent
  <2>2. CASE a \notin Seeded
    <3>1. application[a] = Absent /\ ~Prepared(a) /\ events[a] = <<>>
      BY <2>2 DEF Init, StoreInit, Prepared
    <3> QED
      BY <3>1 DEF StatusFollows, EventsTell
  <2> QED
    BY <2>1, <2>2
<1>2. \A c \in Call : pc[c] = "idle"
  BY DEF Init, CallInit
<1>3. \A c \in PrepareCall \cup ReviewCall : ReaderKnows(c)
  BY <1>2 DEF ReaderKnows, ReadyingPC
<1>4. \A c \in CreateCall : CreatorKnows(c)
  BY <1>2 DEF CreatorKnows, CreatePC
<1> QED
  BY <1>1, <1>3, <1>4 DEF LifecycleInv, EventsFormAChain

\* The preparation of an application decides its status, if clients leave the
\* statuses to the hub.
THEOREM StatusFollowsPreparation ==
  ASSUME StatusUntouched
  PROVE  Spec => []LifecycleInv
<1>1. EngineInv /\ OutcomeInv /\ LifecycleInv /\ [Next]_vars => LifecycleInv'
  BY NextKeepsLifecycle
<1> QED
  BY <1>1, LifecycleBegins, CallsRecordTheirOutcome, PTL DEF Spec

\* The events of an application form a chain: the transactions of
\* prepare_application, review_application and create_application write the
\* status together with the event, and none overwrites what another wrote.
THEOREM EventsChain ==
  ASSUME StatusUntouched
  PROVE  Spec => []EventsFormAChain
<1>1. LifecycleInv => EventsFormAChain
  BY DEF LifecycleInv
<1> QED
  BY <1>1, StatusFollowsPreparation, PTL

\* An application whose analysis awaits review stays in preparing.
THEOREM ReviewsGate ==
  ASSUME StatusUntouched
  PROVE  Spec => []ReviewGatesReadiness
<1>1. EngineInv /\ LifecycleInv => ReviewGatesReadiness
  BY StatusOfPrepared DEF LifecycleInv, StatusFollows, ReviewGatesReadiness, Absent
<1> QED
  BY <1>1, StatusFollowsPreparation, RecordsKnowTheEngine, PTL

\* Every change of a status is a transition of the domain model
\* (domain/application_lifecycle.py), although the UPDATE does not look at the
\* status it replaces.
THEOREM TransitionsAreLegal ==
  ASSUME StatusUntouched
  PROVE  Spec => LegalTransitions
<1>1. EngineInv /\ OutcomeInv /\ LifecycleInv /\ [Next]_vars =>
        [\A a \in App :
           application'[a] # application[a] =>
             \/ application[a] = Absent /\ application'[a] = "saved"
             \/ ValidTransition(application[a], application'[a])]_vars
  BY NextKeepsLifecycle DEF Moves
<1> QED
  BY <1>1, StatusFollowsPreparation, CallsRecordTheirOutcome, PTL DEF Spec, LegalTransitions

-----------------------------------------------------------------------------
(* What is recorded lasts.                                                 *)

\* What the clients of the hub rely on.
HubInv == EngineInv /\ WaitingInv /\ OutcomeInv /\ ClaimInv

\* Every step keeps what is known of the hub.
LEMMA NextKeepsHub == HubInv /\ [Next]_vars => HubInv'
<1>. SUFFICES ASSUME HubInv, [Next]_vars PROVE HubInv'
  OBVIOUS
<1>1. TypeInv /\ AnalysisInv /\ ReviewInv /\ ClaimInv /\ EngineInv /\ WaitingInv /\ OutcomeInv
  BY DEF HubInv, EngineInv, CallsInv
<1>2. ClaimInv'
  BY <1>1, NextKeepsClaims
<1>3. EngineInv' /\ WaitingInv'
  BY <1>1, NextKeepsEngine, NextOperates, WaitingKept
<1> QED
  BY <1>1, <1>2, <1>3, NextKeepsOutcomes DEF HubInv

\* It is known to begin with.
LEMMA InitHub == Init => HubInv
<1>1. Init => OutcomeInv
  BY DEF Init, CallInit, EngineInit, StoreInit, OutcomeInv, OutcomesAreRecorded, Posted,
     Running, Ended
<1> QED
  BY <1>1, InitEngine, WaitingBegins, ClaimsBegin DEF HubInv

\* A call is moved by its own steps.
LEMMA MovesAreOwn ==
  ASSUME HubInv, [Next]_vars, NEW c \in Call, pc'[c] # pc[c]
  PROVE  \/ c \in PrepareCall /\ (PrepareStep(c) \/ \E a \in App : PrepareBegin(c, a))
         \/ /\ c \in ReviewCall
            /\ \/ ReviewStep(c)
               \/ \E a \in App, k \in Key, d \in Decision : ReviewBegin(c, a, k, d)
         \/ /\ c \in UpdateCall
            /\ UpdateStep(c) \/ \E a \in App, k \in Key, s \in Target : UpdateBegin(c, a, k, s)
         \/ /\ c \in CreateCall
            /\ CreateStep(c) \/ \E a \in App, k \in Key, w \in Content : CreateBegin(c, a, k, w)
         \/ c \in ReadCall /\ (ReadStep(c) \/ \E a \in App : ReadBegin(c, a))
         \/ Crash(c)
<1>1. ASSUME NEW d \in Call, NEW next, Goto(d, next) PROVE d = c
  BY <1>1 DEF Goto, HubInv, EngineInv, CallsInv, TypeInv, TypeOK, CallTypeOK
<1>2. ASSUME NEW d \in PrepareCall, PrepareStep(d) \/ \E a \in App : PrepareBegin(d, a) PROVE d = c
  <2>1. \E next : Goto(d, next)
    BY <1>2 DEF PrepareStep, PrepareFind, PrepareSaveApplication, PrepareAddFails, PrepareAdd,
       PreparePost, PrepareAnswer, PrepareReadApplication, PrepareRequireStarting, PrepareSaveReady,
       PrepareSave, PrepareBegin, Proceed, Commit, ReadApplication
  <2> QED
    BY <1>1, <2>1
<1>3. ASSUME NEW d \in ReviewCall,
             ReviewStep(d) \/ \E a \in App, k \in Key, w \in Decision : ReviewBegin(d, a, k, w)
      PROVE  d = c
  <2>1. \E next : Goto(d, next)
    BY <1>3 DEF ReviewStep, ReviewFindKey, ReviewLockFails, ReviewLock, ReviewRecheck,
       ReviewFindUnresolved, ReviewAddFails, ReviewAdd, ReviewPost, ReviewAnswer, ReviewLockAgain,
       ReviewReadApplication, ReviewRequireSubmitting, ReviewSaveReady, ReviewSave, ReviewBegin,
       Proceed, Commit, ReadApplication
  <2> QED
    BY <1>1, <2>1
<1>4. ASSUME NEW d \in UpdateCall,
             UpdateStep(d) \/ \E a \in App, k \in Key, s \in Target : UpdateBegin(d, a, k, s)
      PROVE  d = c
  <2>1. UpdateStep(d) => \E next : Goto(d, next)
    BY DEF UpdateStep, UpdateReplay, UpdateClaim, UpdateSave, Proceed, Commit
  <2>2. ASSUME NEW a \in App, NEW k \in Key, NEW s \in Target, UpdateBegin(d, a, k, s)
        PROVE  \E next : Goto(d, next)
    BY <2>2 DEF UpdateBegin, ReadApplication, Proceed
  <2> QED
    BY <1>1, <1>4, <2>1, <2>2
<1>5. ASSUME NEW d \in CreateCall,
             CreateStep(d) \/ \E a \in App, k \in Key, w \in Content : CreateBegin(d, a, k, w)
      PROVE  d = c
  <2>1. \E next : Goto(d, next)
    BY <1>5 DEF CreateStep, CreateReplay, CreateClaim, CreateSave, CreateBegin, Proceed, Commit
  <2> QED
    BY <1>1, <2>1
<1>6. ASSUME NEW d \in ReadCall, ReadStep(d) \/ \E a \in App : ReadBegin(d, a) PROVE d = c
  <2>1. \E next : Goto(d, next)
    BY <1>6 DEF ReadStep, ReadFind, ReadGet, ReadFails, ReadBegin, ReadApplication, Proceed
  <2> QED
    BY <1>1, <2>1
<1>7. ASSUME NEW d \in Call, Crash(d) PROVE d = c
  BY <1>1, <1>7 DEF Crash, Proceed
<1>8. ~EngineStep /\ ~UNCHANGED vars
  BY DEF EngineStep, vars
<1> QED
  BY <1>2, <1>3, <1>4, <1>5, <1>6, <1>7, <1>8 DEF Next, Advance, Arrive

\* A call moves that is in progress.
LEMMA StepsMove ==
  ASSUME Advance \/ \E d \in Call : Crash(d)
  PROVE  \E d \in Call, next \in PC \ {"idle"} : Running(d) /\ Goto(d, next)
<1>. DEFINE Moved == \E d \in Call, next \in PC \ {"idle"} : Running(d) /\ Goto(d, next)
<1>1. ASSUME NEW d \in PrepareCall, PrepareStep(d) PROVE Moved
  BY <1>1 DEF PrepareStep, PrepareFind, PrepareSaveApplication, PrepareAddFails, PrepareAdd,
     PreparePost, PrepareAnswer, PrepareReadApplication, PrepareRequireStarting, PrepareSaveReady,
     PrepareSave, Proceed, Commit, ReadApplication, Running, Ended, PC, PreparePC
<1>2. ASSUME NEW d \in ReviewCall, ReviewStep(d) PROVE Moved
  BY <1>2 DEF ReviewStep, ReviewFindKey, ReviewLockFails, ReviewLock, ReviewRecheck,
     ReviewFindUnresolved, ReviewAddFails, ReviewAdd, ReviewPost, ReviewAnswer, ReviewLockAgain,
     ReviewReadApplication, ReviewRequireSubmitting, ReviewSaveReady, ReviewSave, Lookup,
     Proceed, Commit, ReadApplication, Running, Ended, PC, ReviewPC
<1>3. ASSUME NEW d \in Call, UpdateStep(d) \/ CreateStep(d) \/ ReadStep(d) PROVE Moved
  BY <1>3 DEF UpdateStep, UpdateReplay, UpdateClaim, UpdateSave, CreateStep, CreateReplay,
     CreateClaim, CreateSave, ReadStep, ReadFind, ReadGet, ReadFails, Resolve, Proceed, Commit,
     Running, Ended, PC, UpdatePC, CreatePC, ReadPC
<1>4. ASSUME NEW d \in Call, Crash(d) PROVE Moved
  BY <1>4 DEF Crash, Running, Proceed, Ended, PC
<1> QED
  BY <1>1, <1>2, <1>3, <1>4 DEF Advance

\* A call that has begun keeps its arguments, and one that has ended stays so.
LEMMA CallsStand ==
  ASSUME HubInv, [Next]_vars, NEW c \in Call, pc[c] # "idle"
  PROVE  /\ arg'[c] = arg[c] /\ pc'[c] # "idle"
         /\ pc[c] \in Ended => pc'[c] = pc[c]
<1>1. arg'[c] = arg[c]
  BY StepsOfOperations DEF HubInv, Silent, PrepareAdd, PreparePost, PrepareSave, ReviewAdd, ReviewPost,
     ReviewSave, EngineStep
<1>2. \/ pc' = pc
      \/ \E d \in Call, next \in PC \ {"idle"} : pc[d] \notin Ended /\ Goto(d, next)
  <2>1. ASSUME Arrive
        PROVE  \E d \in Call, next \in PC \ {"idle"} : pc[d] \notin Ended /\ Goto(d, next)
    BY <2>1 DEF Arrive, PrepareBegin, ReviewBegin, UpdateBegin, CreateBegin, ReadBegin,
       ReadApplication, Proceed, Ended, PC, PreparePC, ReviewPC, UpdatePC, CreatePC, ReadPC
  <2>2. CASE EngineStep \/ UNCHANGED vars
    BY <2>2 DEF EngineStep, vars
  <2> QED
    BY <2>1, <2>2, StepsMove DEF Next, Running
<1>3. pc'[c] # "idle" /\ (pc[c] \in Ended => pc'[c] = pc[c])
  BY <1>2 DEF Goto, HubInv, EngineInv, CallsInv, TypeInv, TypeOK, CallTypeOK
<1> QED
  BY <1>1, <1>3

\* A committed claim is never replaced.
LEMMA ClaimsStand ==
  ASSUME HubInv, [Next]_vars, NEW r \in Operation \X Key, idempotency[r] # None
  PROVE  idempotency'[r] = idempotency[r]
<1>1. \/ UNCHANGED idempotency
      \/ \E c \in UpdateCall : UpdateSave(c)
      \/ \E c \in CreateCall : CreateSave(c)
  <2>1. ASSUME NEW c \in PrepareCall, PrepareStep(c) PROVE UNCHANGED idempotency
    BY <2>1 DEF PrepareStep, PrepareFind, PrepareSaveApplication, PrepareAddFails, PrepareAdd,
       PreparePost, PrepareAnswer, PrepareReadApplication, PrepareRequireStarting, PrepareSaveReady,
       PrepareSave, tables
  <2>2. ASSUME NEW c \in ReviewCall, ReviewStep(c) PROVE UNCHANGED idempotency
    BY <2>2 DEF ReviewStep, ReviewFindKey, ReviewLockFails, ReviewLock, ReviewRecheck,
       ReviewFindUnresolved, ReviewAddFails, ReviewAdd, ReviewPost, ReviewAnswer, ReviewLockAgain,
       ReviewReadApplication, ReviewRequireSubmitting, ReviewSaveReady, ReviewSave, tables
  <2>3. CASE Arrive \/ EngineStep \/ UNCHANGED vars \/ \E c \in Call : Crash(c)
    BY <2>3 DEF Arrive, PrepareBegin, ReviewBegin, UpdateBegin, CreateBegin, ReadBegin, EngineStep,
       Crash, vars, tables
  <2>4. CASE Advance
    <3>1. ASSUME NEW c \in UpdateCall, UpdateStep(c) PROVE UNCHANGED idempotency \/ UpdateSave(c)
      BY <3>1 DEF UpdateStep, UpdateReplay, UpdateClaim, tables
    <3>2. ASSUME NEW c \in CreateCall, CreateStep(c) PROVE UNCHANGED idempotency \/ CreateSave(c)
      BY <3>2 DEF CreateStep, CreateReplay, CreateClaim, tables
    <3>3. ASSUME NEW c \in ReadCall, ReadStep(c) PROVE UNCHANGED idempotency
      BY <3>3 DEF ReadStep, ReadFind, ReadGet, ReadFails, tables
    <3> QED
      BY <2>1, <2>2, <2>4, <3>1, <3>2, <3>3 DEF Advance
  <2> QED
    BY <2>3, <2>4 DEF Next
<1>2. ASSUME NEW c \in UpdateCall \cup CreateCall,
             \/ c \in UpdateCall /\ UpdateSave(c)
             \/ c \in CreateCall /\ CreateSave(c)
      PROVE  idempotency[ClaimRow(c)] = None /\ \E row : idempotency' = [idempotency EXCEPT ![ClaimRow(c)] = row]
  BY <1>2, CallsAreDistinct DEF UpdateSave, CreateSave, CompleteClaim, ClaimRow, SavingPC, HubInv,
     ClaimInv, ClaimKnows
<1> QED
  BY <1>1, <1>2 DEF HubInv, EngineInv, CallsInv, TypeInv, TypeOK, StoreTypeOK

\* A preparation that has its analysis keeps it, and a failed or doubtful one
\* stays as it is.
LEMMA PreparationsStand ==
  ASSUME HubInv, [Next]_vars, NEW a \in App
  PROVE  /\ preparation[a].status \in ThreadStatus =>
              /\ preparation'[a].status \in ThreadStatus
              /\ preparation'[a].thread = preparation[a].thread
         /\ preparation[a].status \in {"failed", "outcome_unknown"} => preparation'[a] = preparation[a]
<1>. DEFINE Stands(b) ==
       /\ preparation[b].status \in ThreadStatus =>
            /\ preparation'[b].status \in ThreadStatus
            /\ preparation'[b].thread = preparation[b].thread
       /\ preparation[b].status \in {"failed", "outcome_unknown"} => preparation'[b] = preparation[b]
<1>1. ASSUME UNCHANGED preparation PROVE Stands(a)
  BY <1>1
<1>2. ASSUME NEW c \in PrepareCall, PrepareAdd(c) \/ PrepareSave(c) PROVE Stands(a)
  <2>1. arg[c].app \in App /\ \A b \in App \ {arg[c].app} : preparation'[b] = preparation[b]
    BY <1>2, Begun DEF PrepareAdd, PrepareSave, HubInv, EngineInv, CallsInv, TypeInv, TypeOK, StoreTypeOK
  <2>2. preparation[arg[c].app].status \in {Absent, "starting"}
    BY <1>2 DEF PrepareAdd, PrepareSave, Prepared, NoPreparation, OwnerPC, HubInv, EngineInv,
       RecordInv, OwnerKnows
  <2> QED
    BY <2>1, <2>2 DEF ThreadStatus, Absent
<1>3. ASSUME NEW c \in ReviewCall, ReviewSave(c) PROVE Stands(a)
  <2>1. preparation[arg[c].app].status = "awaiting_review" /\ EngineInv
    BY <1>3, SenderSubmitting DEF ReviewSave, LockedPC, HubInv
  <2> QED
    BY <1>3, <2>1, ReviewWrites, ReviewSaveWrites DEF ThreadStatus, EngineInv, CallsInv
<1> QED
  BY <1>1, <1>2, <1>3, StepsOfOperations DEF HubInv, PreparePost, ReviewAdd, ReviewPost, EngineStep,
     Silent, tables

\* A submission that is no longer in progress stays as it is, and a stored one
\* remains about what it was about.
LEMMA SubmissionsStand ==
  ASSUME HubInv, [Next]_vars, NEW k \in Key, submission[k] # None
  PROVE  /\ submission'[k] # None
         /\ submission'[k].app = submission[k].app /\ submission'[k].want = submission[k].want
         /\ submission'[k].thread = submission[k].thread
         /\ submission[k].status # "submitting" => submission'[k] = submission[k]
<1>1. ASSUME NEW c \in ReviewCall, ReviewAdd(c) PROVE submission'[k] = submission[k]
  BY <1>1 DEF ReviewAdd, KeyUnused, HubInv, EngineInv, CallsInv, TypeInv, TypeOK, StoreTypeOK
<1>2. ASSUME NEW c \in ReviewCall, ReviewSave(c)
      PROVE  /\ submission'[k] # None
             /\ submission'[k].app = submission[k].app /\ submission'[k].want = submission[k].want
             /\ submission'[k].thread = submission[k].thread
             /\ submission[k].status # "submitting" => submission'[k] = submission[k]
  <2>1. /\ submission[arg[c].key].status = "submitting"
        /\ submission[arg[c].key].app = arg[c].app
    BY <1>2, SenderSubmitting DEF ReviewSave, LockedPC, HubInv
  <2> QED
    BY <1>2, <2>1, ReviewWrites, ReviewSaveWrites DEF HubInv, EngineInv, CallsInv
<1> QED
  BY <1>1, <1>2, StepsOfOperations DEF HubInv, PrepareAdd, PreparePost, PrepareSave, ReviewPost,
     EngineStep, Silent, tables

\* What the engine carried out, it carried out.
LEMMA AppliedStands ==
  ASSUME HubInv, [Next]_vars
  PROVE  applied \subseteq applied'
BY StepsOfOperations DEF HubInv, PrepareAdd, PreparePost, PrepareSave, ReviewAdd, ReviewPost, ReviewSave,
   EngineStep, EngineAnalyse, EngineReview, Execute, Refuse, Send, Silent, engine

\* An analysis that is over stays over, and one that exists is not forgotten.
LEMMA ThreadsStand ==
  ASSUME HubInv, [Next]_vars, NEW t \in Thread
  PROVE  /\ thread[t] = "completed" => thread'[t] = "completed"
         /\ thread[t] # None => thread'[t] # None
<1>1. thread \in [Thread -> ThreadStatus \cup {None}]
  BY DEF HubInv, EngineInv, CallsInv, TypeInv, TypeOK, EngineTypeOK
<1>2. ASSUME NEW c \in PrepareCall, EngineAnalyse(c)
      PROVE  thread[t] # None => thread'[t] = thread[t]
  <2>1. thread[c] = None
    BY <1>2 DEF EngineAnalyse, HubInv, EngineInv, ExchangeInv, ExchangeKnows, PerformedFor
  <2> QED
    BY <1>1, <1>2, <2>1 DEF EngineAnalyse, Execute, Refuse
<1>3. ASSUME NEW c \in ReviewCall, EngineReview(c)
      PROVE  /\ thread[t] = "completed" => thread'[t] = "completed"
             /\ thread[t] # None => thread'[t] # None
  <2>1. thread[target[c]] = "awaiting_review"
    BY <1>3, OpenThreads DEF EngineReview, ReviewsTargetOpenThreads, HubInv
  <2> QED
    BY <1>1, <1>3, <2>1, NoneIsNoStatus DEF EngineReview, Execute, Refuse
<1>4. UNCHANGED thread \/ EngineStep
  <2>1. ASSUME NEW c \in PrepareCall, PrepareAdd(c) \/ PreparePost(c) \/ PrepareSave(c)
        PROVE  UNCHANGED thread
    BY <2>1 DEF PrepareAdd, PreparePost, PrepareSave, Send, engine
  <2>2. ASSUME NEW c \in ReviewCall, ReviewAdd(c) \/ ReviewPost(c) \/ ReviewSave(c)
        PROVE  UNCHANGED thread
    BY <2>2 DEF ReviewAdd, ReviewPost, ReviewSave, Send, engine
  <2>3. Silent => UNCHANGED thread
    BY DEF Silent
  <2> QED
    BY <2>1, <2>2, <2>3, StepsOfOperations DEF HubInv
<1> QED
  BY <1>2, <1>3, <1>4, NoneIsNoStatus DEF EngineStep, ThreadStatus

-----------------------------------------------------------------------------
(* What is recorded as reviewed was reviewed.                              *)

\* Only the INSERT of its submission lets a review be sent.
LEMMA SendingBegins ==
  ASSUME HubInv, [Next]_vars, NEW c \in ReviewCall, Sends(c)', ~Sends(c)
  PROVE  ReviewAdd(c)
<1>. DEFINE Elsewhere == \E d \in Call, next \in PC \ {"review:post"} : Goto(d, next)
<1>1. pc[c] # "review:post" /\ ~Posted(c)
  BY DEF Sends
<1>2. \/ pc' = pc \/ Elsewhere
      \/ \E d \in ReviewCall : ReviewAdd(d)
  <2>1. ASSUME NEW d \in PrepareCall, PrepareStep(d) PROVE Elsewhere
    BY <2>1 DEF PrepareStep, PrepareFind, PrepareSaveApplication, PrepareAddFails, PrepareAdd,
       PreparePost, PrepareAnswer, PrepareReadApplication, PrepareRequireStarting, PrepareSaveReady,
       PrepareSave, Proceed, Commit, ReadApplication, Ended, PC, PreparePC
  <2>2. ASSUME NEW d \in ReviewCall, ReviewStep(d), ~ReviewAdd(d) PROVE Elsewhere
    BY <2>2 DEF ReviewStep, ReviewFindKey, ReviewLockFails, ReviewLock, ReviewRecheck,
       ReviewFindUnresolved, ReviewAddFails, ReviewPost, ReviewAnswer, ReviewLockAgain,
       ReviewReadApplication, ReviewRequireSubmitting, ReviewSaveReady, ReviewSave, Lookup,
       Proceed, Commit, ReadApplication, Ended, PC, ReviewPC
  <2>3. ASSUME NEW d \in Call, UpdateStep(d) \/ CreateStep(d) \/ ReadStep(d) PROVE Elsewhere
    BY <2>3 DEF UpdateStep, UpdateReplay, UpdateClaim, UpdateSave, CreateStep, CreateReplay,
       CreateClaim, CreateSave, ReadStep, ReadFind, ReadGet, ReadFails, Resolve, Proceed, Commit,
       Ended, PC, UpdatePC, CreatePC, ReadPC
  <2>4. ASSUME Arrive PROVE Elsewhere
    BY <2>4 DEF Arrive, PrepareBegin, ReviewBegin, UpdateBegin, CreateBegin, ReadBegin,
       ReadApplication, Proceed, Ended, PC, PreparePC, ReviewPC, UpdatePC, CreatePC, ReadPC
  <2>5. ASSUME NEW d \in Call, Crash(d) PROVE Elsewhere
    BY <2>5 DEF Crash, Proceed, Ended, PC
  <2>6. CASE EngineStep \/ UNCHANGED vars
    BY <2>6 DEF EngineStep, vars
  <2> QED
    BY <2>1, <2>2, <2>3, <2>4, <2>5, <2>6 DEF Next, Advance
<1>3. CASE pc' = pc \/ Elsewhere
  <2>1. pc'[c] # "review:post"
    BY <1>1, <1>3 DEF Goto, HubInv, EngineInv, CallsInv, TypeInv, TypeOK, CallTypeOK
  <2>2. Posted(c)'
    BY <2>1 DEF Sends, Posted
  <2>3. ASSUME NEW d \in Call, post' = [post EXCEPT ![d] = "in_flight"], pc[d] # "review:post"
        PROVE  c # d => FALSE
    BY <1>1, <2>2, <2>3 DEF Posted, HubInv, EngineInv, CallsInv, TypeInv, TypeOK, EngineTypeOK
  <2>4. ASSUME NEW d \in PrepareCall, PreparePost(d) PROVE FALSE
    BY <2>3, <2>4, CallsAreDistinct DEF PreparePost, Send
  <2>5. ASSUME NEW d \in ReviewCall, ReviewPost(d) PROVE FALSE
    BY <1>1, <2>2, <2>5 DEF ReviewPost, Send, Posted, HubInv, EngineInv, CallsInv, TypeInv, TypeOK,
       EngineTypeOK
  <2>6. CASE EngineStep
    <3>1. PICK d \in Call : post[d] = "in_flight" /\ \E reply : post' = [post EXCEPT ![d] = reply]
      BY <2>6 DEF EngineStep, EngineAnalyse, EngineReview, Execute, Refuse
    <3> QED
      BY <1>1, <2>2, <3>1 DEF Posted, HubInv, EngineInv, CallsInv, TypeInv, TypeOK, EngineTypeOK
  <2> QED
    BY <1>1, <2>2, <2>4, <2>5, <2>6, StepsOfOperations DEF HubInv, Posted, PrepareAdd, PrepareSave,
       ReviewAdd, ReviewSave, Silent, engine
<1>4. ASSUME NEW d \in ReviewCall, ReviewAdd(d) PROVE d = c
  BY <1>1, <1>4 DEF ReviewAdd, Commit, Goto, Sends, Posted, engine, HubInv, EngineInv, CallsInv,
     TypeInv, TypeOK, CallTypeOK
<1> QED
  BY <1>2, <1>3, <1>4

\* Every step keeps the witnesses of what was answered.
LEMMA NextKeepsWitnesses == HubInv /\ WitnessInv /\ [Next]_vars => WitnessInv'
<1>. SUFFICES ASSUME HubInv, WitnessInv, [Next]_vars PROVE WitnessInv'
  OBVIOUS
<1>1. ASSUME NEW c \in ReviewCall, Sends(c)' PROVE (submission[arg[c].key].want = arg[c].want)'
  <2>1. CASE Sends(c)
    <3>1. /\ submission[arg[c].key] # None /\ submission[arg[c].key].want = arg[c].want
          /\ pc[c] # "idle" /\ arg[c].key \in Key
      BY <2>1, Begun DEF WitnessInv, HubInv, EngineInv, CallsInv, ReviewInv, ReviewKnows, Sends
    <3> QED
      BY <3>1, CallsStand, SubmissionsStand
  <2>2. CASE ~Sends(c)
    <3>1. ReviewAdd(c)
      BY <1>1, <2>2, SendingBegins
    <3>2. arg[c].key \in Key
      BY <3>1, Begun DEF ReviewAdd, HubInv, EngineInv, CallsInv
    <3> QED
      BY <3>1, <3>2 DEF ReviewAdd, HubInv, EngineInv, CallsInv, TypeInv, TypeOK, StoreTypeOK
  <2> QED
    BY <2>1, <2>2
<1>2. ASSUME NEW k \in Key, HasStatus(k, "completed"), HasStatus(k, "completed")'
      PROVE  (\E c \in applied : arg[c] = [app |-> submission[k].app, key |-> k, want |-> submission[k].want])'
  <2>1. PICK c \in applied : arg[c] = [app |-> submission[k].app, key |-> k, want |-> submission[k].want]
    BY <1>2 DEF WitnessInv
  <2>2. c \in applied' /\ pc[c] # "idle" /\ c \in Call
    BY AppliedStands, SendersHaveBegun DEF HubInv, EngineInv, CallsInv, TypeInv, TypeOK, EngineTypeOK
  <2>3. arg'[c] = arg[c] /\ submission'[k] = submission[k]
    BY <1>2, <2>2, CallsStand, SubmissionsStand DEF HasStatus
  <2> QED
    BY <2>1, <2>2, <2>3
<1>3. ASSUME NEW k \in Key, ~HasStatus(k, "completed"), HasStatus(k, "completed")'
      PROVE  (\E c \in applied : arg[c] = [app |-> submission[k].app, key |-> k, want |-> submission[k].want])'
  <2>1. PICK c \in ReviewCall : ReviewSave(c) /\ k = arg[c].key
    <3>1. ASSUME NEW c \in ReviewCall, ReviewSave(c) PROVE k = arg[c].key
      BY <1>3, <3>1, ReviewWrites, ReviewSaveWrites DEF HubInv, EngineInv, CallsInv, HasStatus
    <3>2. ASSUME NEW c \in ReviewCall, ReviewAdd(c) PROVE FALSE
      <4>1. submission'[k] = submission[k] \/ submission'[k].status = "submitting"
        BY <3>2 DEF ReviewAdd, HubInv, EngineInv, CallsInv, TypeInv, TypeOK, StoreTypeOK
      <4> QED
        BY <1>3, <4>1 DEF HasStatus
    <3> QED
      BY <1>3, <3>1, <3>2, StepsOfOperations DEF HubInv, HasStatus, PrepareAdd, PreparePost, PrepareSave,
         ReviewPost, EngineStep, Silent, tables
  <2>2. /\ c \in Call /\ Posted(c) /\ verdict[c] \in Verdict /\ submission[k].app = arg[c].app
        /\ pc[c] \in ConcludedPC /\ k \in Key /\ pc[c] # "idle"
    BY <2>1, SenderSubmitting DEF ReviewSave, LockedPC, ConcludedPC, HubInv
  <2>3. /\ submission'[k].app = submission[k].app /\ submission'[k].want = submission[k].want
        /\ verdict[c] \in ThreadStatus
    BY <1>3, <2>1, <2>2, ReviewWrites, ReviewSaveWrites DEF HubInv, EngineInv, CallsInv, HasStatus, Verdict, ThreadStatus
  <2>4. c \in applied
    BY <2>2, <2>3, CallsAreDistinct DEF HubInv, EngineInv, ExchangeInv, ExchangeKnows, PerformedFor
  <2>5. submission[k].want = arg[c].want
    BY <2>1, <2>2 DEF WitnessInv, Sends
  <2>6. arg[c] = [app |-> arg[c].app, key |-> arg[c].key, want |-> arg[c].want]
    BY <2>2 DEF Arguments, HubInv, EngineInv, CallsInv, TypeInv, TypeOK, CallTypeOK
  <2>7. arg'[c] = arg[c] /\ c \in applied'
    BY <2>2, <2>4, AppliedStands, CallsStand
  <2> QED
    BY <2>1, <2>2, <2>3, <2>5, <2>6, <2>7
<1> QED
  BY <1>1, <1>2, <1>3 DEF WitnessInv

\* Nothing has been answered to begin with.
LEMMA WitnessesBegin == Init => WitnessInv
BY DEF Init, CallInit, EngineInit, StoreInit, WitnessInv, Sends, Posted, HasStatus

\* What the hub records of its calls lasts: everything proved of the services
\* together.
THEOREM HubIsSound == Spec => []HubInv
BY InitHub, NextKeepsHub, PTL DEF Spec

\* A submission that is recorded as completed, by _record_success of the review
\* service, was carried out by the engine, for a call that asked for the same
\* decision on the same application under the same key.
THEOREM CompletedReviewsHappened == Spec => []WitnessInv
BY WitnessesBegin, NextKeepsWitnesses, HubIsSound, PTL DEF Spec

-----------------------------------------------------------------------------
(* Reviews that do not come through the hub.                               *)

\* What still holds when the standalone operation reviews the threads of tracked
\* applications: all but what waits for whom.
DirectInv == EngineInv /\ OutcomeInv /\ ClaimInv /\ RowsInv

\* A completed preparation stays completed.
LEMMA CompletedStands ==
  ASSUME EngineInv, [Next]_vars, NEW a \in App, preparation[a].status = "completed"
  PROVE  preparation'[a].status = "completed"
<1>1. ASSUME NEW c \in PrepareCall, PrepareAdd(c) \/ PrepareSave(c)
      PROVE  preparation'[a] = preparation[a]
  <2>1. preparation[arg[c].app].status \in {Absent, "starting"}
    BY <1>1 DEF PrepareAdd, PrepareSave, Prepared, NoPreparation, OwnerPC, EngineInv, RecordInv,
       OwnerKnows
  <2>2. arg[c].app # a
    BY <2>1 DEF Absent
  <2> QED
    BY <1>1, <2>2 DEF PrepareAdd, PrepareSave, EngineInv, CallsInv, TypeInv, TypeOK, StoreTypeOK
<1>2. ASSUME NEW c \in ReviewCall, ReviewSave(c) PROVE preparation'[a] = preparation[a]
  <2>1. preparation[arg[c].app].status = "awaiting_review"
    BY <1>2, SenderSubmitting DEF ReviewSave, LockedPC
  <2> QED
    BY <1>2, <2>1, ReviewWrites, ReviewSaveWrites DEF EngineInv, CallsInv
<1> QED
  BY <1>1, <1>2, StepsOfOperations DEF PreparePost, ReviewAdd, ReviewPost, EngineStep, Silent, tables

\* Who writes the status of an application.
LEMMA StatusWriters ==
  ASSUME [Next]_vars
  PROVE  \/ UNCHANGED application
         \/ \E c \in PrepareCall : PrepareAdd(c) \/ PrepareSave(c)
         \/ \E c \in ReviewCall : ReviewSave(c)
         \/ \E c \in UpdateCall : UpdateSave(c)
         \/ \E c \in CreateCall : CreateSave(c)
<1>1. ASSUME NEW c \in PrepareCall, PrepareStep(c), ~PrepareAdd(c), ~PrepareSave(c)
      PROVE  UNCHANGED application
  BY <1>1 DEF PrepareStep, PrepareFind, PrepareSaveApplication, PrepareAddFails, PreparePost,
     PrepareAnswer, PrepareReadApplication, PrepareRequireStarting, PrepareSaveReady, tables
<1>2. ASSUME NEW c \in ReviewCall, ReviewStep(c), ~ReviewSave(c)
      PROVE  UNCHANGED application
  BY <1>2 DEF ReviewStep, ReviewFindKey, ReviewLockFails, ReviewLock, ReviewRecheck,
     ReviewFindUnresolved, ReviewAddFails, ReviewAdd, ReviewPost, ReviewAnswer, ReviewLockAgain,
     ReviewReadApplication, ReviewRequireSubmitting, ReviewSaveReady, tables
<1>3. ASSUME NEW c \in UpdateCall, UpdateStep(c), ~UpdateSave(c)
      PROVE  UNCHANGED application
  BY <1>3 DEF UpdateStep, UpdateReplay, UpdateClaim, tables
<1>4. ASSUME NEW c \in CreateCall, CreateStep(c), ~CreateSave(c)
      PROVE  UNCHANGED application
  BY <1>4 DEF CreateStep, CreateReplay, CreateClaim, tables
<1>5. ASSUME NEW c \in ReadCall, ReadStep(c)
      PROVE  UNCHANGED application
  BY <1>5 DEF ReadStep, ReadFind, ReadGet, ReadFails, tables
<1>6. CASE Advance
  BY <1>1, <1>2, <1>3, <1>4, <1>5, <1>6 DEF Advance
<1>7. CASE Arrive \/ EngineStep \/ (\E c \in Call : Crash(c)) \/ UNCHANGED vars
  BY <1>7 DEF Arrive, PrepareBegin, ReviewBegin, UpdateBegin, CreateBegin, ReadBegin, EngineStep,
     Crash, vars, tables
<1> QED
  BY <1>6, <1>7 DEF Next

\* Unless a client may declare it, an application becomes ready only together
\* with its preparation.
LEMMA NextKeepsReady ==
  ASSUME "ready_to_apply" \notin Target, EngineInv, ReadyInv, [Next]_vars
  PROVE  ReadyInv'
<1>. SUFFICES ASSUME NEW a \in App, application'[a] = "ready_to_apply"
              PROVE  preparation'[a].status = "completed"
  BY DEF ReadyInv
<1>1. application \in [App -> ApplicationStatus \cup {Absent}] /\ TypeInv
  BY DEF EngineInv, CallsInv, TypeInv, TypeOK, StoreTypeOK
<1>2. CASE application'[a] = application[a]
  BY <1>2, CompletedStands DEF ReadyInv
<1>3. CASE application'[a] # application[a]
  <2>1. ASSUME NEW c \in PrepareCall, PrepareAdd(c) PROVE FALSE
    <3>1. \E from, to : to = "preparing" /\ SaveStatus(c, arg[c].app, from, to)
      BY <1>3, <2>1 DEF PrepareAdd, SaveStatus
    <3> QED
      BY <1>1, <1>3, <3>1 DEF SaveStatus
  <2>2. ASSUME NEW c \in PrepareCall, PrepareSave(c) PROVE preparation'[a].status = "completed"
    <3>1. BecomesReady(c) /\ a = arg[c].app
      BY <1>1, <1>3, <2>2 DEF PrepareSave, SaveStatus
    <3> QED
      BY <2>2, <3>1 DEF PrepareSave, BecomesReady, EngineInv, CallsInv, TypeInv, TypeOK, StoreTypeOK
  <2>3. ASSUME NEW c \in ReviewCall, ReviewSave(c) PROVE preparation'[a].status = "completed"
    <3>1. BecomesReady(c) /\ a = arg[c].app
      BY <1>1, <1>3, <2>3 DEF ReviewSave, SaveStatus
    <3> QED
      BY <2>3, <3>1, ReviewWrites, ReviewSaveWrites DEF BecomesReady, EngineInv, CallsInv
  <2>4. ASSUME NEW c \in UpdateCall, UpdateSave(c) PROVE FALSE
    <3>1. arg[c].want \in Target
      BY <1>1, <2>4, Begun DEF UpdateSave
    <3> QED
      BY <1>1, <1>3, <2>4, <3>1 DEF UpdateSave, SaveStatus
  <2>5. ASSUME NEW c \in CreateCall, CreateSave(c) PROVE FALSE
    BY <1>1, <1>3, <2>5 DEF CreateSave
  <2> QED
    BY <1>3, <2>1, <2>2, <2>3, <2>4, <2>5, StatusWriters
<1> QED
  BY <1>2, <1>3

\* A direct review moves a thread the hub shows, and no more.
LEMMA DirectReviewWrites ==
  ASSUME EngineInv, NEW t \in Thread, DirectReview(t)
  PROVE  /\ thread' \in [Thread -> ThreadStatus \cup {None}]
         /\ thread[t] = "awaiting_review" /\ thread'[t] = "completed"
         /\ \A s \in Thread \ {t} : thread'[s] = thread[s]
         /\ \E a \in App : Prepared(a) /\ preparation[a].status # "starting" /\ preparation[a].thread = t
         /\ UNCHANGED pc /\ UNCHANGED arg /\ UNCHANGED seen /\ UNCHANGED verdict
         /\ UNCHANGED post /\ UNCHANGED target /\ UNCHANGED applied
         /\ UNCHANGED tables /\ UNCHANGED lock
<1>1. thread \in [Thread -> ThreadStatus \cup {None}] /\ None \notin Thread
  BY CallsAreDistinct DEF EngineInv, CallsInv, TypeInv, TypeOK, EngineTypeOK, Thread
<1>2. PICK a \in App : preparation[a].thread = t
  BY DEF DirectReview, Disclosed
<1>3. preparation[a].status \in ThreadStatus
  BY <1>1, <1>2 DEF EngineInv, RecordInv, PreparationKnows
<1> QED
  BY <1>1, <1>2, <1>3 DEF DirectReview, Prepared, NoPreparation, ThreadStatus, Absent

\* It keeps all that the hub knows, except that an analysis waits for the hub.
LEMMA DirectReviewKeeps ==
  ASSUME DirectInv, NEW t \in Thread, DirectReview(t)
  PROVE  DirectInv' /\ UNCHANGED <<application, preparation>>
<1>1. /\ thread' \in [Thread -> ThreadStatus \cup {None}]
      /\ thread[t] = "awaiting_review" /\ thread'[t] = "completed"
      /\ \A s \in Thread \ {t} : thread'[s] = thread[s]
      /\ \E a \in App : Prepared(a) /\ preparation[a].status # "starting" /\ preparation[a].thread = t
      /\ UNCHANGED pc /\ UNCHANGED arg /\ UNCHANGED seen /\ UNCHANGED verdict
      /\ UNCHANGED post /\ UNCHANGED target /\ UNCHANGED applied
      /\ UNCHANGED application /\ UNCHANGED events /\ UNCHANGED preparation
      /\ UNCHANGED submission /\ UNCHANGED reviewActions /\ UNCHANGED idempotency
      /\ UNCHANGED lock
  BY DirectReviewWrites DEF DirectInv, tables
<1>2. /\ EngineInv /\ TypeInv /\ AnalysisInv /\ ReviewInv /\ ExchangeInv /\ RecordInv
      /\ OutcomeInv /\ ClaimInv /\ RowsInv
  BY DEF DirectInv, EngineInv, CallsInv
<1>3. TypeInv'
  BY <1>1, <1>2 DEF TypeInv, TypeOK, CallTypeOK, EngineTypeOK, StoreTypeOK, ArgumentsGiven,
     VerdictGiven, SubmissionStored, ThreadFound
<1>4. AnalysisInv'
  BY <1>1, <1>2 DEF AnalysisInv, Owns, Posted, Prepared
<1>5. ReviewInv'
  BY <1>1, <1>2 DEF ReviewInv, ReviewKnows, Sends, Posted, Pending, Unresolved
<1>6. ExchangeInv'
  <2>1. ASSUME NEW c \in PrepareCall \cup ReviewCall PROVE (PerformedFor(c))' = PerformedFor(c)
    BY <1>1, NoneIsNoStatus DEF PerformedFor, Thread, ThreadStatus
  <2> QED
    BY <1>1, <1>2, <2>1 DEF ExchangeInv, ExchangeKnows, Posted
<1>7. RecordInv'
  <2>1. ASSUME NEW c \in PrepareCall PROVE (OwnerKnows(c))'
    <3>1. pc[c] \in OwnerPC => c # t
      <4>. SUFFICES ASSUME pc[t] \in OwnerPC PROVE FALSE
        BY <1>1 DEF Thread
      <4>1. PICK a \in App : preparation[a].status # "starting" /\ preparation[a].thread = t
        BY <1>1
      <4>2. None \notin Thread
        BY CallsAreDistinct DEF Thread
      <4>3. arg[t].app = a
        BY <1>2, <4>1, <4>2 DEF RecordInv, PreparationKnows
      <4>4. preparation[arg[t].app].status = "starting"
        BY <1>2 DEF RecordInv, OwnerKnows, Thread
      <4> QED
        BY <4>1, <4>3, <4>4
    <3> QED
      BY <1>1, <1>2, <3>1 DEF RecordInv, OwnerKnows, Owns, Posted, Thread
  <2>2. ASSUME NEW a \in App PROVE (PreparationKnows(a))'
    <3>1. preparation[a].thread # None => preparation[a].thread \in Thread
      BY <1>2 DEF TypeInv, TypeOK, StoreTypeOK, Preparation
    <3>2. \A s \in Thread : thread'[s] = None <=> thread[s] = None
      BY <1>1, NoneIsNoStatus DEF ThreadStatus
    <3>3. \A s \in Thread : thread[s] = "completed" => thread'[s] = "completed"
      BY <1>1
    <3> QED
      BY <1>1, <1>2, <3>1, <3>2, <3>3 DEF RecordInv, PreparationKnows, Thread, ThreadStatus
  <2>3. ASSUME NEW k \in Key PROVE (SubmissionKnows(k))'
    BY <1>1, <1>2 DEF RecordInv, SubmissionKnows
  <2>4. ASSUME NEW c \in ReviewCall PROVE (SenderKnows(c))'
    <3>1. post[c] = "completed" /\ submission[arg[c].key].status = "submitting" =>
            thread'[submission[arg[c].key].thread] = "completed"
      <4>. SUFFICES ASSUME post[c] = "completed", submission[arg[c].key].status = "submitting"
                    PROVE  thread'[submission[arg[c].key].thread] = "completed"
        OBVIOUS
      <4>1. arg[c].key \in Key /\ submission[arg[c].key] # None /\ EngineInv
        BY AnsweredIsStored DEF Posted, DirectInv
      <4>2. submission[arg[c].key].thread # None
        BY <1>2, <4>1 DEF RecordInv, SubmissionKnows
      <4>3. submission[arg[c].key].thread \in Thread
        BY <1>2, <4>1, <4>2 DEF TypeInv, TypeOK, StoreTypeOK, Submission
      <4>4. thread[submission[arg[c].key].thread] = "completed"
        BY <1>2 DEF RecordInv, SenderKnows
      <4> QED
        BY <1>1, <4>3, <4>4
    <3> QED
      BY <1>1, <1>2, <3>1 DEF RecordInv, SenderKnows, Posted
  <2> QED
    BY <2>1, <2>2, <2>3, <2>4 DEF RecordInv
<1>8. OutcomeInv'
  BY <1>1, <1>2 DEF OutcomeInv, OutcomesAreRecorded, Running, Posted
<1>9. ClaimInv'
  BY <1>1, <1>2 DEF ClaimInv, ClaimKnows, ClaimRow, Acted, ActedOn, KeysActOnce, ClaimsAreWitnessed
<1>10. RowsInv'
  BY <1>1, <1>2 DEF RowsInv, ReviewRowsKnow, FinishedReviews, HasStatus
<1> QED
  BY <1>1, <1>3, <1>4, <1>5, <1>6, <1>7, <1>8, <1>9, <1>10 DEF DirectInv, EngineInv, CallsInv

\* Every step, of the hub or beside it, keeps it.
LEMMA DirectNextKeeps == DirectInv /\ [DirectNext]_vars => DirectInv'
<1>. SUFFICES ASSUME DirectInv, [DirectNext]_vars PROVE DirectInv'
  OBVIOUS
<1>1. CASE [Next]_vars
  <2>1. EngineInv /\ TypeInv /\ OutcomeInv /\ ClaimInv /\ RowsInv
    BY DEF DirectInv, EngineInv, CallsInv
  <2> QED
    BY <1>1, <2>1, NextKeepsEngine, NextKeepsOutcomes, NextKeepsClaims, NextKeepsRows DEF DirectInv
<1> QED
  BY <1>1, DirectReviewKeeps DEF DirectNext

\* The hub knows what its rows, its claims and the engine say of each other
\* although reviews are decided behind its back (job_cv_gateway.review_job_analysis,
\* on the thread of a tracked application).
THEOREM HubWithstandsDirectReviews == DirectSpec => []DirectInv
<1>1. Init => DirectInv
  BY InitHub, RowsBegin DEF HubInv, DirectInv
<1> QED
  BY <1>1, DirectNextKeeps, PTL DEF DirectSpec

\* Such reviews confuse none of the tables, repeat no analysis and no review of
\* the hub's own, and make no last transaction of a service fail.
THEOREM RowsAgreeDespiteDirectReviews ==
  DirectSpec => [](/\ RowsAgree /\ AtMostOneAnalysis /\ OneReviewPerKey
                   /\ NoOverlappingReviews /\ OutcomesAreRecorded)
<1>1. DirectInv => /\ RowsAgree /\ AtMostOneAnalysis /\ OneReviewPerKey
                   /\ NoOverlappingReviews /\ OutcomesAreRecorded
  <2>1. DirectInv => RowsAgree /\ NoOverlappingReviews /\ OutcomesAreRecorded
    BY RowsCounted, ReviewsDoNotOverlap DEF DirectInv, EngineInv, CallsInv, OutcomeInv
  <2>2. DirectInv => AtMostOneAnalysis
    BY DEF DirectInv, EngineInv, CallsInv, AnalysisInv, Owns, AtMostOneAnalysis
  <2>3. DirectInv => OneReviewPerKey
    BY DEF DirectInv, EngineInv, CallsInv, ReviewInv, Sends, OneReviewPerKey
  <2> QED
    BY <2>1, <2>2, <2>3
<1> QED
  BY <1>1, HubWithstandsDirectReviews, PTL

\* Nor do they lift a doubt: a review whose outcome is unknown still keeps the
\* reviews of its application from being sent (get_unresolved_for_preparation).
THEOREM DoubtIsFinalDespiteDirectReviews == DirectSpec => DoubtBlocksReviews
<1>1. DirectInv /\ [DirectNext]_vars =>
        [\A k \in Key : HasStatus(k, "outcome_unknown") =>
           /\ submission'[k] = submission[k]
           /\ \A c \in ReviewCall :
                arg[c].app = submission[k].app /\ ~Posted(c) => post'[c] = "unsent"]_vars
  <2>. SUFFICES ASSUME DirectInv, DirectNext,
                       NEW k \in Key, HasStatus(k, "outcome_unknown")
                PROVE  /\ submission'[k] = submission[k]
                       /\ \A c \in ReviewCall :
                            arg[c].app = submission[k].app /\ ~Posted(c) => post'[c] = "unsent"
    OBVIOUS
  <2>1. EngineInv
    BY DEF DirectInv
  <2>2. CASE Next
    BY <2>1, <2>2, NextOperates, DoubtStands
  <2>3. ASSUME NEW t \in Thread, DirectReview(t)
        PROVE  /\ submission'[k] = submission[k]
               /\ \A c \in ReviewCall : ~Posted(c) => post'[c] = "unsent"
    BY <2>1, <2>3, DirectReviewWrites DEF tables, Posted
  <2> QED
    BY <2>2, <2>3 DEF DirectNext
<1> QED
  BY <1>1, HubWithstandsDirectReviews, PTL DEF DirectSpec, DoubtBlocksReviews

\* A completed preparation has a completed analysis behind it, and so has every
\* application that is ready, whoever decided the review; unless the clients may
\* declare an application ready themselves (update_application_status).
THEOREM CompletionEarned ==
  ASSUME "ready_to_apply" \notin Target
  PROVE  DirectSpec => []CompletionIsEarned
<1>1. Init => ReadyInv
  BY DEF Init, StoreInit, ReadyInv, Absent
<1>2. DirectInv /\ ReadyInv /\ [DirectNext]_vars => ReadyInv'
  <2>. SUFFICES ASSUME DirectInv, ReadyInv, [DirectNext]_vars PROVE ReadyInv'
    OBVIOUS
  <2>1. CASE [Next]_vars
    BY <2>1, NextKeepsReady DEF DirectInv
  <2> QED
    BY <2>1, DirectReviewKeeps DEF DirectNext, ReadyInv
<1>3. DirectInv /\ ReadyInv => CompletionIsEarned
  BY DEF DirectInv, EngineInv, RecordInv, PreparationKnows, ReadyInv, ThreadStatus,
     CompletionIsEarned
<1> QED
  BY <1>1, <1>2, <1>3, HubWithstandsDirectReviews, PTL DEF DirectSpec

=============================================================================
