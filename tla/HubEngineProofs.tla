--------------------------- MODULE HubEngineProofs --------------------------
(***************************************************************************)
(* What the hub records is what the engine did, for any sets of calls,     *)
(* keys and applications.  An exchange passes its stages once              *)
(* (ExchangeInv), so a row written from its outcome stays true             *)
(* (RecordInv), and the transaction that writes it finds its rows as the   *)
(* claim left them (OutcomeInv).  With these the hub implements            *)
(* RemoteOperation: an analysis and a review are each claimed once,        *)
(* requested once, and recorded as what the engine made of them.           *)
(***************************************************************************)
EXTENDS HubRefinement, HubOnceProofs

USE DEF Call

\* What is proved of the calls elsewhere, and here.
CallsInv == TypeInv /\ AnalysisInv /\ ReviewInv

EngineInv == CallsInv /\ ExchangeInv /\ RecordInv

-----------------------------------------------------------------------------
(* The exchanges.                                                          *)

\* A step of one call that leaves the engine alone.
LEMMA MoveKeepsExchanges ==
  ASSUME ExchangeInv, NEW c \in Call,
         \A d \in Call \ {c} : pc'[d] = pc[d] /\ post'[d] = post[d] /\ verdict'[d] = verdict[d],
         UNCHANGED thread, UNCHANGED applied,
         c \in PrepareCall \cup ReviewCall => ExchangeKnows(c)',
         c \in UpdateCall \cup CreateCall \cup ReadCall => ~Posted(c)'
  PROVE  ExchangeInv'
<1>1. \A d \in PrepareCall \cup ReviewCall : ExchangeKnows(d)'
  BY DEF ExchangeInv, ExchangeKnows, PerformedFor, Posted
<1>2. \A d \in UpdateCall \cup CreateCall \cup ReadCall : ~Posted(d)'
  BY DEF ExchangeInv, Posted
<1> QED
  BY <1>1, <1>2 DEF ExchangeInv

\* A statement that neither sends nor reads an answer.
LEMMA StatementKeepsExchanges ==
  ASSUME TypeInv, ExchangeInv, NEW c \in Call, NEW next, Goto(c, next),
         next \in UnsentPC => pc[c] \in UnsentPC,
         next \in ConcludedPC => pc[c] \in ConcludedPC,
         UNCHANGED post, UNCHANGED verdict, UNCHANGED thread, UNCHANGED applied
  PROVE  ExchangeInv'
<1>1. pc'[c] = next /\ \A d \in Call \ {c} : pc'[d] = pc[d]
  BY DEF Goto, TypeInv, TypeOK, CallTypeOK
<1>2. c \in PrepareCall \cup ReviewCall => ExchangeKnows(c)'
  BY <1>1 DEF ExchangeInv, ExchangeKnows, PerformedFor, Posted
<1>3. c \in UpdateCall \cup CreateCall \cup ReadCall => ~Posted(c)'
  BY DEF ExchangeInv, Posted
<1> QED
  BY <1>1, <1>2, <1>3, MoveKeepsExchanges

\* The request is sent once; nothing of it is carried out before.
LEMMA PostKeepsExchanges ==
  ASSUME TypeInv, ExchangeInv, NEW c \in PrepareCall \cup ReviewCall,
         \/ c \in PrepareCall /\ PreparePost(c)
         \/ c \in ReviewCall /\ ReviewPost(c)
  PROVE  ExchangeInv'
<1>1. /\ pc[c] \in UnsentPC /\ pc'[c] \in {"prepare:await", "review:await"}
      /\ post'[c] = "in_flight"
      /\ \A d \in Call \ {c} : pc'[d] = pc[d] /\ post'[d] = post[d] /\ verdict'[d] = verdict[d]
      /\ UNCHANGED thread /\ UNCHANGED applied
  BY DEF PreparePost, ReviewPost, Send, Goto, UnsentPC, TypeInv, TypeOK, CallTypeOK, EngineTypeOK
<1>2. ~PerformedFor(c)
  BY <1>1 DEF ExchangeInv, ExchangeKnows
<1>3. ExchangeKnows(c)'
  BY <1>1, <1>2 DEF ExchangeKnows, PerformedFor, Posted, UnsentPC, ConcludedPC, ThreadStatus
<1> QED
  BY <1>1, <1>3, MoveKeepsExchanges, CallsAreDistinct

\* What is read is what the answer says; a wait given up concludes nothing.
LEMMA AnswerKeepsExchanges ==
  ASSUME TypeInv, ExchangeInv, NEW c \in PrepareCall \cup ReviewCall,
         \/ c \in PrepareCall /\ PrepareAnswer(c)
         \/ c \in ReviewCall /\ ReviewAnswer(c)
  PROVE  ExchangeInv'
<1>1. /\ pc[c] \in {"prepare:await", "review:await"}
      /\ pc'[c] \in {"prepare:read_application", "prepare:require_starting",
                     "review:lock_again", "review:require_submitting"}
      /\ \A d \in Call \ {c} : pc'[d] = pc[d] /\ post'[d] = post[d] /\ verdict'[d] = verdict[d]
      /\ UNCHANGED post /\ UNCHANGED thread /\ UNCHANGED applied
  BY DEF PrepareAnswer, ReviewAnswer, Receive, TimeOut, Goto, engine, TypeInv, TypeOK, CallTypeOK
<1>2. \/ verdict'[c] = "outcome_unknown"
      \/ post[c] \in ThreadStatus /\ verdict'[c] = post[c]
      \/ post[c] = "rejected" /\ verdict'[c] = "failed"
  BY DEF PrepareAnswer, ReviewAnswer, Receive, TimeOut, Classify, Reply, ThreadStatus,
     TypeInv, TypeOK, CallTypeOK
<1>3. ExchangeKnows(c)'
  BY <1>1, <1>2 DEF ExchangeInv, ExchangeKnows, PerformedFor, Posted, UnsentPC, ThreadStatus
<1> QED
  BY <1>1, <1>3, MoveKeepsExchanges, CallsAreDistinct

\* The statements of the services.
LEMMA PrepareKeepsExchanges ==
  ASSUME TypeInv, ExchangeInv, NEW c \in PrepareCall, PrepareStep(c)
  PROVE  ExchangeInv'
<1>1. CASE PreparePost(c)
  BY <1>1, PostKeepsExchanges
<1>2. CASE PrepareAnswer(c)
  BY <1>2, AnswerKeepsExchanges
<1>3. CASE ~PreparePost(c) /\ ~PrepareAnswer(c)
  <2>1. UNCHANGED post /\ UNCHANGED verdict /\ UNCHANGED thread /\ UNCHANGED applied
    BY <1>3 DEF PrepareStep, PrepareFind, PrepareSaveApplication, PrepareAddFails, PrepareAdd,
       PrepareReadApplication, PrepareRequireStarting, PrepareSaveReady, PrepareSave, engine
  <2>2. \E next : /\ Goto(c, next)
                  /\ next \in UnsentPC => pc[c] \in UnsentPC
                  /\ next \in ConcludedPC => pc[c] \in ConcludedPC
    BY <1>3 DEF PrepareStep, PrepareFind, PrepareSaveApplication, PrepareAddFails, PrepareAdd,
       PrepareReadApplication, PrepareRequireStarting, PrepareSaveReady, PrepareSave,
       ReadApplication, Proceed, Commit, UnsentPC, ConcludedPC
  <2> QED
    BY <2>1, <2>2, StatementKeepsExchanges
<1> QED
  BY <1>1, <1>2, <1>3

\* A review call sends once, and hears what the engine made of it.
LEMMA ReviewKeepsExchanges ==
  ASSUME TypeInv, ExchangeInv, NEW c \in ReviewCall, ReviewStep(c)
  PROVE  ExchangeInv'
<1>1. CASE ReviewPost(c)
  BY <1>1, PostKeepsExchanges
<1>2. CASE ReviewAnswer(c)
  BY <1>2, AnswerKeepsExchanges
<1>3. CASE ~ReviewPost(c) /\ ~ReviewAnswer(c)
  <2>1. UNCHANGED post /\ UNCHANGED verdict /\ UNCHANGED thread /\ UNCHANGED applied
    BY <1>3 DEF ReviewStep, ReviewFindKey, ReviewLockFails, ReviewLock, ReviewRecheck,
       ReviewFindUnresolved, ReviewAddFails, ReviewAdd, ReviewLockAgain,
       ReviewReadApplication, ReviewRequireSubmitting, ReviewSaveReady, ReviewSave, engine
  <2>2. \E next : /\ Goto(c, next)
                  /\ next \in UnsentPC => pc[c] \in UnsentPC
                  /\ next \in ConcludedPC => pc[c] \in ConcludedPC
    BY <1>3 DEF ReviewStep, ReviewFindKey, ReviewLockFails, ReviewLock, ReviewRecheck,
       ReviewFindUnresolved, ReviewAddFails, ReviewAdd, ReviewLockAgain,
       ReviewReadApplication, ReviewRequireSubmitting, ReviewSaveReady, ReviewSave,
       Lookup, ReadApplication, Proceed, Commit, UnsentPC, ConcludedPC
  <2> QED
    BY <2>1, <2>2, StatementKeepsExchanges
<1> QED
  BY <1>1, <1>2, <1>3

\* Every other service sends nothing at all.
LEMMA OthersKeepExchanges ==
  ASSUME TypeInv, ExchangeInv, NEW c \in UpdateCall \cup CreateCall \cup ReadCall,
         \A d \in Call \ {c} : pc'[d] = pc[d] /\ verdict'[d] = verdict[d],
         UNCHANGED post, UNCHANGED thread, UNCHANGED applied
  PROVE  ExchangeInv'
BY MoveKeepsExchanges, CallsAreDistinct DEF ExchangeInv, Posted

\* A review under way is about the analysis its application's row names, which
\* the row says is waiting.
LEMMA ReviewUnderWay ==
  ASSUME EngineInv, NEW c \in ReviewCall, post[c] = "in_flight"
  PROVE  LET k == arg[c].key
             a == arg[c].app
             t == target[c] IN
         /\ c \in Call /\ pc[c] # "idle" /\ k \in Key /\ a \in App /\ Pending(k)
         /\ submission[k].app = a /\ submission[k].thread = t
         /\ t \in Thread /\ thread[t] # None /\ post[t] # "in_flight"
         /\ preparation[a].thread = t /\ preparation[a].status = "awaiting_review"
<1>1. c \in Call /\ pc[c] # "idle" /\ ReviewKnows(c) /\ Sends(c) /\ Posted(c)
  BY DEF EngineInv, CallsInv, ReviewInv, ReviewKnows, Sends, Posted
<1>2. arg[c].key \in Key /\ arg[c].app \in App
  BY <1>1, Begun DEF EngineInv, CallsInv
<1>3. Pending(arg[c].key) /\ submission[arg[c].key].app = arg[c].app
  BY <1>1 DEF ReviewKnows, Pending
<1>4. SubmissionKnows(arg[c].key) /\ SenderKnows(c) /\ PreparationKnows(arg[c].app)
  BY <1>2 DEF EngineInv, RecordInv
<1>5. /\ submission[arg[c].key].thread = target[c] /\ target[c] # None
      /\ preparation[arg[c].app].thread = target[c]
      /\ preparation[arg[c].app].status = "awaiting_review"
  BY <1>1, <1>3, <1>4 DEF SenderKnows, SubmissionKnows, Pending
<1>6. target[c] \in Thread /\ thread[target[c]] # None
  BY <1>1, <1>4, <1>5 DEF PreparationKnows, EngineInv, CallsInv, TypeInv, TypeOK, EngineTypeOK
<1>7. post[target[c]] # "in_flight"
  BY <1>6 DEF EngineInv, ExchangeInv, ExchangeKnows, PerformedFor, Thread
<1> QED
  BY <1>1, <1>2, <1>3, <1>5, <1>6, <1>7

\* The engine carries out only what was sent, and a review starts no analysis.
LEMMA EngineKeepsExchanges ==
  ASSUME EngineInv, EngineStep
  PROVE  ExchangeInv'
<1>1. UNCHANGED <<pc, verdict>>
  BY DEF EngineStep
<1>2. ASSUME NEW c \in Call, post[c] = "in_flight",
             \A d \in Call \ {c} : post'[d] = post[d],
             \A d \in (PrepareCall \cup ReviewCall) \ {c} : PerformedFor(d)' = PerformedFor(d),
             post'[c] \in Reply,
             post'[c] \in ThreadStatus => PerformedFor(c)',
             post'[c] \in {"rejected", "conflict"} => ~PerformedFor(c)'
      PROVE  ExchangeInv'
  <2>1. c \in PrepareCall \cup ReviewCall
    BY <1>2 DEF EngineInv, ExchangeInv, Posted
  <2>2. Posted(c) /\ Posted(c)' /\ post'[c] # "in_flight"
    BY <1>2 DEF Posted, Reply, ThreadStatus
  <2>3. ExchangeKnows(c)
    BY <2>1 DEF EngineInv, ExchangeInv
  <2>4. pc[c] \notin UnsentPC /\ (pc[c] \in ConcludedPC => verdict[c] = "outcome_unknown")
    <3>1. pc[c] \in ConcludedPC => verdict[c] \in Verdict
      BY DEF EngineInv, CallsInv, TypeInv, VerdictGiven
    <3> QED
      BY <1>2, <2>2, <2>3, <3>1 DEF ExchangeKnows, Verdict, ThreadStatus
  <2>5. ExchangeKnows(c)'
    BY <1>1, <1>2, <2>2, <2>4 DEF ExchangeKnows, ThreadStatus
  <2>6. \A d \in (PrepareCall \cup ReviewCall) \ {c} : ExchangeKnows(d)'
    BY <1>1, <1>2 DEF EngineInv, ExchangeInv, ExchangeKnows, Posted
  <2>7. \A d \in UpdateCall \cup CreateCall \cup ReadCall : ~Posted(d)'
    BY <1>2, <2>1, CallsAreDistinct DEF EngineInv, ExchangeInv, Posted
  <2> QED
    BY <2>5, <2>6, <2>7 DEF ExchangeInv
<1>3. ASSUME NEW c \in PrepareCall, EngineAnalyse(c) PROVE ExchangeInv'
  <2>1. post[c] = "in_flight" /\ c \in Thread /\ c \notin ReviewCall
    BY <1>3, CallsAreDistinct DEF EngineAnalyse, Thread
  <2>2. thread[c] = None
    BY <2>1 DEF EngineInv, ExchangeInv, ExchangeKnows, PerformedFor
  <2>3. /\ \A d \in Call \ {c} : post'[d] = post[d]
        /\ \A d \in PrepareCall \ {c} : thread'[d] = thread[d]
        /\ UNCHANGED applied
    BY <1>3 DEF EngineAnalyse, Execute, Refuse, Thread, EngineInv, CallsInv, TypeInv, TypeOK,
       EngineTypeOK
  <2>4. \/ post'[c] \in ThreadStatus \cup {"server_error", "malformed"} /\ thread'[c] # None
        \/ post'[c] \in {"rejected", "conflict", "server_error"} /\ thread'[c] = None
    <3>1. CASE Execute(c, c)
      BY <2>1, <3>1, NoneIsNoStatus DEF Execute, EngineInv, CallsInv, TypeInv, TypeOK, EngineTypeOK
    <3>2. CASE Refuse(c)
      BY <2>1, <2>2, <3>2 DEF Refuse, EngineInv, CallsInv, TypeInv, TypeOK, EngineTypeOK
    <3> QED
      BY <1>3, <3>1, <3>2 DEF EngineAnalyse
  <2>5. \A d \in (PrepareCall \cup ReviewCall) \ {c} : PerformedFor(d)' = PerformedFor(d)
    BY <2>3 DEF PerformedFor
  <2>6. /\ post'[c] \in Reply
        /\ post'[c] \in ThreadStatus => PerformedFor(c)'
        /\ post'[c] \in {"rejected", "conflict"} => ~PerformedFor(c)'
    BY <2>4 DEF Reply, ThreadStatus, PerformedFor
  <2> QED
    BY <1>2, <2>1, <2>3, <2>5, <2>6
<1>4. ASSUME NEW c \in ReviewCall, EngineReview(c) PROVE ExchangeInv'
  <2>1. post[c] = "in_flight" /\ c \notin PrepareCall
    BY <1>4, CallsAreDistinct DEF EngineReview
  <2>2. target[c] \in Thread /\ thread[target[c]] # None
    BY <2>1, ReviewUnderWay
  <2>3. /\ \A d \in Call \ {c} : post'[d] = post[d]
        /\ \A d \in PrepareCall : thread'[d] # None <=> thread[d] # None
        /\ \A d \in ReviewCall \ {c} : d \in applied' <=> d \in applied
    <3>1. CASE Execute(c, target[c]) /\ applied' = applied \cup {c}
      BY <2>2, <3>1, NoneIsNoStatus DEF Execute, Thread, EngineInv, CallsInv, TypeInv, TypeOK,
         EngineTypeOK
    <3>2. CASE Refuse(c)
      BY <3>2 DEF Refuse, EngineInv, CallsInv, TypeInv, TypeOK, EngineTypeOK
    <3> QED
      BY <1>4, <3>1, <3>2 DEF EngineReview
  <2>4. c \notin applied
    BY <2>1 DEF EngineInv, ExchangeInv, ExchangeKnows, PerformedFor
  <2>5. \/ post'[c] \in ThreadStatus \cup {"server_error", "malformed"} /\ c \in applied'
        \/ post'[c] \in {"rejected", "conflict", "server_error"} /\ c \notin applied'
    BY <1>4, <2>1, <2>4 DEF EngineReview, Execute, Refuse, ThreadStatus,
       EngineInv, CallsInv, TypeInv, TypeOK, EngineTypeOK
  <2>6. \A d \in (PrepareCall \cup ReviewCall) \ {c} : PerformedFor(d)' = PerformedFor(d)
    BY <2>3, CallsAreDistinct DEF PerformedFor
  <2>7. /\ post'[c] \in Reply
        /\ post'[c] \in ThreadStatus => PerformedFor(c)'
        /\ post'[c] \in {"rejected", "conflict"} => ~PerformedFor(c)'
    BY <2>1, <2>5 DEF Reply, ThreadStatus, PerformedFor
  <2> QED
    BY <1>2, <2>1, <2>3, <2>6, <2>7
<1> QED
  BY <1>3, <1>4 DEF EngineStep

\* Every step.
LEMMA NextKeepsExchanges == EngineInv /\ [Next]_vars => ExchangeInv'
<1>. SUFFICES ASSUME EngineInv, [Next]_vars PROVE ExchangeInv'
  OBVIOUS
<1>. USE DEF EngineInv, CallsInv
<1>1. CASE Arrive
  <2>1. UNCHANGED post /\ UNCHANGED verdict /\ UNCHANGED thread /\ UNCHANGED applied
    BY <1>1 DEF Arrive, PrepareBegin, ReviewBegin, UpdateBegin, CreateBegin, ReadBegin, engine
  <2>2. PICK c \in Call : \E next : next \notin ConcludedPC /\ pc[c] = "idle" /\ Goto(c, next)
    BY <1>1 DEF Arrive, PrepareBegin, ReviewBegin, UpdateBegin, CreateBegin, ReadBegin,
       ReadApplication, Proceed, ConcludedPC
  <2> QED
    BY <2>1, <2>2, StatementKeepsExchanges DEF UnsentPC
<1>2. CASE Advance
  <2>1. ASSUME NEW c \in UpdateCall \cup CreateCall \cup ReadCall,
               \/ c \in UpdateCall /\ UpdateStep(c)
               \/ c \in CreateCall /\ CreateStep(c)
               \/ c \in ReadCall /\ ReadStep(c)
        PROVE  ExchangeInv'
    <3>1. UNCHANGED post /\ UNCHANGED thread /\ UNCHANGED applied
      BY <2>1 DEF UpdateStep, UpdateReplay, UpdateClaim, UpdateSave, CreateStep, CreateReplay,
         CreateClaim, CreateSave, ReadStep, ReadFind, ReadGet, ReadFails, engine
    <3>2. \A d \in Call \ {c} : pc'[d] = pc[d] /\ verdict'[d] = verdict[d]
      BY <2>1 DEF UpdateStep, UpdateReplay, UpdateClaim, UpdateSave, CreateStep, CreateReplay,
         CreateClaim, CreateSave, ReadStep, ReadFind, ReadGet, ReadFails, Proceed, Commit,
         Goto, TypeInv, TypeOK, CallTypeOK
    <3> QED
      BY <3>1, <3>2, OthersKeepExchanges
  <2> QED
    BY <1>2, <2>1, PrepareKeepsExchanges, ReviewKeepsExchanges DEF Advance
<1>3. ASSUME NEW c \in Call, Crash(c) PROVE ExchangeInv'
  BY <1>3, StatementKeepsExchanges DEF Crash, Proceed, engine, UnsentPC, ConcludedPC
<1>4. CASE UNCHANGED vars
  BY <1>4 DEF vars, engine, ExchangeInv, ExchangeKnows, PerformedFor, Posted
<1> QED
  BY <1>1, <1>2, <1>3, <1>4, EngineKeepsExchanges DEF Next

-----------------------------------------------------------------------------
(* The records.                                                            *)

CheckedPC == {"review:find_unresolved", "review:add"}

LockedPC ==
  {"review:read_application", "review:require_submitting", "review:save_ready", "review:save"}

\* Who has sent anything, or has anything carried out, has begun.
LEMMA SendersHaveBegun ==
  ASSUME EngineInv, NEW c \in Call, Posted(c) \/ c \in applied \/ (c \in PrepareCall /\ thread[c] # None)
  PROVE  pc[c] # "idle" /\ Posted(c) /\ c \in PrepareCall \cup ReviewCall /\ arg[c].app \in App
<1>1. c \in applied => c \in ReviewCall /\ c \notin PrepareCall
  BY CallsAreDistinct DEF EngineInv, CallsInv, TypeInv, TypeOK, EngineTypeOK
<1>2. Posted(c) /\ c \in PrepareCall \cup ReviewCall
  BY <1>1 DEF EngineInv, ExchangeInv, ExchangeKnows, PerformedFor
<1>3. pc[c] # "idle"
  BY <1>2 DEF EngineInv, ExchangeInv, ExchangeKnows, UnsentPC
<1> QED
  BY <1>2, <1>3, Begun DEF EngineInv, CallsInv

\* A step of one call that neither sends nor writes a record.
LEMMA QuietKeepsRecords ==
  ASSUME EngineInv, NEW c \in Call,
         \A d \in Call \ {c} : pc'[d] = pc[d] /\ arg'[d] = arg[d] /\ verdict'[d] = verdict[d],
         \A d \in ReviewCall \ {c} : \A row \in Lockable : lock[row] = d => lock'[row] = d,
         \A d \in ReviewCall : target'[d] = target[d],
         UNCHANGED preparation, UNCHANGED submission, UNCHANGED post, UNCHANGED thread,
         UNCHANGED applied,
         pc[c] = "idle" \/ arg'[c] = arg[c],
         c \in PrepareCall /\ pc'[c] \in OwnerPC => pc[c] \in OwnerPC /\ Owns(c)',
         c \in ReviewCall /\ pc'[c] \in CheckedPC =>
           arg'[c] = arg[c] /\ preparation[arg[c].app].status = "awaiting_review",
         c \in ReviewCall /\ pc'[c] \in LockedPC /\ verdict'[c] \in ThreadStatus =>
           lock'[PreparationRow(arg'[c].app)] = c
  PROVE  RecordInv'
<1>1. \A d \in Call : pc[d] # "idle" => arg'[d] = arg[d]
  OBVIOUS
<1>2. \A d \in Call : Posted(d)' = Posted(d) /\ (Posted(d) => arg'[d] = arg[d])
  BY <1>1, SendersHaveBegun DEF Posted
<1>3. ASSUME NEW d \in PrepareCall PROVE OwnerKnows(d)'
  <2>1. OwnerKnows(d)
    BY DEF EngineInv, RecordInv
  <2>2. post[d] = "in_flight" => arg'[d] = arg[d]
    BY <1>2 DEF Posted
  <2>3. pc'[d] \in OwnerPC => pc[d] \in OwnerPC /\ arg'[d] = arg[d] /\ Owns(d)'
    <3>1. CASE d = c
      BY <1>1, <3>1 DEF OwnerPC
    <3>2. CASE d # c
      BY <1>2, <2>1, <3>2 DEF OwnerKnows, Owns
    <3> QED
      BY <3>1, <3>2
  <2> QED
    BY <2>1, <2>2, <2>3 DEF OwnerKnows
<1>4. ASSUME NEW a \in App PROVE PreparationKnows(a)'
  <2>1. PreparationKnows(a)
    BY DEF EngineInv, RecordInv
  <2>2. preparation[a].thread # None =>
          arg'[preparation[a].thread] = arg[preparation[a].thread]
    <3>1. preparation[a].thread \in Thread \cup {None}
      BY DEF EngineInv, CallsInv, TypeInv, TypeOK, StoreTypeOK, Preparation
    <3>2. SUFFICES ASSUME NEW t \in Thread, preparation[a].thread = t, thread[t] # None
                   PROVE  arg'[t] = arg[t]
      BY <2>1, <3>1 DEF PreparationKnows
    <3> QED
      BY <1>2, <3>2, SendersHaveBegun DEF Thread
  <2>3. preparation[a].status = "failed" =>
          \A d \in PrepareCall : arg'[d].app = a => thread[d] = None /\ post[d] # "in_flight"
    <3>. SUFFICES ASSUME preparation[a].status = "failed", NEW d \in PrepareCall, arg'[d].app = a
                  PROVE  thread[d] = None /\ post[d] # "in_flight"
      OBVIOUS
    <3>1. CASE Posted(d)
      BY <1>2, <2>1, <3>1 DEF PreparationKnows
    <3>2. CASE ~Posted(d)
      BY <3>2, SendersHaveBegun DEF Posted
    <3> QED
      BY <3>1, <3>2
  <2> QED
    BY <2>1, <2>2, <2>3 DEF PreparationKnows
<1>5. \A k \in Key : SubmissionKnows(k)'
  BY DEF EngineInv, RecordInv, SubmissionKnows
<1>6. ASSUME NEW d \in ReviewCall PROVE SenderKnows(d)'
  <2>1. SenderKnows(d)
    BY DEF EngineInv, RecordInv
  <2>2. Posted(d) => arg'[d] = arg[d]
    BY <1>2
  <2>3. post[d] \in ThreadStatus => Posted(d)
    BY DEF Posted, ThreadStatus
  <2>4. pc'[d] \in CheckedPC => preparation[arg'[d].app].status = "awaiting_review"
    <3>1. CASE d = c
      BY <3>1
    <3>2. CASE d # c
      BY <2>1, <3>2 DEF SenderKnows, CheckedPC
    <3> QED
      BY <3>1, <3>2
  <2>5. pc'[d] \in LockedPC /\ verdict'[d] \in ThreadStatus =>
          lock'[PreparationRow(arg'[d].app)] = d
    <3>1. CASE d = c
      BY <3>1
    <3>2. CASE d # c
      <4>. SUFFICES ASSUME pc[d] \in LockedPC, verdict[d] \in ThreadStatus
                    PROVE  lock'[PreparationRow(arg[d].app)] = d
        BY <3>2
      <4>1. arg[d].app \in App
        BY Begun DEF LockedPC, EngineInv, CallsInv
      <4> QED
        BY <2>1, <3>2, <4>1, RowsAreLockable DEF SenderKnows, LockedPC
    <3> QED
      BY <3>1, <3>2
  <2> QED
    BY <2>1, <2>2, <2>3, <2>4, <2>5 DEF SenderKnows, Posted, CheckedPC, LockedPC, PreparationRow
<1> QED
  BY <1>3, <1>4, <1>5, <1>6 DEF RecordInv

\* The INSERT of a preparation: there was none, so nobody knew of one.
LEMMA PrepareAddKeepsRecords ==
  ASSUME EngineInv, NEW c \in PrepareCall, InsertsPreparation(c)
  PROVE  RecordInv'
<1>. DEFINE a == arg[c].app
<1>1. /\ c \in Call /\ c \notin ReviewCall /\ a \in App /\ pc[c] \in {"prepare:find", "prepare:add"}
      /\ preparation[a] = NoPreparation /\ ~Posted(c)
  BY Begun, CallsAreDistinct DEF InsertsPreparation, Prepared, EngineInv, CallsInv, ExchangeInv,
     ExchangeKnows, UnsentPC
<1>2. /\ pc'[c] = "prepare:post" /\ \A d \in Call \ {c} : pc'[d] = pc[d]
      /\ UNCHANGED submission /\ UNCHANGED arg /\ UNCHANGED verdict /\ UNCHANGED post
      /\ UNCHANGED target /\ UNCHANGED thread /\ UNCHANGED applied
      /\ preparation'[a] = [status |-> "starting", thread |-> None]
      /\ \A b \in App \ {a} : preparation'[b] = preparation[b]
  BY <1>1 DEF InsertsPreparation, Goto, engine, EngineInv, CallsInv, TypeInv, TypeOK,
     CallTypeOK, StoreTypeOK
<1>3. \A d \in ReviewCall : \A row \in Lockable : lock[row] = d => lock'[row] = d
  BY <1>1 DEF InsertsPreparation, KeepsLocks
<1>4. ASSUME NEW d \in PrepareCall PROVE OwnerKnows(d)'
  <2>1. OwnerKnows(d)
    BY DEF EngineInv, RecordInv
  <2>2. CASE d = c
    BY <1>1, <1>2, <2>2 DEF OwnerKnows, Owns, Posted, OwnerPC, ThreadStatus
  <2>3. CASE d # c
    <3>1. Owns(d)' = Owns(d) /\ (post[d] = "in_flight" \/ pc[d] \in OwnerPC => Owns(d))
      BY <1>2, <2>1, <2>3 DEF Owns, Posted, OwnerKnows
    <3>2. Owns(d) => arg[d].app \in App \ {a}
      BY <1>1, OwnersHaveBegun DEF EngineInv, CallsInv, AnalysisInv, Prepared
    <3> QED
      BY <1>2, <2>1, <2>3, <3>1, <3>2 DEF OwnerKnows
  <2> QED
    BY <2>2, <2>3
<1>5. ASSUME NEW b \in App PROVE PreparationKnows(b)'
  <2>1. PreparationKnows(b)
    BY DEF EngineInv, RecordInv
  <2>2. CASE b = a
    BY <1>2, <2>2 DEF PreparationKnows, ThreadStatus
  <2>3. CASE b # a
    BY <1>2, <2>1, <2>3 DEF PreparationKnows
  <2> QED
    BY <2>2, <2>3
<1>6. ASSUME NEW k \in Key PROVE SubmissionKnows(k)'
  <2>1. SubmissionKnows(k)
    BY DEF EngineInv, RecordInv
  <2>2. submission[k] # None => submission[k].app \in App \ {a}
    <3>1. submission[k] # None => submission[k].app \in App
      BY DEF EngineInv, CallsInv, TypeInv, TypeOK, StoreTypeOK, Submission
    <3> QED
      BY <1>1, <2>1, <3>1 DEF SubmissionKnows, NoPreparation
  <2> QED
    BY <1>2, <2>1, <2>2 DEF SubmissionKnows
<1>7. ASSUME NEW d \in ReviewCall PROVE SenderKnows(d)'
  <2>1. SenderKnows(d) /\ d # c /\ d \in Call
    BY <1>1 DEF EngineInv, RecordInv
  <2>2. pc[d] # "idle" => arg[d].app \in App
    BY <2>1, Begun DEF EngineInv, CallsInv
  <2>3. pc[d] \in {"review:find_unresolved", "review:add"} =>
          preparation'[arg[d].app].status = "awaiting_review"
    BY <1>1, <1>2, <2>1, <2>2 DEF SenderKnows, NoPreparation, Absent
  <2>4. pc[d] # "idle" => PreparationRow(arg[d].app) \in Lockable
    BY <2>2, RowsAreLockable
  <2> QED
    BY <1>2, <1>3, <2>1, <2>3, <2>4 DEF SenderKnows, Posted, PreparationRow
<1> QED
  BY <1>4, <1>5, <1>6, <1>7 DEF RecordInv

\* Sending an analysis or a review.
LEMMA PostKeepsRecords ==
  ASSUME EngineInv, NEW c \in PrepareCall \cup ReviewCall,
         \/ c \in PrepareCall /\ PreparePost(c)
         \/ c \in ReviewCall /\ ReviewPost(c)
  PROVE  RecordInv'
<1>1. /\ c \in Call /\ pc[c] \in {"prepare:post", "review:post"}
      /\ pc'[c] \in {"prepare:await", "review:await"}
      /\ post'[c] = "in_flight"
      /\ \A d \in Call \ {c} : pc'[d] = pc[d] /\ post'[d] = post[d] /\ target'[d] = target[d]
      /\ UNCHANGED <<preparation, submission, arg, verdict, thread, applied, lock>>
      /\ c \in ReviewCall => target'[c] = submission[arg[c].key].thread
  BY CallsAreDistinct DEF PreparePost, ReviewPost, Send, Goto, tables, EngineInv, CallsInv,
     TypeInv, TypeOK, CallTypeOK, EngineTypeOK
<1>2. ASSUME NEW d \in PrepareCall PROVE OwnerKnows(d)'
  <2>1. OwnerKnows(d)
    BY DEF EngineInv, RecordInv
  <2>2. CASE d = c
    <3>1. pc[d] \in OwnerPC
      BY <1>1, <2>2, CallsAreDistinct DEF OwnerPC, PreparePost, ReviewPost
    <3> QED
      BY <1>1, <2>1, <2>2, <3>1 DEF OwnerKnows, Owns, Posted, ThreadStatus
  <2>3. CASE d # c
    BY <1>1, <2>1, <2>3 DEF OwnerKnows, Owns, Posted
  <2> QED
    BY <2>2, <2>3
<1>3. ASSUME NEW a \in App PROVE PreparationKnows(a)'
  <2>1. PreparationKnows(a)
    BY DEF EngineInv, RecordInv
  <2>2. c \in PrepareCall /\ arg[c].app = a => preparation[a].status # "failed"
    <3>1. c \in PrepareCall => pc[c] \in OwnerPC
      BY <1>1, CallsAreDistinct DEF OwnerPC, PreparePost, ReviewPost
    <3> QED
      BY <3>1 DEF EngineInv, RecordInv, OwnerKnows
  <2> QED
    BY <1>1, <2>1, <2>2 DEF PreparationKnows
<1>4. \A k \in Key : SubmissionKnows(k)'
  BY <1>1 DEF EngineInv, RecordInv, SubmissionKnows
<1>5. ASSUME NEW d \in ReviewCall PROVE SenderKnows(d)'
  <2>1. SenderKnows(d)
    BY DEF EngineInv, RecordInv
  <2>2. CASE d = c
    BY <1>1, <2>2 DEF SenderKnows, ThreadStatus
  <2>3. CASE d # c
    BY <1>1, <2>1, <2>3 DEF SenderKnows, Posted, PreparationRow
  <2> QED
    BY <2>2, <2>3
<1> QED
  BY <1>2, <1>3, <1>4, <1>5 DEF RecordInv

\* The UPDATE of a preparation by its owner: what the answer said, or that
\* nothing is known.
LEMMA PrepareSaveKeepsRecords ==
  ASSUME EngineInv, NEW c \in PrepareCall, SavesPreparation(c)
  PROVE  RecordInv'
<1>. DEFINE a == arg[c].app
<1>1. /\ c \in Call /\ c \notin ReviewCall /\ a \in App /\ pc[c] \in OwnerPC \cap ConcludedPC
      /\ verdict[c] \in Verdict
  BY Begun, CallsAreDistinct DEF SavesPreparation, EngineInv, CallsInv, TypeInv, VerdictGiven,
     ConcludedPC, OwnerPC
<1>2. /\ Owns(c) /\ preparation[a] = [status |-> "starting", thread |-> None]
      /\ verdict[c] \in ThreadStatus => thread[c] = verdict[c]
      /\ verdict[c] = "failed" => thread[c] = None
      /\ post[c] = "in_flight" => verdict[c] = "outcome_unknown"
  BY <1>1 DEF EngineInv, RecordInv, OwnerKnows, OwnerPC, ExchangeInv, ExchangeKnows,
     ConcludedPC, PerformedFor, Verdict, ThreadStatus
<1>3. /\ pc'[c] \in {"returned", "agent_error"} /\ \A d \in Call \ {c} : pc'[d] = pc[d]
      /\ UNCHANGED submission /\ UNCHANGED arg /\ UNCHANGED verdict /\ UNCHANGED post
      /\ UNCHANGED target /\ UNCHANGED thread /\ UNCHANGED applied
      /\ preparation'[a] =
           [status |-> verdict[c], thread |-> IF verdict[c] \in ThreadStatus THEN c ELSE None]
      /\ \A b \in App \ {a} : preparation'[b] = preparation[b]
  BY <1>1 DEF SavesPreparation, Goto, engine, EngineInv, CallsInv, TypeInv, TypeOK,
     CallTypeOK, StoreTypeOK
<1>4. \A d \in ReviewCall : \A row \in Lockable : lock[row] = d => lock'[row] = d
  BY <1>1 DEF SavesPreparation, KeepsLocks
<1>5. \A d \in PrepareCall : Owns(d) /\ arg[d].app = a => d = c
  BY <1>2 DEF EngineInv, CallsInv, AnalysisInv
<1>6. ASSUME NEW d \in PrepareCall PROVE OwnerKnows(d)'
  <2>1. OwnerKnows(d)
    BY DEF EngineInv, RecordInv
  <2>2. CASE d = c
    BY <1>2, <1>3, <2>2 DEF OwnerKnows, OwnerPC, ThreadStatus
  <2>3. CASE d # c
    <3>1. Owns(d)' = Owns(d) /\ (post[d] = "in_flight" \/ pc[d] \in OwnerPC => Owns(d))
      BY <1>3, <2>1, <2>3 DEF Owns, Posted, OwnerKnows
    <3>2. Owns(d) => arg[d].app \in App \ {a}
      BY <1>5, <2>3, OwnersHaveBegun DEF EngineInv, CallsInv
    <3> QED
      BY <1>3, <2>1, <2>3, <3>1, <3>2 DEF OwnerKnows
  <2> QED
    BY <2>2, <2>3
<1>7. ASSUME NEW b \in App PROVE PreparationKnows(b)'
  <2>1. PreparationKnows(b)
    BY DEF EngineInv, RecordInv
  <2>2. CASE b = a
    <3>1. c # None /\ None \notin ThreadStatus
      BY <1>1, CallsAreDistinct, NoneIsNoStatus
    <3>2. verdict[c] = "failed" =>
            \A d \in PrepareCall : arg[d].app = a => thread[d] = None /\ post[d] # "in_flight"
      <4>. SUFFICES ASSUME verdict[c] = "failed", NEW d \in PrepareCall, arg[d].app = a
                    PROVE  thread[d] = None /\ post[d] # "in_flight"
        OBVIOUS
      <4>1. CASE Posted(d)
        BY <1>2, <1>5, <4>1 DEF Owns
      <4>2. CASE ~Posted(d)
        BY <4>2, SendersHaveBegun DEF Posted
      <4> QED
        BY <4>1, <4>2
    <3> QED
      BY <1>2, <1>3, <2>2, <3>1, <3>2 DEF PreparationKnows, ThreadStatus
  <2>3. CASE b # a
    BY <1>3, <2>1, <2>3 DEF PreparationKnows
  <2> QED
    BY <2>2, <2>3
<1>8. ASSUME NEW k \in Key PROVE SubmissionKnows(k)'
  <2>1. SubmissionKnows(k)
    BY DEF EngineInv, RecordInv
  <2>2. submission[k] # None => submission[k].app \in App \ {a}
    <3>1. submission[k] # None => submission[k].app \in App
      BY DEF EngineInv, CallsInv, TypeInv, TypeOK, StoreTypeOK, Submission
    <3> QED
      BY <1>2, <2>1, <3>1 DEF SubmissionKnows
  <2> QED
    BY <1>3, <2>1, <2>2 DEF SubmissionKnows
<1>9. ASSUME NEW d \in ReviewCall PROVE SenderKnows(d)'
  <2>1. SenderKnows(d) /\ d # c /\ d \in Call
    BY <1>1 DEF EngineInv, RecordInv
  <2>2. pc[d] # "idle" => arg[d].app \in App
    BY <2>1, Begun DEF EngineInv, CallsInv
  <2>3. pc[d] \in {"review:find_unresolved", "review:add"} =>
          preparation'[arg[d].app].status = "awaiting_review"
    BY <1>2, <1>3, <2>1, <2>2 DEF SenderKnows
  <2>4. pc[d] # "idle" => PreparationRow(arg[d].app) \in Lockable
    BY <2>2, RowsAreLockable
  <2> QED
    BY <1>3, <1>4, <2>1, <2>3, <2>4 DEF SenderKnows, Posted, PreparationRow
<1> QED
  BY <1>6, <1>7, <1>8, <1>9 DEF RecordInv

\* The sender of a review whose submission is still to be saved.
LEMMA SenderSubmitting ==
  ASSUME EngineInv, NEW c \in ReviewCall, pc[c] \in {"review:lock_again"} \cup LockedPC
  PROVE  LET k == arg[c].key
             a == arg[c].app IN
         /\ c \in Call /\ k \in Key /\ a \in App /\ Posted(c) /\ verdict[c] \in Verdict
         /\ submission[k] \in Submission /\ submission[k] # None
         /\ submission[k].status = "submitting" /\ submission[k].app = a
         /\ preparation[a].thread = submission[k].thread
         /\ preparation[a].status = "awaiting_review"
         /\ \A d \in ReviewCall : Sends(d) /\ arg[d].key = k => d = c
         /\ \A l \in Key : Pending(l) /\ submission[l].app = a => l = k
<1>1. pc[c] \in SubmittedPC \cap ConcludedPC /\ pc[c] # "idle" /\ c \in Call
  BY DEF LockedPC, SubmittedPC, ConcludedPC
<1>2. arg[c].key \in Key /\ arg[c].app \in App /\ verdict[c] \in Verdict
  BY <1>1, Begun DEF EngineInv, CallsInv, TypeInv, VerdictGiven
<1>3. /\ Sends(c) /\ Posted(c) /\ submission[arg[c].key] # None
      /\ submission[arg[c].key].status = "submitting"
      /\ submission[arg[c].key].app = arg[c].app
  BY <1>1 DEF EngineInv, CallsInv, ReviewInv, ReviewKnows, Sends, ConcludedPC
<1>4. submission[arg[c].key] \in Submission
  BY <1>2, <1>3 DEF EngineInv, CallsInv, TypeInv, TypeOK, StoreTypeOK
<1>5. /\ preparation[arg[c].app].thread = submission[arg[c].key].thread
      /\ preparation[arg[c].app].status = "awaiting_review"
  BY <1>2, <1>3 DEF EngineInv, RecordInv, SubmissionKnows, UnresolvedStatus
<1>6. \A d \in ReviewCall : Sends(d) /\ arg[d].key = arg[c].key => d = c
  BY <1>3 DEF EngineInv, CallsInv, ReviewInv
<1>7. \A l \in Key : Pending(l) /\ submission[l].app = arg[c].app => l = arg[c].key
  BY <1>2, <1>3 DEF EngineInv, CallsInv, ReviewInv, Pending, UnresolvedStatus
<1> QED
  BY <1>1, <1>2, <1>3, <1>4, <1>5, <1>6, <1>7

\* The INSERT of a submission: the analysis waits, and nothing else is unresolved.
LEMMA ReviewAddKeepsRecords ==
  ASSUME EngineInv, NEW c \in ReviewCall, InsertsSubmission(c),
         preparation[arg[c].app].status = "awaiting_review"
  PROVE  RecordInv'
<1>. DEFINE a == arg[c].app
            k == arg[c].key
<1>1. /\ c \in Call /\ c \notin PrepareCall /\ a \in App /\ k \in Key /\ pc[c] \in {"review:find_key", "review:add"}
      /\ arg[c].want \in Decision /\ submission[k] = None /\ ~Posted(c)
  BY Begun, CallsAreDistinct DEF InsertsSubmission, EngineInv, CallsInv, ExchangeInv,
     ExchangeKnows, UnsentPC
<1>. DEFINE row == [app |-> a, want |-> arg[c].want, thread |-> preparation[a].thread,
                    status |-> "submitting", outcome |-> None]
<1>2. row # None /\ row.app = a /\ row.thread = preparation[a].thread /\ row.status = "submitting"
  <2>1. row \in Submission
    BY <1>1 DEF Submission, SubmissionStatus, EngineInv, CallsInv, TypeInv, TypeOK,
       StoreTypeOK, Preparation
  <2> QED
    BY <2>1, NoneIsNoRow
<1>3. /\ pc'[c] = "review:post" /\ \A d \in Call \ {c} : pc'[d] = pc[d]
      /\ UNCHANGED preparation /\ UNCHANGED arg /\ UNCHANGED verdict /\ UNCHANGED post
      /\ UNCHANGED target /\ UNCHANGED thread /\ UNCHANGED applied
      /\ submission'[k] = row /\ \A l \in Key \ {k} : submission'[l] = submission[l]
  BY <1>1 DEF InsertsSubmission, Goto, engine, EngineInv, CallsInv, TypeInv, TypeOK,
     CallTypeOK, StoreTypeOK
<1>. HIDE DEF row
<1>4. preparation[a].thread # None
  BY <1>1 DEF EngineInv, RecordInv, PreparationKnows, ThreadStatus
<1>5. \A d \in ReviewCall \ {c} : \A r \in Lockable : lock[r] = d => lock'[r] = d
  BY <1>1 DEF InsertsSubmission, KeepsLocks
<1>6. \A d \in PrepareCall : OwnerKnows(d)'
  BY <1>1, <1>3 DEF EngineInv, RecordInv, OwnerKnows, Owns, Posted
<1>7. \A b \in App : PreparationKnows(b)'
  BY <1>3 DEF EngineInv, RecordInv, PreparationKnows
<1>8. ASSUME NEW l \in Key PROVE SubmissionKnows(l)'
  <2>1. CASE l = k
    BY <1>2, <1>3, <1>4, <2>1 DEF SubmissionKnows
  <2>2. CASE l # k
    BY <1>3, <2>2 DEF EngineInv, RecordInv, SubmissionKnows
  <2> QED
    BY <2>1, <2>2
<1>9. ASSUME NEW d \in ReviewCall PROVE SenderKnows(d)'
  <2>1. SenderKnows(d)
    BY DEF EngineInv, RecordInv
  <2>2. CASE d = c
    BY <1>1, <1>3, <2>2 DEF SenderKnows, Posted
  <2>3. CASE d # c
    <3>1. Posted(d) => arg[d].key \in Key \ {k}
      <4>1. Posted(d) => submission[arg[d].key] # None
        BY DEF EngineInv, CallsInv, ReviewInv, ReviewKnows, Sends
      <4>2. Posted(d) => arg[d].key \in Key
        BY SendersHaveBegun, Begun DEF EngineInv, CallsInv
      <4> QED
        BY <1>1, <4>1, <4>2
    <3>2. post[d] = "completed" => Posted(d)
      BY DEF Posted
    <3>3. pc[d] # "idle" => PreparationRow(arg[d].app) \in Lockable
      BY Begun, RowsAreLockable DEF EngineInv, CallsInv
    <3> QED
      BY <1>3, <1>5, <2>1, <2>3, <3>1, <3>2, <3>3 DEF SenderKnows, Posted, PreparationRow
  <2> QED
    BY <2>2, <2>3
<1> QED
  BY <1>6, <1>7, <1>8, <1>9 DEF RecordInv

\* What the UPDATEs that record the outcome of a review write.
LEMMA ReviewSaveWrites ==
  ASSUME EngineInv, NEW c \in ReviewCall, SavesSubmission(c)
  PROVE  LET a == arg[c].app
             k == arg[c].key IN
         /\ submission'[k] \in Submission /\ submission'[k] # None
         /\ submission'[k].app = a /\ submission'[k].thread = submission[k].thread
         /\ submission'[k].want = submission[k].want
         /\ submission'[k].status = IF verdict[c] \in ThreadStatus THEN "completed" ELSE verdict[c]
         /\ submission'[k].outcome = IF verdict[c] \in ThreadStatus THEN verdict[c] ELSE None
         /\ \A l \in Key \ {k} : submission'[l] = submission[l]
         /\ preparation'[a].thread = preparation[a].thread
         /\ preparation'[a].status = IF verdict[c] = "completed" THEN "completed" ELSE "awaiting_review"
         /\ \A b \in App \ {a} : preparation'[b] = preparation[b]
<1>. DEFINE a == arg[c].app
            k == arg[c].key
            t == submission[k].thread
<1>1. pc[c] \in {"review:lock_again"} \cup LockedPC
  BY DEF SavesSubmission, LockedPC
<1>2. /\ c \in Call /\ k \in Key /\ a \in App /\ verdict[c] \in Verdict
      /\ submission[k] \in Submission /\ submission[k] # None /\ submission[k].app = a
      /\ preparation[a].thread = t /\ preparation[a].status = "awaiting_review"
  BY <1>1, SenderSubmitting
<1>3. /\ submission'[k] \in Submission /\ submission'[k] # None
      /\ submission'[k].app = a /\ submission'[k].thread = t /\ submission'[k].want = submission[k].want
      /\ submission'[k].status = IF verdict[c] \in ThreadStatus THEN "completed" ELSE verdict[c]
      /\ submission'[k].outcome = IF verdict[c] \in ThreadStatus THEN verdict[c] ELSE None
      /\ \A l \in Key \ {k} : submission'[l] = submission[l]
  <2>. DEFINE status == IF verdict[c] \in ThreadStatus THEN "completed" ELSE verdict[c]
              outcome == IF verdict[c] \in ThreadStatus THEN verdict[c] ELSE None
              row == [[submission[k] EXCEPT !.status = status] EXCEPT !.outcome = outcome]
  <2>1. submission' = [submission EXCEPT ![k] = row]
    BY DEF SavesSubmission
  <2>2. status \in SubmissionStatus /\ outcome \in ThreadStatus \cup {None}
    BY <1>2 DEF SubmissionStatus, Verdict, ThreadStatus
  <2>3. row \in Submission /\ row.app = a /\ row.thread = t /\ row.status = status
        /\ row.outcome = outcome /\ row.want = submission[k].want
    BY <1>2, <2>2 DEF Submission
  <2>4. row # None
    BY <2>3, NoneIsNoRow
  <2>. HIDE DEF row
  <2> QED
    BY <1>2, <2>1, <2>3, <2>4 DEF EngineInv, CallsInv, TypeInv, TypeOK, StoreTypeOK
<1>4. /\ preparation'[a].thread = t
      /\ preparation'[a].status = IF verdict[c] = "completed" THEN "completed" ELSE "awaiting_review"
      /\ \A b \in App \ {a} : preparation'[b] = preparation[b]
  <2>1. preparation[a] \in Preparation /\ preparation \in [App -> Preparation]
    BY <1>2 DEF EngineInv, CallsInv, TypeInv, TypeOK, StoreTypeOK
  <2>2. CASE verdict[c] = "completed"
    <3>1. preparation' = [preparation EXCEPT ![a] = [preparation[a] EXCEPT !.status = "completed"]]
      BY <2>2 DEF SavesSubmission
    <3> QED
      BY <1>2, <2>1, <2>2, <3>1 DEF Preparation
  <2>3. CASE verdict[c] # "completed"
    <3>1. UNCHANGED preparation
      BY <2>3 DEF SavesSubmission
    <3> QED
      BY <1>2, <2>3, <3>1
  <2> QED
    BY <2>2, <2>3
<1> QED
  BY <1>2, <1>3, <1>4

\* They keep the records true.
LEMMA ReviewSaveKeepsRecords ==
  ASSUME EngineInv, NEW c \in ReviewCall, SavesSubmission(c),
         verdict[c] = "completed" =>
           \A d \in ReviewCall \ {c} : pc[d] \in CheckedPC => arg[d].app # arg[c].app
  PROVE  RecordInv'
<1>. DEFINE a == arg[c].app
            k == arg[c].key
            t == submission[k].thread
<1>1. pc[c] \in {"review:lock_again"} \cup LockedPC /\ pc[c] \in ConcludedPC
  BY DEF SavesSubmission, LockedPC, ConcludedPC
<1>2. /\ c \in Call /\ k \in Key /\ a \in App /\ Posted(c) /\ verdict[c] \in Verdict
      /\ submission[k] \in Submission /\ submission[k] # None
      /\ submission[k].status = "submitting" /\ submission[k].app = a
      /\ preparation[a].thread = t /\ preparation[a].status = "awaiting_review"
      /\ \A d \in ReviewCall : Sends(d) /\ arg[d].key = k => d = c
      /\ \A l \in Key : Pending(l) /\ submission[l].app = a => l = k
  BY <1>1, SenderSubmitting
<1>3. /\ pc'[c] \in {"returned", "agent_error"} /\ \A d \in Call \ {c} : pc'[d] = pc[d]
      /\ UNCHANGED arg /\ UNCHANGED verdict /\ UNCHANGED post
      /\ UNCHANGED target /\ UNCHANGED thread /\ UNCHANGED applied
  BY <1>2 DEF SavesSubmission, Goto, engine, EngineInv, CallsInv, TypeInv, TypeOK, CallTypeOK
<1>4. /\ submission'[k] \in Submission /\ submission'[k] # None
      /\ submission'[k].app = a /\ submission'[k].thread = t
      /\ submission'[k].status = IF verdict[c] \in ThreadStatus THEN "completed" ELSE verdict[c]
      /\ \A l \in Key \ {k} : submission'[l] = submission[l]
  BY ReviewSaveWrites
<1>5. /\ preparation'[a].thread = t
      /\ preparation'[a].status = IF verdict[c] = "completed" THEN "completed" ELSE "awaiting_review"
      /\ \A b \in App \ {a} : preparation'[b] = preparation[b]
  BY <1>2, ReviewSaveWrites
<1>6. /\ verdict[c] = "completed" => thread[t] = "completed"
      /\ t # None /\ thread[t] # None
  <2>1. verdict[c] = "completed" => post[c] = "completed"
    BY <1>1, CallsAreDistinct DEF EngineInv, ExchangeInv, ExchangeKnows, ThreadStatus
  <2> QED
    BY <1>2, <2>1 DEF EngineInv, RecordInv, SenderKnows, PreparationKnows, ThreadStatus
<1>7. \A d \in ReviewCall \ {c} : \A r \in Lockable : lock[r] = d => lock'[r] = d
  BY <1>2 DEF SavesSubmission, KeepsLocks
<1>8. ASSUME NEW d \in PrepareCall PROVE OwnerKnows(d)'
  <2>1. OwnerKnows(d) /\ d # c
    BY CallsAreDistinct DEF EngineInv, RecordInv
  <2>2. post[d] = "in_flight" \/ pc[d] \in OwnerPC => arg[d].app \in App \ {a}
    <3>1. post[d] = "in_flight" \/ pc[d] \in OwnerPC => Owns(d)
      BY <2>1 DEF OwnerKnows, Owns, Posted
    <3>2. post[d] = "in_flight" \/ pc[d] \in OwnerPC => arg[d].app # a
      BY <1>2, <2>1 DEF OwnerKnows
    <3> QED
      BY <3>1, <3>2, OwnersHaveBegun DEF EngineInv, CallsInv
  <2> QED
    BY <1>3, <1>5, <2>1, <2>2 DEF OwnerKnows, Owns, Posted
<1>9. ASSUME NEW b \in App PROVE PreparationKnows(b)'
  <2>1. PreparationKnows(b)
    BY DEF EngineInv, RecordInv
  <2>2. CASE b = a
    <3>1. arg[t].app = a
      BY <1>2, <1>6, <2>1, <2>2 DEF PreparationKnows
    <3> QED
      BY <1>3, <1>5, <1>6, <2>2, <3>1 DEF PreparationKnows, ThreadStatus
  <2>3. CASE b # a
    BY <1>3, <1>5, <2>1, <2>3 DEF PreparationKnows
  <2> QED
    BY <2>2, <2>3
<1>10. ASSUME NEW l \in Key PROVE SubmissionKnows(l)'
  <2>1. SubmissionKnows(l)
    BY DEF EngineInv, RecordInv
  <2>2. CASE l = k
    <3>1. submission'[k].status \in UnresolvedStatus => verdict[c] = "outcome_unknown"
      BY <1>2, <1>4 DEF UnresolvedStatus, Verdict, ThreadStatus
    <3> QED
      BY <1>2, <1>4, <1>5, <1>6, <2>2, <3>1 DEF SubmissionKnows
  <2>3. CASE l # k
    <3>1. submission[l] # None => submission[l].app \in App
      BY DEF EngineInv, CallsInv, TypeInv, TypeOK, StoreTypeOK, Submission
    <3>2. submission[l] # None /\ submission[l].app = a => submission[l].status \notin UnresolvedStatus
      BY <1>2, <2>3 DEF Pending
    <3> QED
      BY <1>2, <1>3, <1>4, <1>5, <2>1, <2>3, <3>1, <3>2 DEF SubmissionKnows
  <2> QED
    BY <2>2, <2>3
<1>11. ASSUME NEW d \in ReviewCall PROVE SenderKnows(d)'
  <2>1. SenderKnows(d)
    BY DEF EngineInv, RecordInv
  <2>2. CASE d = c
    <3>1. submission'[k].status # "submitting"
      BY <1>2, <1>4 DEF Verdict, ThreadStatus
    <3> QED
      BY <1>3, <1>4, <2>1, <2>2, <3>1 DEF SenderKnows, Posted
  <2>3. CASE d # c
    <3>1. Posted(d) => arg[d].key \in Key \ {k}
      <4>1. Posted(d) => arg[d].key # k
        BY <1>2, <2>3 DEF Sends
      <4>2. Posted(d) => arg[d].key \in Key
        BY SendersHaveBegun, Begun DEF EngineInv, CallsInv
      <4> QED
        BY <4>1, <4>2
    <3>2. post[d] = "completed" => Posted(d)
      BY DEF Posted
    <3>3. pc[d] # "idle" => PreparationRow(arg[d].app) \in Lockable /\ arg[d].app \in App
      BY Begun, RowsAreLockable DEF EngineInv, CallsInv
    <3>4. pc[d] \in {"review:find_unresolved", "review:add"} =>
            preparation'[arg[d].app].status = "awaiting_review"
      <4>. SUFFICES ASSUME pc[d] \in {"review:find_unresolved", "review:add"}
                    PROVE  preparation'[arg[d].app].status = "awaiting_review"
        OBVIOUS
      <4>1. verdict[c] = "completed" => arg[d].app # a
        BY <2>3 DEF CheckedPC
      <4> QED
        BY <1>5, <2>1, <3>3, <4>1 DEF SenderKnows
    <3> QED
      BY <1>3, <1>4, <1>7, <2>1, <2>3, <3>1, <3>2, <3>3, <3>4 DEF SenderKnows, Posted, PreparationRow
  <2> QED
    BY <2>2, <2>3
<1> QED
  BY <1>8, <1>9, <1>10, <1>11 DEF RecordInv

\* The engine carries out an analysis nobody has recorded yet, or a review whose
\* submission is unresolved.
LEMMA AnalyseKeepsRecords ==
  ASSUME EngineInv, NEW c \in PrepareCall, EngineAnalyse(c),
         UNCHANGED <<pc, arg, seen, verdict, tables, lock>>
  PROVE  RecordInv'
<1>1. post[c] = "in_flight" /\ c \in Thread /\ c \notin ReviewCall /\ Posted(c)
  BY CallsAreDistinct DEF EngineAnalyse, Thread, Posted
<1>2. thread[c] = None /\ arg[c].app \in App
  BY <1>1, SendersHaveBegun DEF EngineInv, ExchangeInv, ExchangeKnows, PerformedFor
<1>3. /\ \A d \in Call \ {c} : post'[d] = post[d]
      /\ \A d \in Thread \ {c} : thread'[d] = thread[d]
      /\ post'[c] \in Reply
      /\ post'[c] \in ThreadStatus => thread'[c] = post'[c]
      /\ UNCHANGED applied /\ UNCHANGED target
  <2>1. CASE Execute(c, c) /\ UNCHANGED applied
    BY <1>1, <2>1 DEF Execute, Thread, Reply, ThreadStatus, EngineAnalyse, EngineInv, CallsInv, TypeInv,
       TypeOK, EngineTypeOK
  <2>2. CASE Refuse(c)
    BY <1>1, <2>2 DEF Refuse, Reply, ThreadStatus, EngineAnalyse, EngineInv, CallsInv, TypeInv, TypeOK,
       EngineTypeOK
  <2> QED
    BY <2>1, <2>2 DEF EngineAnalyse
<1>4. UNCHANGED <<preparation, submission>>
  BY DEF tables
<1>5. \A d \in Call : Posted(d)' = Posted(d)
  BY <1>1, <1>3 DEF Posted, Reply, ThreadStatus
<1>6. ASSUME NEW d \in PrepareCall PROVE OwnerKnows(d)'
  <2>1. OwnerKnows(d)
    BY DEF EngineInv, RecordInv
  <2>2. CASE d = c
    BY <1>3, <1>4, <1>5, <2>1, <2>2 DEF OwnerKnows, Owns, Reply, ThreadStatus
  <2>3. CASE d # c
    BY <1>3, <1>4, <1>5, <2>1, <2>3 DEF OwnerKnows, Owns, Thread
  <2> QED
    BY <2>2, <2>3
<1>7. ASSUME NEW a \in App PROVE PreparationKnows(a)'
  <2>1. PreparationKnows(a)
    BY DEF EngineInv, RecordInv
  <2>2. preparation[a].thread # None => preparation[a].thread \in Thread \ {c}
    <3>1. preparation[a].thread \in Thread \cup {None}
      BY DEF EngineInv, CallsInv, TypeInv, TypeOK, StoreTypeOK, Preparation
    <3> QED
      BY <1>2, <2>1, <3>1 DEF PreparationKnows
  <2>3. preparation[a].status = "failed" => arg[c].app # a
    BY <1>1, <2>1 DEF PreparationKnows
  <2>4. preparation[a].status \in ThreadStatus => preparation[a].thread \in Thread \ {c}
    BY <2>1, <2>2 DEF PreparationKnows
  <2> QED
    BY <1>3, <1>4, <2>1, <2>2, <2>3, <2>4 DEF PreparationKnows, Thread, ThreadStatus
<1>8. \A k \in Key : SubmissionKnows(k)'
  BY <1>4 DEF EngineInv, RecordInv, SubmissionKnows
<1>9. ASSUME NEW d \in ReviewCall PROVE SenderKnows(d)'
  <2>1. SenderKnows(d) /\ d # c
    BY <1>1 DEF EngineInv, RecordInv
  <2>2. post[d] = "completed" => submission[arg[d].key].thread \in Thread \ {c}
    <3>. SUFFICES ASSUME post[d] = "completed"
                  PROVE  submission[arg[d].key].thread \in Thread \ {c}
      OBVIOUS
    <3>1. Posted(d) /\ arg[d].key \in Key /\ submission[arg[d].key] # None
      <4>1. Posted(d)
        BY DEF Posted
      <4>2. arg[d].key \in Key
        BY <4>1, SendersHaveBegun, Begun DEF EngineInv, CallsInv
      <4> QED
        BY <4>1, <4>2 DEF EngineInv, CallsInv, ReviewInv, ReviewKnows, Sends
    <3>. DEFINE row == submission[arg[d].key]
    <3>2. row.app \in App /\ row.thread \in Thread \cup {None}
      BY <3>1 DEF EngineInv, CallsInv, TypeInv, TypeOK, StoreTypeOK, Submission
    <3>3. PreparationKnows(row.app) /\ SubmissionKnows(arg[d].key)
      BY <3>1, <3>2 DEF EngineInv, RecordInv
    <3> QED
      BY <1>2, <3>1, <3>2, <3>3 DEF SubmissionKnows, PreparationKnows
  <2> QED
    BY <1>3, <1>4, <1>5, <2>1, <2>2 DEF SenderKnows, PreparationRow
<1> QED
  BY <1>6, <1>7, <1>8, <1>9 DEF RecordInv

\* The engine carries out a review, and the records still know of it.
LEMMA CarriedOutKeepsRecords ==
  ASSUME EngineInv, NEW c \in ReviewCall, EngineReview(c),
         UNCHANGED <<pc, arg, seen, verdict, tables, lock>>
  PROVE  RecordInv'
<1>. DEFINE k == arg[c].key
            a == arg[c].app
            t == target[c]
<1>1. post[c] = "in_flight" /\ c \notin PrepareCall /\ c \notin Thread
  BY CallsAreDistinct DEF EngineReview, Thread
<1>2. /\ c \in Call /\ pc[c] # "idle" /\ k \in Key /\ a \in App /\ Pending(k)
      /\ submission[k].app = a /\ submission[k].thread = t
      /\ t \in Thread /\ thread[t] # None /\ post[t] # "in_flight"
      /\ preparation[a].thread = t /\ preparation[a].status = "awaiting_review"
  BY <1>1, ReviewUnderWay
<1>3. /\ \A d \in Call \ {c} : post'[d] = post[d]
      /\ \A d \in Thread \ {t} : thread'[d] = thread[d]
      /\ thread'[t] \in ThreadStatus
      /\ post'[c] \in Reply
      /\ post'[c] \in ThreadStatus => thread'[t] = post'[c]
      /\ UNCHANGED target
  <2>1. CASE Execute(c, t) /\ applied' = applied \cup {c}
    BY <1>1, <1>2, <2>1 DEF Execute, Reply, ThreadStatus, EngineReview, EngineInv, CallsInv,
       TypeInv, TypeOK, EngineTypeOK
  <2>2. CASE Refuse(c)
    BY <1>1, <1>2, <2>2 DEF Refuse, Reply, ThreadStatus, EngineReview, EngineInv, CallsInv,
       TypeInv, TypeOK, EngineTypeOK
  <2> QED
    BY <2>1, <2>2 DEF EngineReview
<1>4. UNCHANGED <<preparation, submission>>
  BY DEF tables
<1>5. \A d \in Call : Posted(d)' = Posted(d)
  BY <1>1, <1>3 DEF Posted, Reply, ThreadStatus
<1>6. \A b \in App : preparation[b].thread = t => b = a
  <2>1. \A b \in App : PreparationKnows(b)
    BY DEF EngineInv, RecordInv
  <2> QED
    BY <1>2, <2>1, CallsAreDistinct DEF PreparationKnows, Thread
<1>7. \A l \in Key : Pending(l) /\ submission[l].app = a => l = k
  BY <1>2 DEF EngineInv, CallsInv, ReviewInv
<1>8. \A l \in Key : submission[l] # None =>
        /\ submission[l].app \in App /\ submission[l].thread \in Thread
        /\ submission[l].thread = t => submission[l].app = a
  <2>. SUFFICES ASSUME NEW l \in Key, submission[l] # None
                PROVE  /\ submission[l].app \in App /\ submission[l].thread \in Thread
                       /\ submission[l].thread = t => submission[l].app = a
    OBVIOUS
  <2>1. submission[l].app \in App /\ submission[l].thread \in Thread \cup {None}
    BY DEF EngineInv, CallsInv, TypeInv, TypeOK, StoreTypeOK, Submission
  <2>2. submission[l].thread # None /\ preparation[submission[l].app].thread = submission[l].thread
    BY DEF EngineInv, RecordInv, SubmissionKnows
  <2> QED
    BY <1>6, <2>1, <2>2
<1>9. ASSUME NEW d \in PrepareCall PROVE OwnerKnows(d)'
  <2>1. OwnerKnows(d) /\ d # c /\ d \in Thread
    BY <1>1 DEF EngineInv, RecordInv, Thread
  <2>2. pc[d] \in OwnerPC => d # t
    <3>1. arg[t].app = a
      BY <1>2, CallsAreDistinct DEF EngineInv, RecordInv, PreparationKnows, Thread
    <3> QED
      BY <1>2, <2>1, <3>1 DEF OwnerKnows
  <2> QED
    BY <1>3, <1>4, <1>5, <2>1, <2>2 DEF OwnerKnows, Owns
<1>10. ASSUME NEW b \in App PROVE PreparationKnows(b)'
  <2>1. PreparationKnows(b)
    BY DEF EngineInv, RecordInv
  <2>2. preparation[b].thread \in Thread \cup {None}
    BY DEF EngineInv, CallsInv, TypeInv, TypeOK, StoreTypeOK, Preparation
  <2>3. \A d \in PrepareCall : post'[d] = post[d]
    BY <1>1, <1>3
  <2>4. CASE b = a
    BY <1>2, <1>3, <1>4, <2>1, <2>4, NoneIsNoStatus DEF PreparationKnows
  <2>5. CASE b # a
    <3>1. preparation[b].thread # t
      BY <1>6, <2>5
    <3>2. preparation[b].status = "failed" =>
            \A d \in PrepareCall : arg[d].app = b => thread'[d] = None /\ post'[d] # "in_flight"
      <4>1. arg[t].app = a
        BY <1>2, CallsAreDistinct DEF EngineInv, RecordInv, PreparationKnows, Thread
      <4> QED
        BY <1>3, <2>1, <2>3, <2>5, <4>1 DEF PreparationKnows, Thread
    <3>3. preparation[b].thread # None => thread'[preparation[b].thread] = thread[preparation[b].thread]
      BY <1>3, <2>2, <3>1
    <3>4. preparation[b].status \in ThreadStatus => preparation[b].thread # None
      BY <2>1 DEF PreparationKnows
    <3> QED
      BY <1>4, <2>1, <3>2, <3>3, <3>4 DEF PreparationKnows, ThreadStatus
  <2> QED
    BY <2>4, <2>5
<1>11. \A l \in Key : SubmissionKnows(l)'
  BY <1>4 DEF EngineInv, RecordInv, SubmissionKnows
<1>12. ASSUME NEW d \in ReviewCall PROVE SenderKnows(d)'
  <2>1. SenderKnows(d)
    BY DEF EngineInv, RecordInv
  <2>2. CASE d = c
    BY <1>2, <1>3, <1>4, <1>5, <2>1, <2>2 DEF SenderKnows, PreparationRow, ThreadStatus
  <2>3. CASE d # c
    <3>1. post[d] = "completed" /\ submission[arg[d].key].status = "submitting" =>
            submission[arg[d].key].thread \in Thread \ {t}
      <4>. SUFFICES ASSUME post[d] = "completed", submission[arg[d].key].status = "submitting"
                    PROVE  submission[arg[d].key].thread \in Thread \ {t}
        OBVIOUS
      <4>1. Posted(d) /\ arg[d].key \in Key /\ submission[arg[d].key] # None
        <5>1. Posted(d)
          BY DEF Posted
        <5>2. arg[d].key \in Key
          BY <5>1, SendersHaveBegun, Begun DEF EngineInv, CallsInv
        <5> QED
          BY <5>1, <5>2 DEF EngineInv, CallsInv, ReviewInv, ReviewKnows, Sends
      <4>2. arg[d].key # k
        BY <1>1, <2>3, <4>1 DEF EngineInv, CallsInv, ReviewInv, Sends, Posted
      <4> QED
        BY <1>7, <1>8, <4>1, <4>2 DEF Pending, UnresolvedStatus
    <3> QED
      BY <1>3, <1>4, <1>5, <2>1, <2>3, <3>1 DEF SenderKnows, PreparationRow
  <2> QED
    BY <2>2, <2>3
<1> QED
  BY <1>9, <1>10, <1>11, <1>12 DEF RecordInv

\* The statements of prepare_application.
LEMMA PrepareKeepsRecords ==
  ASSUME EngineInv, NEW c \in PrepareCall, PrepareStep(c)
  PROVE  RecordInv'
<1>1. CASE PrepareAdd(c)
  BY <1>1, PrepareWrites, PrepareAddKeepsRecords DEF EngineInv, CallsInv
<1>2. CASE PreparePost(c)
  BY <1>2, PostKeepsRecords
<1>3. CASE PrepareSave(c)
  BY <1>3, PrepareWrites, PrepareSaveKeepsRecords DEF EngineInv, CallsInv
<1>4. CASE ~PrepareAdd(c) /\ ~PreparePost(c) /\ ~PrepareSave(c)
  <2>1. c \in Call /\ c \notin ReviewCall /\ pc[c] # "idle"
    BY <1>4, CallsAreDistinct DEF PrepareStep, PrepareFind, PrepareSaveApplication,
       PrepareAddFails, PrepareAnswer, PrepareReadApplication, PrepareRequireStarting,
       PrepareSaveReady
  <2>2. /\ UNCHANGED arg /\ UNCHANGED preparation /\ UNCHANGED submission /\ UNCHANGED post
        /\ UNCHANGED target /\ UNCHANGED thread /\ UNCHANGED applied
    BY <1>4 DEF PrepareStep, PrepareFind, PrepareSaveApplication, PrepareAddFails,
       PrepareAnswer, PrepareReadApplication, PrepareRequireStarting, PrepareSaveReady,
       tables, engine
  <2>3. \E next : Goto(c, next) /\ (next \in OwnerPC => pc[c] \in OwnerPC \ {"prepare:post"})
    BY <1>4 DEF PrepareStep, PrepareFind, PrepareSaveApplication, PrepareAddFails,
       PrepareAnswer, PrepareReadApplication, PrepareRequireStarting, PrepareSaveReady,
       ReadApplication, Proceed, OwnerPC
  <2>4. \A d \in Call \ {c} : verdict'[d] = verdict[d]
    BY <1>4 DEF PrepareStep, PrepareFind, PrepareSaveApplication, PrepareAddFails,
       PrepareAnswer, PrepareReadApplication, PrepareRequireStarting, PrepareSaveReady,
       Receive, TimeOut, EngineInv, CallsInv, TypeInv, TypeOK, CallTypeOK
  <2>5. \/ UNCHANGED lock
        \/ \E row \in Lockable : Acquire(c, row)
        \/ \E next : Proceed(c, next)
    <3>1. ApplicationRow(arg[c].app) \in Lockable
      BY <2>1, Begun, RowsAreLockable DEF EngineInv, CallsInv
    <3> QED
      BY <1>4, <3>1 DEF PrepareStep, PrepareFind, PrepareSaveApplication, PrepareAddFails,
         PrepareAnswer, PrepareReadApplication, PrepareRequireStarting, PrepareSaveReady,
         ReadApplication
  <2>6. pc'[c] \in OwnerPC => pc[c] \in OwnerPC /\ Owns(c)'
    <3>1. pc'[c] \in OwnerPC => pc[c] \in OwnerPC \ {"prepare:post"}
      BY <2>1, <2>3 DEF Goto, EngineInv, CallsInv, TypeInv, TypeOK, CallTypeOK
    <3>2. pc[c] \in OwnerPC => Owns(c)
      BY DEF EngineInv, RecordInv, OwnerKnows
    <3> QED
      BY <2>2, <3>1, <3>2 DEF Owns, Posted
  <2>7. \A d \in Call \ {c} : pc'[d] = pc[d]
    BY <2>1, <2>3 DEF Goto, EngineInv, CallsInv, TypeInv, TypeOK, CallTypeOK
  <2>8. \A d \in ReviewCall \ {c} : \A row \in Lockable : lock[row] = d => lock'[row] = d
    BY <2>1, <2>5, LocksOfOthers DEF EngineInv, CallsInv
  <2> QED
    BY <2>1, <2>2, <2>4, <2>6, <2>7, <2>8, QuietKeepsRecords
<1> QED
  BY <1>1, <1>2, <1>3, <1>4

\* The statements of review_application.
LEMMA ReviewKeepsRecords ==
  ASSUME EngineInv, NEW c \in ReviewCall, ReviewStep(c)
  PROVE  RecordInv'
<1>1. CASE ReviewAdd(c)
  <2>1. preparation[arg[c].app].status = "awaiting_review"
    BY <1>1 DEF ReviewAdd, EngineInv, RecordInv, SenderKnows
  <2> QED
    BY <1>1, <2>1, ReviewWrites, ReviewAddKeepsRecords DEF EngineInv, CallsInv
<1>2. CASE ReviewPost(c)
  BY <1>2, PostKeepsRecords
<1>3. CASE ReviewSave(c)
  <2>1. ASSUME verdict[c] = "completed", NEW d \in ReviewCall \ {c}, pc[d] \in CheckedPC
        PROVE  arg[d].app # arg[c].app
    <3>1. lock[PreparationRow(arg[d].app)] = d
      BY <2>1 DEF CheckedPC, EngineInv, CallsInv, ReviewInv, ReviewKnows
    <3>2. lock[PreparationRow(arg[c].app)] = c
      BY <1>3, <2>1 DEF ReviewSave, ThreadStatus, EngineInv, RecordInv, SenderKnows
    <3> QED
      BY <2>1, <3>1, <3>2
  <2> QED
    BY <1>3, <2>1, ReviewWrites, ReviewSaveKeepsRecords DEF EngineInv, CallsInv
<1>4. CASE ~ReviewAdd(c) /\ ~ReviewPost(c) /\ ~ReviewSave(c)
  <2>. DEFINE row == PreparationRow(arg[c].app)
  <2>1. c \in Call /\ c \notin PrepareCall /\ pc[c] # "idle"
    BY <1>4, CallsAreDistinct DEF ReviewStep, ReviewFindKey, ReviewLockFails, ReviewLock,
       ReviewRecheck, ReviewFindUnresolved, ReviewAddFails, ReviewAnswer, ReviewLockAgain,
       ReviewReadApplication, ReviewRequireSubmitting, ReviewSaveReady
  <2>2. /\ UNCHANGED arg /\ UNCHANGED preparation /\ UNCHANGED submission /\ UNCHANGED post
        /\ UNCHANGED target /\ UNCHANGED thread /\ UNCHANGED applied
    BY <1>4 DEF ReviewStep, ReviewFindKey, ReviewLockFails, ReviewLock,
       ReviewRecheck, ReviewFindUnresolved, ReviewAddFails, ReviewAnswer, ReviewLockAgain,
       ReviewReadApplication, ReviewRequireSubmitting, ReviewSaveReady, tables, engine
  <2>3. \A d \in Call \ {c} : verdict'[d] = verdict[d]
    BY <1>4 DEF ReviewStep, ReviewFindKey, ReviewLockFails, ReviewLock,
       ReviewRecheck, ReviewFindUnresolved, ReviewAddFails, ReviewAnswer, ReviewLockAgain,
       ReviewReadApplication, ReviewRequireSubmitting, ReviewSaveReady,
       Receive, TimeOut, EngineInv, CallsInv, TypeInv, TypeOK, CallTypeOK
  <2>4. row \in Lockable /\ ApplicationRow(arg[c].app) \in Lockable
    BY <2>1, Begun, RowsAreLockable DEF EngineInv, CallsInv
  <2>5. \/ UNCHANGED lock
        \/ \E r \in Lockable : Acquire(c, r)
        \/ \E next : Proceed(c, next)
    BY <1>4, <2>4 DEF ReviewStep, ReviewFindKey, ReviewLockFails, ReviewLock,
       ReviewRecheck, ReviewFindUnresolved, ReviewAddFails, ReviewAnswer, ReviewLockAgain,
       ReviewReadApplication, ReviewRequireSubmitting, ReviewSaveReady, ReadApplication
  <2>6. \E next : /\ Goto(c, next)
                  /\ next \in CheckedPC =>
                       \/ pc[c] = "review:find_unresolved"
                       \/ preparation[arg[c].app].status = "awaiting_review"
                  /\ next \in LockedPC =>
                       \/ pc[c] \in LockedPC /\ UNCHANGED verdict
                                             /\ (UNCHANGED lock \/ \E r \in Lockable : Acquire(c, r))
                       \/ Acquire(c, row)
                       \/ verdict'[c] \notin ThreadStatus
    BY <1>4, <2>4 DEF ReviewStep, ReviewFindKey, ReviewLockFails, ReviewLock,
       ReviewRecheck, ReviewFindUnresolved, ReviewAddFails, ReviewAnswer, ReviewLockAgain,
       ReviewReadApplication, ReviewRequireSubmitting, ReviewSaveReady, ReadApplication,
       Proceed, Lookup, CheckedPC, LockedPC, Ended
  <2>7. \A d \in Call \ {c} : pc'[d] = pc[d]
    BY <2>1, <2>6 DEF Goto, EngineInv, CallsInv, TypeInv, TypeOK, CallTypeOK
  <2>8. \A d \in ReviewCall \ {c} : \A r \in Lockable : lock[r] = d => lock'[r] = d
    BY <2>1, <2>5, LocksOfOthers DEF EngineInv, CallsInv
  <2>9. pc'[c] \in CheckedPC => preparation[arg[c].app].status = "awaiting_review"
    <3>1. pc'[c] \in CheckedPC => \/ pc[c] = "review:find_unresolved"
                                  \/ preparation[arg[c].app].status = "awaiting_review"
      BY <2>1, <2>6 DEF Goto, EngineInv, CallsInv, TypeInv, TypeOK, CallTypeOK
    <3> QED
      BY <3>1 DEF EngineInv, RecordInv, SenderKnows
  <2>10. pc'[c] \in LockedPC /\ verdict'[c] \in ThreadStatus => lock'[row] = c
    <3>1. pc'[c] \in LockedPC /\ verdict'[c] \in ThreadStatus =>
            \/ pc[c] \in LockedPC /\ UNCHANGED verdict
                                  /\ (UNCHANGED lock \/ \E r \in Lockable : Acquire(c, r))
            \/ Acquire(c, row)
      BY <2>1, <2>6 DEF Goto, EngineInv, CallsInv, TypeInv, TypeOK, CallTypeOK
    <3>2. Acquire(c, row) => lock'[row] = c
      BY <2>4 DEF Acquire, EngineInv, CallsInv, TypeInv, TypeOK, StoreTypeOK
    <3>3. pc[c] \in LockedPC /\ verdict[c] \in ThreadStatus => lock[row] = c
      BY DEF EngineInv, RecordInv, SenderKnows, LockedPC
    <3>4. lock[row] = c /\ (UNCHANGED lock \/ \E r \in Lockable : Acquire(c, r)) => lock'[row] = c
      BY <2>4 DEF Acquire, EngineInv, CallsInv, TypeInv, TypeOK, StoreTypeOK
    <3> QED
      BY <3>1, <3>2, <3>3, <3>4
  <2> QED
    BY <2>1, <2>2, <2>3, <2>7, <2>8, <2>9, <2>10, QuietKeepsRecords
<1> QED
  BY <1>1, <1>2, <1>3, <1>4

\* The statements of the other services.
LEMMA OthersKeepRecords ==
  ASSUME EngineInv, NEW c \in UpdateCall \cup CreateCall \cup ReadCall,
         \/ c \in UpdateCall /\ UpdateStep(c)
         \/ c \in CreateCall /\ CreateStep(c)
         \/ c \in ReadCall /\ ReadStep(c)
  PROVE  RecordInv'
<1>1. c \in Call /\ c \notin PrepareCall \cup ReviewCall /\ pc[c] # "idle"
  BY CallsAreDistinct DEF UpdateStep, UpdateReplay, UpdateClaim, UpdateSave, CreateStep,
     CreateReplay, CreateClaim, CreateSave, ReadStep, ReadFind, ReadGet, ReadFails
<1>2. /\ UNCHANGED arg /\ UNCHANGED preparation /\ UNCHANGED submission /\ UNCHANGED post
      /\ UNCHANGED thread /\ UNCHANGED applied
  BY DEF UpdateStep, UpdateReplay, UpdateClaim, UpdateSave, CreateStep,
     CreateReplay, CreateClaim, CreateSave, ReadStep, ReadFind, ReadGet, ReadFails, tables, engine
<1>3. \A d \in ReviewCall : target'[d] = target[d]
  BY <1>1 DEF UpdateStep, UpdateReplay, UpdateClaim, UpdateSave, CreateStep,
     CreateReplay, CreateClaim, CreateSave, ReadStep, ReadFind, ReadGet, ReadFails, engine,
     EngineInv, CallsInv, TypeInv, TypeOK, EngineTypeOK
<1>4. \A d \in Call \ {c} : pc'[d] = pc[d] /\ verdict'[d] = verdict[d]
  BY DEF UpdateStep, UpdateReplay, UpdateClaim, UpdateSave, CreateStep,
     CreateReplay, CreateClaim, CreateSave, ReadStep, ReadFind, ReadGet, ReadFails, Proceed,
     Commit, Goto, EngineInv, CallsInv, TypeInv, TypeOK, CallTypeOK
<1>5. \/ UNCHANGED lock
      \/ Release(c)
      \/ \E row \in Lockable : Acquire(c, row)
      \/ \E next : Proceed(c, next)
  <2>1. \A op \in Operation : c \in UpdateCall \cup CreateCall => <<op, arg[c].key>> \in Lockable
    BY <1>1, Begun DEF Lockable, EngineInv, CallsInv
  <2> QED
    BY <2>1 DEF UpdateStep, UpdateReplay, UpdateClaim, UpdateSave, CreateStep,
       CreateReplay, CreateClaim, CreateSave, ReadStep, ReadFind, ReadGet, ReadFails,
       ClaimKey, Commit, Operation
<1>6. \A d \in ReviewCall \ {c} : \A row \in Lockable : lock[row] = d => lock'[row] = d
  BY <1>1, <1>5, LocksOfOthers DEF EngineInv, CallsInv
<1> QED
  BY <1>1, <1>2, <1>3, <1>4, <1>6, QuietKeepsRecords

\* A call begins with nothing sent and nothing locked.
LEMMA ArriveKeepsRecords ==
  ASSUME EngineInv, Arrive
  PROVE  RecordInv'
<1>1. PICK c \in Call : /\ pc[c] = "idle"
                        /\ \E given : arg' = [arg EXCEPT ![c] = given]
                        /\ UNCHANGED verdict
                        /\ \E next : /\ Goto(c, next)
                                     /\ next \notin OwnerPC \cup CheckedPC \cup LockedPC
                                     /\ UNCHANGED lock \/ Proceed(c, next)
  BY DEF Arrive, PrepareBegin, ReviewBegin, UpdateBegin, CreateBegin, ReadBegin,
     ReadApplication, Proceed, OwnerPC, CheckedPC, LockedPC
<1>2. /\ UNCHANGED preparation /\ UNCHANGED submission /\ UNCHANGED post /\ UNCHANGED target
      /\ UNCHANGED thread /\ UNCHANGED applied
  BY DEF Arrive, PrepareBegin, ReviewBegin, UpdateBegin, CreateBegin, ReadBegin, tables, engine
<1>3. /\ \A d \in Call \ {c} : pc'[d] = pc[d] /\ arg'[d] = arg[d]
      /\ pc'[c] \notin OwnerPC \cup CheckedPC \cup LockedPC
  BY <1>1 DEF Goto, EngineInv, CallsInv, TypeInv, TypeOK, CallTypeOK
<1>4. \A d \in ReviewCall \ {c} : \A row \in Lockable : lock[row] = d => lock'[row] = d
  BY <1>1, LocksOfOthers DEF EngineInv, CallsInv
<1> QED
  BY <1>1, <1>2, <1>3, <1>4, QuietKeepsRecords

\* A call dies, and leaves its records as they are.
LEMMA CrashKeepsRecords ==
  ASSUME EngineInv, NEW c \in Call, Crash(c)
  PROVE  RecordInv'
<1>1. /\ UNCHANGED arg /\ UNCHANGED verdict /\ UNCHANGED preparation /\ UNCHANGED submission
      /\ UNCHANGED post /\ UNCHANGED target /\ UNCHANGED thread /\ UNCHANGED applied
  BY DEF Crash, tables, engine
<1>2. pc'[c] = "crashed" /\ \A d \in Call \ {c} : pc'[d] = pc[d]
  BY DEF Crash, Proceed, Goto, EngineInv, CallsInv, TypeInv, TypeOK, CallTypeOK
<1>3. \A d \in ReviewCall \ {c} : \A row \in Lockable : lock[row] = d => lock'[row] = d
  BY LocksOfOthers DEF Crash, EngineInv, CallsInv
<1> QED
  BY <1>1, <1>2, <1>3, QuietKeepsRecords DEF OwnerPC, CheckedPC, LockedPC

\* Every step.
LEMMA NextKeepsRecords == EngineInv /\ [Next]_vars => RecordInv'
<1>. SUFFICES ASSUME EngineInv, [Next]_vars PROVE RecordInv'
  OBVIOUS
<1>1. CASE EngineStep
  BY <1>1, AnalyseKeepsRecords, CarriedOutKeepsRecords DEF EngineStep
<1>2. CASE Advance
  BY <1>2, PrepareKeepsRecords, ReviewKeepsRecords, OthersKeepRecords DEF Advance
<1>3. CASE UNCHANGED vars
  <2>1. RecordInv
    BY DEF EngineInv
  <2> QED
    BY <1>3, <2>1 DEF vars, tables, engine, RecordInv, OwnerKnows, Owns, Posted, PreparationKnows,
       Unresolved, SubmissionKnows, SenderKnows, PreparationRow
<1> QED
  BY <1>1, <1>2, <1>3, ArriveKeepsRecords, CrashKeepsRecords DEF Next

\* Nothing is sent and nothing recorded to begin with.
LEMMA InitEngine == Init => EngineInv
<1>. SUFFICES ASSUME Init PROVE EngineInv
  OBVIOUS
<1>1. CallsInv
  <2>1. AnalysisInv
    BY DEF Init, CallInit, EngineInit, AnalysisInv, Owns, Posted
  <2> QED
    BY <2>1, InitTypes, ReviewsBegin DEF CallsInv
<1>. USE DEF Init, CallInit, EngineInit, StoreInit
<1>2. ExchangeInv
  BY DEF ExchangeInv, ExchangeKnows, PerformedFor, Posted, ConcludedPC, ThreadStatus, Thread
<1>3. \A c \in PrepareCall : OwnerKnows(c)
  BY DEF OwnerKnows, OwnerPC, ThreadStatus
<1>4. \A a \in App : PreparationKnows(a)
  BY DEF PreparationKnows, NoPreparation, Absent, ThreadStatus
<1>5. \A k \in Key : SubmissionKnows(k)
  BY DEF SubmissionKnows
<1>6. \A c \in ReviewCall : SenderKnows(c)
  BY DEF SenderKnows, Posted, ThreadStatus
<1> QED
  BY <1>1, <1>2, <1>3, <1>4, <1>5, <1>6 DEF EngineInv, RecordInv

-----------------------------------------------------------------------------
(* The outcomes.                                                           *)

\* Ways to end of a call whose request may have reached the engine.
AnsweredPC == {"returned", "agent_error", "crashed"}

Impossible == {"inconsistent", "replay_unavailable"}

\* A step of one call that deletes no application and leaves no claim empty.
LEMMA MoveKeepsOutcomes ==
  ASSUME OutcomeInv, NEW c \in Call,
         \A d \in Call \ {c} : pc'[d] = pc[d] /\ arg'[d] = arg[d] /\ Posted(d)' = Posted(d),
         \A d \in PrepareCall \cup ReviewCall : Running(d) => arg[d].app \in App,
         \A a \in App : application[a] # Absent => application'[a] # Absent,
         \A r \in Operation \X Key : idempotency'[r] # None => idempotency'[r].response # None,
         pc'[c] \notin Impossible,
         Posted(c)' => Running(c)' \/ pc'[c] \in AnsweredPC,
         c \in PrepareCall \cup ReviewCall /\ Running(c)' => application'[arg'[c].app] # Absent
  PROVE  OutcomeInv'
<1>1. OutcomesAreRecorded'
  BY DEF OutcomeInv, OutcomesAreRecorded, Running, AnsweredPC, Impossible
<1>2. \A d \in PrepareCall \cup ReviewCall : Running(d)' => application'[arg'[d].app] # Absent
  BY DEF OutcomeInv, Running
<1> QED
  BY <1>1, <1>2 DEF OutcomeInv

\* What every call in progress is about.
LEMMA RunningHaveBegun ==
  ASSUME EngineInv, NEW c \in Call, Running(c)
  PROVE  arg[c].app \in App
BY Begun DEF Running, EngineInv, CallsInv

\* A status is not the absence of one.
LEMMA StatusIsPresent == Absent \notin ApplicationStatus
BY DEF Absent, ApplicationStatus

\* A status that is saved belongs to an application that exists afterwards.
LEMMA SavedIsPresent ==
  ASSUME TypeInv, NEW c, NEW a \in App, NEW from, NEW to \in ApplicationStatus,
         SaveStatus(c, a, from, to)
  PROVE  \A b \in App : application[b] # Absent => application'[b] # Absent
BY StatusIsPresent DEF SaveStatus, TypeInv, TypeOK, StoreTypeOK

\* A preparation finds its row as it left it.
LEMMA PrepareKeepsOutcomes ==
  ASSUME EngineInv, OutcomeInv, NEW c \in PrepareCall, PrepareStep(c)
  PROVE  OutcomeInv'
<1>1. c \in Call /\ Running(c) /\ arg[c].app \in App /\ application[arg[c].app] # Absent
  <2>1. c \in Call /\ Running(c)
    BY DEF PrepareStep, PrepareFind, PrepareSaveApplication, PrepareAddFails, PrepareAdd,
       PreparePost, PrepareAnswer, PrepareReadApplication, PrepareRequireStarting,
       PrepareSaveReady, PrepareSave, Running, Ended
  <2> QED
    BY <2>1, RunningHaveBegun DEF OutcomeInv
<1>2. UNCHANGED arg /\ UNCHANGED idempotency
  BY DEF PrepareStep, PrepareFind, PrepareSaveApplication, PrepareAddFails, PrepareAdd,
     PreparePost, PrepareAnswer, PrepareReadApplication, PrepareRequireStarting,
     PrepareSaveReady, PrepareSave, tables
<1>3. \A a \in App : application[a] # Absent => application'[a] # Absent
  <2>1. "preparing" \in ApplicationStatus /\ "ready_to_apply" \in ApplicationStatus
    BY DEF ApplicationStatus
  <2>2. UNCHANGED application \/ \E from : \E to \in ApplicationStatus :
                                   SaveStatus(c, arg[c].app, from, to)
    BY <2>1 DEF PrepareStep, PrepareFind, PrepareSaveApplication, PrepareAddFails, PrepareAdd,
       PreparePost, PrepareAnswer, PrepareReadApplication, PrepareRequireStarting,
       PrepareSaveReady, PrepareSave, tables
  <2> QED
    BY <1>1, <2>2, SavedIsPresent DEF EngineInv, CallsInv
<1>4. \A d \in Call \ {c} : pc'[d] = pc[d] /\ Posted(d)' = Posted(d)
  BY DEF PrepareStep, PrepareFind, PrepareSaveApplication, PrepareAddFails, PrepareAdd,
     PreparePost, PrepareAnswer, PrepareReadApplication, PrepareRequireStarting,
     PrepareSaveReady, PrepareSave, ReadApplication, Proceed, Commit, Goto, Send, Posted, engine,
     EngineInv, CallsInv, TypeInv, TypeOK, CallTypeOK, EngineTypeOK
<1>5. pc[c] \in OwnerPC => preparation[arg[c].app].status = "starting"
  BY DEF EngineInv, RecordInv, OwnerKnows
<1>6. pc[c] \in UnsentPC => ~Posted(c)
  BY DEF EngineInv, ExchangeInv, ExchangeKnows
<1>7. \E next : /\ Goto(c, next) /\ next \notin Impossible
                /\ Posted(c)' => next \notin Ended \cup {"idle"} \/ next \in AnsweredPC
  <2>1. CASE pc[c] \in UnsentPC \ {"prepare:post"}
    <3>1. ~Posted(c)'
      BY <1>6, <2>1 DEF PrepareStep, PrepareFind, PrepareSaveApplication, PrepareAddFails,
         PrepareAdd, PreparePost, PrepareAnswer, PrepareReadApplication, PrepareRequireStarting,
         PrepareSaveReady, PrepareSave, UnsentPC, Posted, engine
    <3> QED
      BY <2>1, <3>1 DEF PrepareStep, PrepareFind, PrepareSaveApplication, PrepareAddFails,
         PrepareAdd, PreparePost, PrepareAnswer, PrepareReadApplication, PrepareRequireStarting,
         PrepareSaveReady, PrepareSave, Proceed, Commit, UnsentPC, Impossible
  <2>2. CASE pc[c] \notin UnsentPC \/ pc[c] = "prepare:post"
    BY <1>1, <1>5, <2>2 DEF PrepareStep, PrepareFind, PrepareSaveApplication, PrepareAddFails,
       PrepareAdd, PreparePost, PrepareAnswer, PrepareReadApplication, PrepareRequireStarting,
       PrepareSaveReady, PrepareSave, ReadApplication, Proceed, Commit, UnsentPC, OwnerPC,
       Impossible, AnsweredPC, Ended
  <2> QED
    BY <2>1, <2>2
<1>8. /\ pc'[c] \notin Impossible
      /\ Posted(c)' => Running(c)' \/ pc'[c] \in AnsweredPC
  BY <1>1, <1>7 DEF Goto, Running, EngineInv, CallsInv, TypeInv, TypeOK, CallTypeOK
<1>9. \A d \in PrepareCall \cup ReviewCall : Running(d) => arg[d].app \in App
  BY RunningHaveBegun
<1>10. \A r \in Operation \X Key : idempotency'[r] # None => idempotency'[r].response # None
  BY <1>2 DEF OutcomeInv
<1> QED
  BY <1>1, <1>2, <1>3, <1>4, <1>8, <1>9, <1>10, MoveKeepsOutcomes

\* A review finds its rows as it left them.
LEMMA ReviewKeepsOutcomes ==
  ASSUME EngineInv, OutcomeInv, NEW c \in ReviewCall, ReviewStep(c)
  PROVE  OutcomeInv'
<1>1. c \in Call /\ Running(c) /\ arg[c].app \in App /\ application[arg[c].app] # Absent
  <2>1. c \in Call /\ Running(c)
    BY DEF ReviewStep, ReviewFindKey, ReviewLockFails, ReviewLock, ReviewRecheck,
       ReviewFindUnresolved, ReviewAddFails, ReviewAdd, ReviewPost, ReviewAnswer, ReviewLockAgain,
       ReviewReadApplication, ReviewRequireSubmitting, ReviewSaveReady, ReviewSave, Running, Ended
  <2> QED
    BY <2>1, RunningHaveBegun DEF OutcomeInv
<1>2. UNCHANGED arg /\ UNCHANGED idempotency
  BY DEF ReviewStep, ReviewFindKey, ReviewLockFails, ReviewLock, ReviewRecheck,
     ReviewFindUnresolved, ReviewAddFails, ReviewAdd, ReviewPost, ReviewAnswer, ReviewLockAgain,
     ReviewReadApplication, ReviewRequireSubmitting, ReviewSaveReady, ReviewSave, tables
<1>3. \A a \in App : application[a] # Absent => application'[a] # Absent
  <2>1. "ready_to_apply" \in ApplicationStatus
    BY DEF ApplicationStatus
  <2>2. UNCHANGED application \/ \E from : \E to \in ApplicationStatus :
                                   SaveStatus(c, arg[c].app, from, to)
    BY <2>1 DEF ReviewStep, ReviewFindKey, ReviewLockFails, ReviewLock, ReviewRecheck,
       ReviewFindUnresolved, ReviewAddFails, ReviewAdd, ReviewPost, ReviewAnswer, ReviewLockAgain,
       ReviewReadApplication, ReviewRequireSubmitting, ReviewSaveReady, ReviewSave, tables
  <2> QED
    BY <1>1, <2>2, SavedIsPresent DEF EngineInv, CallsInv
<1>4. \A d \in Call \ {c} : pc'[d] = pc[d] /\ Posted(d)' = Posted(d)
  BY DEF ReviewStep, ReviewFindKey, ReviewLockFails, ReviewLock, ReviewRecheck,
     ReviewFindUnresolved, ReviewAddFails, ReviewAdd, ReviewPost, ReviewAnswer, ReviewLockAgain,
     ReviewReadApplication, ReviewRequireSubmitting, ReviewSaveReady, ReviewSave,
     ReadApplication, Proceed, Commit, Goto, Send, Posted, engine,
     EngineInv, CallsInv, TypeInv, TypeOK, CallTypeOK, EngineTypeOK
<1>5. pc[c] \in {"review:lock_again"} \cup LockedPC =>
        /\ submission[arg[c].key] # None /\ submission[arg[c].key].status = "submitting"
        /\ preparation[arg[c].app].status = "awaiting_review"
        /\ preparation[arg[c].app].thread # None /\ Prepared(arg[c].app)
  <2>. SUFFICES ASSUME pc[c] \in {"review:lock_again"} \cup LockedPC
                PROVE  /\ submission[arg[c].key] # None
                       /\ submission[arg[c].key].status = "submitting"
                       /\ preparation[arg[c].app].status = "awaiting_review"
                       /\ preparation[arg[c].app].thread # None /\ Prepared(arg[c].app)
    OBVIOUS
  <2>1. /\ arg[c].key \in Key /\ Sends(c) /\ submission[arg[c].key] # None
        /\ submission[arg[c].key].status = "submitting"
        /\ submission[arg[c].key].app = arg[c].app
    BY <1>1, Begun DEF LockedPC, SubmittedPC, EngineInv, CallsInv, ReviewInv, ReviewKnows
  <2> QED
    BY <2>1 DEF EngineInv, RecordInv, SubmissionKnows, UnresolvedStatus, Prepared, NoPreparation
<1>6. pc[c] \in UnsentPC => ~Posted(c)
  BY DEF EngineInv, ExchangeInv, ExchangeKnows
<1>7. \E next : /\ Goto(c, next) /\ next \notin Impossible
                /\ Posted(c)' => next \notin Ended \cup {"idle"} \/ next \in AnsweredPC
  <2>1. CASE pc[c] \in UnsentPC \ {"review:post"}
    <3>1. ~Posted(c)'
      BY <1>6, <2>1 DEF ReviewStep, ReviewFindKey, ReviewLockFails, ReviewLock, ReviewRecheck,
         ReviewFindUnresolved, ReviewAddFails, ReviewAdd, ReviewPost, ReviewAnswer,
         ReviewLockAgain, ReviewReadApplication, ReviewRequireSubmitting, ReviewSaveReady,
         ReviewSave, UnsentPC, Posted, engine
    <3> QED
      BY <2>1, <3>1 DEF ReviewStep, ReviewFindKey, ReviewLockFails, ReviewLock, ReviewRecheck,
         ReviewFindUnresolved, ReviewAddFails, ReviewAdd, ReviewPost, ReviewAnswer,
         ReviewLockAgain, ReviewReadApplication, ReviewRequireSubmitting, ReviewSaveReady,
         ReviewSave, Lookup, Proceed, Commit, UnsentPC, Impossible
  <2>2. CASE pc[c] \notin UnsentPC \/ pc[c] = "review:post"
    BY <1>1, <1>5, <2>2 DEF ReviewStep, ReviewFindKey, ReviewLockFails, ReviewLock, ReviewRecheck,
       ReviewFindUnresolved, ReviewAddFails, ReviewAdd, ReviewPost, ReviewAnswer, ReviewLockAgain,
       ReviewReadApplication, ReviewRequireSubmitting, ReviewSaveReady, ReviewSave,
       ReadApplication, Proceed, Commit, UnsentPC, LockedPC, Impossible, AnsweredPC, Ended
  <2> QED
    BY <2>1, <2>2
<1>8. /\ pc'[c] \notin Impossible
      /\ Posted(c)' => Running(c)' \/ pc'[c] \in AnsweredPC
  BY <1>1, <1>7 DEF Goto, Running, EngineInv, CallsInv, TypeInv, TypeOK, CallTypeOK
<1>9. \A d \in PrepareCall \cup ReviewCall : Running(d) => arg[d].app \in App
  BY RunningHaveBegun
<1>10. \A r \in Operation \X Key : idempotency'[r] # None => idempotency'[r].response # None
  BY <1>2 DEF OutcomeInv
<1> QED
  BY <1>1, <1>2, <1>3, <1>4, <1>8, <1>9, <1>10, MoveKeepsOutcomes

\* A claim is committed with its response, so that a retry can be answered.
LEMMA OthersKeepOutcomes ==
  ASSUME EngineInv, OutcomeInv, NEW c \in UpdateCall \cup CreateCall \cup ReadCall,
         \/ c \in UpdateCall /\ UpdateStep(c)
         \/ c \in CreateCall /\ CreateStep(c)
         \/ c \in ReadCall /\ ReadStep(c)
  PROVE  OutcomeInv'
<1>1. c \in Call /\ c \notin PrepareCall \cup ReviewCall /\ Running(c) /\ arg[c].app \in App
  <2>1. c \in Call /\ c \notin PrepareCall \cup ReviewCall /\ Running(c)
    BY CallsAreDistinct DEF UpdateStep, UpdateReplay, UpdateClaim, UpdateSave, CreateStep,
       CreateReplay, CreateClaim, CreateSave, ReadStep, ReadFind, ReadGet, ReadFails, Running, Ended
  <2> QED
    BY <2>1, RunningHaveBegun
<1>2. UNCHANGED arg /\ UNCHANGED post
  BY DEF UpdateStep, UpdateReplay, UpdateClaim, UpdateSave, CreateStep,
     CreateReplay, CreateClaim, CreateSave, ReadStep, ReadFind, ReadGet, ReadFails, engine
<1>3. \A d \in Call \ {c} : pc'[d] = pc[d] /\ Posted(d)' = Posted(d)
  BY <1>2 DEF UpdateStep, UpdateReplay, UpdateClaim, UpdateSave, CreateStep,
     CreateReplay, CreateClaim, CreateSave, ReadStep, ReadFind, ReadGet, ReadFails, Proceed,
     Commit, Goto, Posted, EngineInv, CallsInv, TypeInv, TypeOK, CallTypeOK
<1>4. c \in UpdateCall \cup CreateCall => arg[c].key \in Key
  BY <1>1, Begun DEF Running, EngineInv, CallsInv
<1>5. \A a \in App : application[a] # Absent => application'[a] # Absent
  <2>1. CASE c \in UpdateCall /\ UpdateSave(c)
    <3>1. arg[c].want \in ApplicationStatus
      BY <1>1, <2>1, Begun, TargetsAreStatuses DEF Running, EngineInv, CallsInv
    <3> QED
      BY <1>1, <2>1, <3>1, SavedIsPresent DEF UpdateSave, EngineInv, CallsInv
  <2>2. CASE c \in CreateCall /\ CreateSave(c)
    BY <2>2 DEF CreateSave, Absent, EngineInv, CallsInv, TypeInv, TypeOK, StoreTypeOK
  <2>3. CASE c \in UpdateCall /\ ~UpdateSave(c)
    BY <2>3, CallsAreDistinct DEF UpdateStep, UpdateReplay, UpdateClaim, tables
  <2>4. CASE c \in CreateCall /\ ~CreateSave(c)
    BY <2>4, CallsAreDistinct DEF CreateStep, CreateReplay, CreateClaim, tables
  <2>5. CASE c \in ReadCall
    BY <2>5, CallsAreDistinct DEF ReadStep, ReadFind, ReadGet, ReadFails, tables
  <2> QED
    BY <2>1, <2>2, <2>3, <2>4, <2>5
<1>6. \A r \in Operation \X Key : idempotency'[r] # None => idempotency'[r].response # None
  <2>1. \A op \in Operation : \A app :
          c \in UpdateCall \cup CreateCall /\ CompleteClaim(c, op, app) =>
            \A r \in Operation \X Key : idempotency'[r] # None => idempotency'[r].response # None
    BY <1>1, CallsAreDistinct
    DEF CompleteClaim, OutcomeInv, EngineInv, CallsInv, TypeInv, TypeOK, StoreTypeOK
  <2>2. UNCHANGED idempotency => \A r \in Operation \X Key :
          idempotency'[r] # None => idempotency'[r].response # None
    BY DEF OutcomeInv
  <2> QED
    BY <2>1, <2>2 DEF UpdateStep, UpdateReplay, UpdateClaim, UpdateSave, CreateStep,
       CreateReplay, CreateClaim, CreateSave, ReadStep, ReadFind, ReadGet, ReadFails, tables,
       Operation
<1>7. pc'[c] \notin Impossible
  <2>1. \A op \in Operation : c \in UpdateCall \cup CreateCall /\ idempotency[<<op, arg[c].key>>] # None =>
          Resolve(c, op) \in {"conflict", "replayed"}
    BY <1>4 DEF Resolve, OutcomeInv
  <2>2. \E next : Goto(c, next) /\ next \notin Impossible
    BY <2>1 DEF UpdateStep, UpdateReplay, UpdateClaim, UpdateSave, CreateStep,
       CreateReplay, CreateClaim, CreateSave, ReadStep, ReadFind, ReadGet, ReadFails, Proceed,
       Commit, Operation, Impossible
  <2> QED
    BY <1>1, <2>2 DEF Goto, EngineInv, CallsInv, TypeInv, TypeOK, CallTypeOK
<1>8. ~Posted(c)'
  BY <1>2 DEF EngineInv, ExchangeInv, Posted
<1>9. \A d \in PrepareCall \cup ReviewCall : Running(d) => arg[d].app \in App
  BY RunningHaveBegun
<1> QED
  BY <1>1, <1>2, <1>3, <1>5, <1>6, <1>7, <1>8, <1>9, MoveKeepsOutcomes

\* A call that goes on after its first statement has found its application.
LEMMA ArriveKeepsOutcomes ==
  ASSUME EngineInv, OutcomeInv, Arrive
  PROVE  OutcomeInv'
<1>1. PICK c \in Call :
        /\ pc[c] = "idle"
        /\ \E given : /\ arg' = [arg EXCEPT ![c] = given]
                      /\ \E next : /\ Goto(c, next)
                                   /\ next \notin Impossible
                                   /\ c \in PrepareCall \cup ReviewCall =>
                                        \/ next \in Ended
                                        \/ application[given.app] # Absent
  <2>1. ASSUME NEW c \in PrepareCall, NEW a \in App, PrepareBegin(c, a)
        PROVE  \E given : /\ arg' = [arg EXCEPT ![c] = given]
                          /\ \E next : /\ Goto(c, next)
                                       /\ next \notin Impossible
                                       /\ next \in Ended \/ application[given.app] # Absent
    <3>. DEFINE given == [arg[c] EXCEPT !.app = a]
    <3>1. arg' = [arg EXCEPT ![c] = given] /\ given.app = a
      BY <2>1 DEF PrepareBegin, Arguments, EngineInv, CallsInv, TypeInv, TypeOK, CallTypeOK
    <3>. HIDE DEF given
    <3> QED
      BY <2>1, <3>1 DEF PrepareBegin, ReadApplication, Proceed, Impossible, Ended
  <2>2. ASSUME NEW c \in ReviewCall, NEW a \in App, NEW k \in Key, NEW d \in Decision,
               ReviewBegin(c, a, k, d)
        PROVE  \E given : /\ arg' = [arg EXCEPT ![c] = given]
                          /\ \E next : /\ Goto(c, next)
                                       /\ next \notin Impossible
                                       /\ next \in Ended \/ application[given.app] # Absent
    <3>. DEFINE given == [app |-> a, key |-> k, want |-> d]
    <3>1. arg' = [arg EXCEPT ![c] = given] /\ given.app = a
      BY <2>2 DEF ReviewBegin
    <3>. HIDE DEF given
    <3> QED
      BY <2>2, <3>1 DEF ReviewBegin, ReadApplication, Proceed, Impossible, Ended
  <2> QED
    BY <2>1, <2>2, CallsAreDistinct DEF Arrive, PrepareBegin, ReviewBegin, UpdateBegin,
       CreateBegin, ReadBegin, ReadApplication, Proceed, Impossible
<1>2. UNCHANGED post /\ UNCHANGED application /\ UNCHANGED idempotency
  BY DEF Arrive, PrepareBegin, ReviewBegin, UpdateBegin, CreateBegin, ReadBegin, tables, engine
<1>3. /\ \A d \in Call \ {c} : pc'[d] = pc[d] /\ arg'[d] = arg[d] /\ Posted(d)' = Posted(d)
      /\ pc'[c] \notin Impossible
      /\ c \in PrepareCall \cup ReviewCall /\ Running(c)' => application'[arg'[c].app] # Absent
  BY <1>1, <1>2 DEF Goto, Posted, Running, EngineInv, CallsInv, TypeInv, TypeOK, CallTypeOK
<1>4. ~Posted(c)'
  BY <1>1, <1>2 DEF EngineInv, ExchangeInv, ExchangeKnows, UnsentPC, Posted
<1>5. \A d \in PrepareCall \cup ReviewCall : Running(d) => arg[d].app \in App
  BY RunningHaveBegun
<1>6. \A r \in Operation \X Key : idempotency'[r] # None => idempotency'[r].response # None
  BY <1>2 DEF OutcomeInv
<1> QED
  BY <1>2, <1>3, <1>4, <1>5, <1>6, MoveKeepsOutcomes

\* Every step.
LEMMA NextKeepsOutcomes == EngineInv /\ OutcomeInv /\ [Next]_vars => OutcomeInv'
<1>. SUFFICES ASSUME EngineInv, OutcomeInv, [Next]_vars PROVE OutcomeInv'
  OBVIOUS
<1>1. CASE EngineStep
  <2>1. UNCHANGED pc /\ UNCHANGED arg /\ UNCHANGED application /\ UNCHANGED idempotency
    BY <1>1 DEF EngineStep, tables
  <2>2. \A c \in Call : Posted(c)' => Posted(c)
    BY <1>1 DEF EngineStep, EngineAnalyse, EngineReview, Execute, Refuse, Posted,
       EngineInv, CallsInv, TypeInv, TypeOK, EngineTypeOK
  <2> QED
    BY <2>1, <2>2 DEF OutcomeInv, OutcomesAreRecorded, Running
<1>2. CASE Advance
  BY <1>2, PrepareKeepsOutcomes, ReviewKeepsOutcomes, OthersKeepOutcomes DEF Advance
<1>3. ASSUME NEW c \in Call, Crash(c) PROVE OutcomeInv'
  <2>1. /\ UNCHANGED arg /\ UNCHANGED post /\ UNCHANGED application /\ UNCHANGED idempotency
        /\ pc'[c] = "crashed" /\ \A d \in Call \ {c} : pc'[d] = pc[d]
    BY <1>3 DEF Crash, Proceed, Goto, tables, engine, EngineInv, CallsInv, TypeInv, TypeOK, CallTypeOK
  <2>2. \A d \in PrepareCall \cup ReviewCall : Running(d) => arg[d].app \in App
    BY RunningHaveBegun
  <2>3. \A r \in Operation \X Key : idempotency'[r] # None => idempotency'[r].response # None
    BY <2>1 DEF OutcomeInv
  <2>4. ~Running(c)' /\ pc'[c] \in AnsweredPC /\ pc'[c] \notin Impossible
    BY <2>1 DEF Running, Ended, AnsweredPC, Impossible
  <2>5. \A d \in Call \ {c} : pc'[d] = pc[d] /\ arg'[d] = arg[d] /\ Posted(d)' = Posted(d)
    BY <2>1 DEF Posted
  <2> QED
    BY <2>1, <2>2, <2>3, <2>4, <2>5, MoveKeepsOutcomes
<1>4. CASE UNCHANGED vars
  BY <1>4 DEF vars, tables, engine, OutcomeInv, OutcomesAreRecorded, Running, Posted
<1> QED
  BY <1>1, <1>2, <1>3, <1>4, ArriveKeepsOutcomes DEF Next

-----------------------------------------------------------------------------
(* The theorems.                                                           *)

\* Every step of the hub keeps the records true.
LEMMA NextKeepsEngine == EngineInv /\ [Next]_vars => EngineInv'
<1>. SUFFICES ASSUME EngineInv, [Next]_vars PROVE EngineInv'
  OBVIOUS
<1>1. TypeInv /\ AnalysisInv /\ ReviewInv
  BY DEF EngineInv, CallsInv
<1>2. CallsInv'
  BY <1>1, NextTypes, NextKeepsAnalysis, NextKeepsReviews DEF CallsInv
<1> QED
  BY <1>2, NextKeepsExchanges, NextKeepsRecords DEF EngineInv

\* What the hub has sent and recorded stays consistent with what the engine did.
THEOREM RecordsKnowTheEngine == Spec => []EngineInv
BY InitEngine, NextKeepsEngine, PTL DEF Spec

\* The outcome of every call, together with what the engine did of it.
THEOREM CallsRecordTheirOutcome == Spec => [](EngineInv /\ OutcomeInv)
<1>1. Init => OutcomeInv
  BY DEF Init, CallInit, EngineInit, StoreInit, OutcomeInv, OutcomesAreRecorded, Posted,
     Running, Ended
<1>2. EngineInv /\ OutcomeInv /\ [Next]_vars => OutcomeInv'
  BY NextKeepsOutcomes
<1> QED
  BY <1>1, <1>2, RecordsKnowTheEngine, PTL DEF Spec

\* A call that reached the engine gets to record what came of it, unless it
\* dies: no race makes its last transaction fail (_record_success,
\* _record_known_failure, _record_unknown_outcome of both services), and no
\* claim is found without its response (resolve_idempotency_claim).
THEOREM ReachedEngineRecorded == Spec => []OutcomesAreRecorded
<1>1. OutcomeInv => OutcomesAreRecorded
  BY DEF OutcomeInv
<1> QED
  BY <1>1, CallsRecordTheirOutcome, PTL

-----------------------------------------------------------------------------
(* The refinement: which steps an operation of the engine goes through.    *)

\* A step that neither sends anything, nor has anything carried out, nor writes
\* a record; only a call that begins changes its arguments.
Silent ==
  /\ UNCHANGED preparation /\ UNCHANGED submission /\ UNCHANGED reviewActions
  /\ UNCHANGED post /\ UNCHANGED thread /\ UNCHANGED applied
  /\ \A c \in Call : pc[c] # "idle" => arg'[c] = arg[c]

\* The steps an operation of the engine goes through, and the others.
LEMMA StepsOfOperations ==
  ASSUME EngineInv, [Next]_vars
  PROVE  \/ \E c \in PrepareCall : PrepareAdd(c) \/ PreparePost(c) \/ PrepareSave(c)
         \/ \E c \in ReviewCall : ReviewAdd(c) \/ ReviewPost(c) \/ ReviewSave(c)
         \/ EngineStep
         \/ Silent
<1>1. CASE Arrive
  <2>1. PICK c \in Call : pc[c] = "idle" /\ \E given : arg' = [arg EXCEPT ![c] = given]
    BY <1>1 DEF Arrive, PrepareBegin, ReviewBegin, UpdateBegin, CreateBegin, ReadBegin
  <2>2. \A d \in Call : pc[d] # "idle" => arg'[d] = arg[d]
    BY <2>1 DEF EngineInv, CallsInv, TypeInv, TypeOK, CallTypeOK
  <2> QED
    BY <1>1, <2>2 DEF Silent, Arrive, PrepareBegin, ReviewBegin, UpdateBegin, CreateBegin, ReadBegin,
       tables, engine
<1>2. CASE Advance
  <2>1. ASSUME NEW c \in PrepareCall, PrepareStep(c),
               ~PrepareAdd(c), ~PreparePost(c), ~PrepareSave(c)
        PROVE  Silent
    BY <2>1 DEF Silent, PrepareStep, PrepareFind, PrepareSaveApplication, PrepareAddFails,
       PrepareAnswer, PrepareReadApplication, PrepareRequireStarting, PrepareSaveReady,
       tables, engine
  <2>2. ASSUME NEW c \in ReviewCall, ReviewStep(c),
               ~ReviewAdd(c), ~ReviewPost(c), ~ReviewSave(c)
        PROVE  Silent
    BY <2>2 DEF Silent, ReviewStep, ReviewFindKey, ReviewLockFails, ReviewLock,
       ReviewRecheck, ReviewFindUnresolved, ReviewAddFails, ReviewAnswer, ReviewLockAgain,
       ReviewReadApplication, ReviewRequireSubmitting, ReviewSaveReady, tables, engine
  <2>3. ASSUME NEW c \in Call, UpdateStep(c) \/ CreateStep(c) \/ ReadStep(c) PROVE Silent
    BY <2>3 DEF Silent, UpdateStep, UpdateReplay, UpdateClaim, UpdateSave, CreateStep,
       CreateReplay, CreateClaim, CreateSave, ReadStep, ReadFind, ReadGet, ReadFails, tables, engine
  <2> QED
    BY <1>2, <2>1, <2>2, <2>3 DEF Advance
<1>3. ASSUME NEW c \in Call, Crash(c) PROVE Silent
  BY <1>3 DEF Silent, Crash, tables, engine
<1>4. CASE UNCHANGED vars
  BY <1>4 DEF Silent, vars, tables, engine
<1> QED
  BY <1>1, <1>2, <1>3, <1>4 DEF Next

\* The steps of an operation by what they write, whatever the store.
Operates ==
  \/ \E c \in PrepareCall : InsertsPreparation(c) \/ PreparePost(c) \/ SavesPreparation(c)
  \/ \E c \in ReviewCall : InsertsSubmission(c) \/ ReviewPost(c) \/ SavesSubmission(c)
  \/ EngineStep
  \/ Silent

\* Every step of the hub is one of them.
LEMMA NextOperates ==
  ASSUME EngineInv, [Next]_vars
  PROVE  Operates
BY StepsOfOperations, PrepareWrites, ReviewWrites DEF Operates, EngineInv, CallsInv

\* What has been sent stays sent, for the same application and key.
LEMMA SilentRequests ==
  ASSUME EngineInv, Silent, NEW c \in PrepareCall \cup ReviewCall
  PROVE  Posted(c)' = Posted(c) /\ (Posted(c) => arg'[c] = arg[c])
BY SendersHaveBegun DEF Silent, Posted

\* What is in doubt is left alone, and what could be sent about it is already
\* submitting.
LEMMA DoubtStands ==
  ASSUME EngineInv, Operates, NEW k \in Key, HasStatus(k, "outcome_unknown")
  PROVE  /\ submission'[k] = submission[k]
         /\ \A c \in ReviewCall :
              arg[c].app = submission[k].app /\ ~Posted(c) => post'[c] = "unsent"
<1>1. TypeInv /\ ReviewInv
  BY DEF EngineInv, CallsInv
<1>2. ASSUME NEW c \in PrepareCall,
             InsertsPreparation(c) \/ PreparePost(c) \/ SavesPreparation(c)
      PROVE  UNCHANGED submission /\ \A d \in ReviewCall : post'[d] = post[d]
  BY <1>1, <1>2, CallsAreDistinct DEF InsertsPreparation, PreparePost, SavesPreparation, Send,
     tables, engine, TypeInv, TypeOK, EngineTypeOK
<1>3. ASSUME NEW c \in ReviewCall, InsertsSubmission(c) \/ SavesSubmission(c)
      PROVE  UNCHANGED post /\ submission'[k] = submission[k]
  <2>1. ASSUME SavesSubmission(c) PROVE submission[arg[c].key].status = "submitting"
    BY <1>1, <2>1 DEF SavesSubmission, ReviewInv, ReviewKnows, SubmittedPC
  <2>2. arg[c].key # k
    BY <1>3, <2>1 DEF InsertsSubmission, HasStatus
  <2> QED
    BY <1>1, <1>3, <2>2
    DEF InsertsSubmission, SavesSubmission, engine, TypeInv, TypeOK, StoreTypeOK
<1>4. ASSUME NEW c \in ReviewCall, ReviewPost(c)
      PROVE  /\ UNCHANGED submission /\ \A d \in ReviewCall \ {c} : post'[d] = post[d]
             /\ arg[c].app # submission[k].app
  <2>1. /\ arg[c].key \in Key /\ submission[arg[c].key] # None
        /\ submission[arg[c].key].status = "submitting"
        /\ submission[arg[c].key].app = arg[c].app
    BY <1>1, <1>4, Begun DEF ReviewPost, ReviewInv, ReviewKnows, SubmittedPC
  <2>2. Pending(k) /\ Pending(arg[c].key) /\ arg[c].key # k
    BY <2>1 DEF HasStatus, Pending, UnresolvedStatus
  <2> QED
    BY <1>1, <1>4, <2>1, <2>2
    DEF ReviewInv, ReviewPost, Send, tables, TypeInv, TypeOK, EngineTypeOK
<1>5. CASE EngineStep
  BY <1>1, <1>5 DEF EngineStep, EngineAnalyse, EngineReview, Execute, Refuse, tables, Posted,
     TypeInv, TypeOK, EngineTypeOK
<1>6. CASE Silent
  BY <1>6 DEF Silent, Posted
<1> QED
  BY <1>2, <1>3, <1>4, <1>5, <1>6 DEF Operates, Posted

\* A submission whose outcome is unknown is final, and as long as it stands, as
\* it does for good, no review of its application is sent
\* (get_unresolved_for_preparation, and the statuses a submission leaves).
THEOREM DoubtIsFinal == Spec => DoubtBlocksReviews
<1>1. EngineInv /\ [Next]_vars =>
        [\A k \in Key : HasStatus(k, "outcome_unknown") =>
           /\ submission'[k] = submission[k]
           /\ \A c \in ReviewCall :
                arg[c].app = submission[k].app /\ ~Posted(c) => post'[c] = "unsent"]_vars
  BY NextOperates, DoubtStands
<1> QED
  BY <1>1, RecordsKnowTheEngine, PTL DEF Spec, DoubtBlocksReviews

-----------------------------------------------------------------------------
(* Analyses that wait for a review, as long as only the hub decides it.    *)

\* Submissions about one analysis concern one application.
LEMMA ThreadNamesApplication ==
  ASSUME EngineInv, NEW k \in Key, NEW l \in Key, submission[k] # None, submission[l] # None,
         submission[k].thread = submission[l].thread
  PROVE  submission[k].app = submission[l].app
<1>1. submission[k].app \in App /\ submission[l].app \in App
  BY DEF EngineInv, CallsInv, TypeInv, TypeOK, StoreTypeOK, Submission
<1>2. /\ SubmissionKnows(k) /\ SubmissionKnows(l)
      /\ PreparationKnows(submission[k].app) /\ PreparationKnows(submission[l].app)
  BY <1>1 DEF EngineInv, RecordInv
<1> QED
  BY <1>2 DEF SubmissionKnows, PreparationKnows

\* A review that has sent its decision has its submission stored.
LEMMA AnsweredIsStored ==
  ASSUME EngineInv, NEW c \in ReviewCall, Posted(c)
  PROVE  arg[c].key \in Key /\ submission[arg[c].key] # None
<1>1. arg[c].key \in Key
  BY SendersHaveBegun, Begun DEF EngineInv, CallsInv
<1> QED
  BY <1>1 DEF EngineInv, CallsInv, ReviewInv, ReviewKnows, Sends

\* The rows of a preparation and of its submissions change, and with them what
\* waits.
LEMMA PreparationKeepsWaiting ==
  ASSUME EngineInv, WaitingInv, NEW c \in PrepareCall,
         InsertsPreparation(c) \/ SavesPreparation(c)
  PROVE  WaitingInv'
<1>. DEFINE a == arg[c].app
<1>1. /\ UNCHANGED submission /\ UNCHANGED arg /\ UNCHANGED post /\ UNCHANGED thread
      /\ UNCHANGED applied
      /\ \A b \in App \ {a} : preparation'[b] = preparation[b]
  BY DEF InsertsPreparation, SavesPreparation, engine, EngineInv, CallsInv, TypeInv, TypeOK,
     StoreTypeOK
<1>2. ASSUME NEW b \in App, b = a PROVE (WaitsForReview(b))'
  <2>1. CASE InsertsPreparation(c)
    BY <1>2, <2>1 DEF WaitsForReview, InsertsPreparation, EngineInv, CallsInv, TypeInv, TypeOK,
       StoreTypeOK
  <2>2. CASE SavesPreparation(c)
    <3>1. pc[c] \in OwnerPC \cap ConcludedPC
      BY <2>2 DEF SavesPreparation, OwnerPC, ConcludedPC
    <3>2. verdict[c] = "awaiting_review" => thread[c] = "awaiting_review"
      BY <3>1 DEF EngineInv, ExchangeInv, ExchangeKnows, RecordInv, OwnerKnows, ThreadStatus
    <3>3. a \in App => preparation'[a] =
            [status |-> verdict[c], thread |-> IF verdict[c] \in ThreadStatus THEN c ELSE None]
      BY <2>2 DEF SavesPreparation, EngineInv, CallsInv, TypeInv, TypeOK, StoreTypeOK
    <3> QED
      BY <1>1, <1>2, <3>2, <3>3 DEF WaitsForReview, ThreadStatus
  <2> QED
    BY <2>1, <2>2
<1>3. \A b \in App \ {a} : (WaitsForReview(b))'
  BY <1>1 DEF WaitingInv, WaitsForReview, Unresolved
<1>4. \A k \in Key : (WaitsForSubmission(k))'
  BY <1>1 DEF WaitingInv, WaitsForSubmission, Pending
<1>5. \A d \in ReviewCall : (AnswerIsCurrent(d))'
  BY <1>1 DEF WaitingInv, AnswerIsCurrent
<1> QED
  BY <1>2, <1>3, <1>4, <1>5 DEF WaitingInv

\* A submission is inserted about an analysis that waits.
LEMMA InsertKeepsWaiting ==
  ASSUME EngineInv, WaitingInv, EngineInv', NEW c \in ReviewCall, InsertsSubmission(c)
  PROVE  WaitingInv'
<1>. DEFINE a == arg[c].app
            k == arg[c].key
            row == [app |-> a, want |-> arg[c].want, thread |-> preparation[a].thread,
                    status |-> "submitting", outcome |-> None]
<1>1. /\ k \in Key /\ a \in App /\ submission[k] = None /\ Unresolved(a) = {}
      /\ UNCHANGED preparation /\ UNCHANGED arg /\ UNCHANGED post /\ UNCHANGED thread
      /\ UNCHANGED applied
      /\ submission'[k] = row
      /\ \A l \in Key \ {k} : submission'[l] = submission[l]
  BY Begun DEF InsertsSubmission, engine, EngineInv, CallsInv, TypeInv, TypeOK, StoreTypeOK
<1>2. row.app = a /\ row.thread = preparation[a].thread /\ row.status = "submitting"
  OBVIOUS
<1>. HIDE DEF row
<1>3. thread[preparation[a].thread] = "awaiting_review"
  <2>1. submission'[k] # None
    <3>1. (Sends(c))' /\ (ReviewKnows(c))' /\ UNCHANGED arg
      BY DEF InsertsSubmission, Goto, Sends, EngineInv, CallsInv, ReviewInv, TypeInv, TypeOK,
         CallTypeOK
    <3> QED
      BY <3>1 DEF ReviewKnows
  <2>2. (SubmissionKnows(k))'
    BY <1>1 DEF EngineInv, RecordInv
  <2>3. preparation[a].status = "awaiting_review"
    BY <1>1, <1>2, <2>1, <2>2 DEF SubmissionKnows, UnresolvedStatus
  <2> QED
    BY <1>1, <2>3 DEF WaitingInv, WaitsForReview
<1>4. ASSUME NEW b \in App PROVE (WaitsForReview(b))'
  <2>1. Unresolved(b)' = {} => Unresolved(b) = {}
    BY <1>1 DEF Unresolved
  <2> QED
    BY <1>1, <2>1 DEF WaitingInv, WaitsForReview
<1>5. ASSUME NEW l \in Key PROVE (WaitsForSubmission(l))'
  BY <1>1, <1>2, <1>3 DEF WaitingInv, WaitsForSubmission, Pending
<1>6. ASSUME NEW d \in ReviewCall PROVE (AnswerIsCurrent(d))'
  <2>1. post[d] \in ThreadStatus => arg[d].key \in Key \ {k}
    BY <1>1, AnsweredIsStored DEF Posted, ThreadStatus
  <2> QED
    BY <1>1, <2>1 DEF WaitingInv, AnswerIsCurrent
<1> QED
  BY <1>4, <1>5, <1>6 DEF WaitingInv

\* An outcome is recorded: the analysis waits again, unless it is completed or
\* nothing is known of it.
LEMMA OutcomeKeepsWaiting ==
  ASSUME EngineInv, WaitingInv, NEW c \in ReviewCall, SavesSubmission(c)
  PROVE  WaitingInv'
<1>. DEFINE a == arg[c].app
            k == arg[c].key
            t == submission[k].thread
<1>1. pc[c] \in {"review:lock_again"} \cup LockedPC /\ pc[c] \in ConcludedPC
  BY DEF SavesSubmission, LockedPC, ConcludedPC
<1>2. /\ c \in Call /\ k \in Key /\ a \in App /\ Posted(c) /\ verdict[c] \in Verdict
      /\ submission[k] # None /\ submission[k].status = "submitting" /\ submission[k].app = a
      /\ preparation[a].thread = t
      /\ \A d \in ReviewCall : Sends(d) /\ arg[d].key = k => d = c
      /\ \A l \in Key : Pending(l) /\ submission[l].app = a => l = k
  BY <1>1, SenderSubmitting
<1>3. UNCHANGED arg /\ UNCHANGED post /\ UNCHANGED thread /\ UNCHANGED applied
  BY DEF SavesSubmission, engine
<1>4. /\ submission'[k] # None /\ submission'[k].app = a /\ submission'[k].thread = t
      /\ submission'[k].status = IF verdict[c] \in ThreadStatus THEN "completed" ELSE verdict[c]
      /\ \A l \in Key \ {k} : submission'[l] = submission[l]
      /\ preparation'[a].thread = t
      /\ preparation'[a].status = IF verdict[c] = "completed" THEN "completed" ELSE "awaiting_review"
      /\ \A b \in App \ {a} : preparation'[b] = preparation[b]
  BY <1>2, ReviewSaveWrites
<1>5. verdict[c] \in {"awaiting_review", "failed"} => thread[t] = "awaiting_review"
  <2>1. /\ verdict[c] \in ThreadStatus => post[c] = verdict[c]
        /\ verdict[c] = "failed" => c \notin applied
    BY <1>1, CallsAreDistinct DEF EngineInv, ExchangeInv, ExchangeKnows, PerformedFor
  <2>2. \A d \in applied : arg[d].key = k => d = c
    <3>1. ASSUME NEW d \in applied PROVE d \in ReviewCall /\ Sends(d)
      BY SendersHaveBegun DEF Sends, EngineInv, CallsInv, TypeInv, TypeOK, EngineTypeOK
    <3> QED
      BY <1>2, <3>1
  <2>3. verdict[c] = "failed" => thread[t] = "awaiting_review"
    BY <1>2, <2>1, <2>2 DEF WaitingInv, WaitsForSubmission, Pending, UnresolvedStatus
  <2> QED
    BY <1>2, <2>1, <2>3 DEF WaitingInv, AnswerIsCurrent, ThreadStatus
<1>6. ASSUME NEW b \in App PROVE (WaitsForReview(b))'
  <2>1. CASE b = a
    <3>1. verdict[c] = "outcome_unknown" => Unresolved(a)' # {}
      <4>1. "outcome_unknown" \notin ThreadStatus
        BY DEF ThreadStatus
      <4>2. verdict[c] = "outcome_unknown" => submission'[k].status = "outcome_unknown"
        BY <1>4, <4>1
      <4>3. verdict[c] = "outcome_unknown" =>
              k \in {l \in Key : /\ submission'[l] # None /\ submission'[l].app = a
                               /\ submission'[l].status \in {"submitting", "outcome_unknown"}}
        BY <1>2, <1>4, <4>2
      <4> QED
        BY <1>3, <4>3 DEF Unresolved
    <3> QED
      BY <1>2, <1>3, <1>4, <1>5, <2>1, <3>1 DEF WaitsForReview, Verdict, ThreadStatus
  <2>2. CASE b # a
    <3>1. Unresolved(b)' = Unresolved(b)
      BY <1>2, <1>4, <2>2 DEF Unresolved
    <3> QED
      BY <1>3, <1>4, <2>2, <3>1 DEF WaitingInv, WaitsForReview
  <2> QED
    BY <2>1, <2>2
<1>7. ASSUME NEW l \in Key PROVE (WaitsForSubmission(l))'
  BY <1>2, <1>3, <1>4 DEF WaitingInv, WaitsForSubmission, Pending, UnresolvedStatus
<1>8. ASSUME NEW d \in ReviewCall PROVE (AnswerIsCurrent(d))'
  <2>1. post[d] \in ThreadStatus => arg[d].key \in Key /\ Sends(d)
    BY AnsweredIsStored DEF Posted, Sends, ThreadStatus
  <2>2. submission'[k].status # "submitting"
    BY <1>2, <1>4 DEF Verdict, ThreadStatus
  <2> QED
    BY <1>2, <1>3, <1>4, <2>1, <2>2 DEF WaitingInv, AnswerIsCurrent
<1> QED
  BY <1>6, <1>7, <1>8 DEF WaitingInv

\* The engine carries out a review: nothing else is under way for its analysis.
LEMMA ReviewKeepsWaiting ==
  ASSUME EngineInv, WaitingInv, NEW c \in ReviewCall, EngineReview(c),
         UNCHANGED arg, UNCHANGED preparation, UNCHANGED submission
  PROVE  WaitingInv'
<1>. DEFINE k == arg[c].key
            a == arg[c].app
            t == target[c]
<1>1. /\ post[c] = "in_flight" /\ c \in Call /\ k \in Key /\ a \in App /\ Pending(k)
      /\ submission[k].app = a /\ submission[k].thread = t
      /\ t \in Thread /\ preparation[a].thread = t
  BY ReviewUnderWay DEF EngineReview
<1>2. /\ \A d \in Call \ {c} : post'[d] = post[d]
      /\ \A d \in Thread \ {t} : thread'[d] = thread[d]
      /\ post'[c] \in ThreadStatus => thread'[t] = post'[c]
      /\ c \in applied' \/ thread'[t] = thread[t]
      /\ applied \subseteq applied'
  <2>1. CASE Execute(c, t) /\ applied' = applied \cup {c}
    BY <1>1, <2>1 DEF Execute, ThreadStatus, EngineInv, CallsInv, TypeInv, TypeOK, EngineTypeOK
  <2>2. CASE Refuse(c)
    BY <1>1, <2>2 DEF Refuse, ThreadStatus, EngineInv, CallsInv, TypeInv, TypeOK, EngineTypeOK
  <2> QED
    BY <2>1, <2>2 DEF EngineReview
<1>3. \A l \in Key : Pending(l) /\ submission[l].app = a => l = k
  BY <1>1 DEF EngineInv, CallsInv, ReviewInv
<1>4. \A l \in Key \ {k} : Pending(l) => submission[l].thread \in Thread \ {t}
  <2>. SUFFICES ASSUME NEW l \in Key \ {k}, Pending(l) PROVE submission[l].thread \in Thread \ {t}
    OBVIOUS
  <2>1. submission[l].thread \in Thread
    BY DEF Pending, EngineInv, RecordInv, SubmissionKnows, CallsInv, TypeInv, TypeOK, StoreTypeOK,
       Submission
  <2>2. submission[l].thread # t
    BY <1>1, <1>3, ThreadNamesApplication DEF Pending
  <2> QED
    BY <2>1, <2>2
<1>5. ASSUME NEW b \in App PROVE (WaitsForReview(b))'
  <2>1. Unresolved(b)' = Unresolved(b)
    BY DEF Unresolved
  <2>2. CASE b = a
    <3>1. Unresolved(a) # {}
      BY <1>1 DEF Pending, Unresolved, UnresolvedStatus
    <3> QED
      BY <2>1, <2>2, <3>1 DEF WaitsForReview
  <2>3. CASE b # a /\ preparation[b].status = "awaiting_review"
    <3>1. PreparationKnows(a) /\ PreparationKnows(b)
      BY <1>1 DEF EngineInv, RecordInv
    <3>2. preparation[b].thread # None
      BY <2>3, <3>1 DEF PreparationKnows, ThreadStatus
    <3>3. preparation[b].thread \in Thread
      BY <3>2 DEF EngineInv, CallsInv, TypeInv, TypeOK, StoreTypeOK, Preparation
    <3>4. t # None
      BY <1>1, CallsAreDistinct DEF Thread
    <3>5. preparation[b].thread # t
      BY <1>1, <2>3, <3>1, <3>4 DEF PreparationKnows
    <3> QED
      BY <1>2, <2>1, <3>3, <3>5 DEF WaitingInv, WaitsForReview
  <2> QED
    BY <2>2, <2>3 DEF WaitsForReview
<1>6. ASSUME NEW l \in Key PROVE (WaitsForSubmission(l))'
  <2>1. CASE l = k
    BY <1>1, <1>2, <2>1 DEF WaitingInv, WaitsForSubmission, Pending
  <2>2. CASE l # k
    BY <1>2, <1>4, <2>2 DEF WaitingInv, WaitsForSubmission, Pending
  <2> QED
    BY <2>1, <2>2
<1>7. ASSUME NEW d \in ReviewCall PROVE (AnswerIsCurrent(d))'
  <2>1. CASE d = c
    BY <1>1, <1>2, <2>1 DEF AnswerIsCurrent
  <2>2. CASE d # c
    <3>1. post[d] \in ThreadStatus /\ submission[arg[d].key].status = "submitting" =>
            arg[d].key \in Key \ {k} /\ Pending(arg[d].key)
      <4>1. post[d] \in ThreadStatus => Posted(d) /\ Sends(d)
        BY DEF Posted, Sends, ThreadStatus
      <4>2. Sends(c)
        BY <1>1 DEF Posted, Sends
      <4>3. Sends(d) => arg[d].key # k
        BY <2>2, <4>2 DEF EngineInv, CallsInv, ReviewInv
      <4> QED
        BY <4>1, <4>3, AnsweredIsStored DEF Pending, UnresolvedStatus
    <3> QED
      BY <1>2, <1>4, <2>2, <3>1 DEF WaitingInv, AnswerIsCurrent
  <2> QED
    BY <2>1, <2>2
<1> QED
  BY <1>5, <1>6, <1>7 DEF WaitingInv

\* The engine carries out an analysis: no row knows of it yet.
LEMMA AnalysisKeepsWaiting ==
  ASSUME EngineInv, WaitingInv, NEW c \in PrepareCall, EngineAnalyse(c),
         UNCHANGED arg, UNCHANGED preparation, UNCHANGED submission
  PROVE  WaitingInv'
<1>1. /\ post[c] = "in_flight" /\ thread[c] = None /\ c \in Thread /\ c \notin ReviewCall
  BY CallsAreDistinct DEF EngineAnalyse, Thread, EngineInv, ExchangeInv, ExchangeKnows, PerformedFor
<1>2. /\ \A d \in ReviewCall : post'[d] = post[d]
      /\ \A t \in Thread \ {c} : thread'[t] = thread[t]
      /\ UNCHANGED applied
  BY <1>1 DEF EngineAnalyse, Execute, Refuse, Thread, EngineInv, CallsInv, TypeInv, TypeOK, EngineTypeOK
<1>3. \A a \in App : preparation[a].thread # None => preparation[a].thread \in Thread \ {c}
  <2>1. \A a \in App : PreparationKnows(a) /\ preparation[a].thread \in Thread \cup {None}
    BY DEF EngineInv, RecordInv, CallsInv, TypeInv, TypeOK, StoreTypeOK, Preparation
  <2> QED
    BY <1>1, <2>1 DEF PreparationKnows
<1>4. \A k \in Key : submission[k] # None => submission[k].thread \in Thread \ {c}
  <2>. SUFFICES ASSUME NEW k \in Key, submission[k] # None
                PROVE  submission[k].thread \in Thread \ {c}
    OBVIOUS
  <2>1. SubmissionKnows(k) /\ submission[k].app \in App
    BY DEF EngineInv, RecordInv, CallsInv, TypeInv, TypeOK, StoreTypeOK, Submission
  <2> QED
    BY <1>3, <2>1 DEF SubmissionKnows
<1>5. ASSUME NEW a \in App PROVE (WaitsForReview(a))'
  <2>1. Unresolved(a)' = Unresolved(a)
    BY DEF Unresolved
  <2>2. preparation[a].status = "awaiting_review" => preparation[a].thread # None
    BY DEF EngineInv, RecordInv, PreparationKnows, ThreadStatus
  <2> QED
    BY <1>2, <1>3, <2>1, <2>2 DEF WaitingInv, WaitsForReview
<1>6. \A k \in Key : (WaitsForSubmission(k))'
  BY <1>2, <1>4 DEF WaitingInv, WaitsForSubmission, Pending
<1>7. ASSUME NEW d \in ReviewCall PROVE (AnswerIsCurrent(d))'
  <2>1. post[d] \in ThreadStatus => arg[d].key \in Key /\ submission[arg[d].key] # None
    BY AnsweredIsStored DEF Posted, ThreadStatus
  <2> QED
    BY <1>2, <1>4, <2>1 DEF WaitingInv, AnswerIsCurrent
<1> QED
  BY <1>5, <1>6, <1>7 DEF WaitingInv

\* The other steps do not change what waits.
LEMMA OthersKeepWaiting ==
  ASSUME EngineInv, WaitingInv,
         \/ \E c \in PrepareCall : PreparePost(c)
         \/ \E c \in ReviewCall : ReviewPost(c)
         \/ Silent
  PROVE  WaitingInv'
<1>1. /\ UNCHANGED preparation /\ UNCHANGED submission /\ UNCHANGED thread /\ UNCHANGED applied
      /\ \A d \in ReviewCall : post'[d] \in ThreadStatus => post'[d] = post[d]
  BY CallsAreDistinct DEF PreparePost, ReviewPost, Silent, Send, tables, ThreadStatus, EngineInv,
     CallsInv, TypeInv, TypeOK, EngineTypeOK
<1>2. \A d \in ReviewCall : Posted(d) => arg'[d] = arg[d]
  BY SilentRequests DEF PreparePost, ReviewPost
<1>3. \A d \in applied : d \in ReviewCall /\ Posted(d)
  BY SendersHaveBegun DEF EngineInv, CallsInv, TypeInv, TypeOK, EngineTypeOK
<1>4. \A a \in App : (WaitsForReview(a))'
  BY <1>1 DEF WaitingInv, WaitsForReview, Unresolved
<1>5. \A k \in Key : (WaitsForSubmission(k))'
  BY <1>1, <1>2, <1>3 DEF WaitingInv, WaitsForSubmission, Pending
<1>6. \A d \in ReviewCall : (AnswerIsCurrent(d))'
  BY <1>1, <1>2 DEF WaitingInv, AnswerIsCurrent, Posted, ThreadStatus
<1> QED
  BY <1>4, <1>5, <1>6 DEF WaitingInv

\* Every step keeps what is known of the analyses that wait.
LEMMA WaitingKept ==
  ASSUME EngineInv, EngineInv', WaitingInv, Operates
  PROVE  WaitingInv'
<1>1. CASE EngineStep
  BY <1>1, AnalysisKeepsWaiting, ReviewKeepsWaiting DEF EngineStep, tables
<1>2. CASE ~EngineStep
  BY <1>2, PreparationKeepsWaiting, InsertKeepsWaiting, OutcomeKeepsWaiting, OthersKeepWaiting
     DEF Operates
<1> QED
  BY <1>1, <1>2

\* Nothing waits to begin with.
LEMMA WaitingBegins == Init => WaitingInv
BY NoneIsNoStatus DEF Init, EngineInit, StoreInit, WaitingInv, WaitsForReview, WaitsForSubmission,
   AnswerIsCurrent, Pending, NoPreparation, Absent, ThreadStatus

\* The row lock and the unresolved submission keep a decision from an analysis
\* that is over.
LEMMA OpenThreads == EngineInv /\ WaitingInv => ReviewsTargetOpenThreads
<1>. SUFFICES ASSUME EngineInv, WaitingInv, NEW c \in ReviewCall, post[c] = "in_flight"
              PROVE  target[c] # None /\ thread[target[c]] = "awaiting_review"
  BY DEF ReviewsTargetOpenThreads
<1>. DEFINE k == arg[c].key
<1>1. /\ c \in Call /\ k \in Key /\ Pending(k)
      /\ submission[k].thread = target[c] /\ target[c] \in Thread
  BY ReviewUnderWay
<1>2. \/ thread[target[c]] = "awaiting_review"
      \/ \E d \in applied : arg[d].key = k
  BY <1>1 DEF WaitingInv, WaitsForSubmission
<1>3. ASSUME NEW d \in applied, arg[d].key = k PROVE FALSE
  <2>1. d \in ReviewCall /\ Sends(d) /\ Sends(c)
    BY SendersHaveBegun DEF Sends, Posted, EngineInv, CallsInv, TypeInv, TypeOK, EngineTypeOK
  <2>2. d = c
    BY <1>3, <2>1 DEF EngineInv, CallsInv, ReviewInv
  <2>3. c \notin PrepareCall
    BY CallsAreDistinct
  <2> QED
    BY <2>2, <2>3 DEF EngineInv, ExchangeInv, ExchangeKnows, PerformedFor
<1> QED
  BY <1>1, <1>2, <1>3, CallsAreDistinct DEF Thread

\* A review that the engine may still carry out is about an analysis that waits
\* for one (_start_or_replay_review, and the row lock it holds).
THEOREM OpenThreadsReviewed == Spec => []ReviewsTargetOpenThreads
<1>1. EngineInv /\ WaitingInv /\ [Next]_vars => EngineInv' /\ WaitingInv'
  BY NextKeepsEngine, NextOperates, WaitingKept
<1> QED
  BY <1>1, InitEngine, WaitingBegins, OpenThreads, PTL DEF Spec

\* What a preparation claims of its analysis is what it knows of it.
LEMMA RecordsMatch == EngineInv /\ WaitingInv => PreparationMatchesEngine
BY DEF EngineInv, RecordInv, PreparationKnows, WaitingInv, WaitsForReview,
   PreparationMatchesEngine

\* The preparation row never claims more of the analysis than the engine did
\* (PrepareApplicationService and ReviewApplicationService, whose last
\* transactions write it).
THEOREM RowsMatchEngine == Spec => []PreparationMatchesEngine
<1>1. EngineInv /\ WaitingInv /\ [Next]_vars => EngineInv' /\ WaitingInv'
  BY NextKeepsEngine, NextOperates, WaitingKept
<1> QED
  BY <1>1, InitEngine, WaitingBegins, RecordsMatch, PTL DEF Spec

-----------------------------------------------------------------------------
(* Analyses.                                                               *)

AnalysesPerformed == {a \in App : \E c \in PrepareCall : arg[c].app = a /\ thread[c] # None}

\* A preparation has a status exactly if it exists.
LEMMA StatusOfPrepared ==
  ASSUME EngineInv, NEW a \in App
  PROVE  /\ Prepared(a) <=> preparation[a].status # Absent
         /\ preparation[a].status \in PreparationStatus \cup {Absent}
         /\ AnalysisState(a) = "open" <=> ~Prepared(a)
<1>1. preparation[a] \in Preparation
  BY DEF EngineInv, CallsInv, TypeInv, TypeOK, StoreTypeOK
<1>2. preparation[a].status = Absent => preparation[a].thread = None
  BY DEF EngineInv, RecordInv, PreparationKnows, ThreadStatus, Absent
<1>3. Prepared(a) <=> preparation[a].status # Absent
  BY <1>1, <1>2 DEF Prepared, NoPreparation, Preparation
<1> QED
  BY <1>1, <1>3 DEF AnalysisState, Preparation, PreparationStatus, ThreadStatus, Absent

\* A step that leaves the preparations alone, sends no analysis and has none
\* carried out is not seen.
LEMMA AnalysesUnseen ==
  ASSUME EngineInv, UNCHANGED preparation,
         \A c \in PrepareCall : /\ Posted(c)' = Posted(c)
                                /\ Posted(c) => arg'[c] = arg[c]
                                /\ thread'[c] # None <=> thread[c] # None
  PROVE  UNCHANGED Analyses!vars
<1>1. \A c \in PrepareCall : thread[c] # None => Posted(c)
  BY SendersHaveBegun
<1>2. \A a \in App : AnalysisRequested(a)' = AnalysisRequested(a)
  BY DEF AnalysisRequested
<1>3. AnalysesPerformed' = AnalysesPerformed
  BY <1>1 DEF AnalysesPerformed
<1>4. \A a \in App : AnalysisState(a)' = AnalysisState(a) /\ Prepared(a)' = Prepared(a)
  BY <1>2 DEF AnalysisState, Prepared
<1> QED
  BY <1>3, <1>4 DEF Analyses!vars, AnalysesPerformed

\* The INSERT of the preparation claims the analysis.
LEMMA AddClaimsAnalysis ==
  ASSUME EngineInv, NEW c \in PrepareCall, NEW a \in App, arg[c].app = a, InsertsPreparation(c)
  PROVE  Analyses!Claim(a, a)
<1>1. c \in Call /\ a \in App /\ ~Prepared(a) /\ a # None
  BY Begun, CallsAreDistinct DEF InsertsPreparation, EngineInv, CallsInv
<1>2. /\ UNCHANGED post /\ UNCHANGED arg /\ UNCHANGED thread
      /\ preparation'[a] = [status |-> "starting", thread |-> None]
      /\ \A b \in App \ {a} : preparation'[b] = preparation[b]
  BY <1>1 DEF InsertsPreparation, engine, EngineInv, CallsInv, TypeInv, TypeOK, StoreTypeOK
<1>3. ~AnalysisRequested(a)
  BY <1>1 DEF AnalysisRequested, EngineInv, CallsInv, AnalysisInv, Owns
<1>4. \A b \in App : AnalysisRequested(b)' = AnalysisRequested(b)
  BY <1>2 DEF AnalysisRequested, Posted
<1>5. AnalysesPerformed' = AnalysesPerformed
  BY <1>2 DEF AnalysesPerformed
<1>6. AnalysisState(a)' = "claimed" /\ Prepared(a)'
  BY <1>2, <1>3, <1>4 DEF AnalysisState, Prepared, NoPreparation, ThreadStatus, Absent
<1>7. \A b \in App \ {a} : AnalysisState(b)' = AnalysisState(b) /\ Prepared(b)' = Prepared(b)
  BY <1>2, <1>4 DEF AnalysisState, Prepared
<1>8. AnalysisState(a) = "open"
  BY <1>1, StatusOfPrepared
<1>. DEFINE scopes == [b \in App |-> IF Prepared(b) THEN b ELSE None]
<1>9. \A b \in App : scopes[b] # a
  BY <1>1
<1>10. Analyses!Unresolved(a) = {}
  BY <1>9 DEF Analyses!Unresolved
<1> QED
  BY <1>1, <1>5, <1>6, <1>7, <1>8, <1>10 DEF Analyses!Claim, AnalysesPerformed

\* The POST requests it.
LEMMA PostRequestsAnalysis ==
  ASSUME EngineInv, NEW c \in PrepareCall, NEW a \in App, arg[c].app = a, PreparePost(c)
  PROVE  Analyses!Request(a)
<1>1. c \in Call /\ a \in App /\ Owns(c) /\ ~Posted(c)
      /\ preparation[a] = [status |-> "starting", thread |-> None]
  BY Begun DEF PreparePost, OwnerPC, UnsentPC, EngineInv, CallsInv, RecordInv, OwnerKnows,
     ExchangeInv, ExchangeKnows
<1>2. /\ UNCHANGED preparation /\ UNCHANGED arg /\ UNCHANGED thread
      /\ Posted(c)' /\ \A d \in Call \ {c} : Posted(d)' = Posted(d)
  BY <1>1 DEF PreparePost, Send, Posted, tables, EngineInv, CallsInv, TypeInv, TypeOK, EngineTypeOK
<1>3. ~AnalysisRequested(a)
  BY <1>1 DEF AnalysisRequested, EngineInv, CallsInv, AnalysisInv, Owns
<1>4. /\ AnalysisRequested(a)'
      /\ \A b \in App \ {a} : AnalysisRequested(b)' = AnalysisRequested(b)
  BY <1>2 DEF AnalysisRequested
<1>5. AnalysisState(a) = "claimed" /\ AnalysisState(a)' = "requested"
  BY <1>1, <1>2, <1>3, <1>4 DEF AnalysisState, ThreadStatus, Absent
<1>6. \A b \in App \ {a} : AnalysisState(b)' = AnalysisState(b)
  BY <1>2, <1>4 DEF AnalysisState
<1>7. AnalysesPerformed' = AnalysesPerformed /\ \A b \in App : Prepared(b)' = Prepared(b)
  BY <1>2 DEF AnalysesPerformed, Prepared
<1> QED
  BY <1>1, <1>5, <1>6, <1>7 DEF Analyses!Request, AnalysesPerformed

\* The UPDATE of the preparation records what came of it.
LEMMA SaveRecordsAnalysis ==
  ASSUME EngineInv, NEW c \in PrepareCall, NEW a \in App, arg[c].app = a, SavesPreparation(c)
  PROVE  \E s \in {"succeeded", "failed", "in_doubt"} : Analyses!Record(a, s)
<1>. DEFINE s == IF verdict[c] \in ThreadStatus THEN "succeeded"
                 ELSE IF verdict[c] = "failed" THEN "failed" ELSE "in_doubt"
<1>1. pc[c] \in OwnerPC \cap ConcludedPC /\ pc[c] \notin {"idle", "prepare:post"} /\ c \in Call
  BY DEF SavesPreparation, OwnerPC, ConcludedPC
<1>2. a \in App /\ verdict[c] \in Verdict /\ Owns(c) /\ Posted(c)
      /\ preparation[a] = [status |-> "starting", thread |-> None]
  BY <1>1, Begun DEF EngineInv, CallsInv, TypeInv, VerdictGiven, RecordInv, OwnerKnows, Owns
<1>3. /\ verdict[c] \in ThreadStatus => thread[c] # None
      /\ verdict[c] = "failed" => thread[c] = None
  BY <1>1, NoneIsNoStatus DEF EngineInv, ExchangeInv, ExchangeKnows, PerformedFor, ThreadStatus
<1>4. /\ UNCHANGED post /\ UNCHANGED arg /\ UNCHANGED thread
      /\ preparation'[a] =
           [status |-> verdict[c], thread |-> IF verdict[c] \in ThreadStatus THEN c ELSE None]
      /\ \A b \in App \ {a} : preparation'[b] = preparation[b]
  BY <1>2 DEF SavesPreparation, engine, EngineInv, CallsInv, TypeInv, TypeOK, StoreTypeOK
<1>5. \A b \in App : AnalysisRequested(b)' = AnalysisRequested(b)
  BY <1>4 DEF AnalysisRequested, Posted
<1>6. AnalysisState(a) = "requested"
  BY <1>2 DEF AnalysisState, AnalysisRequested, ThreadStatus, Absent
<1>7. AnalysisState(a)' = s /\ Prepared(a)' /\ Prepared(a)
  BY <1>2, <1>4 DEF AnalysisState, Prepared, NoPreparation, Verdict, ThreadStatus, Absent
<1>8. \A b \in App \ {a} : AnalysisState(b)' = AnalysisState(b) /\ Prepared(b)' = Prepared(b)
  BY <1>4, <1>5 DEF AnalysisState, Prepared
<1>9. AnalysesPerformed' = AnalysesPerformed
  BY <1>4 DEF AnalysesPerformed
<1>10. s = "succeeded" => a \in AnalysesPerformed
  BY <1>2, <1>3 DEF AnalysesPerformed
<1>11. s = "failed" => a \notin AnalysesPerformed
  <2>1. \A d \in PrepareCall : thread[d] # None /\ arg[d].app = a => d = c
    BY <1>2, SendersHaveBegun DEF EngineInv, CallsInv, AnalysisInv, Owns
  <2> QED
    BY <1>3, <2>1 DEF AnalysesPerformed
<1>12. s \in {"succeeded", "failed", "in_doubt"}
  OBVIOUS
<1>13. ASSUME NEW t \in {"succeeded", "failed", "in_doubt"}, s = t
       PROVE  Analyses!Record(a, t)
  <2>. HIDE DEF s
  <2> QED
    BY <1>6, <1>7, <1>8, <1>9, <1>10, <1>11, <1>13 DEF Analyses!Record, AnalysesPerformed
<1> QED
  BY <1>12, <1>13

\* The end of a review does not change that the analysis succeeded.
LEMMA ReviewSaveUnseen ==
  ASSUME EngineInv, NEW c \in ReviewCall, NEW a \in App, arg[c].app = a, SavesSubmission(c)
  PROVE  UNCHANGED Analyses!vars
<1>1. /\ a \in App /\ preparation[a].status = "awaiting_review"
      /\ preparation[a] \in Preparation
  BY SenderSubmitting DEF SavesSubmission, LockedPC, EngineInv, CallsInv, TypeInv, TypeOK, StoreTypeOK
<1>2. /\ UNCHANGED post /\ UNCHANGED arg /\ UNCHANGED thread
      /\ preparation'[a].status \in ThreadStatus
      /\ \A b \in App \ {a} : preparation'[b] = preparation[b]
  <2>1. CASE verdict[c] = "completed"
    <3>1. preparation' = [preparation EXCEPT ![a] = [preparation[a] EXCEPT !.status = "completed"]]
      BY <2>1 DEF SavesSubmission
    <3> QED
      BY <1>1, <2>1, <3>1 DEF SavesSubmission, engine, Preparation, ThreadStatus, EngineInv, CallsInv,
         TypeInv, TypeOK, StoreTypeOK
  <2>2. CASE verdict[c] # "completed"
    BY <1>1, <2>2 DEF SavesSubmission, engine, ThreadStatus
  <2> QED
    BY <2>1, <2>2
<1>3. \A b \in App : AnalysisRequested(b)' = AnalysisRequested(b)
  BY <1>2 DEF AnalysisRequested, Posted
<1>4. AnalysisState(a)' = AnalysisState(a) /\ Prepared(a)' = Prepared(a)
  BY <1>1, <1>2 DEF AnalysisState, Prepared, NoPreparation, ThreadStatus, Absent
<1>5. \A b \in App \ {a} : AnalysisState(b)' = AnalysisState(b) /\ Prepared(b)' = Prepared(b)
  BY <1>2, <1>3 DEF AnalysisState, Prepared
<1>6. AnalysesPerformed' = AnalysesPerformed
  BY <1>2 DEF AnalysesPerformed
<1> QED
  BY <1>4, <1>5, <1>6 DEF Analyses!vars, AnalysesPerformed

\* The engine performs an analysis once, and a review performs none.
LEMMA EnginePerformsAnalysis ==
  ASSUME EngineInv, EngineStep
  PROVE  (\E a \in App : Analyses!Perform(a)) \/ UNCHANGED Analyses!vars
<1>1. UNCHANGED preparation /\ UNCHANGED arg
  BY DEF EngineStep, tables
<1>2. \A c \in Call : Posted(c)' = Posted(c)
  BY DEF EngineStep, EngineAnalyse, EngineReview, Execute, Refuse, Posted, ThreadStatus,
     EngineInv, CallsInv, TypeInv, TypeOK, EngineTypeOK
<1>3. ASSUME NEW c \in PrepareCall, NEW a \in App, arg[c].app = a, EngineAnalyse(c), Execute(c, c)
      PROVE  Analyses!Perform(a)
  <2>1. post[c] = "in_flight" /\ Posted(c) /\ c \in Call
    BY <1>3 DEF EngineAnalyse, Posted
  <2>2. Owns(c) /\ thread[c] = None
        /\ preparation[a].status \in {"starting", "outcome_unknown"}
    BY <1>3, <2>1 DEF Owns, EngineInv, ExchangeInv, ExchangeKnows, PerformedFor,
       RecordInv, OwnerKnows
  <2>3. AnalysisState(a) \in {"requested", "in_doubt"}
    BY <1>3, <2>1, <2>2 DEF AnalysisState, AnalysisRequested, ThreadStatus, Absent
  <2>4. a \notin AnalysesPerformed
    <3>1. \A d \in PrepareCall : thread[d] # None /\ arg[d].app = a => d = c
      BY <1>3, <2>2, SendersHaveBegun DEF EngineInv, CallsInv, AnalysisInv, Owns
    <3> QED
      BY <2>2, <3>1 DEF AnalysesPerformed
  <2>5. thread'[c] # None /\ \A d \in PrepareCall \ {c} : thread'[d] = thread[d]
    BY <1>3, NoneIsNoStatus DEF Execute, Thread, EngineInv, CallsInv, TypeInv, TypeOK, EngineTypeOK
  <2>6. AnalysesPerformed' = AnalysesPerformed \cup {a}
    BY <1>1, <1>3, <2>5 DEF AnalysesPerformed
  <2>7. \A b \in App : AnalysisState(b)' = AnalysisState(b) /\ Prepared(b)' = Prepared(b)
    <3>1. \A b \in App : AnalysisRequested(b)' = AnalysisRequested(b)
      BY <1>1, <1>2 DEF AnalysisRequested
    <3> QED
      BY <1>1, <3>1 DEF AnalysisState, Prepared
  <2> QED
    BY <2>2, <2>3, <2>4, <2>6, <2>7 DEF Analyses!Perform, AnalysesPerformed
<1>4. ASSUME NEW c \in ReviewCall, EngineReview(c), Execute(c, target[c])
      PROVE  UNCHANGED Analyses!vars
  <2>1. target[c] \in Thread /\ thread[target[c]] # None
    BY <1>4, ReviewUnderWay DEF EngineReview
  <2>2. \A d \in PrepareCall : thread'[d] # None <=> thread[d] # None
    BY <1>4, <2>1, NoneIsNoStatus DEF Execute, Thread, EngineInv, CallsInv, TypeInv, TypeOK,
       EngineTypeOK
  <2> QED
    BY <1>1, <1>2, <2>2, AnalysesUnseen
<1>5. ASSUME NEW c \in PrepareCall \cup ReviewCall, Refuse(c) PROVE UNCHANGED Analyses!vars
  BY <1>1, <1>2, <1>5, AnalysesUnseen DEF Refuse
<1>6. \A c \in PrepareCall : EngineAnalyse(c) => arg[c].app \in App
  BY SendersHaveBegun DEF EngineAnalyse, Posted
<1> QED
  BY <1>3, <1>4, <1>5, <1>6 DEF EngineStep, EngineAnalyse, EngineReview

\* Every step is one of the abstract operation, or is not seen.
LEMMA AnalysesOperate ==
  ASSUME EngineInv, Operates
  PROVE  Analyses!Next \/ UNCHANGED Analyses!vars
<1>1. ASSUME NEW c \in PrepareCall,
             InsertsPreparation(c) \/ PreparePost(c) \/ SavesPreparation(c)
      PROVE  Analyses!Next
  <2>1. arg[c].app \in App
    BY <1>1, Begun DEF InsertsPreparation, PreparePost, SavesPreparation, EngineInv, CallsInv
  <2> QED
    BY <1>1, <2>1, AddClaimsAnalysis, PostRequestsAnalysis, SaveRecordsAnalysis DEF Analyses!Next
<1>2. ASSUME NEW c \in ReviewCall, InsertsSubmission(c) \/ ReviewPost(c) \/ SavesSubmission(c)
      PROVE  UNCHANGED Analyses!vars
  <2>1. CASE SavesSubmission(c)
    <3>1. arg[c].app \in App
      BY <2>1, Begun DEF SavesSubmission, EngineInv, CallsInv
    <3> QED
      BY <2>1, <3>1, ReviewSaveUnseen
  <2>2. CASE InsertsSubmission(c) \/ ReviewPost(c)
    <3>1. UNCHANGED preparation /\ UNCHANGED arg /\ UNCHANGED thread
      BY <2>2 DEF InsertsSubmission, ReviewPost, Send, tables, engine
    <3>2. \A d \in PrepareCall : Posted(d)' = Posted(d)
      BY <2>2, CallsAreDistinct DEF InsertsSubmission, ReviewPost, Send, Posted, engine, EngineInv,
         CallsInv, TypeInv, TypeOK, EngineTypeOK
    <3> QED
      BY <3>1, <3>2, AnalysesUnseen
  <2> QED
    BY <1>2, <2>1, <2>2
<1>3. CASE EngineStep
  BY <1>3, EnginePerformsAnalysis DEF Analyses!Next
<1>4. CASE Silent
  BY <1>4, SilentRequests, AnalysesUnseen DEF Silent
<1> QED
  BY <1>1, <1>2, <1>3, <1>4 DEF Operates

\* No analysis is asked for to begin with.
LEMMA AnalysesBegin == Init => Analyses!Init
<1>. SUFFICES ASSUME Init PROVE Analyses!Init
  OBVIOUS
<1>1. \A a \in App : AnalysisState(a) = "open" /\ ~Prepared(a)
  BY DEF Init, StoreInit, AnalysisState, Prepared, NoPreparation, ThreadStatus, Absent
<1>2. AnalysesPerformed = {}
  BY DEF Init, EngineInit, Thread, AnalysesPerformed
<1> QED
  BY <1>1, <1>2 DEF Analyses!Init, AnalysesPerformed

\* PrepareApplicationService has the engine analyse an application at most once,
\* and its preparation never says more of the analysis than is known.
THEOREM AnalysesImplemented == Spec => AnalysesAreRemoteOperations
<1>1. EngineInv /\ [Next]_vars => [Analyses!Next]_(Analyses!vars)
  BY NextOperates, AnalysesOperate
<1> QED
  BY <1>1, AnalysesBegin, RecordsKnowTheEngine, PTL DEF Spec, AnalysesAreRemoteOperations, Analyses!Spec

-----------------------------------------------------------------------------
(* Reviews.                                                                *)

ReviewsPerformed == {k \in Key : \E c \in applied : arg[c].key = k}

ReviewScope(k) == IF submission[k] = None THEN None ELSE submission[k].app

\* A review is unresolved in the abstract exactly if its submission is.
LEMMA StatusOfSubmitted ==
  ASSUME EngineInv, NEW k \in Key
  PROVE  /\ ReviewState(k) = "open" <=> submission[k] = None
         /\ ReviewState(k) \in {"claimed", "requested", "in_doubt"} => Pending(k)
<1>1. submission[k] # None => submission[k].status \in SubmissionStatus
  BY DEF EngineInv, CallsInv, TypeInv, TypeOK, StoreTypeOK, Submission
<1> QED
  BY <1>1 DEF ReviewState, HasStatus, Pending, UnresolvedStatus, SubmissionStatus

\* Who has the engine carry out a review is a review call.
LEMMA AppliedAreReviews ==
  ASSUME EngineInv, NEW c \in applied
  PROVE  c \in ReviewCall /\ c \in Call /\ Posted(c)
BY SendersHaveBegun DEF EngineInv, CallsInv, TypeInv, TypeOK, EngineTypeOK

\* A step that leaves the submissions alone, sends no review and has none
\* carried out is not seen.
LEMMA ReviewsUnseen ==
  ASSUME EngineInv, UNCHANGED submission, UNCHANGED applied,
         \A c \in ReviewCall : Posted(c)' = Posted(c) /\ (Posted(c) => arg'[c] = arg[c])
  PROVE  UNCHANGED Reviews!vars
<1>1. \A k \in Key : ReviewRequested(k)' = ReviewRequested(k)
  BY DEF ReviewRequested
<1>2. ReviewsPerformed' = ReviewsPerformed
  BY AppliedAreReviews DEF ReviewsPerformed
<1>3. \A k \in Key : ReviewState(k)' = ReviewState(k) /\ ReviewScope(k)' = ReviewScope(k)
  BY <1>1 DEF ReviewState, HasStatus, ReviewScope
<1> QED
  BY <1>2, <1>3 DEF Reviews!vars, ReviewsPerformed, ReviewScope

\* The INSERT of the submission claims the review of its application's analysis.
LEMMA AddClaimsReview ==
  ASSUME EngineInv, NEW c \in ReviewCall, NEW a \in App, NEW k \in Key,
         arg[c].app = a, arg[c].key = k, InsertsSubmission(c)
  PROVE  Reviews!Claim(k, a)
<1>1. /\ pc[c] \in {"review:find_key", "review:add"} /\ c \in Call
      /\ submission[k] = None /\ Unresolved(a) = {} /\ arg[c].want \in Decision
  BY Begun DEF InsertsSubmission, EngineInv, CallsInv
<1>. DEFINE row == [app |-> a, want |-> arg[c].want, thread |-> preparation[a].thread,
                    status |-> "submitting", outcome |-> None]
<1>2. row # None /\ row.app = a /\ row.status = "submitting"
  <2>1. row \in Submission
    BY <1>1 DEF Submission, SubmissionStatus, EngineInv, CallsInv, TypeInv, TypeOK,
       StoreTypeOK, Preparation
  <2> QED
    BY <2>1, NoneIsNoRow
<1>3. /\ UNCHANGED post /\ UNCHANGED arg /\ UNCHANGED applied
      /\ submission'[k] = row /\ \A l \in Key \ {k} : submission'[l] = submission[l]
  BY DEF InsertsSubmission, engine, EngineInv, CallsInv, TypeInv, TypeOK, StoreTypeOK
<1>. HIDE DEF row
<1>4. \A l \in Key : ReviewRequested(l)' = ReviewRequested(l)
  BY <1>3 DEF ReviewRequested, Posted
<1>5. ~ReviewRequested(k)
  BY <1>1 DEF ReviewRequested, EngineInv, CallsInv, ReviewInv, ReviewKnows, Sends
<1>6. ReviewsPerformed' = ReviewsPerformed
  BY <1>3 DEF ReviewsPerformed
<1>7. /\ ReviewState(k)' = "claimed" /\ ReviewScope(k)' = a
      /\ \A l \in Key \ {k} : ReviewState(l)' = ReviewState(l) /\ ReviewScope(l)' = ReviewScope(l)
  BY <1>2, <1>3, <1>4, <1>5 DEF ReviewState, HasStatus, ReviewScope
<1>8. ReviewState(k) = "open"
  BY <1>1, StatusOfSubmitted
<1>9. Reviews!Unresolved(a) = {}
  <2>1. \A l \in Key : Pending(l) => submission[l].app # a
    BY <1>1 DEF Unresolved, Pending, UnresolvedStatus
  <2>2. \A l \in Key : ReviewState(l) \in {"claimed", "requested", "in_doubt"} => Pending(l)
    BY StatusOfSubmitted
  <2> QED
    BY <2>1, <2>2 DEF Reviews!Unresolved, Pending
<1> QED
  BY <1>6, <1>7, <1>8, <1>9 DEF Reviews!Claim, ReviewsPerformed, ReviewScope

\* The POST requests it.
LEMMA PostRequestsReview ==
  ASSUME EngineInv, NEW c \in ReviewCall, NEW k \in Key, arg[c].key = k, ReviewPost(c)
  PROVE  Reviews!Request(k)
<1>1. /\ c \in Call /\ pc[c] = "review:post" /\ pc[c] \in SubmittedPC /\ pc[c] \in UnsentPC
  BY DEF ReviewPost, SubmittedPC, UnsentPC
<1>2. Sends(c) /\ ~Posted(c) /\ HasStatus(k, "submitting")
  BY <1>1 DEF HasStatus, EngineInv, CallsInv, ReviewInv, ReviewKnows, ExchangeInv, ExchangeKnows
<1>3. /\ UNCHANGED submission /\ UNCHANGED arg /\ UNCHANGED applied
      /\ Posted(c)' /\ \A d \in Call \ {c} : Posted(d)' = Posted(d)
  BY <1>1 DEF ReviewPost, Send, Posted, tables, EngineInv, CallsInv, TypeInv, TypeOK, EngineTypeOK
<1>4. ~ReviewRequested(k)
  BY <1>2 DEF ReviewRequested, EngineInv, CallsInv, ReviewInv, Sends
<1>5. /\ ReviewRequested(k)'
      /\ \A l \in Key \ {k} : ReviewRequested(l)' = ReviewRequested(l)
  BY <1>3 DEF ReviewRequested
<1>6. ReviewState(k) = "claimed" /\ ReviewState(k)' = "requested"
  BY <1>2, <1>3, <1>4, <1>5 DEF ReviewState, HasStatus
<1>7. \A l \in Key \ {k} : ReviewState(l)' = ReviewState(l)
  BY <1>3, <1>5 DEF ReviewState, HasStatus
<1>8. ReviewsPerformed' = ReviewsPerformed /\ \A l \in Key : ReviewScope(l)' = ReviewScope(l)
  BY <1>3 DEF ReviewsPerformed, ReviewScope
<1> QED
  BY <1>6, <1>7, <1>8 DEF Reviews!Request, ReviewsPerformed, ReviewScope

\* The UPDATE of the submission records what came of it.
LEMMA SaveRecordsReview ==
  ASSUME EngineInv, NEW c \in ReviewCall, NEW k \in Key, arg[c].key = k, SavesSubmission(c)
  PROVE  \E s \in {"succeeded", "failed", "in_doubt"} : Reviews!Record(k, s)
<1>. DEFINE s == IF verdict[c] \in ThreadStatus THEN "succeeded"
                 ELSE IF verdict[c] = "failed" THEN "failed" ELSE "in_doubt"
            status == IF verdict[c] \in ThreadStatus THEN "completed" ELSE verdict[c]
            outcome == IF verdict[c] \in ThreadStatus THEN verdict[c] ELSE None
            row == [[submission[k] EXCEPT !.status = status] EXCEPT !.outcome = outcome]
<1>1. pc[c] \in ConcludedPC /\ pc[c] \in {"review:lock_again"} \cup LockedPC
  BY DEF SavesSubmission, LockedPC, ConcludedPC
<1>2. /\ c \in Call /\ Posted(c) /\ verdict[c] \in Verdict
      /\ submission[k] \in Submission /\ submission[k] # None /\ submission[k].status = "submitting"
      /\ \A d \in ReviewCall : Sends(d) /\ arg[d].key = k => d = c
  BY <1>1, SenderSubmitting
<1>3. /\ UNCHANGED post /\ UNCHANGED arg /\ UNCHANGED applied
      /\ submission' = [submission EXCEPT ![k] = row]
  BY DEF SavesSubmission, engine
<1>4. row # None /\ row.app = submission[k].app /\ row.status = status
  <2>1. status \in SubmissionStatus /\ outcome \in ThreadStatus \cup {None}
    BY <1>2 DEF SubmissionStatus, Verdict, ThreadStatus
  <2>2. row \in Submission /\ row.app = submission[k].app /\ row.status = status
    BY <1>2, <2>1 DEF Submission
  <2> QED
    BY <2>2, NoneIsNoRow
<1>. HIDE DEF row, outcome
<1>5. submission'[k] = row /\ \A l \in Key \ {k} : submission'[l] = submission[l]
  BY <1>3 DEF EngineInv, CallsInv, TypeInv, TypeOK, StoreTypeOK
<1>6. \A l \in Key : ReviewRequested(l)' = ReviewRequested(l)
  BY <1>3 DEF ReviewRequested, Posted
<1>7. ReviewState(k) = "requested"
  BY <1>2 DEF ReviewState, HasStatus, ReviewRequested
<1>8. ReviewState(k)' = s /\ ReviewScope(k)' = ReviewScope(k)
  BY <1>2, <1>4, <1>5 DEF ReviewState, HasStatus, ReviewScope, Verdict, ThreadStatus
<1>9. \A l \in Key \ {k} : ReviewState(l)' = ReviewState(l) /\ ReviewScope(l)' = ReviewScope(l)
  BY <1>5, <1>6 DEF ReviewState, HasStatus, ReviewScope
<1>10. ReviewsPerformed' = ReviewsPerformed
  BY <1>3 DEF ReviewsPerformed
<1>11. /\ verdict[c] \in ThreadStatus => c \in applied
       /\ verdict[c] = "failed" => c \notin applied
  BY <1>1, CallsAreDistinct DEF EngineInv, ExchangeInv, ExchangeKnows, PerformedFor, ThreadStatus
<1>12. s = "succeeded" => k \in ReviewsPerformed
  BY <1>11 DEF ReviewsPerformed
<1>13. s = "failed" => k \notin ReviewsPerformed
  BY <1>2, <1>11, AppliedAreReviews DEF ReviewsPerformed, Sends
<1>14. s \in {"succeeded", "failed", "in_doubt"}
  OBVIOUS
<1>15. ASSUME NEW t \in {"succeeded", "failed", "in_doubt"}, s = t
       PROVE  Reviews!Record(k, t)
  <2>. HIDE DEF s
  <2> QED
    BY <1>7, <1>8, <1>9, <1>10, <1>12, <1>13, <1>15
    DEF Reviews!Record, ReviewsPerformed, ReviewScope
<1> QED
  BY <1>14, <1>15

\* The engine performs a review once, and an analysis performs none.
LEMMA EnginePerformsReview ==
  ASSUME EngineInv, EngineStep
  PROVE  (\E k \in Key : Reviews!Perform(k)) \/ UNCHANGED Reviews!vars
<1>1. UNCHANGED submission /\ UNCHANGED arg
  BY DEF EngineStep, tables
<1>2. \A c \in Call : Posted(c)' = Posted(c)
  BY DEF EngineStep, EngineAnalyse, EngineReview, Execute, Refuse, Posted, ThreadStatus,
     EngineInv, CallsInv, TypeInv, TypeOK, EngineTypeOK
<1>3. ASSUME NEW c \in ReviewCall, NEW k \in Key, arg[c].key = k,
             post[c] = "in_flight", applied' = applied \cup {c}
      PROVE  Reviews!Perform(k)
  <2>1. Posted(c) /\ Pending(k) /\ c \notin applied
    BY <1>3, ReviewUnderWay, CallsAreDistinct
    DEF Posted, EngineInv, ExchangeInv, ExchangeKnows, PerformedFor
  <2>2. ReviewState(k) \in {"requested", "in_doubt"}
    BY <1>3, <2>1 DEF ReviewState, HasStatus, ReviewRequested, Pending, UnresolvedStatus
  <2>3. k \notin ReviewsPerformed
    <3>1. \A d \in applied : arg[d].key = k => d = c
      BY <1>3, <2>1, AppliedAreReviews DEF EngineInv, CallsInv, ReviewInv, Sends
    <3> QED
      BY <2>1, <3>1 DEF ReviewsPerformed
  <2>4. ReviewsPerformed' = ReviewsPerformed \cup {k}
    BY <1>1, <1>3 DEF ReviewsPerformed
  <2>5. \A l \in Key : ReviewState(l)' = ReviewState(l) /\ ReviewScope(l)' = ReviewScope(l)
    <3>1. \A l \in Key : ReviewRequested(l)' = ReviewRequested(l)
      BY <1>1, <1>2 DEF ReviewRequested
    <3> QED
      BY <1>1, <3>1 DEF ReviewState, HasStatus, ReviewScope
  <2> QED
    BY <2>2, <2>3, <2>4, <2>5 DEF Reviews!Perform, ReviewsPerformed, ReviewScope
<1>4. UNCHANGED applied => UNCHANGED Reviews!vars
  BY <1>1, <1>2, ReviewsUnseen
<1>5. \A c \in ReviewCall : post[c] = "in_flight" => arg[c].key \in Key
  BY ReviewUnderWay
<1> QED
  BY <1>3, <1>4, <1>5 DEF EngineStep, EngineAnalyse, EngineReview, Refuse

\* Every step is one of the abstract operation, or is not seen.
LEMMA ReviewsOperate ==
  ASSUME EngineInv, Operates
  PROVE  Reviews!Next \/ UNCHANGED Reviews!vars
<1>1. ASSUME NEW c \in ReviewCall, InsertsSubmission(c) \/ ReviewPost(c) \/ SavesSubmission(c)
      PROVE  Reviews!Next
  <2>1. arg[c].app \in App /\ arg[c].key \in Key
    BY <1>1, Begun DEF InsertsSubmission, ReviewPost, SavesSubmission, EngineInv, CallsInv
  <2> QED
    BY <1>1, <2>1, AddClaimsReview, PostRequestsReview, SaveRecordsReview DEF Reviews!Next
<1>2. ASSUME NEW c \in PrepareCall,
             InsertsPreparation(c) \/ PreparePost(c) \/ SavesPreparation(c)
      PROVE  UNCHANGED Reviews!vars
  <2>1. UNCHANGED submission /\ UNCHANGED arg /\ UNCHANGED applied
    BY <1>2 DEF InsertsPreparation, PreparePost, SavesPreparation, Send, tables, engine
  <2>2. \A d \in ReviewCall : Posted(d)' = Posted(d)
    BY <1>2, CallsAreDistinct DEF InsertsPreparation, PreparePost, SavesPreparation, Send, Posted,
       engine, EngineInv, CallsInv, TypeInv, TypeOK, EngineTypeOK
  <2> QED
    BY <2>1, <2>2, ReviewsUnseen
<1>3. CASE EngineStep
  BY <1>3, EnginePerformsReview DEF Reviews!Next
<1>4. CASE Silent
  BY <1>4, SilentRequests, ReviewsUnseen DEF Silent
<1> QED
  BY <1>1, <1>2, <1>3, <1>4 DEF Operates

\* No review is asked for to begin with.
LEMMA ReviewsOpen == Init => Reviews!Init
<1>. SUFFICES ASSUME Init PROVE Reviews!Init
  OBVIOUS
<1>1. \A k \in Key : ReviewState(k) = "open" /\ submission[k] = None
  BY DEF Init, StoreInit, ReviewState, HasStatus
<1>2. ReviewsPerformed = {}
  BY DEF Init, EngineInit, ReviewsPerformed
<1> QED
  BY <1>1, <1>2 DEF Reviews!Init, ReviewsPerformed

\* ReviewApplicationService sends a review at most once per key and not while
\* another review of the application is unresolved, and its submission never
\* says more of the review than is known.
THEOREM ReviewsImplemented == Spec => ReviewsAreRemoteOperations
<1>1. EngineInv /\ [Next]_vars => [Reviews!Next]_(Reviews!vars)
  BY NextOperates, ReviewsOperate
<1> QED
  BY <1>1, ReviewsOpen, RecordsKnowTheEngine, PTL DEF Spec, ReviewsAreRemoteOperations, Reviews!Spec

=============================================================================
