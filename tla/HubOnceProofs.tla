---------------------------- MODULE HubOnceProofs ---------------------------
(***************************************************************************)
(* Type correctness of the hub, and what it does at most once, for any     *)
(* sets of calls, keys and applications.                                   *)
(*                                                                         *)
(* Types: most steps move one call and leave its arguments alone; what the *)
(* calls know of their rows is then preserved for the same reason.         *)
(*                                                                         *)
(* Once: request an analysis of an application, send a review of a key,    *)
(* carry out the update or the creation of a key.  What makes it so: the   *)
(* row a call inserts is never removed and keeps every other call from     *)
(* requesting the analysis (AnalysisInv); between its checks and the       *)
(* INSERT of its submission a call holds the preparation's row lock        *)
(* (ReviewInv); a claim is the first write of its transaction, its lock is *)
(* held until the response is committed with it, and no committed claim is *)
(* replaced (ClaimInv).                                                    *)
(***************************************************************************)
EXTENDS HubInvariant, TLAPS

-----------------------------------------------------------------------------
(* Types.                                                                  *)

USE DEF Call

\* What the calls know survives a step of a call that has begun, if it keeps
\* its arguments, no submission disappears, and the call knows what its next
\* statement needs.
LEMMA KnowledgeKept ==
  ASSUME TypeInv, TypeOK', NEW c \in Call, pc[c] # "idle", UNCHANGED arg,
         \A d \in Call \ {c} :
           pc'[d] = pc[d] /\ verdict'[d] = verdict[d] /\ target'[d] = target[d],
         \A k \in Key : submission[k] # None => submission'[k] # None,
         pc'[c] \in ConcludedPC => verdict'[c] \in Verdict,
         c \in ReviewCall /\ pc'[c] \in SubmittedPC => submission'[arg[c].key] # None,
         c \in ReadCall /\ pc'[c] = "read:get" => target'[c] \in Thread
  PROVE  TypeInv'
<1>1. ArgumentsGiven'
  BY DEF TypeInv, ArgumentsGiven
<1>2. VerdictGiven'
  BY DEF TypeInv, VerdictGiven
<1>3. SubmissionStored'
  <2>. SUFFICES ASSUME NEW d \in ReviewCall, pc'[d] \in SubmittedPC
                PROVE  submission'[arg[d].key] # None
    BY DEF SubmissionStored
  <2>1. CASE d = c
    BY <2>1
  <2>2. CASE d # c
    <3>1. pc[d] \in SubmittedPC /\ pc[d] # "idle"
      BY <2>2 DEF SubmittedPC
    <3>2. submission[arg[d].key] # None /\ arg[d].key \in Key
      BY <3>1 DEF TypeInv, SubmissionStored, ArgumentsGiven
    <3> QED
      BY <3>2
  <2> QED
    BY <2>1, <2>2
<1>4. ThreadFound'
  BY DEF TypeInv, ThreadFound
<1> QED
  BY <1>1, <1>2, <1>3, <1>4 DEF TypeInv

\* A transaction's step that writes nothing: the call moves on, locks change.
LEMMA StatementTypes ==
  ASSUME TypeInv, NEW c \in Call, NEW next \in PC, pc[c] # "idle", Goto(c, next),
         lock' \in [Lockable -> Call \cup {None}],
         UNCHANGED <<tables, arg, seen, verdict, engine>>,
         next \in ConcludedPC => verdict[c] \in Verdict,
         c \in ReviewCall /\ next \in SubmittedPC => submission[arg[c].key] # None,
         c \in ReadCall => next # "read:get"
  PROVE  TypeInv'
<1>1. pc' \in [Call -> PC] /\ pc'[c] = next /\ \A d \in Call \ {c} : pc'[d] = pc[d]
  BY DEF TypeInv, TypeOK, CallTypeOK, Goto
<1>2. CallTypeOK'
  BY <1>1 DEF TypeInv, TypeOK, CallTypeOK
<1>3. EngineTypeOK'
  BY DEF TypeInv, TypeOK, EngineTypeOK, engine
<1>4. StoreTypeOK'
  BY DEF TypeInv, TypeOK, StoreTypeOK, tables
<1> QED
  BY <1>1, <1>2, <1>3, <1>4, KnowledgeKept DEF TypeOK, tables, engine

\* Acquiring, releasing and proceeding keep the lock table well formed.
LEMMA LockTypes ==
  ASSUME TypeInv, NEW c \in Call
  PROVE  /\ \A row \in Lockable : Acquire(c, row) => lock' \in [Lockable -> Call \cup {None}]
         /\ Release(c) => lock' \in [Lockable -> Call \cup {None}]
         /\ \A next : Proceed(c, next) =>
              Goto(c, next) /\ lock' \in [Lockable -> Call \cup {None}]
<1>1. lock \in [Lockable -> Call \cup {None}]
  BY DEF TypeInv, TypeOK, StoreTypeOK
<1>2. Release(c) => lock' \in [Lockable -> Call \cup {None}]
  BY <1>1 DEF Release
<1> QED
  BY <1>1, <1>2 DEF Acquire, Proceed

\* The SELECT that begins a call, or a later one of the application.
LEMMA ReadTypes ==
  ASSUME TypeInv, NEW c \in Call, NEW a \in App, NEW next \in PC \ {"idle"},
         ReadApplication(c, a, next)
  PROVE  /\ seen' \in [Call -> ApplicationStatus \cup {Absent}]
         /\ pc' \in [Call -> PC]
         /\ pc'[c] \in {next, "not_found"}
         /\ \A d \in Call \ {c} : pc'[d] = pc[d]
         /\ lock' \in [Lockable -> Call \cup {None}]
<1>1. Goto(c, IF application[a] = Absent THEN "not_found" ELSE next)
      /\ lock' \in [Lockable -> Call \cup {None}]
  BY LockTypes DEF ReadApplication
<1>2. application[a] \in ApplicationStatus \cup {Absent}
  BY DEF TypeInv, TypeOK, StoreTypeOK
<1> QED
  BY <1>1, <1>2 DEF TypeInv, TypeOK, CallTypeOK, ReadApplication, Goto, PC, Ended

\* A call begins, with the arguments of its service.
LEMMA BeginTypes ==
  ASSUME TypeInv, NEW c \in Call, pc[c] = "idle", NEW given \in Arguments,
         arg' = [arg EXCEPT ![c] = given],
         given.app \in App,
         c \in ReviewCall => given.key \in Key /\ given.want \in Decision,
         c \in UpdateCall => given.key \in Key /\ given.want \in Target,
         c \in CreateCall => given.key \in Key /\ given.want \in Content,
         pc' \in [Call -> PC], seen' \in [Call -> ApplicationStatus \cup {Absent}],
         pc'[c] \notin ConcludedPC \cup SubmittedPC \cup {"read:get"},
         \A d \in Call \ {c} : pc'[d] = pc[d],
         lock' \in [Lockable -> Call \cup {None}],
         UNCHANGED <<tables, verdict, engine>>
  PROVE  TypeInv'
<1>1. arg' \in [Call -> Arguments] /\ arg'[c] = given
      /\ \A d \in Call \ {c} : arg'[d] = arg[d]
  BY DEF TypeInv, TypeOK, CallTypeOK
<1>2. CallTypeOK'
  BY <1>1 DEF TypeInv, TypeOK, CallTypeOK
<1>3. EngineTypeOK'
  BY DEF TypeInv, TypeOK, EngineTypeOK, engine
<1>4. StoreTypeOK'
  BY DEF TypeInv, TypeOK, StoreTypeOK, tables
<1>5. ArgumentsGiven'
  BY <1>1 DEF TypeInv, ArgumentsGiven
<1>6. VerdictGiven'
  BY DEF TypeInv, VerdictGiven
<1>7. SubmissionStored'
  BY <1>1 DEF TypeInv, SubmissionStored, tables
<1>8. ThreadFound'
  BY DEF TypeInv, ThreadFound, engine
<1> QED
  BY <1>2, <1>3, <1>4, <1>5, <1>6, <1>7, <1>8 DEF TypeInv, TypeOK

\* Every kind of call begins well typed.
LEMMA ArriveTypes == TypeInv /\ Arrive => TypeInv'
<1>. SUFFICES ASSUME TypeInv, Arrive PROVE TypeInv'
  OBVIOUS
<1>1. ASSUME NEW c \in PrepareCall, NEW a \in App, PrepareBegin(c, a) PROVE TypeInv'
  <2>. DEFINE given == [arg[c] EXCEPT !.app = a]
  <2>1. given \in Arguments /\ arg' = [arg EXCEPT ![c] = given] /\ given.app = a
    BY <1>1 DEF PrepareBegin, TypeInv, TypeOK, CallTypeOK, Arguments
  <2>2. "prepare:find" \in PC \ {"idle"}
    BY DEF PC, PreparePC
  <2>3. /\ seen' \in [Call -> ApplicationStatus \cup {Absent}] /\ pc' \in [Call -> PC]
        /\ pc'[c] \in {"prepare:find", "not_found"}
        /\ \A e \in Call \ {c} : pc'[e] = pc[e]
        /\ lock' \in [Lockable -> Call \cup {None}]
    BY <1>1, <2>2, ReadTypes DEF PrepareBegin
  <2>4. c \in Call /\ pc[c] = "idle" /\ UNCHANGED <<tables, verdict, engine>>
    BY <1>1 DEF PrepareBegin
  <2>5. pc'[c] \notin ConcludedPC \cup SubmittedPC \cup {"read:get"}
    BY <2>3 DEF ConcludedPC, SubmittedPC
  <2>. HIDE DEF given
  <2> QED
    BY <2>1, <2>3, <2>4, <2>5, BeginTypes, CallsAreDistinct
<1>2. ASSUME NEW c \in ReviewCall, NEW a \in App, NEW k \in Key, NEW d \in Decision,
             ReviewBegin(c, a, k, d)
      PROVE  TypeInv'
  <2>. DEFINE given == [app |-> a, key |-> k, want |-> d]
  <2>1. given \in Arguments /\ arg' = [arg EXCEPT ![c] = given]
    BY <1>2 DEF ReviewBegin, Arguments, Wish
  <2>2. "review:find_key" \in PC \ {"idle"}
    BY DEF PC, ReviewPC
  <2>3. /\ seen' \in [Call -> ApplicationStatus \cup {Absent}] /\ pc' \in [Call -> PC]
        /\ pc'[c] \in {"review:find_key", "not_found"}
        /\ \A e \in Call \ {c} : pc'[e] = pc[e]
        /\ lock' \in [Lockable -> Call \cup {None}]
    BY <1>2, <2>2, ReadTypes DEF ReviewBegin
  <2>4. c \in Call /\ pc[c] = "idle" /\ UNCHANGED <<tables, verdict, engine>>
    BY <1>2 DEF ReviewBegin
  <2>5. pc'[c] \notin ConcludedPC \cup SubmittedPC \cup {"read:get"}
    BY <2>3 DEF ConcludedPC, SubmittedPC
  <2> QED
    BY <2>1, <2>3, <2>4, <2>5, BeginTypes, CallsAreDistinct
<1>3. ASSUME NEW c \in UpdateCall, NEW a \in App, NEW k \in Key, NEW s \in Target,
             UpdateBegin(c, a, k, s)
      PROVE  TypeInv'
  <2>. DEFINE given == [app |-> a, key |-> k, want |-> s]
  <2>1. given \in Arguments /\ arg' = [arg EXCEPT ![c] = given]
    BY <1>3 DEF UpdateBegin, Arguments, Wish
  <2>2. "update:claim" \in PC \ {"idle"}
    BY DEF PC, UpdatePC
  <2>3. /\ seen' \in [Call -> ApplicationStatus \cup {Absent}] /\ pc' \in [Call -> PC]
        /\ pc'[c] \in {"update:claim", "not_found"}
        /\ \A e \in Call \ {c} : pc'[e] = pc[e]
        /\ lock' \in [Lockable -> Call \cup {None}]
    BY <1>3, <2>2, ReadTypes DEF UpdateBegin
  <2>4. c \in Call /\ pc[c] = "idle" /\ UNCHANGED <<tables, verdict, engine>>
    BY <1>3 DEF UpdateBegin
  <2>5. pc'[c] \notin ConcludedPC \cup SubmittedPC \cup {"read:get"}
    BY <2>3 DEF ConcludedPC, SubmittedPC
  <2> QED
    BY <2>1, <2>3, <2>4, <2>5, BeginTypes, CallsAreDistinct
<1>4. ASSUME NEW c \in CreateCall, NEW a \in App, NEW k \in Key, NEW w \in Content,
             CreateBegin(c, a, k, w)
      PROVE  TypeInv'
  <2>. DEFINE given == [app |-> a, key |-> k, want |-> w]
  <2>1. given \in Arguments /\ arg' = [arg EXCEPT ![c] = given]
    BY <1>4 DEF CreateBegin, Arguments, Wish
  <2>2. /\ pc' \in [Call -> PC] /\ pc'[c] = "create:claim"
        /\ \A d \in Call \ {c} : pc'[d] = pc[d]
    BY <1>4 DEF CreateBegin, Goto, TypeInv, TypeOK, CallTypeOK, PC, CreatePC
  <2>3. /\ seen' \in [Call -> ApplicationStatus \cup {Absent}]
        /\ lock' \in [Lockable -> Call \cup {None}]
    BY <1>4 DEF CreateBegin, TypeInv, TypeOK, CallTypeOK, StoreTypeOK
  <2> QED
    BY <1>4, <2>1, <2>2, <2>3, BeginTypes, CallsAreDistinct
       DEF CreateBegin, ConcludedPC, SubmittedPC
<1>5. ASSUME NEW c \in ReadCall, NEW a \in App, ReadBegin(c, a) PROVE TypeInv'
  <2>. DEFINE given == [arg[c] EXCEPT !.app = a]
  <2>1. given \in Arguments /\ arg' = [arg EXCEPT ![c] = given] /\ given.app = a
    BY <1>5 DEF ReadBegin, TypeInv, TypeOK, CallTypeOK, Arguments
  <2>2. "read:find" \in PC \ {"idle"}
    BY DEF PC, ReadPC
  <2>3. /\ seen' \in [Call -> ApplicationStatus \cup {Absent}] /\ pc' \in [Call -> PC]
        /\ pc'[c] \in {"read:find", "not_found"}
        /\ \A e \in Call \ {c} : pc'[e] = pc[e]
        /\ lock' \in [Lockable -> Call \cup {None}]
    BY <1>5, <2>2, ReadTypes DEF ReadBegin
  <2>4. c \in Call /\ pc[c] = "idle" /\ UNCHANGED <<tables, verdict, engine>>
    BY <1>5 DEF ReadBegin
  <2>5. pc'[c] \notin ConcludedPC \cup SubmittedPC \cup {"read:get"}
    BY <2>3 DEF ConcludedPC, SubmittedPC
  <2>. HIDE DEF given
  <2> QED
    BY <2>1, <2>3, <2>4, <2>5, BeginTypes, CallsAreDistinct
<1> QED
  BY <1>1, <1>2, <1>3, <1>4, <1>5 DEF Arrive

\* The engine changes exchanges and threads only.
LEMMA EngineTypes == TypeInv /\ EngineStep => TypeInv'
<1>. SUFFICES ASSUME TypeInv, EngineStep PROVE TypeInv'
  OBVIOUS
<1>1. EngineTypeOK' /\ UNCHANGED target
  <2>1. ASSUME NEW c \in PrepareCall, EngineAnalyse(c) PROVE EngineTypeOK' /\ UNCHANGED target
    BY <2>1 DEF TypeInv, TypeOK, EngineTypeOK, EngineAnalyse, Execute, Refuse, Reply, Thread
  <2>2. ASSUME NEW c \in ReviewCall, EngineReview(c) PROVE EngineTypeOK' /\ UNCHANGED target
    BY <2>2 DEF TypeInv, TypeOK, EngineTypeOK, EngineReview, Execute, Refuse, Reply
  <2> QED
    BY <2>1, <2>2 DEF EngineStep
<1>2. CallTypeOK' /\ StoreTypeOK'
  BY DEF EngineStep, TypeInv, TypeOK, CallTypeOK, StoreTypeOK, tables
<1>3. ArgumentsGiven' /\ VerdictGiven' /\ SubmissionStored' /\ ThreadFound'
  BY <1>1 DEF EngineStep, TypeInv, ArgumentsGiven, VerdictGiven, SubmissionStored,
     ThreadFound, tables
<1> QED
  BY <1>1, <1>2, <1>3 DEF TypeInv, TypeOK

\* What a call knows about its own arguments.
LEMMA Begun ==
  ASSUME TypeInv, NEW c \in Call, pc[c] # "idle"
  PROVE  /\ arg[c].app \in App
         /\ c \in ReviewCall => arg[c].key \in Key /\ arg[c].want \in Decision
         /\ c \in UpdateCall => arg[c].key \in Key /\ arg[c].want \in Target
         /\ c \in CreateCall => arg[c].key \in Key /\ arg[c].want \in Content
BY DEF TypeInv, ArgumentsGiven

\* A status change with its event keeps both tables well formed.
LEMMA SaveStatusTypes ==
  ASSUME TypeInv, NEW c \in Call, NEW a \in App,
         NEW from \in ApplicationStatus \cup {Absent}, NEW to \in ApplicationStatus,
         SaveStatus(c, a, from, to)
  PROVE  /\ application' \in [App -> ApplicationStatus \cup {Absent}]
         /\ events' \in [App -> Seq(Event)]
<1>. DEFINE event == [from |-> from, to |-> to, by |-> c]
<1>1. event \in Event
  BY DEF Event
<1>2. application \in [App -> ApplicationStatus \cup {Absent}] /\ events \in [App -> Seq(Event)]
  BY DEF TypeInv, TypeOK, StoreTypeOK
<1>3. Append(events[a], event) \in Seq(Event)
  <2>. HIDE DEF event
  <2> QED
    BY <1>1, <1>2
<1> QED
  BY <1>2, <1>3 DEF SaveStatus

\* Every statement of prepare_application.
LEMMA PrepareTypes ==
  ASSUME TypeInv, NEW c \in PrepareCall, PrepareStep(c)
  PROVE  TypeInv'
<1>. DEFINE a == arg[c].app
<1>. c \in Call /\ c \notin ReviewCall /\ c \notin ReadCall
  BY CallsAreDistinct
<1>0. pc[c] # "idle" /\ a \in App
  BY Begun DEF PrepareStep, PrepareFind, PrepareSaveApplication, PrepareAddFails, PrepareAdd,
     PreparePost, PrepareAnswer, PrepareReadApplication, PrepareRequireStarting,
     PrepareSaveReady, PrepareSave
<1>. ApplicationRow(a) \in Lockable /\ PreparationRow(a) \in Lockable
  BY <1>0 DEF ApplicationRow, PreparationRow, Lockable
<1>. USE <1>0
<1>1. CASE PrepareFind(c)
  <2>. DEFINE next == IF Prepared(a) THEN "replayed"
                      ELSE IF seen[c] = "saved" THEN "prepare:save_application"
                      ELSE IF seen[c] = "preparing" THEN "prepare:add"
                      ELSE "invalid_transition"
  <2>1. next \in PC /\ next \notin ConcludedPC /\ Proceed(c, next)
    BY <1>1 DEF PrepareFind, PC, PreparePC, Ended, ConcludedPC
  <2>. HIDE DEF next
  <2> QED
    BY <1>1, <2>1, LockTypes, StatementTypes DEF PrepareFind
<1>2. CASE PrepareSaveApplication(c)
  <2>1. "prepare:add" \in PC \ ConcludedPC
    BY DEF PC, PreparePC, ConcludedPC
  <2> QED
    BY <1>2, <2>1, LockTypes, StatementTypes DEF PrepareSaveApplication
<1>3. CASE PrepareAddFails(c)
  <2>1. "integrity_error" \in PC \ ConcludedPC
    BY DEF PC, Ended, ConcludedPC
  <2> QED
    BY <1>3, <2>1, LockTypes, StatementTypes DEF PrepareAddFails
<1>4. CASE PrepareAdd(c)
  <2>1. /\ pc' \in [Call -> PC] /\ pc'[c] = "prepare:post"
        /\ \A d \in Call \ {c} : pc'[d] = pc[d]
    BY <1>4 DEF PrepareAdd, Commit, Goto, TypeInv, TypeOK, CallTypeOK, PC, PreparePC
  <2>2. CallTypeOK' /\ EngineTypeOK'
    BY <1>4, <2>1 DEF PrepareAdd, TypeInv, TypeOK, CallTypeOK, EngineTypeOK, engine
  <2>3. lock' \in [Lockable -> Call \cup {None}]
    BY <1>4, LockTypes DEF PrepareAdd, Commit
  <2>4. /\ application' \in [App -> ApplicationStatus \cup {Absent}]
        /\ events' \in [App -> Seq(Event)]
    <3>1. "saved" \in ApplicationStatus /\ "preparing" \in ApplicationStatus
      BY DEF ApplicationStatus
    <3> QED
      BY <1>4, <3>1, SaveStatusTypes DEF PrepareAdd, TypeInv, TypeOK, StoreTypeOK
  <2>5. StoreTypeOK'
    BY <1>4, <2>3, <2>4 DEF PrepareAdd, TypeInv, TypeOK, StoreTypeOK, Preparation,
       PreparationStatus
  <2> QED
    BY <1>4, <2>1, <2>2, <2>5, KnowledgeKept DEF PrepareAdd, TypeOK, ConcludedPC, engine
<1>5. CASE PreparePost(c)
  <2>1. /\ pc' \in [Call -> PC] /\ pc'[c] = "prepare:await"
        /\ \A d \in Call \ {c} : pc'[d] = pc[d]
    BY <1>5 DEF PreparePost, Goto, TypeInv, TypeOK, CallTypeOK, PC, PreparePC
  <2>2. CallTypeOK' /\ StoreTypeOK'
    BY <1>5, <2>1 DEF PreparePost, TypeInv, TypeOK, CallTypeOK, StoreTypeOK, tables
  <2>3. EngineTypeOK' /\ \A d \in Call \ {c} : target'[d] = target[d]
    BY <1>5 DEF PreparePost, Send, TypeInv, TypeOK, EngineTypeOK, Thread
  <2> QED
    BY <1>5, <2>1, <2>2, <2>3, KnowledgeKept DEF PreparePost, TypeOK, ConcludedPC, tables
<1>6. CASE PrepareAnswer(c)
  <2>1. verdict' \in [Call -> Verdict \cup {None}] /\ verdict'[c] \in Verdict
        /\ \A d \in Call \ {c} : verdict'[d] = verdict[d]
    BY <1>6 DEF PrepareAnswer, Receive, Classify, TimeOut, TypeInv, TypeOK, CallTypeOK,
       Verdict, Reply, ThreadStatus
  <2>2. pc' \in [Call -> PC] /\ \A d \in Call \ {c} : pc'[d] = pc[d]
    BY <1>6 DEF PrepareAnswer, Goto, TypeInv, TypeOK, CallTypeOK, PC, PreparePC
  <2>3. CallTypeOK' /\ EngineTypeOK' /\ StoreTypeOK'
    BY <1>6, <2>1, <2>2 DEF PrepareAnswer, TypeInv, TypeOK, CallTypeOK, EngineTypeOK,
       StoreTypeOK, tables, engine
  <2> QED
    BY <1>6, <2>1, <2>2, <2>3, KnowledgeKept DEF PrepareAnswer, TypeOK, tables, engine
<1>7. CASE PrepareReadApplication(c)
  <2>1. "prepare:require_starting" \in PC \ {"idle"}
    BY DEF PC, PreparePC
  <2>2. /\ seen' \in [Call -> ApplicationStatus \cup {Absent}]
        /\ pc' \in [Call -> PC]
        /\ \A d \in Call \ {c} : pc'[d] = pc[d]
        /\ lock' \in [Lockable -> Call \cup {None}]
    BY <1>7, <2>1, ReadTypes DEF PrepareReadApplication
  <2>3. CallTypeOK' /\ EngineTypeOK' /\ StoreTypeOK'
    BY <1>7, <2>2 DEF PrepareReadApplication, TypeInv, TypeOK, CallTypeOK, EngineTypeOK,
       StoreTypeOK, tables, engine
  <2>4. verdict[c] \in Verdict
    BY <1>7 DEF PrepareReadApplication, TypeInv, VerdictGiven, ConcludedPC
  <2> QED
    BY <1>7, <2>2, <2>3, <2>4, KnowledgeKept DEF PrepareReadApplication, TypeOK, tables, engine
<1>8. CASE PrepareRequireStarting(c)
  <2>. DEFINE next == IF preparation[a].status # "starting" THEN "inconsistent"
                      ELSE IF BecomesReady(c) THEN "prepare:save_ready"
                      ELSE "prepare:save"
  <2>1. next \in PC /\ Proceed(c, next)
    BY <1>8 DEF PrepareRequireStarting, PC, PreparePC, Ended
  <2>2. verdict[c] \in Verdict
    BY <1>8 DEF PrepareRequireStarting, TypeInv, VerdictGiven, ConcludedPC
  <2>. HIDE DEF next
  <2> QED
    BY <1>8, <2>1, <2>2, LockTypes, StatementTypes DEF PrepareRequireStarting
<1>9. CASE PrepareSaveReady(c)
  <2>1. "prepare:save" \in PC
    BY DEF PC, PreparePC
  <2>2. verdict[c] \in Verdict
    BY <1>9 DEF PrepareSaveReady, TypeInv, VerdictGiven, ConcludedPC
  <2> QED
    BY <1>9, <2>1, <2>2, LockTypes, StatementTypes DEF PrepareSaveReady
<1>10. CASE PrepareSave(c)
  <2>1. /\ pc' \in [Call -> PC] /\ pc'[c] \in {"returned", "agent_error"}
        /\ \A d \in Call \ {c} : pc'[d] = pc[d]
    BY <1>10 DEF PrepareSave, Commit, Goto, TypeInv, TypeOK, CallTypeOK, PC, Ended
  <2>2. CallTypeOK' /\ EngineTypeOK'
    BY <1>10, <2>1 DEF PrepareSave, TypeInv, TypeOK, CallTypeOK, EngineTypeOK, engine
  <2>3. lock' \in [Lockable -> Call \cup {None}]
    BY <1>10, LockTypes DEF PrepareSave, Commit
  <2>4. verdict[c] \in PreparationStatus
    BY <1>10 DEF PrepareSave, TypeInv, VerdictGiven, ConcludedPC, Verdict, PreparationStatus
  <2>5. preparation' \in [App -> Preparation]
    BY <1>10, <2>4 DEF PrepareSave, TypeInv, TypeOK, StoreTypeOK, Preparation, Thread
  <2>6. reviewActions' \in [App -> Seq({"pending", "completed"})]
    BY <1>10 DEF PrepareSave, TypeInv, TypeOK, StoreTypeOK
  <2>7. /\ application' \in [App -> ApplicationStatus \cup {Absent}]
        /\ events' \in [App -> Seq(Event)]
    <3>1. "preparing" \in ApplicationStatus /\ "ready_to_apply" \in ApplicationStatus
      BY DEF ApplicationStatus
    <3> QED
      BY <1>10, <3>1, SaveStatusTypes DEF PrepareSave, TypeInv, TypeOK, StoreTypeOK
  <2>8. StoreTypeOK'
    BY <1>10, <2>3, <2>5, <2>6, <2>7 DEF PrepareSave, TypeInv, TypeOK, StoreTypeOK
  <2> QED
    BY <1>10, <2>1, <2>2, <2>8, KnowledgeKept DEF PrepareSave, TypeOK, ConcludedPC, engine
<1> QED
  BY <1>1, <1>2, <1>3, <1>4, <1>5, <1>6, <1>7, <1>8, <1>9, <1>10 DEF PrepareStep

\* Where the calls are after one of them moved.
LEMMA MoveTypes ==
  ASSUME TypeInv, NEW c \in Call, NEW next \in PC, Goto(c, next)
  PROVE  /\ pc' \in [Call -> PC]
         /\ pc'[c] = next
         /\ \A d \in Call \ {c} : pc'[d] = pc[d]
BY DEF TypeInv, TypeOK, CallTypeOK, Goto

\* How a key lookup continues.
LEMMA LookupTypes ==
  ASSUME NEW c \in ReviewCall, NEW absent \in PC
  PROVE  /\ Lookup(c, absent) \in PC
         /\ Lookup(c, absent) \in {absent, "replayed", "conflict"}
BY DEF Lookup, PC, Ended

\* Every statement of review_application.
LEMMA ReviewTypes ==
  ASSUME TypeInv, NEW c \in ReviewCall, ReviewStep(c)
  PROVE  TypeInv'
<1>. DEFINE a == arg[c].app
            k == arg[c].key
<1>. c \in Call /\ c \notin PrepareCall /\ c \notin ReadCall
  BY CallsAreDistinct
<1>0. pc[c] # "idle" /\ a \in App /\ k \in Key /\ arg[c].want \in Decision
  BY Begun DEF ReviewStep, ReviewFindKey, ReviewLockFails, ReviewLock, ReviewRecheck,
     ReviewFindUnresolved, ReviewAddFails, ReviewAdd, ReviewPost, ReviewAnswer,
     ReviewLockAgain, ReviewReadApplication, ReviewRequireSubmitting, ReviewSaveReady,
     ReviewSave
<1>. ApplicationRow(a) \in Lockable /\ PreparationRow(a) \in Lockable
  BY <1>0 DEF ApplicationRow, PreparationRow, Lockable
<1>. USE <1>0
<1>1. CASE ReviewFindKey(c)
  <2>. DEFINE next == Lookup(c, "review:lock")
  <2>1. next \in PC /\ next \in {"review:lock", "replayed", "conflict"}
    BY LookupTypes DEF PC, ReviewPC
  <2>. HIDE DEF next
  <2>2. Proceed(c, next) /\ next \notin ConcludedPC \cup SubmittedPC
    BY <1>1, <2>1 DEF ReviewFindKey, next, ConcludedPC, SubmittedPC
  <2> QED
    BY <1>1, <2>1, <2>2, LockTypes, StatementTypes DEF ReviewFindKey
<1>2. CASE ReviewLockFails(c)
  <2>1. "blocked" \in PC /\ "blocked" \notin ConcludedPC \cup SubmittedPC
    BY DEF PC, Ended, ConcludedPC, SubmittedPC
  <2> QED
    BY <1>2, <2>1, LockTypes, StatementTypes DEF ReviewLockFails
<1>3. CASE ReviewLock(c)
  <2>1. "review:recheck" \in PC /\ "review:recheck" \notin ConcludedPC \cup SubmittedPC
    BY DEF PC, ReviewPC, ConcludedPC, SubmittedPC
  <2> QED
    BY <1>3, <2>1, LockTypes, StatementTypes DEF ReviewLock
<1>4. CASE ReviewRecheck(c)
  <2>. DEFINE prep == preparation[a]
              open == IF prep.status # "awaiting_review" \/ prep.thread = None THEN "blocked"
                      ELSE IF seen[c] # "preparing" THEN "invalid_transition"
                      ELSE "review:find_unresolved"
              next == Lookup(c, open)
  <2>1. open \in PC /\ open \in {"blocked", "invalid_transition", "review:find_unresolved"}
    BY DEF PC, ReviewPC, Ended
  <2>2. Proceed(c, next)
    BY <1>4 DEF ReviewRecheck
  <2>. HIDE DEF open
  <2>3. next \in PC /\ next \in {open, "replayed", "conflict"}
    BY <2>1, LookupTypes
  <2>. HIDE DEF next
  <2>4. next \notin ConcludedPC \cup SubmittedPC
    BY <2>1, <2>3 DEF ConcludedPC, SubmittedPC
  <2> QED
    BY <1>4, <2>2, <2>3, <2>4, LockTypes, StatementTypes DEF ReviewRecheck
<1>5. CASE ReviewFindUnresolved(c)
  <2>. DEFINE next == IF Unresolved(a) # {} THEN "blocked" ELSE "review:add"
  <2>1. next \in PC /\ next \notin ConcludedPC \cup SubmittedPC /\ Proceed(c, next)
    BY <1>5 DEF ReviewFindUnresolved, PC, ReviewPC, Ended, ConcludedPC, SubmittedPC
  <2>. HIDE DEF next
  <2> QED
    BY <1>5, <2>1, LockTypes, StatementTypes DEF ReviewFindUnresolved
<1>6. CASE ReviewAddFails(c)
  <2>1. "integrity_error" \in PC /\ "integrity_error" \notin ConcludedPC \cup SubmittedPC
    BY DEF PC, Ended, ConcludedPC, SubmittedPC
  <2> QED
    BY <1>6, <2>1, LockTypes, StatementTypes DEF ReviewAddFails
<1>7. CASE ReviewAdd(c)
  <2>. DEFINE row == [app |-> a, want |-> arg[c].want, thread |-> preparation[a].thread,
                      status |-> "submitting", outcome |-> None]
  <2>1. "review:post" \in PC /\ "review:post" \notin ConcludedPC
    BY DEF PC, ReviewPC, ConcludedPC
  <2>2. /\ pc' \in [Call -> PC] /\ pc'[c] = "review:post"
        /\ \A d \in Call \ {c} : pc'[d] = pc[d]
    BY <1>7, <2>1, MoveTypes DEF ReviewAdd, Commit
  <2>3. CallTypeOK' /\ EngineTypeOK'
    BY <1>7, <2>2 DEF ReviewAdd, TypeInv, TypeOK, CallTypeOK, EngineTypeOK, engine
  <2>4. lock' \in [Lockable -> Call \cup {None}]
    BY <1>7, LockTypes DEF ReviewAdd, Commit
  <2>5. row \in Submission /\ row # None
    <3>1. preparation[a].thread \in Thread \cup {None}
      BY DEF TypeInv, TypeOK, StoreTypeOK, Preparation
    <3> QED
      BY <3>1, NoneIsNoRow DEF Submission, SubmissionStatus
  <2>6. submission' = [submission EXCEPT ![k] = row] /\ submission \in [Key -> Submission \cup {None}]
    BY <1>7 DEF ReviewAdd, TypeInv, TypeOK, StoreTypeOK
  <2>. HIDE DEF row
  <2>7. StoreTypeOK'
    BY <1>7, <2>4, <2>5, <2>6 DEF ReviewAdd, TypeInv, TypeOK, StoreTypeOK
  <2>8. /\ submission'[k] # None
        /\ \A l \in Key : submission[l] # None => submission'[l] # None
    BY <2>5, <2>6
  <2> QED
    BY <1>7, <2>1, <2>2, <2>3, <2>7, <2>8, KnowledgeKept DEF ReviewAdd, TypeOK, engine
<1>8. CASE ReviewPost(c)
  <2>1. "review:await" \in PC /\ "review:await" \notin ConcludedPC
    BY DEF PC, ReviewPC, ConcludedPC
  <2>2. /\ pc' \in [Call -> PC] /\ pc'[c] = "review:await"
        /\ \A d \in Call \ {c} : pc'[d] = pc[d]
    BY <1>8, <2>1, MoveTypes DEF ReviewPost
  <2>3. CallTypeOK' /\ StoreTypeOK'
    BY <1>8, <2>2 DEF ReviewPost, TypeInv, TypeOK, CallTypeOK, StoreTypeOK, tables
  <2>4. submission[k] # None /\ submission[k] \in Submission
    BY <1>8 DEF ReviewPost, TypeInv, TypeOK, SubmissionStored, SubmittedPC, StoreTypeOK
  <2>5. submission[k].thread \in Thread \cup {None}
    BY <2>4 DEF Submission
  <2>6. EngineTypeOK' /\ \A d \in Call \ {c} : target'[d] = target[d]
    BY <1>8, <2>5 DEF ReviewPost, Send, TypeInv, TypeOK, EngineTypeOK
  <2> QED
    BY <1>8, <2>1, <2>2, <2>3, <2>4, <2>6, KnowledgeKept DEF ReviewPost, TypeOK, tables
<1>9. CASE ReviewAnswer(c)
  <2>1. verdict' \in [Call -> Verdict \cup {None}] /\ verdict'[c] \in Verdict
        /\ \A d \in Call \ {c} : verdict'[d] = verdict[d]
    BY <1>9 DEF ReviewAnswer, Receive, Classify, TimeOut, TypeInv, TypeOK, CallTypeOK,
       Verdict, Reply, ThreadStatus
  <2>2. pc' \in [Call -> PC] /\ \A d \in Call \ {c} : pc'[d] = pc[d]
    BY <1>9 DEF ReviewAnswer, Goto, TypeInv, TypeOK, CallTypeOK, PC, ReviewPC
  <2>3. CallTypeOK' /\ EngineTypeOK' /\ StoreTypeOK'
    BY <1>9, <2>1, <2>2 DEF ReviewAnswer, TypeInv, TypeOK, CallTypeOK, EngineTypeOK,
       StoreTypeOK, tables, engine
  <2>4. submission[k] # None
    BY <1>9 DEF ReviewAnswer, TypeInv, SubmissionStored, SubmittedPC
  <2> QED
    BY <1>9, <2>1, <2>2, <2>3, <2>4, KnowledgeKept DEF ReviewAnswer, TypeOK, tables, engine
<1>. DEFINE concluding == {"review:lock_again", "review:read_application",
              "review:require_submitting", "review:save_ready", "review:save"}
<1>10. pc[c] \in concluding => verdict[c] \in Verdict /\ submission[k] # None
  BY DEF TypeInv, VerdictGiven, SubmissionStored, ConcludedPC, SubmittedPC
<1>11. CASE ReviewLockAgain(c)
  <2>1. "review:read_application" \in PC /\ "inconsistent" \in PC
    BY DEF PC, ReviewPC, Ended
  <2>2. pc[c] \in concluding
    BY <1>11 DEF ReviewLockAgain
  <2> QED
    BY <1>10, <1>11, <2>1, <2>2, LockTypes, StatementTypes DEF ReviewLockAgain
<1>12. CASE ReviewReadApplication(c)
  <2>1. "review:require_submitting" \in PC \ {"idle"}
    BY DEF PC, ReviewPC
  <2>2. /\ seen' \in [Call -> ApplicationStatus \cup {Absent}]
        /\ pc' \in [Call -> PC]
        /\ \A d \in Call \ {c} : pc'[d] = pc[d]
        /\ lock' \in [Lockable -> Call \cup {None}]
    BY <1>12, <2>1, ReadTypes DEF ReviewReadApplication
  <2>3. CallTypeOK' /\ EngineTypeOK' /\ StoreTypeOK'
    BY <1>12, <2>2 DEF ReviewReadApplication, TypeInv, TypeOK, CallTypeOK, EngineTypeOK,
       StoreTypeOK, tables, engine
  <2>4. pc[c] \in concluding
    BY <1>12 DEF ReviewReadApplication
  <2> QED
    BY <1>10, <1>12, <2>2, <2>3, <2>4, KnowledgeKept DEF ReviewReadApplication, TypeOK,
       tables, engine
<1>13. CASE ReviewRequireSubmitting(c)
  <2>1. \E next \in PC : Proceed(c, next)
    BY <1>13 DEF ReviewRequireSubmitting, PC, ReviewPC, Ended
  <2>2. pc[c] \in concluding
    BY <1>13 DEF ReviewRequireSubmitting
  <2> QED
    BY <1>10, <1>13, <2>1, <2>2, LockTypes, StatementTypes DEF ReviewRequireSubmitting
<1>14. CASE ReviewSaveReady(c)
  <2>1. "review:save" \in PC
    BY DEF PC, ReviewPC
  <2>2. pc[c] \in concluding
    BY <1>14 DEF ReviewSaveReady
  <2> QED
    BY <1>10, <1>14, <2>1, <2>2, LockTypes, StatementTypes DEF ReviewSaveReady
<1>15. CASE ReviewSave(c)
  <2>1. /\ pc' \in [Call -> PC] /\ pc'[c] \in {"returned", "agent_error"}
        /\ \A d \in Call \ {c} : pc'[d] = pc[d]
    BY <1>15 DEF ReviewSave, Commit, Goto, TypeInv, TypeOK, CallTypeOK, PC, Ended
  <2>2. CallTypeOK' /\ EngineTypeOK'
    BY <1>15, <2>1 DEF ReviewSave, TypeInv, TypeOK, CallTypeOK, EngineTypeOK, engine
  <2>3. lock' \in [Lockable -> Call \cup {None}]
    BY <1>15, LockTypes DEF ReviewSave, Commit
  <2>4. verdict[c] \in Verdict /\ submission[k] # None
    BY <1>10, <1>15 DEF ReviewSave
  <2>5. /\ submission' \in [Key -> Submission \cup {None}]
        /\ \A l \in Key : submission[l] # None => submission'[l] # None
    <3>. DEFINE answered == verdict[c] \in ThreadStatus
                row == [submission[k] EXCEPT
                         !.status = IF answered THEN "completed" ELSE verdict[c],
                         !.outcome = IF answered THEN verdict[c] ELSE None]
    <3>1. submission' = [submission EXCEPT ![k] = row]
      BY <1>15 DEF ReviewSave, TypeInv, TypeOK, StoreTypeOK
    <3>2. submission[k] \in Submission
      BY <2>4 DEF TypeInv, TypeOK, StoreTypeOK
    <3>3. row \in Submission /\ row # None
      BY <2>4, <3>2, NoneIsNoRow DEF Submission, SubmissionStatus, Verdict, ThreadStatus
    <3>. HIDE DEF row
    <3> QED
      BY <3>1, <3>3 DEF TypeInv, TypeOK, StoreTypeOK
  <2>6. preparation' \in [App -> Preparation]
    <3>1. [preparation[a] EXCEPT !.status = "completed"] \in Preparation
      BY DEF TypeInv, TypeOK, StoreTypeOK, Preparation, PreparationStatus
    <3>2. \/ preparation' = [preparation EXCEPT ![a] =
               [preparation[a] EXCEPT !.status = "completed"]]
          \/ preparation' = preparation
      BY <1>15 DEF ReviewSave, TypeInv, TypeOK, StoreTypeOK
    <3> QED
      BY <3>1, <3>2 DEF TypeInv, TypeOK, StoreTypeOK
  <2>7. reviewActions' \in [App -> Seq({"pending", "completed"})]
    <3>. DEFINE done == [i \in DOMAIN reviewActions[a] |-> "completed"]
    <3>1. reviewActions[a] \in Seq({"pending", "completed"})
      BY DEF TypeInv, TypeOK, StoreTypeOK
    <3>2. done \in Seq({"pending", "completed"})
      BY <3>1
    <3>3. reviewActions' = [reviewActions EXCEPT ![a] = done] \/ reviewActions' = reviewActions
      BY <1>15 DEF ReviewSave, CompleteReviewAction, TypeInv, TypeOK, StoreTypeOK
    <3>. HIDE DEF done
    <3> QED
      BY <3>2, <3>3 DEF TypeInv, TypeOK, StoreTypeOK
  <2>8. /\ application' \in [App -> ApplicationStatus \cup {Absent}]
        /\ events' \in [App -> Seq(Event)]
    <3>1. "preparing" \in ApplicationStatus /\ "ready_to_apply" \in ApplicationStatus
      BY DEF ApplicationStatus
    <3> QED
      BY <1>15, <3>1, SaveStatusTypes DEF ReviewSave, TypeInv, TypeOK, StoreTypeOK
  <2>9. StoreTypeOK'
    BY <1>15, <2>3, <2>5, <2>6, <2>7, <2>8 DEF ReviewSave, TypeInv, TypeOK, StoreTypeOK
  <2> QED
    BY <1>15, <2>1, <2>2, <2>5, <2>9, KnowledgeKept DEF ReviewSave, TypeOK, ConcludedPC,
       SubmittedPC, engine
<1> QED
  BY <1>1, <1>2, <1>3, <1>4, <1>5, <1>6, <1>7, <1>8, <1>9, <1>11, <1>12, <1>13, <1>14, <1>15
  DEF ReviewStep

\* A committed claim is well formed, and the row a key names lockable.
LEMMA ClaimTypes ==
  ASSUME TypeInv, NEW c \in UpdateCall \cup CreateCall, pc[c] # "idle", NEW op \in Operation
  PROVE  /\ <<op, arg[c].key>> \in Operation \X Key
         /\ <<op, arg[c].key>> \in Lockable
         /\ \A app \in App \cup {None} :
              CompleteClaim(c, op, app) => idempotency' \in [Operation \X Key -> Claim \cup {None}]
<1>1. arg[c].key \in Key /\ arg[c].app \in App /\ arg[c].want \in Wish
  BY Begun DEF Wish
<1>2. \A app \in App \cup {None} :
        [app |-> app, want |-> arg[c].want, response |-> arg[c].app] \in Claim
  BY <1>1 DEF Claim
<1> QED
  BY <1>1, <1>2 DEF CompleteClaim, Lockable, TypeInv, TypeOK, StoreTypeOK

\* Every statement of update_application_status.
LEMMA UpdateTypes ==
  ASSUME TypeInv, NEW c \in UpdateCall, UpdateStep(c)
  PROVE  TypeInv'
<1>. c \in Call /\ c \notin ReviewCall /\ c \notin ReadCall /\ "update" \in Operation
  BY CallsAreDistinct DEF Operation
<1>0. pc[c] # "idle"
  BY DEF UpdateStep, UpdateReplay, UpdateClaim, UpdateSave
<1>. USE <1>0
<1>1. CASE UpdateReplay(c)
  <2>1. Resolve(c, "update") \in PC /\ Resolve(c, "update") \notin ConcludedPC
    BY DEF Resolve, PC, Ended, ConcludedPC
  <2> QED
    BY <1>1, <2>1, LockTypes, StatementTypes DEF UpdateReplay
<1>2. CASE UpdateClaim(c)
  <2>1. /\ "update:save" \in PC \ ConcludedPC
        /\ "invalid_transition" \in PC \ ConcludedPC
    BY DEF PC, UpdatePC, Ended, ConcludedPC
  <2>2. \E next \in PC \ ConcludedPC :
          Goto(c, next) /\ lock' \in [Lockable -> Call \cup {None}]
    BY <1>2, <2>1, ClaimTypes, LockTypes DEF UpdateClaim, ClaimKey
  <2> QED
    BY <1>2, <2>2, StatementTypes DEF UpdateClaim
<1>3. CASE UpdateSave(c)
  <2>1. "returned" \in PC \ ConcludedPC
    BY DEF PC, Ended, ConcludedPC
  <2>2. /\ pc' \in [Call -> PC] /\ pc'[c] = "returned"
        /\ \A d \in Call \ {c} : pc'[d] = pc[d]
    BY <1>3, <2>1, MoveTypes DEF UpdateSave, Commit
  <2>3. CallTypeOK' /\ EngineTypeOK'
    BY <1>3, <2>2 DEF UpdateSave, TypeInv, TypeOK, CallTypeOK, EngineTypeOK, engine
  <2>4. lock' \in [Lockable -> Call \cup {None}]
    BY <1>3, LockTypes DEF UpdateSave, Commit
  <2>5. arg[c].app \in App /\ arg[c].want \in ApplicationStatus
    BY Begun, TargetsAreStatuses
  <2>6. seen[c] \in ApplicationStatus \cup {Absent}
    BY DEF TypeInv, TypeOK, CallTypeOK
  <2>7. /\ application' \in [App -> ApplicationStatus \cup {Absent}]
        /\ events' \in [App -> Seq(Event)]
    BY <1>3, <2>5, <2>6, SaveStatusTypes DEF UpdateSave
  <2>8. idempotency' \in [Operation \X Key -> Claim \cup {None}]
    BY <1>3, <2>5, ClaimTypes DEF UpdateSave
  <2>9. StoreTypeOK'
    BY <1>3, <2>4, <2>7, <2>8 DEF UpdateSave, TypeInv, TypeOK, StoreTypeOK
  <2> QED
    BY <1>3, <2>1, <2>2, <2>3, <2>9, KnowledgeKept DEF UpdateSave, TypeOK, engine
<1> QED
  BY <1>1, <1>2, <1>3 DEF UpdateStep

\* Every statement of create_application.
LEMMA CreateTypes ==
  ASSUME TypeInv, NEW c \in CreateCall, CreateStep(c)
  PROVE  TypeInv'
<1>. c \in Call /\ c \notin ReviewCall /\ c \notin ReadCall /\ "create" \in Operation
  BY CallsAreDistinct DEF Operation
<1>0. pc[c] # "idle"
  BY DEF CreateStep, CreateReplay, CreateClaim, CreateSave
<1>. USE <1>0
<1>1. CASE CreateReplay(c)
  <2>1. Resolve(c, "create") \in PC /\ Resolve(c, "create") \notin ConcludedPC
    BY DEF Resolve, PC, Ended, ConcludedPC
  <2> QED
    BY <1>1, <2>1, LockTypes, StatementTypes DEF CreateReplay
<1>2. CASE CreateClaim(c)
  <2>1. "create:save" \in PC \ ConcludedPC
    BY DEF PC, CreatePC, ConcludedPC
  <2> QED
    BY <1>2, <2>1, ClaimTypes, LockTypes, StatementTypes DEF CreateClaim, ClaimKey
<1>3. CASE CreateSave(c)
  <2>1. "returned" \in PC \ ConcludedPC
    BY DEF PC, Ended, ConcludedPC
  <2>2. /\ pc' \in [Call -> PC] /\ pc'[c] = "returned"
        /\ \A d \in Call \ {c} : pc'[d] = pc[d]
    BY <1>3, <2>1, MoveTypes DEF CreateSave, Commit
  <2>3. CallTypeOK' /\ EngineTypeOK'
    BY <1>3, <2>2 DEF CreateSave, TypeInv, TypeOK, CallTypeOK, EngineTypeOK, engine
  <2>4. lock' \in [Lockable -> Call \cup {None}]
    BY <1>3, LockTypes DEF CreateSave, Commit
  <2>5. /\ arg[c].app \in App /\ Absent \in ApplicationStatus \cup {Absent}
        /\ "saved" \in ApplicationStatus
    BY Begun DEF ApplicationStatus
  <2>6. SaveStatus(c, arg[c].app, Absent, "saved")
    BY <1>3 DEF CreateSave, SaveStatus, Created
  <2>7. /\ application' \in [App -> ApplicationStatus \cup {Absent}]
        /\ events' \in [App -> Seq(Event)]
    BY <2>5, <2>6, SaveStatusTypes
  <2>8. idempotency' \in [Operation \X Key -> Claim \cup {None}]
    BY <1>3, ClaimTypes DEF CreateSave
  <2>9. StoreTypeOK'
    BY <1>3, <2>4, <2>7, <2>8 DEF CreateSave, TypeInv, TypeOK, StoreTypeOK
  <2> QED
    BY <1>3, <2>1, <2>2, <2>3, <2>9, KnowledgeKept DEF CreateSave, TypeOK, engine
<1> QED
  BY <1>1, <1>2, <1>3 DEF CreateStep

\* Every statement of get_application_analysis.
LEMMA ReadStepTypes ==
  ASSUME TypeInv, NEW c \in ReadCall, ReadStep(c)
  PROVE  TypeInv'
<1>. c \in Call /\ c \notin ReviewCall
  BY CallsAreDistinct
<1>0. pc[c] # "idle" /\ arg[c].app \in App
  BY Begun DEF ReadStep, ReadFind, ReadGet, ReadFails
<1>. USE <1>0
<1>1. CASE ReadFind(c)
  <2>. DEFINE t == preparation[arg[c].app].thread
              next == IF t = None THEN "unavailable" ELSE "read:get"
  <2>1. next \in PC \ ConcludedPC /\ Proceed(c, next)
    BY <1>1 DEF ReadFind, PC, ReadPC, Ended, ConcludedPC
  <2>2. next = "read:get" => t # None
    OBVIOUS
  <2>3. t \in Thread \cup {None}
    BY DEF TypeInv, TypeOK, StoreTypeOK, Preparation
  <2>4. target' = [target EXCEPT ![c] = t]
    BY <1>1 DEF ReadFind
  <2>. HIDE DEF next, t
  <2>5. /\ pc' \in [Call -> PC] /\ pc'[c] = next
        /\ \A d \in Call \ {c} : pc'[d] = pc[d]
    BY <2>1, LockTypes, MoveTypes
  <2>6. EngineTypeOK' /\ target'[c] = t /\ \A d \in Call \ {c} : target'[d] = target[d]
    BY <1>1, <2>3, <2>4 DEF ReadFind, TypeInv, TypeOK, EngineTypeOK
  <2>7. lock' \in [Lockable -> Call \cup {None}]
    BY <2>1, LockTypes
  <2>8. CallTypeOK' /\ StoreTypeOK'
    BY <1>1, <2>5, <2>7 DEF ReadFind, TypeInv, TypeOK, CallTypeOK, StoreTypeOK, tables
  <2> QED
    BY <1>1, <2>1, <2>2, <2>3, <2>5, <2>6, <2>8, KnowledgeKept DEF ReadFind, TypeOK, tables
<1>2. CASE ReadGet(c)
  <2>1. "returned" \in PC \ ConcludedPC
    BY DEF PC, Ended, ConcludedPC
  <2>2. /\ pc' \in [Call -> PC] /\ pc'[c] = "returned"
        /\ \A d \in Call \ {c} : pc'[d] = pc[d]
    BY <1>2, <2>1, MoveTypes DEF ReadGet
  <2>3. thread[target[c]] \in Verdict \cup {None}
    BY <1>2 DEF ReadGet, TypeInv, TypeOK, EngineTypeOK, ThreadFound, ThreadStatus, Verdict
  <2>4. CallTypeOK' /\ EngineTypeOK' /\ StoreTypeOK'
    BY <1>2, <2>2, <2>3 DEF ReadGet, TypeInv, TypeOK, CallTypeOK, EngineTypeOK, StoreTypeOK,
       tables, engine
  <2> QED
    BY <1>2, <2>1, <2>2, <2>4, KnowledgeKept DEF ReadGet, TypeInv, TypeOK, CallTypeOK,
       tables, engine
<1>3. CASE ReadFails(c)
  <2>1. "agent_error" \in PC \ ConcludedPC
    BY DEF PC, Ended, ConcludedPC
  <2> QED
    BY <1>3, <2>1, StatementTypes DEF ReadFails, TypeInv, TypeOK, StoreTypeOK
<1> QED
  BY <1>1, <1>2, <1>3 DEF ReadStep

\* A call that dies.
LEMMA CrashTypes ==
  ASSUME TypeInv, NEW c \in Call, Crash(c)
  PROVE  TypeInv'
<1>1. "crashed" \in PC /\ "crashed" \notin ConcludedPC \cup SubmittedPC
  BY DEF PC, Ended, ConcludedPC, SubmittedPC
<1>2. pc[c] # "idle" /\ Proceed(c, "crashed")
  BY DEF Crash, Running
<1> QED
  BY <1>1, <1>2, LockTypes, StatementTypes DEF Crash

\* The hub starts well typed.
LEMMA InitTypes == Init => TypeInv
<1>. SUFFICES ASSUME Init PROVE TypeInv
  OBVIOUS
<1>1. CallTypeOK
  BY DEF Init, CallInit, CallTypeOK, PC, Arguments, NoArguments
<1>2. EngineTypeOK
  BY DEF Init, EngineInit, EngineTypeOK
<1>3. StoreTypeOK
  <2>1. <<Created(None)>> \in Seq(Event)
    BY DEF Created, Event, ApplicationStatus
  <2>2. events \in [App -> Seq(Event)]
    BY <2>1 DEF Init, StoreInit
  <2>3. reviewActions \in [App -> Seq({"pending", "completed"})]
    BY DEF Init, StoreInit
  <2> QED
    BY <2>2, <2>3 DEF Init, StoreInit, StoreTypeOK, ApplicationStatus, NoPreparation,
       Preparation
<1>4. ArgumentsGiven /\ VerdictGiven /\ SubmissionStored /\ ThreadFound
  BY DEF Init, CallInit, ArgumentsGiven, VerdictGiven, ConcludedPC, SubmissionStored,
     SubmittedPC, ThreadFound
<1> QED
  BY <1>1, <1>2, <1>3, <1>4 DEF TypeInv, TypeOK

\* Nothing happens.
LEMMA StutterTypes == TypeInv /\ UNCHANGED vars => TypeInv'
BY DEF vars, engine, tables, TypeInv, TypeOK, CallTypeOK, EngineTypeOK, StoreTypeOK,
   ArgumentsGiven, VerdictGiven, SubmissionStored, ThreadFound

\* Every step preserves the type invariant.
LEMMA NextTypes == TypeInv /\ [Next]_vars => TypeInv'
BY ArriveTypes, EngineTypes, PrepareTypes, ReviewTypes, UpdateTypes, CreateTypes,
   ReadStepTypes, CrashTypes, StutterTypes DEF Next, Advance

\* Type correctness holds together with what every call in progress relies on:
\* its arguments, the engine's verdict once it has one, the submission it stored
\* and the thread it reads.
THEOREM CallsKnowTheirRows == Spec => []TypeInv
<1>1. Init => TypeInv
  BY InitTypes
<1>2. TypeInv /\ [Next]_vars => TypeInv'
  BY NextTypes
<1> QED
  BY <1>1, <1>2, PTL DEF Spec

\* Every table, call and exchange keeps its shape: a status column holds one of
\* the statuses its CHECK constraint lists, whatever the engine answers.
THEOREM TypeCorrect == Spec => []TypeOK
<1>1. TypeInv => TypeOK
  BY DEF TypeInv
<1> QED
  BY <1>1, CallsKnowTheirRows, PTL

-----------------------------------------------------------------------------
(* What the transactions write that claim and record an analysis or a      *)
(* review: over PostgreSQL their last statement, in memory the whole       *)
(* transaction.                                                            *)

KeepsLocks(c) ==
  \A d \in Call \ {c} : \A row \in Lockable : lock[row] = d => lock'[row] = d

InsertsPreparation(c) ==
  LET a == arg[c].app IN
  /\ pc[c] \in {"prepare:find", "prepare:add"}
  /\ ~Prepared(a)
  /\ preparation' = [preparation EXCEPT ![a] = [status |-> "starting", thread |-> None]]
  /\ Goto(c, "prepare:post")
  /\ KeepsLocks(c)
  /\ UNCHANGED <<submission, reviewActions, arg, verdict, engine>>

SavesPreparation(c) ==
  LET a == arg[c].app IN
  /\ pc[c] \in {"prepare:read_application", "prepare:require_starting", "prepare:save"}
  /\ preparation' = [preparation EXCEPT ![a] =
       [status |-> verdict[c], thread |-> IF verdict[c] \in ThreadStatus THEN c ELSE None]]
  /\ reviewActions' = IF verdict[c] = "awaiting_review" /\ PendingActions(a) = {}
       THEN [reviewActions EXCEPT ![a] = Append(@, "pending")]
       ELSE reviewActions
  /\ Goto(c, IF verdict[c] \in ThreadStatus THEN "returned" ELSE "agent_error")
  /\ KeepsLocks(c)
  /\ UNCHANGED <<submission, arg, verdict, engine>>

\* Control states of a review between the row lock and the INSERT.
UnderLockPC == {"review:recheck", "review:find_unresolved", "review:add"}

InsertsSubmission(c) ==
  LET a == arg[c].app
      k == arg[c].key IN
  /\ pc[c] \in {"review:find_key", "review:add"}
  /\ submission[k] = None /\ Unresolved(a) = {}
  /\ \A d \in ReviewCall \ {c} : pc[d] \in UnderLockPC => arg[d].app # a
  /\ submission' = [submission EXCEPT ![k] =
       [app |-> a, want |-> arg[c].want, thread |-> preparation[a].thread,
        status |-> "submitting", outcome |-> None]]
  /\ Goto(c, "review:post")
  /\ KeepsLocks(c)
  /\ UNCHANGED <<preparation, reviewActions, arg, verdict, engine>>

SavesSubmission(c) ==
  LET a        == arg[c].app
      answered == verdict[c] \in ThreadStatus IN
  /\ pc[c] \in {"review:lock_again", "review:require_submitting", "review:save"}
  /\ submission' = [submission EXCEPT
       ![arg[c].key].status = IF answered THEN "completed" ELSE verdict[c],
       ![arg[c].key].outcome = IF answered THEN verdict[c] ELSE None]
  /\ IF verdict[c] = "completed"
       THEN /\ preparation' = [preparation EXCEPT ![a].status = "completed"]
            /\ CompleteReviewAction(a)
       ELSE UNCHANGED <<preparation, reviewActions>>
  /\ Goto(c, IF answered THEN "returned" ELSE "agent_error")
  /\ KeepsLocks(c)
  /\ UNCHANGED <<arg, verdict, engine>>

\* Locks: a step of one call takes no lock from another.
LEMMA LocksOfOthers ==
  ASSUME TypeInv, NEW c \in Call, NEW d \in Call \ {c},
         \/ UNCHANGED lock
         \/ Release(c)
         \/ \E row \in Lockable : Acquire(c, row)
         \/ \E next : Proceed(c, next)
  PROVE  \A row \in Lockable : lock[row] = d => lock'[row] = d
<1>1. None \notin Call /\ lock \in [Lockable -> Call \cup {None}]
  BY CallsAreDistinct DEF TypeInv, TypeOK, StoreTypeOK
<1>2. CASE UNCHANGED lock
  BY <1>2
<1>3. CASE Release(c)
  BY <1>1, <1>3 DEF Release
<1>4. ASSUME NEW row \in Lockable, Acquire(c, row)
      PROVE  \A other \in Lockable : lock[other] = d => lock'[other] = d
  BY <1>1, <1>4 DEF Acquire
<1>5. ASSUME NEW next, Proceed(c, next)
      PROVE  \A row \in Lockable : lock[row] = d => lock'[row] = d
  BY <1>1, <1>5 DEF Proceed, Release
<1> QED
  BY <1>2, <1>3, <1>4, <1>5

\* The rows of an application can be locked.
LEMMA RowsAreLockable ==
  ASSUME NEW a \in App
  PROVE  PreparationRow(a) \in Lockable /\ ApplicationRow(a) \in Lockable
BY DEF PreparationRow, ApplicationRow, Lockable

\* The last statements of prepare_application's transactions do.
LEMMA PrepareWrites ==
  ASSUME TypeInv, NEW c \in PrepareCall
  PROVE  /\ PrepareAdd(c) => InsertsPreparation(c)
         /\ PrepareSave(c) => SavesPreparation(c)
<1>1. c \in Call /\ (Release(c) => KeepsLocks(c))
  BY LocksOfOthers DEF KeepsLocks
<1> QED
  BY <1>1 DEF PrepareAdd, PrepareSave, Commit, InsertsPreparation, SavesPreparation

-----------------------------------------------------------------------------
(* Analyses.                                                               *)

\* Who owns an analysis has begun.
LEMMA OwnersHaveBegun ==
  ASSUME TypeInv, AnalysisInv, NEW c \in PrepareCall, Owns(c)
  PROVE  pc[c] # "idle" /\ arg[c].app \in App
<1>1. pc[c] # "idle"
  BY DEF AnalysisInv, Owns
<1> QED
  BY <1>1, Begun

\* A step that makes no call an owner, keeps the arguments of the owners and
\* removes no preparation.
LEMMA AnalysisKept ==
  ASSUME TypeInv, AnalysisInv,
         \A c \in PrepareCall : Owns(c)' => Owns(c) /\ arg'[c] = arg[c],
         \A c \in PrepareCall : pc'[c] = "idle" => pc[c] = "idle" /\ post'[c] = post[c],
         \A a \in App : Prepared(a) => Prepared(a)'
  PROVE  AnalysisInv'
<1>1. \A c \in PrepareCall : pc'[c] = "idle" => ~Posted(c)'
  BY DEF AnalysisInv, Posted
<1>2. \A c \in PrepareCall : Owns(c)' => Prepared(arg[c].app)'
  <2>. SUFFICES ASSUME NEW c \in PrepareCall, Owns(c)'
                PROVE  preparation'[arg'[c].app] # NoPreparation
    BY DEF Prepared
  <2>1. arg[c].app \in App /\ Prepared(arg[c].app)
    BY OwnersHaveBegun DEF AnalysisInv
  <2>2. preparation'[arg[c].app] # NoPreparation
    BY <2>1 DEF Prepared
  <2> QED
    BY <2>2
<1>3. \A c, d \in PrepareCall : Owns(c)' /\ Owns(d)' /\ arg'[c].app = arg'[d].app => c = d
  BY DEF AnalysisInv
<1> QED
  BY <1>1, <1>2, <1>3 DEF AnalysisInv

\* A step of the other services, whatever it does to their own tables.
LEMMA OthersKeepAnalysis ==
  ASSUME TypeInv, AnalysisInv, NEW c \in Call \ PrepareCall, NEW next, Goto(c, next),
         \A d \in PrepareCall : arg'[d] = arg[d] /\ post'[d] = post[d],
         \A a \in App : Prepared(a) => Prepared(a)'
  PROVE  AnalysisInv'
<1>1. \A d \in PrepareCall : pc'[d] = pc[d]
  BY DEF Goto, TypeInv, TypeOK, CallTypeOK
<1> QED
  BY <1>1, AnalysisKept DEF Owns, Posted

\* A statement of prepare_application that neither inserts nor sends.
LEMMA StatementKeepsAnalysis ==
  ASSUME TypeInv, AnalysisInv, NEW c \in PrepareCall, NEW next, Goto(c, next),
         next \notin {"idle", "prepare:post"},
         UNCHANGED post, UNCHANGED arg \/ (pc[c] = "idle" /\ \A d \in Call \ {c} : arg'[d] = arg[d]),
         \A a \in App : Prepared(a) => Prepared(a)'
  PROVE  AnalysisInv'
<1>1. pc'[c] = next /\ \A d \in PrepareCall \ {c} : pc'[d] = pc[d]
  BY DEF Goto, TypeInv, TypeOK, CallTypeOK
<1>2. \A d \in PrepareCall : Owns(d)' => Owns(d) /\ arg'[d] = arg[d]
  BY <1>1 DEF Owns, Posted, AnalysisInv
<1>3. \A d \in PrepareCall : pc'[d] = "idle" => pc[d] = "idle" /\ post'[d] = post[d]
  BY <1>1
<1> QED
  BY <1>2, <1>3, AnalysisKept

\* A preparation is inserted only where there was none, by the call that will
\* send the analysis.
LEMMA InsertKeepsAnalysis ==
  ASSUME TypeInv, AnalysisInv, NEW c \in PrepareCall, InsertsPreparation(c)
  PROVE  AnalysisInv'
<1>. c \in Call
  OBVIOUS
<1>. DEFINE a == arg[c].app
<1>1. a \in App /\ ~Prepared(a) /\ pc[c] \in {"prepare:find", "prepare:add"}
  BY Begun DEF InsertsPreparation
<1>2. pc'[c] = "prepare:post" /\ \A d \in PrepareCall \ {c} : pc'[d] = pc[d]
  BY DEF InsertsPreparation, Goto, TypeInv, TypeOK, CallTypeOK
<1>3. UNCHANGED <<arg, post>>
  BY DEF InsertsPreparation, engine
<1>4. Prepared(a)' /\ \A b \in App : Prepared(b) => Prepared(b)'
  BY <1>1 DEF InsertsPreparation, Prepared, NoPreparation, Absent, TypeInv, TypeOK, StoreTypeOK
<1>5. \A d \in PrepareCall : Owns(d) => arg[d].app # a
  BY <1>1 DEF AnalysisInv
<1>6. \A d \in PrepareCall \ {c} : Owns(d)' => Owns(d)
  BY <1>2, <1>3 DEF Owns, Posted
<1>7. \A d \in PrepareCall : pc'[d] = "idle" => ~Posted(d)'
  BY <1>2, <1>3 DEF AnalysisInv, Posted
<1>8. \A d \in PrepareCall : Owns(d)' => Prepared(arg[d].app)'
  <2>. SUFFICES ASSUME NEW d \in PrepareCall, Owns(d)'
                PROVE  preparation'[arg[d].app] # NoPreparation
    BY <1>3 DEF Prepared
  <2>1. CASE d = c
    BY <1>3, <1>4, <2>1 DEF Prepared
  <2>2. CASE d # c
    <3>1. Owns(d)
      BY <1>6, <2>2
    <3>2. arg[d].app \in App /\ Prepared(arg[d].app)
      BY <3>1, OwnersHaveBegun DEF AnalysisInv
    <3>3. \A b \in App : Prepared(b) => preparation'[b] # NoPreparation
      BY <1>4 DEF Prepared
    <3> QED
      BY <3>2, <3>3
  <2> QED
    BY <2>1, <2>2
<1>9. \A d, e \in PrepareCall : Owns(d)' /\ Owns(e)' /\ arg'[d].app = arg'[e].app => d = e
  BY <1>3, <1>5, <1>6 DEF AnalysisInv
<1> QED
  BY <1>7, <1>8, <1>9 DEF AnalysisInv

\* The outcome is written to a preparation that stays.
LEMMA SaveKeepsAnalysis ==
  ASSUME TypeInv, AnalysisInv, NEW c \in PrepareCall, SavesPreparation(c)
  PROVE  AnalysisInv'
<1>1. c \in Call /\ arg[c].app \in App /\ verdict[c] # Absent
  BY Begun DEF SavesPreparation, TypeInv, VerdictGiven, ConcludedPC, Verdict, Absent
<1>2. \A b \in App : Prepared(b) => Prepared(b)'
  BY <1>1 DEF SavesPreparation, Prepared, NoPreparation, TypeInv, TypeOK, StoreTypeOK
<1> QED
  BY <1>2, StatementKeepsAnalysis DEF SavesPreparation, engine

\* Sending an analysis makes no other call an owner.
LEMMA PrepareKeepsAnalysis ==
  ASSUME TypeInv, AnalysisInv, NEW c \in PrepareCall, PrepareStep(c)
  PROVE  AnalysisInv'
<1>. c \in Call
  OBVIOUS
<1>. DEFINE a == arg[c].app
<1>1. CASE PrepareFind(c)
  BY <1>1, StatementKeepsAnalysis DEF PrepareFind, Proceed, tables, engine, Prepared
<1>2. CASE PrepareSaveApplication(c)
  BY <1>2, StatementKeepsAnalysis DEF PrepareSaveApplication, tables, engine, Prepared
<1>3. CASE PrepareAddFails(c)
  BY <1>3, StatementKeepsAnalysis DEF PrepareAddFails, Proceed, tables, engine, Prepared
<1>4. CASE PrepareAdd(c)
  BY <1>4, PrepareWrites, InsertKeepsAnalysis
<1>5. CASE PreparePost(c)
  <2>1. pc[c] = "prepare:post" /\ pc'[c] = "prepare:await"
        /\ \A d \in PrepareCall \ {c} : pc'[d] = pc[d] /\ post'[d] = post[d]
    BY <1>5 DEF PreparePost, Send, Goto, TypeInv, TypeOK, CallTypeOK, EngineTypeOK
  <2>2. UNCHANGED <<arg, preparation>>
    BY <1>5 DEF PreparePost, tables
  <2> QED
    BY <2>1, <2>2, AnalysisKept DEF Owns, Posted, Prepared
<1>6. CASE PrepareAnswer(c)
  BY <1>6, StatementKeepsAnalysis DEF PrepareAnswer, tables, engine, Prepared
<1>7. CASE PrepareReadApplication(c)
  BY <1>7, StatementKeepsAnalysis DEF PrepareReadApplication, ReadApplication, Proceed,
     tables, engine, Prepared
<1>8. CASE PrepareRequireStarting(c)
  BY <1>8, StatementKeepsAnalysis DEF PrepareRequireStarting, Proceed, tables, engine, Prepared
<1>9. CASE PrepareSaveReady(c)
  BY <1>9, StatementKeepsAnalysis DEF PrepareSaveReady, tables, engine, Prepared
<1>10. CASE PrepareSave(c)
  BY <1>10, PrepareWrites, SaveKeepsAnalysis
<1> QED
  BY <1>1, <1>2, <1>3, <1>4, <1>5, <1>6, <1>7, <1>8, <1>9, <1>10 DEF PrepareStep

\* A review sends no analysis, and completes a preparation without removing it.
LEMMA ReviewKeepsAnalysis ==
  ASSUME TypeInv, AnalysisInv, NEW c \in ReviewCall, ReviewStep(c)
  PROVE  AnalysisInv'
<1>. c \in Call \ PrepareCall
  BY CallsAreDistinct
<1>1. UNCHANGED arg /\ \E next : Goto(c, next)
  BY DEF ReviewStep, ReviewFindKey, ReviewLockFails, ReviewLock, ReviewRecheck,
     ReviewFindUnresolved, ReviewAddFails, ReviewAdd, ReviewPost, ReviewAnswer,
     ReviewLockAgain, ReviewReadApplication, ReviewRequireSubmitting, ReviewSaveReady,
     ReviewSave, ReadApplication, Proceed, Commit
<1>2. \A d \in PrepareCall : post'[d] = post[d]
  BY DEF ReviewStep, ReviewFindKey, ReviewLockFails, ReviewLock, ReviewRecheck,
     ReviewFindUnresolved, ReviewAddFails, ReviewAdd, ReviewPost, ReviewAnswer,
     ReviewLockAgain, ReviewReadApplication, ReviewRequireSubmitting, ReviewSaveReady,
     ReviewSave, Send, engine, TypeInv, TypeOK, EngineTypeOK
<1>3. \A a \in App : Prepared(a) => Prepared(a)'
  <2>1. CASE ReviewSave(c)
    <3>. DEFINE a == arg[c].app
    <3>1. \/ preparation' = preparation
          \/ preparation' = [preparation EXCEPT ![a] =
               [preparation[a] EXCEPT !.status = "completed"]]
      BY <2>1 DEF ReviewSave
    <3>2. [preparation[a] EXCEPT !.status = "completed"] # NoPreparation
      BY DEF NoPreparation, Absent
    <3> QED
      BY <3>1, <3>2 DEF Prepared, TypeInv, TypeOK, StoreTypeOK
  <2>2. CASE UNCHANGED preparation
    BY <2>2 DEF Prepared
  <2> QED
    BY <2>1, <2>2 DEF ReviewStep, ReviewFindKey, ReviewLockFails, ReviewLock, ReviewRecheck,
       ReviewFindUnresolved, ReviewAddFails, ReviewAdd, ReviewPost, ReviewAnswer,
       ReviewLockAgain, ReviewReadApplication, ReviewRequireSubmitting, ReviewSaveReady, tables
<1> QED
  BY <1>1, <1>2, <1>3, OthersKeepAnalysis

\* Every step of the hub and of the engine preserves the invariant.
LEMMA NextKeepsAnalysis == TypeInv /\ AnalysisInv /\ [Next]_vars => AnalysisInv'
<1>. SUFFICES ASSUME TypeInv, AnalysisInv, [Next]_vars PROVE AnalysisInv'
  OBVIOUS
<1>1. CASE Arrive
  <2>1. ASSUME NEW c \in PrepareCall, NEW a \in App, PrepareBegin(c, a) PROVE AnalysisInv'
    <3>1. \A d \in Call \ {c} : arg'[d] = arg[d]
      BY <2>1 DEF PrepareBegin, TypeInv, TypeOK, CallTypeOK
    <3> QED
      BY <2>1, <3>1, StatementKeepsAnalysis DEF PrepareBegin, ReadApplication, Proceed,
         tables, engine, Prepared
  <2>2. ASSUME NEW c \in Call \ PrepareCall, NEW next, Goto(c, next),
               UNCHANGED <<post, preparation>>, \A d \in PrepareCall : arg'[d] = arg[d]
        PROVE  AnalysisInv'
    BY <2>2, OthersKeepAnalysis DEF Prepared
  <2>3. ASSUME NEW c \in ReviewCall, NEW a \in App, NEW k \in Key, NEW d \in Decision,
               ReviewBegin(c, a, k, d)
        PROVE  AnalysisInv'
    BY <2>2, <2>3, CallsAreDistinct DEF ReviewBegin, ReadApplication, Proceed, tables, engine,
       TypeInv, TypeOK, CallTypeOK
  <2>4. ASSUME NEW c \in UpdateCall, NEW a \in App, NEW k \in Key, NEW s \in Target,
               UpdateBegin(c, a, k, s)
        PROVE  AnalysisInv'
    BY <2>2, <2>4, CallsAreDistinct DEF UpdateBegin, ReadApplication, Proceed, tables, engine,
       TypeInv, TypeOK, CallTypeOK
  <2>5. ASSUME NEW c \in CreateCall, NEW a \in App, NEW k \in Key, NEW w \in Content,
               CreateBegin(c, a, k, w)
        PROVE  AnalysisInv'
    BY <2>2, <2>5, CallsAreDistinct DEF CreateBegin, tables, engine,
       TypeInv, TypeOK, CallTypeOK
  <2>6. ASSUME NEW c \in ReadCall, NEW a \in App, ReadBegin(c, a) PROVE AnalysisInv'
    BY <2>2, <2>6, CallsAreDistinct DEF ReadBegin, ReadApplication, Proceed, tables, engine,
       TypeInv, TypeOK, CallTypeOK
  <2> QED
    BY <1>1, <2>1, <2>3, <2>4, <2>5, <2>6 DEF Arrive
<1>2. CASE EngineStep
  <2>1. \A d \in Call : Posted(d)' => Posted(d)
    BY <1>2 DEF EngineStep, EngineAnalyse, EngineReview, Execute, Refuse, Posted, TypeInv,
       TypeOK, EngineTypeOK
  <2>2. UNCHANGED <<pc, arg, preparation>>
    BY <1>2 DEF EngineStep, tables
  <2>3. \A d \in PrepareCall : pc[d] = "idle" => post'[d] = post[d]
    BY <1>2 DEF EngineStep, EngineAnalyse, EngineReview, Execute, Refuse, Posted, TypeInv,
       TypeOK, EngineTypeOK, AnalysisInv
  <2> QED
    BY <2>1, <2>2, <2>3, AnalysisKept DEF Owns, Prepared
<1>3. ASSUME NEW c \in UpdateCall, UpdateStep(c) PROVE AnalysisInv'
  <2>1. c \in Call \ PrepareCall
    BY CallsAreDistinct
  <2> QED
    BY <1>3, <2>1, OthersKeepAnalysis DEF UpdateStep, UpdateReplay, UpdateClaim, UpdateSave,
       Proceed, Commit, tables, engine, Prepared
<1>4. ASSUME NEW c \in CreateCall, CreateStep(c) PROVE AnalysisInv'
  <2>1. c \in Call \ PrepareCall
    BY CallsAreDistinct
  <2> QED
    BY <1>4, <2>1, OthersKeepAnalysis DEF CreateStep, CreateReplay, CreateClaim, CreateSave,
       Proceed, Commit, tables, engine, Prepared
<1>5. ASSUME NEW c \in ReadCall, ReadStep(c) PROVE AnalysisInv'
  <2>1. c \in Call \ PrepareCall
    BY CallsAreDistinct
  <2> QED
    BY <1>5, <2>1, OthersKeepAnalysis DEF ReadStep, ReadFind, ReadGet, ReadFails,
       Proceed, tables, engine, Prepared
<1>6. ASSUME NEW c \in Call, Crash(c) PROVE AnalysisInv'
  <2>1. Goto(c, "crashed") /\ UNCHANGED <<post, preparation, arg>>
    BY <1>6 DEF Crash, Proceed, tables, engine
  <2>2. CASE c \in PrepareCall
    BY <2>1, <2>2, StatementKeepsAnalysis DEF Prepared
  <2>3. CASE c \notin PrepareCall
    BY <2>1, <2>3, OthersKeepAnalysis DEF Prepared
  <2> QED
    BY <2>2, <2>3
<1>7. CASE UNCHANGED vars
  BY <1>7 DEF vars, tables, engine, AnalysisInv, Owns, Posted, Prepared
<1> QED
  BY <1>1, <1>2, <1>3, <1>4, <1>5, <1>6, <1>7, PrepareKeepsAnalysis, ReviewKeepsAnalysis
  DEF Next, Advance

\* However many calls race to prepare an application, retry, crash or lose their
\* answer, at most one of them ever sends the analysis to the Agent Engine.
THEOREM OneAnalysisPerApplication == Spec => []AtMostOneAnalysis
<1>1. Init => AnalysisInv
  BY DEF Init, CallInit, EngineInit, AnalysisInv, Owns, Posted
<1>2. TypeInv /\ AnalysisInv /\ [Next]_vars => AnalysisInv'
  BY NextKeepsAnalysis
<1>3. AnalysisInv => AtMostOneAnalysis
  BY DEF AnalysisInv, AtMostOneAnalysis, Owns
<1> QED
  BY <1>1, <1>2, <1>3, CallsKnowTheirRows, PTL DEF Spec

-----------------------------------------------------------------------------
(* Reviews.                                                                *)

\* A review call that a step does not touch knows what it knew.
LEMMA KnowsKept ==
  ASSUME TypeInv, NEW c \in ReviewCall, ReviewKnows(c),
         pc'[c] = pc[c], arg'[c] = arg[c], post'[c] = post[c], verdict'[c] = verdict[c],
         UNCHANGED submission,
         \A row \in Lockable : lock[row] = c => lock'[row] = c
  PROVE  ReviewKnows(c)'
<1>1. pc[c] # "idle" => PreparationRow(arg[c].app) \in Lockable
  BY Begun, RowsAreLockable
<1> QED
  BY <1>1 DEF ReviewKnows, Sends, Posted, Unresolved, UnresolvedStatus, PreparationRow

\* A step of one review call that changes no submission and makes it no sender.
LEMMA MoveKeepsReviews ==
  ASSUME TypeInv, ReviewInv, NEW c \in ReviewCall,
         \A d \in ReviewCall \ {c} :
           /\ pc'[d] = pc[d] /\ arg'[d] = arg[d] /\ post'[d] = post[d]
           /\ verdict'[d] = verdict[d]
           /\ \A row \in Lockable : lock[row] = d => lock'[row] = d,
         UNCHANGED submission,
         Sends(c)' => Sends(c) /\ arg'[c] = arg[c],
         ReviewKnows(c)'
  PROVE  ReviewInv'
<1>1. \A d \in ReviewCall : ReviewKnows(d)'
  BY KnowsKept DEF ReviewInv
<1>2. \A d \in ReviewCall : Sends(d)' => Sends(d) /\ arg'[d] = arg[d]
  BY DEF Sends, Posted
<1>3. \A d, e \in ReviewCall : Sends(d)' /\ Sends(e)' /\ arg'[d].key = arg'[e].key => d = e
  BY <1>2 DEF ReviewInv
<1>4. \A k, l \in Key :
        Pending(k)' /\ Pending(l)' /\ submission'[k].app = submission'[l].app => k = l
  BY DEF ReviewInv, Pending
<1> QED
  BY <1>1, <1>3, <1>4 DEF ReviewInv

\* A step of another service.
LEMMA OthersKeepReviews ==
  ASSUME TypeInv, ReviewInv, NEW c \in Call \ ReviewCall,
         \A d \in Call \ {c} : pc'[d] = pc[d] /\ arg'[d] = arg[d] /\ post'[d] = post[d]
                                 /\ verdict'[d] = verdict[d],
         UNCHANGED submission,
         \/ UNCHANGED lock
         \/ Release(c)
         \/ \E row \in Lockable : Acquire(c, row)
         \/ \E next : Proceed(c, next)
  PROVE  ReviewInv'
<1>1. \A d \in ReviewCall : ReviewKnows(d)'
  BY LocksOfOthers, KnowsKept DEF ReviewInv
<1>2. \A d, e \in ReviewCall : Sends(d)' /\ Sends(e)' /\ arg'[d].key = arg'[e].key => d = e
  BY DEF ReviewInv, Sends, Posted
<1>3. \A k, l \in Key :
        Pending(k)' /\ Pending(l)' /\ submission'[k].app = submission'[l].app => k = l
  BY DEF ReviewInv, Pending
<1> QED
  BY <1>1, <1>2, <1>3 DEF ReviewInv

\* A statement of review_application before the lock, or the end of a call.
LEMMA StatementKeepsReviews ==
  ASSUME TypeInv, ReviewInv, NEW c \in ReviewCall, NEW next, Goto(c, next),
         next \notin {"idle", "review:recheck", "review:find_unresolved", "review:add"}
                       \cup SubmittedPC \cup ConcludedPC,
         UNCHANGED <<submission, post, verdict>>,
         UNCHANGED arg \/ (pc[c] = "idle" /\ \A d \in Call \ {c} : arg'[d] = arg[d]),
         \/ UNCHANGED lock
         \/ Release(c)
         \/ \E row \in Lockable : Acquire(c, row)
         \/ \E n : Proceed(c, n)
  PROVE  ReviewInv'
<1>1. c \in Call /\ pc'[c] = next /\ \A d \in Call \ {c} : pc'[d] = pc[d]
  BY DEF Goto, TypeInv, TypeOK, CallTypeOK
<1>2. \A d \in ReviewCall \ {c} : \A row \in Lockable : lock[row] = d => lock'[row] = d
  BY <1>1, LocksOfOthers
<1>3. ReviewKnows(c)
  BY DEF ReviewInv
<1>4. Sends(c)' => Sends(c) /\ arg'[c] = arg[c]
  BY <1>1, <1>3 DEF Sends, Posted, SubmittedPC, ReviewKnows
<1>5. post[c] = "in_flight" => pc[c] # "idle"
  BY <1>3 DEF ReviewKnows, Posted
<1>6. ReviewKnows(c)'
  BY <1>1, <1>3, <1>4, <1>5 DEF ReviewKnows, Sends, Posted, SubmittedPC, ConcludedPC
<1> QED
  BY <1>1, <1>2, <1>4, <1>6, MoveKeepsReviews

\* A check of review_application under the lock.
LEMMA CheckKeepsReviews ==
  ASSUME TypeInv, ReviewInv, NEW c \in ReviewCall,
         NEW next \in {"review:recheck", "review:find_unresolved", "review:add"},
         Goto(c, next), pc[c] \notin {"idle", "review:post"} \cup ConcludedPC,
         lock'[PreparationRow(arg[c].app)] = c,
         next = "review:add" => Unresolved(arg[c].app) = {},
         UNCHANGED submission, UNCHANGED post, UNCHANGED verdict, UNCHANGED arg,
         UNCHANGED lock \/ \E row \in Lockable : Acquire(c, row)
  PROVE  ReviewInv'
<1>1. c \in Call /\ pc'[c] = next /\ \A d \in Call \ {c} : pc'[d] = pc[d]
  BY DEF Goto, TypeInv, TypeOK, CallTypeOK
<1>2. \A d \in ReviewCall \ {c} : \A row \in Lockable : lock[row] = d => lock'[row] = d
  BY <1>1, LocksOfOthers
<1>3. ReviewKnows(c)
  BY DEF ReviewInv
<1>4. Sends(c)' => Sends(c)
  BY <1>1 DEF Sends, Posted
<1>5. ReviewKnows(c)'
  BY <1>1, <1>3, <1>4 DEF ReviewKnows, Sends, Posted, SubmittedPC, ConcludedPC,
     PreparationRow, Unresolved
<1> QED
  BY <1>1, <1>2, <1>4, <1>5, MoveKeepsReviews

\* A statement of review_application between the store of the submission and
\* that of its outcome.
LEMMA LaterStatementKeepsReviews ==
  ASSUME TypeInv, ReviewInv, NEW c \in ReviewCall, NEW next \in SubmittedPC \cap ConcludedPC,
         pc[c] \in SubmittedPC \cap ConcludedPC, Goto(c, next),
         UNCHANGED <<submission, post, verdict, arg>>,
         \/ UNCHANGED lock
         \/ \E row \in Lockable : Acquire(c, row)
         \/ \E n : Proceed(c, n)
  PROVE  ReviewInv'
<1>1. c \in Call /\ pc'[c] = next /\ \A d \in Call \ {c} : pc'[d] = pc[d]
  BY DEF Goto, TypeInv, TypeOK, CallTypeOK
<1>2. \A d \in ReviewCall \ {c} : \A row \in Lockable : lock[row] = d => lock'[row] = d
  BY <1>1, LocksOfOthers
<1>3. ReviewKnows(c)
  BY DEF ReviewInv
<1>4. Sends(c)' => Sends(c)
  BY <1>1, <1>3 DEF Sends, Posted, SubmittedPC, ConcludedPC
<1>5. ReviewKnows(c)'
  BY <1>1, <1>3 DEF ReviewKnows, Sends, Posted, SubmittedPC, ConcludedPC
<1> QED
  BY <1>1, <1>2, <1>4, <1>5, MoveKeepsReviews

\* The INSERT: no other call holds the lock, so none is about to insert for the
\* application, and no other submission of the application is unresolved.
LEMMA AddKeepsReviews ==
  ASSUME TypeInv, ReviewInv, NEW c \in ReviewCall, InsertsSubmission(c)
  PROVE  ReviewInv'
<1>. DEFINE a == arg[c].app
            k == arg[c].key
<1>1. c \in Call /\ a \in App /\ k \in Key /\ pc[c] # "idle"
  BY Begun DEF InsertsSubmission
<1>2. submission[k] = None /\ UNCHANGED <<arg, post, verdict>>
  BY DEF InsertsSubmission, engine
<1>3. pc'[c] = "review:post" /\ \A d \in Call \ {c} : pc'[d] = pc[d]
  BY DEF InsertsSubmission, Goto, TypeInv, TypeOK, CallTypeOK
<1>. DEFINE row == [app |-> a, want |-> arg[c].want, thread |-> preparation[a].thread,
                    status |-> "submitting", outcome |-> None]
<1>4. submission' = [submission EXCEPT ![k] = row]
  BY DEF InsertsSubmission
<1>5. row # None /\ row.app = a /\ row.status = "submitting"
  <2>1. row \in Submission
    BY <1>1, Begun DEF Submission, SubmissionStatus, TypeInv, TypeOK, StoreTypeOK, Preparation
  <2> QED
    BY <2>1, NoneIsNoRow
<1>6. submission'[k] = row /\ \A l \in Key \ {k} : submission'[l] = submission[l]
  BY <1>1, <1>4 DEF TypeInv, TypeOK, StoreTypeOK
<1>. HIDE DEF row
<1>7. \A d \in ReviewCall : Sends(d) => arg[d].key # k
  BY <1>2 DEF ReviewInv, ReviewKnows
<1>8. Unresolved(a) = {} /\ KeepsLocks(c)
  BY DEF InsertsSubmission
<1>9. ASSUME NEW d \in ReviewCall PROVE ReviewKnows(d)'
  <2>1. ReviewKnows(d)
    BY DEF ReviewInv
  <2>2. CASE d = c
    <3>1. ~Posted(c)'
      BY <1>2, <1>7, <1>1 DEF Sends, Posted
    <3> QED
      BY <1>2, <1>3, <1>5, <1>6, <2>2, <3>1
      DEF ReviewKnows, Sends, Posted, SubmittedPC, ConcludedPC
  <2>3. CASE d # c
    <3>1. pc'[d] = pc[d] /\ d \in Call
      BY <1>3, <2>3
    <3>2. pc[d] # "idle" => arg[d].app \in App /\ arg[d].key \in Key
      BY <3>1, Begun
    <3>3. Sends(d) => submission'[arg[d].key] = submission[arg[d].key]
      BY <1>6, <1>7, <2>1, <3>2 DEF ReviewKnows, Sends, Posted
    <3>4. \A r \in Lockable : lock[r] = d => lock'[r] = d
      BY <1>8, <2>3, <3>1 DEF KeepsLocks
    <3>5. pc[d] \in UnderLockPC => arg[d].app # a
      BY <2>3 DEF InsertsSubmission
    <3>6. pc[d] = "review:add" => Unresolved(arg[d].app)' = {}
      BY <1>2, <1>5, <1>6, <2>1, <3>5 DEF Unresolved, ReviewKnows, UnderLockPC
    <3>7. pc[d] \in {"review:recheck", "review:find_unresolved", "review:add"} =>
            lock'[PreparationRow(arg[d].app)] = d
      BY <2>1, <3>2, <3>4, RowsAreLockable DEF ReviewKnows
    <3>8. pc[d] \in SubmittedPC => Sends(d) /\ submission[arg[d].key].status = "submitting"
      BY <2>1 DEF ReviewKnows
    <3>9. UNCHANGED <<arg[d], post[d], verdict[d]>>
      BY <1>2
    <3> QED
      BY <2>1, <3>1, <3>3, <3>6, <3>7, <3>8, <3>9
      DEF ReviewKnows, Sends, Posted, PreparationRow
  <2> QED
    BY <2>2, <2>3
<1>10. \A d, e \in ReviewCall : Sends(d)' /\ Sends(e)' /\ arg'[d].key = arg'[e].key => d = e
  <2>1. \A d \in ReviewCall : Sends(d)' => Sends(d) \/ d = c
    BY <1>2, <1>3 DEF Sends, Posted
  <2> QED
    BY <1>2, <1>7, <2>1 DEF ReviewInv
<1>11. \A l, m \in Key :
         Pending(l)' /\ Pending(m)' /\ submission'[l].app = submission'[m].app => l = m
  <2>1. \A l \in Key \ {k} : Pending(l)' => Pending(l) /\ submission'[l].app # a
    BY <1>6, <1>8 DEF Pending, Unresolved, UnresolvedStatus
  <2> QED
    BY <1>5, <1>6, <2>1 DEF ReviewInv, Pending
<1> QED
  BY <1>9, <1>10, <1>11 DEF ReviewInv

\* The outcome is written to the call's own submission, which stays unresolved
\* while the request may still be executed.
LEMMA SaveKeepsReviews ==
  ASSUME TypeInv, ReviewInv, NEW c \in ReviewCall, SavesSubmission(c)
  PROVE  ReviewInv'
<1>. DEFINE k == arg[c].key
<1>1. c \in Call /\ k \in Key /\ pc[c] \in SubmittedPC \cap ConcludedPC /\ pc[c] # "review:post"
  BY Begun DEF SavesSubmission, SubmittedPC, ConcludedPC
<1>2. ReviewKnows(c)
  BY DEF ReviewInv
<1>3. Sends(c) /\ Posted(c) /\ submission[k].status = "submitting" /\ submission[k] # None
  BY <1>1, <1>2 DEF ReviewKnows, SubmittedPC, Sends
<1>4. /\ pc'[c] \in {"returned", "agent_error"}
      /\ \A d \in Call \ {c} : pc'[d] = pc[d]
      /\ UNCHANGED <<arg, post, verdict>>
  BY DEF SavesSubmission, Goto, TypeInv, TypeOK, CallTypeOK, engine
<1>5. submission[k] \in Submission
  BY <1>1, <1>3 DEF TypeInv, TypeOK, StoreTypeOK
<1>6. /\ submission'[k] \in Submission
      /\ submission'[k].app = submission[k].app
      /\ post[c] = "in_flight" => submission'[k].status = "outcome_unknown"
      /\ \A l \in Key \ {k} : submission'[l] = submission[l]
  <2>. DEFINE status == IF verdict[c] \in ThreadStatus THEN "completed" ELSE verdict[c]
              outcome == IF verdict[c] \in ThreadStatus THEN verdict[c] ELSE None
              row == [[submission[k] EXCEPT !.status = status] EXCEPT !.outcome = outcome]
  <2>1. submission' = [submission EXCEPT ![k] = row]
    BY DEF SavesSubmission
  <2>2. verdict[c] \in Verdict
    BY <1>1 DEF TypeInv, VerdictGiven, ConcludedPC
  <2>3. status \in SubmissionStatus /\ outcome \in ThreadStatus \cup {None}
    BY <2>2 DEF SubmissionStatus, Verdict, ThreadStatus
  <2>4. row \in Submission /\ row.app = submission[k].app /\ row.status = status
    BY <1>5, <2>3 DEF Submission
  <2>5. post[c] = "in_flight" => status = "outcome_unknown"
    BY <1>1, <1>2 DEF ReviewKnows, ConcludedPC, ThreadStatus
  <2>. HIDE DEF row, status, outcome
  <2> QED
    BY <1>1, <2>1, <2>4, <2>5 DEF TypeInv, TypeOK, StoreTypeOK
<1>7. \A d \in ReviewCall \ {c} : Sends(d) => arg[d].key # k
  BY <1>3 DEF ReviewInv
<1>8. Pending(k) /\ submission'[k] # None
  BY <1>3, <1>6, NoneIsNoRow DEF Pending, UnresolvedStatus
<1>9. ASSUME NEW d \in ReviewCall PROVE ReviewKnows(d)'
  <2>1. ReviewKnows(d)
    BY DEF ReviewInv
  <2>2. CASE d = c
    BY <1>2, <1>3, <1>4, <1>6, <1>8, <2>2
    DEF ReviewKnows, Sends, Posted, SubmittedPC, ConcludedPC, UnresolvedStatus
  <2>3. CASE d # c
    <3>1. pc'[d] = pc[d] /\ d \in Call
      BY <1>4, <2>3
    <3>2. pc[d] # "idle" => arg[d].app \in App /\ arg[d].key \in Key
      BY <3>1, Begun
    <3>3. Sends(d) => submission'[arg[d].key] = submission[arg[d].key]
      BY <1>6, <1>7, <2>1, <2>3, <3>2 DEF ReviewKnows, Sends, Posted
    <3>4. \A r \in Lockable : lock[r] = d => lock'[r] = d
      BY <1>1, <2>3, LocksOfOthers DEF SavesSubmission, KeepsLocks
    <3>5. \A a \in App : Unresolved(a)' \subseteq Unresolved(a)
      BY <1>3, <1>6, <1>8 DEF Unresolved
    <3>6. pc[d] = "review:add" => Unresolved(arg[d].app)' = {}
      BY <1>4, <2>1, <3>2, <3>5 DEF ReviewKnows, Unresolved
    <3>7. pc[d] \in {"review:recheck", "review:find_unresolved", "review:add"} =>
            lock'[PreparationRow(arg[d].app)] = d
      BY <2>1, <3>2, <3>4, RowsAreLockable DEF ReviewKnows
    <3>8. pc[d] \in SubmittedPC => Sends(d) /\ submission[arg[d].key].status = "submitting"
      BY <2>1 DEF ReviewKnows
    <3>9. UNCHANGED <<arg[d], post[d], verdict[d]>>
      BY <1>4
    <3> QED
      BY <2>1, <3>1, <3>3, <3>6, <3>7, <3>8, <3>9
      DEF ReviewKnows, Sends, Posted, PreparationRow
  <2> QED
    BY <2>2, <2>3
<1>10. \A d, e \in ReviewCall : Sends(d)' /\ Sends(e)' /\ arg'[d].key = arg'[e].key => d = e
  <2>1. \A d \in ReviewCall : Sends(d)' => Sends(d)
    BY <1>4 DEF Sends, Posted
  <2> QED
    BY <1>4, <2>1 DEF ReviewInv
<1>11. \A l, m \in Key :
         Pending(l)' /\ Pending(m)' /\ submission'[l].app = submission'[m].app => l = m
  <2>1. \A l \in Key : Pending(l)' => Pending(l) /\ submission'[l].app = submission[l].app
    BY <1>6, <1>8 DEF Pending
  <2> QED
    BY <2>1 DEF ReviewInv
<1> QED
  BY <1>9, <1>10, <1>11 DEF ReviewInv

\* The last statements of review_application's transactions do: the row lock
\* keeps the others of the application out.
LEMMA ReviewWrites ==
  ASSUME TypeInv, ReviewInv, NEW c \in ReviewCall
  PROVE  /\ ReviewAdd(c) => InsertsSubmission(c)
         /\ ReviewSave(c) => SavesSubmission(c)
<1>1. c \in Call /\ (Release(c) => KeepsLocks(c))
  BY LocksOfOthers DEF KeepsLocks
<1>2. ASSUME ReviewAdd(c)
      PROVE  /\ Unresolved(arg[c].app) = {}
             /\ \A d \in ReviewCall \ {c} : pc[d] \in UnderLockPC => arg[d].app # arg[c].app
  BY <1>2 DEF ReviewAdd, ReviewInv, ReviewKnows, UnderLockPC
<1> QED
  BY <1>1, <1>2 DEF ReviewAdd, KeyUnused, ReviewSave, Commit, InsertsSubmission, SavesSubmission

\* Sending, and reading or giving up the answer.
LEMMA ExchangeKeepsReviews ==
  ASSUME TypeInv, ReviewInv, NEW c \in ReviewCall, ReviewPost(c) \/ ReviewAnswer(c)
  PROVE  ReviewInv'
<1>1. c \in Call /\ \A d \in Call \ {c} :
        pc'[d] = pc[d] /\ post'[d] = post[d] /\ verdict'[d] = verdict[d]
  BY DEF ReviewPost, ReviewAnswer, Send, Receive, TimeOut, Goto, engine,
     TypeInv, TypeOK, CallTypeOK, EngineTypeOK
<1>2. UNCHANGED <<submission, lock, arg>>
  BY DEF ReviewPost, ReviewAnswer, tables
<1>3. ReviewKnows(c)
  BY DEF ReviewInv
<1>4. Sends(c)
  BY <1>3 DEF ReviewPost, ReviewAnswer, ReviewKnows, SubmittedPC
<1>5. CASE ReviewPost(c)
  <2>1. pc[c] = "review:post" /\ pc'[c] = "review:await" /\ post'[c] = "in_flight"
    BY <1>1, <1>5 DEF ReviewPost, Goto, Send, TypeInv, TypeOK, CallTypeOK, EngineTypeOK
  <2>2. ReviewKnows(c)'
    BY <1>2, <1>3, <2>1 DEF ReviewKnows, Sends, Posted, SubmittedPC, ConcludedPC, UnresolvedStatus
  <2> QED
    BY <1>1, <1>2, <1>4, <2>2, MoveKeepsReviews
<1>6. CASE ReviewAnswer(c)
  <2>1. /\ pc[c] = "review:await"
        /\ pc'[c] \in {"review:lock_again", "review:require_submitting"}
        /\ UNCHANGED post
    BY <1>1, <1>6 DEF ReviewAnswer, Goto, engine, TypeInv, TypeOK, CallTypeOK
  <2>2. post[c] = "in_flight" => verdict'[c] = "outcome_unknown"
    <3>1. "in_flight" \notin Reply
      BY DEF Reply, ThreadStatus
    <3> QED
      BY <1>1, <1>6, <3>1 DEF ReviewAnswer, Receive, TimeOut, TypeInv, TypeOK, CallTypeOK
  <2>3. ReviewKnows(c)'
    BY <1>2, <1>3, <2>1, <2>2 DEF ReviewKnows, Sends, Posted, SubmittedPC, ConcludedPC
  <2> QED
    BY <1>1, <1>2, <1>4, <2>3, MoveKeepsReviews
<1> QED
  BY <1>5, <1>6

\* Every statement of review_application.
LEMMA ReviewKeepsReviews ==
  ASSUME TypeInv, ReviewInv, NEW c \in ReviewCall, ReviewStep(c)
  PROVE  ReviewInv'
<1>. DEFINE a == arg[c].app
<1>1. ASSUME NEW next \in {"review:lock", "replayed", "conflict", "blocked", "invalid_transition",
                           "integrity_error", "inconsistent", "not_found"},
             Proceed(c, next), UNCHANGED <<submission, post, verdict, arg>>
      PROVE  ReviewInv'
  <2>1. Goto(c, next) /\ next \notin {"idle", "review:recheck", "review:find_unresolved", "review:add"}
                                          \cup SubmittedPC \cup ConcludedPC
    BY <1>1 DEF Proceed, SubmittedPC, ConcludedPC
  <2> QED
    BY <1>1, <2>1, StatementKeepsReviews
<1>2. CASE ReviewFindKey(c)
  <2>1. PICK next \in {"review:lock", "replayed", "conflict"} : Proceed(c, next)
    BY <1>2 DEF ReviewFindKey, Lookup
  <2> QED
    BY <1>1, <1>2, <2>1 DEF ReviewFindKey, tables, engine
<1>3. CASE ReviewLockFails(c)
  BY <1>1, <1>3 DEF ReviewLockFails, tables, engine
<1>4. CASE ReviewLock(c)
  <2>1. Acquire(c, PreparationRow(a)) /\ Goto(c, "review:recheck") /\ pc[c] = "review:lock"
    BY <1>4 DEF ReviewLock
  <2>2. PreparationRow(a) \in Lockable
    BY <2>1, Begun, RowsAreLockable
  <2>3. lock'[PreparationRow(a)] = c
    BY <2>1, <2>2 DEF Acquire, TypeInv, TypeOK, StoreTypeOK
  <2>4. UNCHANGED submission /\ UNCHANGED post /\ UNCHANGED verdict /\ UNCHANGED arg
    BY <1>4 DEF ReviewLock, tables, engine
  <2> QED
    BY <2>1, <2>2, <2>3, <2>4, CheckKeepsReviews DEF ConcludedPC
<1>5. CASE ReviewRecheck(c)
  <2>1. PICK next \in {"replayed", "conflict", "blocked", "invalid_transition",
                       "review:find_unresolved"} : Proceed(c, next)
    BY <1>5 DEF ReviewRecheck, Lookup
  <2>2. /\ UNCHANGED submission /\ UNCHANGED post /\ UNCHANGED verdict /\ UNCHANGED arg
        /\ pc[c] = "review:recheck"
    BY <1>5 DEF ReviewRecheck, tables, engine
  <2>3. CASE next = "review:find_unresolved"
    <3>1. Goto(c, next) /\ UNCHANGED lock
      BY <2>1, <2>3 DEF Proceed, Ended
    <3>2. lock'[PreparationRow(a)] = c
      BY <2>2, <3>1 DEF ReviewInv, ReviewKnows, PreparationRow
    <3> QED
      BY <2>2, <2>3, <3>1, <3>2, CheckKeepsReviews DEF ConcludedPC
  <2> QED
    BY <1>1, <2>1, <2>2, <2>3
<1>6. CASE ReviewFindUnresolved(c)
  <2>1. /\ UNCHANGED submission /\ UNCHANGED post /\ UNCHANGED verdict /\ UNCHANGED arg
        /\ pc[c] = "review:find_unresolved"
    BY <1>6 DEF ReviewFindUnresolved, tables, engine
  <2>2. CASE Unresolved(a) # {}
    BY <1>1, <1>6, <2>1, <2>2 DEF ReviewFindUnresolved
  <2>3. CASE Unresolved(a) = {}
    <3>1. Goto(c, "review:add") /\ UNCHANGED lock
      BY <1>6, <2>3 DEF ReviewFindUnresolved, Proceed, Ended
    <3>2. lock'[PreparationRow(a)] = c
      BY <2>1, <3>1 DEF ReviewInv, ReviewKnows, PreparationRow
    <3> QED
      BY <2>1, <2>3, <3>1, <3>2, CheckKeepsReviews DEF ConcludedPC
  <2> QED
    BY <2>2, <2>3
<1>7. CASE ReviewAddFails(c)
  BY <1>1, <1>7 DEF ReviewAddFails, tables, engine
<1>8. CASE ReviewAdd(c)
  BY <1>8, ReviewWrites, AddKeepsReviews
<1>9. CASE ReviewPost(c) \/ ReviewAnswer(c)
  BY <1>9, ExchangeKeepsReviews
<1>10. CASE ReviewLockAgain(c)
  <2>1. UNCHANGED <<submission, post, verdict, arg>> /\ pc[c] = "review:lock_again"
    BY <1>10 DEF ReviewLockAgain, tables, engine
  <2>2. PreparationRow(a) \in Lockable
    BY <2>1, Begun, RowsAreLockable
  <2>3. CASE Acquire(c, PreparationRow(a)) /\ Goto(c, "review:read_application")
    BY <2>1, <2>2, <2>3, LaterStatementKeepsReviews DEF SubmittedPC, ConcludedPC
  <2> QED
    BY <1>1, <1>10, <2>1, <2>3 DEF ReviewLockAgain
<1>11. CASE ReviewReadApplication(c)
  <2>1. PICK next \in {"not_found", "review:require_submitting"} : Proceed(c, next)
    BY <1>11 DEF ReviewReadApplication, ReadApplication
  <2>2. UNCHANGED <<submission, post, verdict, arg>> /\ pc[c] = "review:read_application"
    BY <1>11 DEF ReviewReadApplication, tables, engine
  <2>3. CASE next = "review:require_submitting"
    BY <2>1, <2>2, <2>3, LaterStatementKeepsReviews DEF SubmittedPC, ConcludedPC, Proceed
  <2> QED
    BY <1>1, <2>1, <2>2, <2>3
<1>12. CASE ReviewRequireSubmitting(c)
  <2>1. PICK next \in {"inconsistent", "review:save_ready", "review:save"} : Proceed(c, next)
    BY <1>12 DEF ReviewRequireSubmitting
  <2>2. UNCHANGED <<submission, post, verdict, arg>> /\ pc[c] = "review:require_submitting"
    BY <1>12 DEF ReviewRequireSubmitting, tables, engine
  <2>3. CASE next \in {"review:save_ready", "review:save"}
    BY <2>1, <2>2, <2>3, LaterStatementKeepsReviews DEF SubmittedPC, ConcludedPC, Proceed
  <2> QED
    BY <1>1, <2>1, <2>2, <2>3
<1>13. CASE ReviewSaveReady(c)
  <2>1. UNCHANGED <<submission, post, verdict, arg>> /\ pc[c] = "review:save_ready"
    BY <1>13 DEF ReviewSaveReady, tables, engine
  <2>2. ApplicationRow(a) \in Lockable
    BY <2>1, Begun, RowsAreLockable
  <2> QED
    BY <1>13, <2>1, <2>2, LaterStatementKeepsReviews
    DEF ReviewSaveReady, SubmittedPC, ConcludedPC
<1>14. CASE ReviewSave(c)
  BY <1>14, ReviewWrites, SaveKeepsReviews
<1> QED
  BY <1>2, <1>3, <1>4, <1>5, <1>6, <1>7, <1>8, <1>9, <1>10, <1>11, <1>12, <1>13, <1>14
  DEF ReviewStep

\* Statements of the other services: none touches a submission, and each holds
\* or releases locks of its own call.
LEMMA OtherServicesKeepReviews ==
  ASSUME TypeInv, ReviewInv, NEW c \in Call \ ReviewCall,
         \/ c \in PrepareCall /\ PrepareStep(c)
         \/ c \in UpdateCall /\ UpdateStep(c)
         \/ c \in CreateCall /\ CreateStep(c)
         \/ c \in ReadCall /\ ReadStep(c)
  PROVE  ReviewInv'
<1>1. UNCHANGED <<submission, arg>>
  BY DEF PrepareStep, PrepareFind, PrepareSaveApplication, PrepareAddFails, PrepareAdd,
     PreparePost, PrepareAnswer, PrepareReadApplication, PrepareRequireStarting,
     PrepareSaveReady, PrepareSave, UpdateStep, UpdateReplay, UpdateClaim, UpdateSave,
     CreateStep, CreateReplay, CreateClaim, CreateSave, ReadStep, ReadFind, ReadGet,
     ReadFails, tables
<1>2. \A d \in Call \ {c} : pc'[d] = pc[d]
  BY DEF PrepareStep, PrepareFind, PrepareSaveApplication, PrepareAddFails, PrepareAdd,
     PreparePost, PrepareAnswer, PrepareReadApplication, PrepareRequireStarting,
     PrepareSaveReady, PrepareSave, UpdateStep, UpdateReplay, UpdateClaim, UpdateSave,
     CreateStep, CreateReplay, CreateClaim, CreateSave, ReadStep, ReadFind, ReadGet,
     ReadFails, ReadApplication, Proceed, Commit, Goto, TypeInv, TypeOK, CallTypeOK
<1>3. \A d \in Call \ {c} : post'[d] = post[d] /\ verdict'[d] = verdict[d]
  BY DEF PrepareStep, PrepareFind, PrepareSaveApplication, PrepareAddFails, PrepareAdd,
     PreparePost, PrepareAnswer, PrepareReadApplication, PrepareRequireStarting,
     PrepareSaveReady, PrepareSave, UpdateStep, UpdateReplay, UpdateClaim, UpdateSave,
     CreateStep, CreateReplay, CreateClaim, CreateSave, ReadStep, ReadFind, ReadGet,
     ReadFails, Send, Receive, TimeOut, engine, TypeInv, TypeOK, CallTypeOK, EngineTypeOK
<1>4. c \in UpdateCall /\ UpdateStep(c) =>
        <<"update", arg[c].key>> \in Lockable /\ ApplicationRow(arg[c].app) \in Lockable
  BY Begun DEF UpdateStep, UpdateReplay, UpdateClaim, UpdateSave, Lockable, Operation,
     ApplicationRow
<1>5. c \in CreateCall /\ CreateStep(c) => <<"create", arg[c].key>> \in Lockable
  BY Begun DEF CreateStep, CreateReplay, CreateClaim, CreateSave, Lockable, Operation
<1>6. c \in PrepareCall /\ PrepareStep(c) => ApplicationRow(arg[c].app) \in Lockable
  BY Begun, RowsAreLockable DEF PrepareStep, PrepareFind, PrepareSaveApplication, PrepareAddFails, PrepareAdd,
     PreparePost, PrepareAnswer, PrepareReadApplication, PrepareRequireStarting,
     PrepareSaveReady, PrepareSave
<1>7. \/ UNCHANGED lock
      \/ Release(c)
      \/ \E row \in Lockable : Acquire(c, row)
      \/ \E next : Proceed(c, next)
  <2>1. CASE c \in PrepareCall /\ PrepareStep(c)
    BY <1>6, <2>1 DEF PrepareStep, PrepareFind, PrepareSaveApplication, PrepareAddFails,
       PrepareAdd, PreparePost, PrepareAnswer, PrepareReadApplication,
       PrepareRequireStarting, PrepareSaveReady, PrepareSave, ReadApplication, Commit
  <2>2. CASE c \in UpdateCall /\ UpdateStep(c)
    BY <1>4, <2>2 DEF UpdateStep, UpdateReplay, UpdateClaim, UpdateSave, ClaimKey, Commit
  <2>3. CASE c \in CreateCall /\ CreateStep(c)
    BY <1>5, <2>3 DEF CreateStep, CreateReplay, CreateClaim, CreateSave, ClaimKey, Commit
  <2>4. CASE c \in ReadCall /\ ReadStep(c)
    BY <2>4 DEF ReadStep, ReadFind, ReadGet, ReadFails
  <2> QED
    BY <2>1, <2>2, <2>3, <2>4
<1> QED
  BY <1>1, <1>2, <1>3, <1>7, OthersKeepReviews

\* A review that begins knows nothing yet; what others begin does not touch it.
LEMMA ArriveKeepsReviews == TypeInv /\ ReviewInv /\ Arrive => ReviewInv'
<1>. SUFFICES ASSUME TypeInv, ReviewInv, Arrive PROVE ReviewInv'
  OBVIOUS
<1>1. ASSUME NEW c \in ReviewCall, NEW a \in App, NEW k \in Key, NEW d \in Decision,
             ReviewBegin(c, a, k, d)
      PROVE  ReviewInv'
  <2>1. PICK next \in {"not_found", "review:find_key"} : Proceed(c, next)
    BY <1>1 DEF ReviewBegin, ReadApplication
  <2>2. /\ UNCHANGED <<submission, post, verdict>> /\ pc[c] = "idle"
        /\ \A e \in Call \ {c} : arg'[e] = arg[e]
    BY <1>1 DEF ReviewBegin, tables, engine, TypeInv, TypeOK, CallTypeOK
  <2>3. Goto(c, next) /\ next \notin {"idle", "review:recheck", "review:find_unresolved", "review:add"}
                                          \cup SubmittedPC \cup ConcludedPC
    BY <2>1 DEF Proceed, SubmittedPC, ConcludedPC
  <2> QED
    BY <2>1, <2>2, <2>3, StatementKeepsReviews
<1>2. ASSUME NEW c \in Call \ ReviewCall, NEW a \in App,
             \/ c \in PrepareCall /\ PrepareBegin(c, a)
             \/ c \in UpdateCall /\ \E k \in Key, s \in Target : UpdateBegin(c, a, k, s)
             \/ c \in CreateCall /\ \E k \in Key, w \in Content : CreateBegin(c, a, k, w)
             \/ c \in ReadCall /\ ReadBegin(c, a)
      PROVE  ReviewInv'
  <2>1. UNCHANGED <<submission, post, verdict>>
    BY <1>2 DEF PrepareBegin, UpdateBegin, CreateBegin, ReadBegin, tables, engine
  <2>2. \A d \in Call \ {c} : arg'[d] = arg[d] /\ pc'[d] = pc[d]
    BY <1>2 DEF PrepareBegin, UpdateBegin, CreateBegin, ReadBegin, ReadApplication, Proceed,
       Goto, TypeInv, TypeOK, CallTypeOK
  <2>3. UNCHANGED lock \/ \E next : Proceed(c, next)
    BY <1>2 DEF PrepareBegin, UpdateBegin, CreateBegin, ReadBegin, ReadApplication
  <2> QED
    BY <2>1, <2>2, <2>3, OthersKeepReviews
<1> QED
  BY <1>1, <1>2, CallsAreDistinct DEF Arrive

\* The engine answers what was sent, and sends nothing.
LEMMA EngineKeepsReviews == TypeInv /\ ReviewInv /\ EngineStep => ReviewInv'
<1>. SUFFICES ASSUME TypeInv, ReviewInv, EngineStep PROVE ReviewInv'
  OBVIOUS
<1>1. UNCHANGED <<pc, arg, verdict, submission, lock>>
  BY DEF EngineStep, tables
<1>2. \A d \in Call : Posted(d)' = Posted(d) /\ (post'[d] = "in_flight" => post[d] = "in_flight")
  BY DEF EngineStep, EngineAnalyse, EngineReview, Execute, Refuse, Posted, ThreadStatus,
     TypeInv, TypeOK, EngineTypeOK
<1>3. \A d \in ReviewCall : Sends(d)' = Sends(d)
  BY <1>1, <1>2 DEF Sends
<1>4. \A d \in ReviewCall : ReviewKnows(d)'
  BY <1>1, <1>2, <1>3 DEF ReviewInv, ReviewKnows, Unresolved
<1>5. \A k, l \in Key :
        Pending(k)' /\ Pending(l)' /\ submission'[k].app = submission'[l].app => k = l
  BY <1>1 DEF ReviewInv, Pending
<1> QED
  BY <1>1, <1>3, <1>4, <1>5 DEF ReviewInv

\* Every step of the hub and of the engine preserves the invariant.
LEMMA NextKeepsReviews == TypeInv /\ ReviewInv /\ [Next]_vars => ReviewInv'
<1>. SUFFICES ASSUME TypeInv, ReviewInv, [Next]_vars PROVE ReviewInv'
  OBVIOUS
<1>1. CASE Advance
  <2>1. CASE \E c \in ReviewCall : ReviewStep(c)
    BY <2>1, ReviewKeepsReviews
  <2>2. PrepareCall \cup UpdateCall \cup CreateCall \cup ReadCall \subseteq Call \ ReviewCall
    BY CallsAreDistinct
  <2> QED
    BY <1>1, <2>1, <2>2, OtherServicesKeepReviews DEF Advance
<1>2. ASSUME NEW c \in Call, Crash(c) PROVE ReviewInv'
  <2>1. /\ Goto(c, "crashed") /\ Proceed(c, "crashed")
        /\ UNCHANGED <<submission, post, verdict, arg>>
    BY <1>2 DEF Crash, Proceed, tables, engine
  <2>2. CASE c \in ReviewCall
    BY <2>1, <2>2, StatementKeepsReviews DEF SubmittedPC, ConcludedPC
  <2>3. CASE c \notin ReviewCall
    <3>1. \A d \in Call \ {c} : pc'[d] = pc[d]
      BY <2>1 DEF Goto, TypeInv, TypeOK, CallTypeOK
    <3> QED
      BY <2>1, <2>3, <3>1, OthersKeepReviews
  <2> QED
    BY <2>2, <2>3
<1>3. CASE UNCHANGED vars
  BY <1>3 DEF vars, tables, engine, ReviewInv, ReviewKnows, Sends, Posted, Pending, Unresolved
<1> QED
  BY <1>1, <1>2, <1>3, ArriveKeepsReviews, EngineKeepsReviews DEF Next

\* Initially no call has begun and nothing is stored.
LEMMA ReviewsBegin == Init => ReviewInv
BY DEF Init, CallInit, EngineInit, StoreInit, ReviewInv, ReviewKnows, Sends, Posted,
   Pending, SubmittedPC, ConcludedPC

\* An idempotency key sends at most one review to the engine, however many calls
\* race, retry, crash or lose their answer.
THEOREM OneSenderPerKey == Spec => []OneReviewPerKey
<1>1. TypeInv /\ ReviewInv /\ [Next]_vars => ReviewInv'
  BY NextKeepsReviews
<1>2. ReviewInv => OneReviewPerKey
  BY DEF ReviewInv, OneReviewPerKey, Sends
<1> QED
  BY <1>1, <1>2, ReviewsBegin, CallsKnowTheirRows, PTL DEF Spec

\* Two outstanding reviews of an application would be two unresolved ones.
LEMMA ReviewsDoNotOverlap == TypeInv /\ ReviewInv => NoOverlappingReviews
<1>. SUFFICES ASSUME TypeInv, ReviewInv, NEW c \in ReviewCall, NEW d \in ReviewCall,
                     post[c] = "in_flight", post[d] = "in_flight", arg[c].app = arg[d].app
              PROVE  c = d
  BY DEF NoOverlappingReviews
<1>1. ReviewKnows(c) /\ ReviewKnows(d) /\ Sends(c) /\ Sends(d)
  BY DEF ReviewInv, Sends, Posted
<1>2. arg[c].key \in Key /\ arg[d].key \in Key
  BY <1>1, Begun DEF ReviewKnows, Sends, Posted
<1>3. Pending(arg[c].key) /\ Pending(arg[d].key)
  BY <1>1 DEF ReviewKnows, Pending
<1>4. submission[arg[c].key].app = submission[arg[d].key].app
  BY <1>1 DEF ReviewKnows
<1> QED
  BY <1>1, <1>2, <1>3, <1>4 DEF ReviewInv

\* At most one review request of an application can still be executed by the
\* engine, whether or not its client waits for the answer.
THEOREM OneReviewOutstanding == Spec => []NoOverlappingReviews
<1>1. TypeInv /\ ReviewInv /\ [Next]_vars => ReviewInv'
  BY NextKeepsReviews
<1> QED
  BY <1>1, ReviewsDoNotOverlap, ReviewsBegin, CallsKnowTheirRows, PTL DEF Spec

-----------------------------------------------------------------------------
(* Updates and creations.                                                  *)

\* The event that a status change appends has one author more.
LEMMA SavedByCaller ==
  ASSUME TypeInv, NEW c \in Call, NEW a \in App,
         NEW from \in ApplicationStatus \cup {Absent}, NEW to \in ApplicationStatus,
         events' = [events EXCEPT ![a] = Append(@, [from |-> from, to |-> to, by |-> c])]
  PROVE  /\ \A d \in Call, b \in App : ActedOn(d, b) => ActedOn(d, b)'
         /\ \A d \in Call \ {c}, b \in App : ActedOn(d, b)' => ActedOn(d, b)
         /\ ActedOn(c, a)'
<1>. DEFINE new == [from |-> from, to |-> to, by |-> c]
<1>1. new \in Event /\ new.by = c
  BY DEF Event
<1>2. events[a] \in Seq(Event) /\ events \in [App -> Seq(Event)]
  BY DEF TypeInv, TypeOK, StoreTypeOK
<1>. HIDE DEF new
<1>3. /\ events'[a] = Append(events[a], new)
      /\ \A b \in App \ {a} : events'[b] = events[b]
  BY <1>2 DEF new
<1>4. /\ Len(events[a]) \in Nat /\ DOMAIN events[a] = 1..Len(events[a])
      /\ DOMAIN events'[a] = 1..(Len(events[a]) + 1)
      /\ events'[a][Len(events[a]) + 1] = new
      /\ \A i \in 1..Len(events[a]) : events'[a][i] = events[a][i]
  BY <1>1, <1>2, <1>3
<1>5. ActedOn(c, a)'
  BY <1>1, <1>4 DEF ActedOn
<1>6. ASSUME NEW d \in Call, NEW b \in App, ActedOn(d, b) PROVE ActedOn(d, b)'
  BY <1>3, <1>4, <1>6 DEF ActedOn
<1>7. ASSUME NEW d \in Call \ {c}, NEW b \in App, ActedOn(d, b)' PROVE ActedOn(d, b)
  <2>1. CASE b # a
    BY <1>3, <1>7, <2>1 DEF ActedOn
  <2>2. CASE b = a
    <3>1. PICK i \in 1..(Len(events[a]) + 1) : events'[a][i].by = d
      BY <1>4, <1>7, <2>2 DEF ActedOn
    <3>2. i # Len(events[a]) + 1
      BY <1>1, <1>4, <3>1
    <3>3. i \in 1..Len(events[a])
      BY <1>4, <3>1, <3>2
    <3> QED
      BY <1>4, <2>2, <3>1, <3>3 DEF ActedOn
  <2> QED
    BY <2>1, <2>2
<1> QED
  BY <1>5, <1>6, <1>7

\* A claim is a row one can lock.
LEMMA ClaimRows ==
  ASSUME TypeInv, NEW c \in UpdateCall \cup CreateCall, pc[c] # "idle"
  PROVE  ClaimRow(c) \in Lockable /\ ClaimRow(c) \in Operation \X Key
BY Begun DEF ClaimRow, Lockable, Operation

\* A step of one call that completes no claim.
LEMMA MoveKeepsClaims ==
  ASSUME TypeInv, ClaimInv, NEW c \in Call,
         \A d \in Call \ {c} : pc'[d] = pc[d] /\ arg'[d] = arg[d],
         pc[c] = "idle" \/ arg'[c] = arg[c],
         \A d \in Call \ {c} : \A row \in Lockable : lock[row] = d => lock'[row] = d,
         UNCHANGED idempotency,
         \A d \in Call, a \in App : ActedOn(d, a) => ActedOn(d, a)',
         \A d \in UpdateCall \cup CreateCall, a \in App : ActedOn(d, a)' => ActedOn(d, a),
         \A d \in Call \ {c}, a \in App : ActedOn(d, a)' => ActedOn(d, a),
         pc'[c] # "idle",
         c \in UpdateCall \cup CreateCall /\ pc'[c] \in SavingPC =>
           lock'[ClaimRow(c)'] = c /\ idempotency[ClaimRow(c)'] = None
  PROVE  ClaimInv'
<1>1. \A d \in Call : Acted(d) <=> \E a \in App : ActedOn(d, a)
  BY DEF Acted, ActedOn
<1>2. \A d \in Call : Acted(d)' <=> \E a \in App : ActedOn(d, a)'
  BY DEF Acted, ActedOn
<1>3. \A d \in UpdateCall \cup CreateCall : Acted(d)' => Acted(d)
  BY <1>1, <1>2
<1>4. \A d \in Call : Acted(d) => pc[d] # "idle" /\ arg'[d] = arg[d]
  BY DEF ClaimInv
<1>5. \A d \in Call : Acted(d)' => pc'[d] # "idle"
  BY <1>1, <1>2, <1>4
<1>6. ASSUME NEW d \in UpdateCall \cup CreateCall PROVE ClaimKnows(d)'
  <2>1. ClaimKnows(d)
    BY DEF ClaimInv
  <2>2. Acted(d)' => idempotency'[ClaimRow(d)'] # None
    BY <1>3, <1>4, <2>1 DEF ClaimKnows, ClaimRow
  <2>3. d # c /\ pc'[d] \in SavingPC => lock'[ClaimRow(d)'] = d /\ idempotency'[ClaimRow(d)'] = None
    <3>. SUFFICES ASSUME d # c, pc[d] \in SavingPC
                  PROVE  lock'[ClaimRow(d)'] = d /\ idempotency'[ClaimRow(d)'] = None
      OBVIOUS
    <3>1. ClaimRow(d)' = ClaimRow(d) /\ ClaimRow(d) \in Lockable
      BY ClaimRows DEF ClaimRow, SavingPC
    <3> QED
      BY <2>1, <3>1 DEF ClaimKnows
  <2> QED
    BY <2>2, <2>3 DEF ClaimKnows
<1>7. KeysActOnce'
  BY <1>3, <1>4 DEF ClaimInv, KeysActOnce
<1>8. ClaimsAreWitnessed'
  <2>. SUFFICES ASSUME NEW op \in Operation, NEW k \in Key, idempotency[<<op, k>>] # None
                PROVE  LET row == idempotency[<<op, k>>] IN
                       /\ row.response # None
                       /\ \E d \in Call :
                            /\ arg'[d] = [app |-> row.response, key |-> k, want |-> row.want]
                            /\ \E i \in DOMAIN events'[row.response] :
                                 events'[row.response][i].by = d
    BY DEF ClaimsAreWitnessed
  <2>. DEFINE row == idempotency[<<op, k>>]
  <2>1. row.response # None /\ row.response \in App
    BY DEF ClaimInv, ClaimsAreWitnessed, TypeInv, TypeOK, StoreTypeOK, Claim
  <2>2. PICK d \in Call : /\ arg[d] = [app |-> row.response, key |-> k, want |-> row.want]
                          /\ ActedOn(d, row.response)
    BY DEF ClaimInv, ClaimsAreWitnessed, ActedOn
  <2>3. arg'[d] = arg[d]
    BY <1>1, <1>4, <2>1, <2>2
  <2>4. \A a \in App : ActedOn(d, a) => \E i \in DOMAIN events'[a] : events'[a][i].by = d
    BY DEF ActedOn
  <2> QED
    BY <2>1, <2>2, <2>3, <2>4
<1> QED
  BY <1>5, <1>6, <1>7, <1>8 DEF ClaimInv

\* The transaction of an update or a creation: nobody else has completed the
\* claim, and nobody else ever will.
LEMMA SaveKeepsClaims ==
  ASSUME TypeInv, ClaimInv, NEW c \in UpdateCall \cup CreateCall, pc[c] \in SavingPC,
         Commit(c, "returned"), UNCHANGED arg,
         NEW app \in App \cup {None},
         idempotency' = [idempotency EXCEPT ![ClaimRow(c)] =
           [app |-> app, want |-> arg[c].want, response |-> arg[c].app]],
         NEW from \in ApplicationStatus \cup {Absent}, NEW to \in ApplicationStatus,
         events' = [events EXCEPT ![arg[c].app] =
           Append(@, [from |-> from, to |-> to, by |-> c])]
  PROVE  ClaimInv'
<1>1. /\ c \in Call /\ pc[c] # "idle" /\ arg[c].app \in App /\ arg[c].key \in Key
      /\ arg[c] \in Arguments /\ arg[c].want \in Wish
  BY Begun DEF SavingPC, TypeInv, TypeOK, CallTypeOK, Wish
<1>2. /\ lock[ClaimRow(c)] = c /\ idempotency[ClaimRow(c)] = None
      /\ ClaimRow(c) \in Lockable /\ ClaimRow(c) \in Operation \X Key
  BY <1>1, ClaimRows DEF ClaimInv, ClaimKnows
<1>. DEFINE row == [app |-> app, want |-> arg[c].want, response |-> arg[c].app]
<1>3. row \in Claim /\ row # None
  <2>1. row \in Claim
    BY <1>1 DEF Claim
  <2> QED
    BY <2>1, NoneIsNoRow
<1>4. /\ idempotency'[ClaimRow(c)] = row
      /\ \A r \in (Operation \X Key) \ {ClaimRow(c)} : idempotency'[r] = idempotency[r]
  BY <1>2 DEF TypeInv, TypeOK, StoreTypeOK
<1>5. /\ row.response = arg[c].app /\ row.want = arg[c].want
      /\ arg[c] = [app |-> row.response, key |-> arg[c].key, want |-> row.want]
  BY <1>1 DEF Arguments
<1>6. /\ \A d \in Call, b \in App : ActedOn(d, b) => ActedOn(d, b)'
      /\ \A d \in Call \ {c}, b \in App : ActedOn(d, b)' => ActedOn(d, b)
  BY <1>1, SavedByCaller
<1>7. ASSUME NEW a \in App, a = arg[c].app PROVE ActedOn(c, a)'
  BY <1>1, <1>7, SavedByCaller
<1>8. pc'[c] = "returned" /\ \A d \in Call \ {c} : pc'[d] = pc[d]
  BY <1>1 DEF Commit, Goto, TypeInv, TypeOK, CallTypeOK
<1>9. \A d \in Call \ {c} : \A r \in Lockable : lock[r] = d => lock'[r] = d
  BY <1>1, LocksOfOthers DEF Commit
<1>. HIDE DEF row
<1>10. \A d \in Call \ {c} : Acted(d)' => Acted(d)
  BY <1>6 DEF Acted, ActedOn
<1>11. \A d \in Call : Acted(d)' => pc'[d] # "idle"
  BY <1>8, <1>10 DEF ClaimInv
<1>12. ASSUME NEW d \in UpdateCall \cup CreateCall PROVE ClaimKnows(d)'
  <2>1. ClaimKnows(d) /\ ClaimRow(d)' = ClaimRow(d)
    BY DEF ClaimInv, ClaimRow
  <2>2. CASE d = c
    BY <1>3, <1>4, <1>8, <2>1, <2>2 DEF ClaimKnows, SavingPC
  <2>3. CASE d # c
    <3>1. pc[d] \in SavingPC => ClaimRow(d) \in Lockable /\ ClaimRow(d) \in Operation \X Key
      BY ClaimRows DEF SavingPC
    <3>2. pc[d] \in SavingPC => lock'[ClaimRow(d)] = d /\ idempotency'[ClaimRow(d)] = None
      BY <1>2, <1>4, <1>9, <2>1, <2>3, <3>1 DEF ClaimKnows
    <3>3. Acted(d) => idempotency'[ClaimRow(d)] # None
      <4>1. Acted(d) => ClaimRow(d) \in Operation \X Key
        BY ClaimRows DEF ClaimInv
      <4> QED
        BY <1>3, <1>4, <2>1, <4>1 DEF ClaimKnows
    <3> QED
      BY <1>8, <1>10, <2>1, <2>3, <3>2, <3>3 DEF ClaimKnows
  <2> QED
    BY <2>2, <2>3
<1>13. KeysActOnce'
  <2>. SUFFICES ASSUME NEW calls \in {UpdateCall, CreateCall}, NEW d \in calls, NEW e \in calls,
                       Acted(d)', Acted(e)', arg[d].key = arg[e].key
                PROVE  d = e
    BY DEF KeysActOnce
  <2>1. ClaimRow(d) = ClaimRow(e)
    BY CallsAreDistinct DEF ClaimRow
  <2>2. \A f \in calls : Acted(f) => idempotency[ClaimRow(f)] # None
    BY DEF ClaimInv, ClaimKnows
  <2>3. d # c /\ e # c => d = e
    BY <1>10 DEF ClaimInv, KeysActOnce
  <2> QED
    BY <1>2, <1>10, <2>1, <2>2, <2>3
<1>14. ClaimsAreWitnessed'
  <2>. SUFFICES ASSUME NEW op \in Operation, NEW k \in Key, idempotency'[<<op, k>>] # None
                PROVE  LET r == idempotency'[<<op, k>>] IN
                       /\ r.response # None
                       /\ \E d \in Call :
                            /\ arg[d] = [app |-> r.response, key |-> k, want |-> r.want]
                            /\ \E i \in DOMAIN events'[r.response] :
                                 events'[r.response][i].by = d
    BY DEF ClaimsAreWitnessed
  <2>1. \A d \in Call, a \in App : ActedOn(d, a) => \E i \in DOMAIN events'[a] : events'[a][i].by = d
    BY <1>6 DEF ActedOn
  <2>2. CASE <<op, k>> = ClaimRow(c)
    <3>1. k = arg[c].key
      BY <2>2 DEF ClaimRow
    <3>2. \E i \in DOMAIN events'[arg[c].app] : events'[arg[c].app][i].by = c
      <4>1. \A a \in App : a = arg[c].app => \E i \in DOMAIN events'[a] : events'[a][i].by = c
        BY <1>7 DEF ActedOn
      <4> QED
        BY <1>1, <4>1
    <3>3. arg[c].app # None
      BY <1>1, CallsAreDistinct
    <3>4. idempotency'[<<op, k>>] = row
      BY <1>4, <2>2
    <3> QED
      BY <1>1, <1>5, <3>1, <3>2, <3>3, <3>4
  <2>3. CASE <<op, k>> # ClaimRow(c)
    <3>1. idempotency'[<<op, k>>] = idempotency[<<op, k>>]
      BY <1>4, <2>3
    <3>. DEFINE r == idempotency[<<op, k>>]
    <3>2. r.response # None /\ r.response \in App
      BY <3>1 DEF ClaimInv, ClaimsAreWitnessed, TypeInv, TypeOK, StoreTypeOK, Claim
    <3>3. PICK d \in Call : /\ arg[d] = [app |-> r.response, key |-> k, want |-> r.want]
                            /\ ActedOn(d, r.response)
      BY <3>1 DEF ClaimInv, ClaimsAreWitnessed, ActedOn
    <3> QED
      BY <2>1, <3>1, <3>2, <3>3
  <2> QED
    BY <2>2, <2>3
<1> QED
  BY <1>11, <1>12, <1>13, <1>14 DEF ClaimInv

\* A step of one call that appends at most an event of its own, and is no
\* transaction of an update or a creation.
LEMMA EventKeepsClaims ==
  ASSUME TypeInv, ClaimInv, NEW c \in Call, NEW next, Goto(c, next),
         pc[c] # "idle", next # "idle", UNCHANGED arg, UNCHANGED idempotency,
         \A d \in Call \ {c} : \A row \in Lockable : lock[row] = d => lock'[row] = d,
         \/ UNCHANGED events
         \/ /\ c \notin UpdateCall \cup CreateCall
            /\ \E from \in ApplicationStatus \cup {Absent}, to \in ApplicationStatus :
                 SaveStatus(c, arg[c].app, from, to),
         c \in UpdateCall \cup CreateCall /\ next \in SavingPC =>
           lock'[ClaimRow(c)] = c /\ idempotency[ClaimRow(c)] = None
  PROVE  ClaimInv'
<1>1. pc'[c] = next /\ \A d \in Call \ {c} : pc'[d] = pc[d]
  BY DEF Goto, TypeInv, TypeOK, CallTypeOK
<1>2. ClaimRow(c)' = ClaimRow(c)
  BY DEF ClaimRow
<1>3. CASE UNCHANGED events
  BY <1>1, <1>2, <1>3, MoveKeepsClaims DEF ActedOn
<1>4. CASE c \notin UpdateCall \cup CreateCall /\ ~UNCHANGED events
  <2>1. PICK from \in ApplicationStatus \cup {Absent}, to \in ApplicationStatus :
          SaveStatus(c, arg[c].app, from, to)
    BY <1>4
  <2>2. arg[c].app \in App
    BY Begun
  <2>3. /\ \A d \in Call, b \in App : ActedOn(d, b) => ActedOn(d, b)'
        /\ \A d \in Call \ {c}, b \in App : ActedOn(d, b)' => ActedOn(d, b)
    BY <2>1, <2>2, SavedByCaller DEF SaveStatus
  <2> QED
    BY <1>1, <1>4, <2>3, MoveKeepsClaims
<1> QED
  BY <1>3, <1>4

\* The other services claim nothing.
LEMMA PrepareKeepsClaims ==
  ASSUME TypeInv, ClaimInv, NEW c \in PrepareCall, PrepareStep(c)
  PROVE  ClaimInv'
<1>1. c \in Call /\ c \notin UpdateCall \cup CreateCall /\ pc[c] # "idle"
  BY CallsAreDistinct DEF PrepareStep, PrepareFind, PrepareSaveApplication, PrepareAddFails,
     PrepareAdd, PreparePost, PrepareAnswer, PrepareReadApplication, PrepareRequireStarting,
     PrepareSaveReady, PrepareSave
<1>2. UNCHANGED arg /\ UNCHANGED idempotency
  BY DEF PrepareStep, PrepareFind, PrepareSaveApplication, PrepareAddFails, PrepareAdd,
     PreparePost, PrepareAnswer, PrepareReadApplication, PrepareRequireStarting,
     PrepareSaveReady, PrepareSave, tables
<1>3. \/ UNCHANGED events
      \/ \E from \in ApplicationStatus \cup {Absent}, to \in ApplicationStatus :
           SaveStatus(c, arg[c].app, from, to)
  <2>1. "saved" \in ApplicationStatus /\ "preparing" \in ApplicationStatus
        /\ "ready_to_apply" \in ApplicationStatus
    BY DEF ApplicationStatus
  <2> QED
    BY <2>1 DEF PrepareStep, PrepareFind, PrepareSaveApplication, PrepareAddFails, PrepareAdd,
       PreparePost, PrepareAnswer, PrepareReadApplication, PrepareRequireStarting,
       PrepareSaveReady, PrepareSave, tables
<1>4. \E next : Goto(c, next) /\ next # "idle"
  BY DEF PrepareStep, PrepareFind, PrepareSaveApplication, PrepareAddFails, PrepareAdd,
     PreparePost, PrepareAnswer, PrepareReadApplication, PrepareRequireStarting,
     PrepareSaveReady, PrepareSave, ReadApplication, Proceed, Commit
<1>5. \/ UNCHANGED lock
      \/ Release(c)
      \/ \E row \in Lockable : Acquire(c, row)
      \/ \E next : Proceed(c, next)
  <2>1. ApplicationRow(arg[c].app) \in Lockable
    BY <1>1, Begun, RowsAreLockable
  <2> QED
    BY <2>1 DEF PrepareStep, PrepareFind, PrepareSaveApplication, PrepareAddFails, PrepareAdd,
       PreparePost, PrepareAnswer, PrepareReadApplication, PrepareRequireStarting,
       PrepareSaveReady, PrepareSave, ReadApplication, Commit
<1>6. \A d \in Call \ {c} : \A row \in Lockable : lock[row] = d => lock'[row] = d
  BY <1>1, <1>5, LocksOfOthers
<1> QED
  BY <1>1, <1>2, <1>3, <1>4, <1>6, EventKeepsClaims

\* A review call claims no key.
LEMMA ReviewKeepsClaims ==
  ASSUME TypeInv, ClaimInv, NEW c \in ReviewCall, ReviewStep(c)
  PROVE  ClaimInv'
<1>1. c \in Call /\ c \notin UpdateCall \cup CreateCall /\ pc[c] # "idle"
  BY CallsAreDistinct DEF ReviewStep, ReviewFindKey, ReviewLockFails, ReviewLock, ReviewRecheck,
     ReviewFindUnresolved, ReviewAddFails, ReviewAdd, ReviewPost, ReviewAnswer, ReviewLockAgain,
     ReviewReadApplication, ReviewRequireSubmitting, ReviewSaveReady, ReviewSave
<1>2. UNCHANGED arg /\ UNCHANGED idempotency
  BY DEF ReviewStep, ReviewFindKey, ReviewLockFails, ReviewLock, ReviewRecheck,
     ReviewFindUnresolved, ReviewAddFails, ReviewAdd, ReviewPost, ReviewAnswer, ReviewLockAgain,
     ReviewReadApplication, ReviewRequireSubmitting, ReviewSaveReady, ReviewSave, tables
<1>3. \/ UNCHANGED events
      \/ \E from \in ApplicationStatus \cup {Absent}, to \in ApplicationStatus :
           SaveStatus(c, arg[c].app, from, to)
  <2>1. "preparing" \in ApplicationStatus /\ "ready_to_apply" \in ApplicationStatus
    BY DEF ApplicationStatus
  <2> QED
    BY <2>1 DEF ReviewStep, ReviewFindKey, ReviewLockFails, ReviewLock, ReviewRecheck,
       ReviewFindUnresolved, ReviewAddFails, ReviewAdd, ReviewPost, ReviewAnswer, ReviewLockAgain,
       ReviewReadApplication, ReviewRequireSubmitting, ReviewSaveReady, ReviewSave, tables
<1>4. \E next : Goto(c, next) /\ next # "idle"
  BY DEF ReviewStep, ReviewFindKey, ReviewLockFails, ReviewLock, ReviewRecheck,
     ReviewFindUnresolved, ReviewAddFails, ReviewAdd, ReviewPost, ReviewAnswer, ReviewLockAgain,
     ReviewReadApplication, ReviewRequireSubmitting, ReviewSaveReady, ReviewSave, Lookup,
     ReadApplication, Proceed, Commit
<1>5. \/ UNCHANGED lock
      \/ Release(c)
      \/ \E row \in Lockable : Acquire(c, row)
      \/ \E next : Proceed(c, next)
  <2>1. ApplicationRow(arg[c].app) \in Lockable /\ PreparationRow(arg[c].app) \in Lockable
    BY <1>1, Begun, RowsAreLockable
  <2> QED
    BY <2>1 DEF ReviewStep, ReviewFindKey, ReviewLockFails, ReviewLock, ReviewRecheck,
       ReviewFindUnresolved, ReviewAddFails, ReviewAdd, ReviewPost, ReviewAnswer, ReviewLockAgain,
       ReviewReadApplication, ReviewRequireSubmitting, ReviewSaveReady, ReviewSave,
       ReadApplication, Commit
<1>6. \A d \in Call \ {c} : \A row \in Lockable : lock[row] = d => lock'[row] = d
  BY <1>1, <1>5, LocksOfOthers
<1> QED
  BY <1>1, <1>2, <1>3, <1>4, <1>6, EventKeepsClaims

\* Nor does a call that reads.
LEMMA ReadKeepsClaims ==
  ASSUME TypeInv, ClaimInv, NEW c \in ReadCall, ReadStep(c)
  PROVE  ClaimInv'
<1>1. /\ c \in Call /\ c \notin UpdateCall \cup CreateCall /\ pc[c] # "idle"
      /\ UNCHANGED arg /\ UNCHANGED idempotency /\ UNCHANGED events
      /\ \E next : Goto(c, next) /\ next # "idle"
      /\ UNCHANGED lock \/ \E next : Proceed(c, next)
  BY CallsAreDistinct DEF ReadStep, ReadFind, ReadGet, ReadFails, Proceed, tables
<1>2. \A d \in Call \ {c} : \A row \in Lockable : lock[row] = d => lock'[row] = d
  BY <1>1, LocksOfOthers
<1> QED
  BY <1>1, <1>2, EventKeepsClaims

\* The claim is taken before anything is written, and only if it is free.
LEMMA ClaimKeepsClaims ==
  ASSUME TypeInv, ClaimInv, NEW c \in UpdateCall \cup CreateCall,
         \/ c \in UpdateCall /\ (UpdateReplay(c) \/ UpdateClaim(c))
         \/ c \in CreateCall /\ (CreateReplay(c) \/ CreateClaim(c))
  PROVE  ClaimInv'
<1>1. /\ c \in Call /\ pc[c] # "idle" /\ UNCHANGED arg /\ UNCHANGED idempotency
      /\ UNCHANGED events
  BY DEF UpdateReplay, UpdateClaim, CreateReplay, CreateClaim, tables
<1>2. ClaimRow(c) \in Lockable
  BY <1>1, ClaimRows
<1>3. \/ Acquire(c, ClaimRow(c)) /\ idempotency[ClaimRow(c)] = None
           /\ \E next \in SavingPC : Goto(c, next)
      \/ \E next : Proceed(c, next) /\ next \notin SavingPC \cup {"idle"}
  BY CallsAreDistinct DEF UpdateReplay, UpdateClaim, CreateReplay, CreateClaim, Resolve, ClaimKey,
     ClaimRow, SavingPC
<1>4. \A d \in Call \ {c} : \A row \in Lockable : lock[row] = d => lock'[row] = d
  BY <1>1, <1>2, <1>3, LocksOfOthers
<1>5. Acquire(c, ClaimRow(c)) => lock'[ClaimRow(c)] = c
  BY <1>2 DEF Acquire, TypeInv, TypeOK, StoreTypeOK
<1>6. PICK next : /\ Goto(c, next) /\ next # "idle"
                  /\ next \in SavingPC =>
                       lock'[ClaimRow(c)] = c /\ idempotency[ClaimRow(c)] = None
  BY <1>3, <1>5 DEF Proceed, SavingPC
<1> QED
  BY <1>1, <1>4, <1>6, EventKeepsClaims

\* The write of the status and its claim are one transaction.
LEMMA WriteKeepsClaims ==
  ASSUME TypeInv, ClaimInv, NEW c \in UpdateCall \cup CreateCall,
         \/ c \in UpdateCall /\ UpdateSave(c)
         \/ c \in CreateCall /\ CreateSave(c)
  PROVE  ClaimInv'
<1>1. CASE c \in UpdateCall /\ UpdateSave(c)
  <2>1. /\ arg[c].app \in App /\ arg[c].want \in ApplicationStatus
        /\ seen[c] \in ApplicationStatus \cup {Absent}
    BY <1>1, Begun, TargetsAreStatuses DEF UpdateSave, TypeInv, TypeOK, CallTypeOK
  <2> QED
    BY <1>1, <2>1, SaveKeepsClaims DEF UpdateSave, SaveStatus, CompleteClaim, ClaimRow, SavingPC
<1>2. CASE c \in CreateCall /\ CreateSave(c)
  <2>1. c \notin UpdateCall /\ "saved" \in ApplicationStatus
    BY <1>2, CallsAreDistinct DEF ApplicationStatus
  <2> QED
    BY <1>2, <2>1, SaveKeepsClaims DEF CreateSave, Created, CompleteClaim, ClaimRow, SavingPC
<1> QED
  BY <1>1, <1>2

\* A call that begins has not claimed anything.
LEMMA ArriveKeepsClaims ==
  ASSUME TypeInv, ClaimInv, Arrive
  PROVE  ClaimInv'
<1>1. PICK c \in Call : /\ pc[c] = "idle"
                        /\ \E given : arg' = [arg EXCEPT ![c] = given]
                        /\ \E next : /\ Goto(c, next) /\ next \notin SavingPC \cup {"idle"}
                                     /\ UNCHANGED lock \/ Proceed(c, next)
  BY DEF Arrive, PrepareBegin, ReviewBegin, UpdateBegin, CreateBegin, ReadBegin,
     ReadApplication, Proceed, SavingPC
<1>2. UNCHANGED idempotency /\ UNCHANGED events
  BY DEF Arrive, PrepareBegin, ReviewBegin, UpdateBegin, CreateBegin, ReadBegin, tables
<1>3. /\ \A d \in Call \ {c} : pc'[d] = pc[d] /\ arg'[d] = arg[d]
      /\ pc'[c] \notin SavingPC \cup {"idle"}
  BY <1>1 DEF Goto, TypeInv, TypeOK, CallTypeOK
<1>4. \A d \in Call \ {c} : \A row \in Lockable : lock[row] = d => lock'[row] = d
  BY <1>1, LocksOfOthers
<1> QED
  BY <1>1, <1>2, <1>3, <1>4, MoveKeepsClaims DEF ActedOn

\* Every step.
LEMMA NextKeepsClaims == TypeInv /\ ClaimInv /\ [Next]_vars => ClaimInv'
<1>. SUFFICES ASSUME TypeInv, ClaimInv, [Next]_vars PROVE ClaimInv'
  OBVIOUS
<1>1. CASE Advance
  BY <1>1, PrepareKeepsClaims, ReviewKeepsClaims, ReadKeepsClaims, ClaimKeepsClaims,
     WriteKeepsClaims DEF Advance, UpdateStep, CreateStep
<1>2. ASSUME NEW c \in Call, Crash(c) PROVE ClaimInv'
  <2>1. /\ UNCHANGED arg /\ UNCHANGED idempotency /\ UNCHANGED events
        /\ Proceed(c, "crashed") /\ pc[c] # "idle"
    BY <1>2 DEF Crash, Running, tables
  <2>2. \A d \in Call \ {c} : \A row \in Lockable : lock[row] = d => lock'[row] = d
    BY <2>1, LocksOfOthers
  <2> QED
    BY <2>1, <2>2, EventKeepsClaims DEF Proceed, SavingPC
<1>3. CASE EngineStep \/ UNCHANGED vars
  <2>1. UNCHANGED <<pc, arg, lock, idempotency, events>>
    BY <1>3 DEF EngineStep, vars, tables
  <2> QED
    BY <2>1 DEF ClaimInv, ClaimKnows, ClaimRow, Acted, KeysActOnce, ClaimsAreWitnessed
<1> QED
  BY <1>1, <1>2, <1>3, ArriveKeepsClaims DEF Next

\* No call is the author of an event to begin with.
LEMMA ClaimsBegin == Init => ClaimInv
<1>. SUFFICES ASSUME Init PROVE ClaimInv
  OBVIOUS
<1>1. \A c \in Call : ~Acted(c)
  <2>. SUFFICES ASSUME NEW c \in Call, NEW a \in App, NEW i \in DOMAIN events[a],
                       events[a][i].by = c
                PROVE  FALSE
    BY DEF Acted
  <2>1. events[a] = IF a \in Seeded THEN <<Created(None)>> ELSE <<>>
    BY DEF Init, StoreInit
  <2>2. CASE a \in Seeded
    BY <2>1, <2>2, CallsAreDistinct DEF Created
  <2>3. CASE a \notin Seeded
    BY <2>1, <2>3
  <2> QED
    BY <2>2, <2>3
<1>2. /\ \A c \in Call : pc[c] = "idle"
      /\ \A r \in Operation \X Key : idempotency[r] = None
  BY DEF Init, CallInit, StoreInit
<1>3. ClaimsAreWitnessed
  BY <1>2 DEF ClaimsAreWitnessed
<1> QED
  BY <1>1, <1>2, <1>3 DEF ClaimInv, ClaimKnows, SavingPC, KeysActOnce

\* A key updates or creates an application at most once, however often the
\* request is repeated (CreateApplicationService, UpdateApplicationStatusService,
\* SqlAlchemyIdempotencyRepository.claim).
THEOREM RetriesActOnce == Spec => []KeysActOnce
<1>1. TypeInv /\ ClaimInv /\ [Next]_vars => ClaimInv'
  BY NextKeepsClaims
<1>2. ClaimInv => KeysActOnce
  BY DEF ClaimInv
<1> QED
  BY <1>1, <1>2, ClaimsBegin, CallsKnowTheirRows, PTL DEF Spec

\* What a retry is answered from a committed claim happened, by a call with the
\* same key and the same request (resolve_idempotency_claim).
THEOREM AnswersAreWitnessed == Spec => []ClaimsAreWitnessed
<1>1. TypeInv /\ ClaimInv /\ [Next]_vars => ClaimInv'
  BY NextKeepsClaims
<1>2. ClaimInv => ClaimsAreWitnessed
  BY DEF ClaimInv
<1> QED
  BY <1>1, <1>2, ClaimsBegin, CallsKnowTheirRows, PTL DEF Spec

=============================================================================
