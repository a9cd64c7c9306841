----------------------------- MODULE CareerOpsHub ----------------------------
(***************************************************************************)
(* The Automation Hub: every service over one database and one Agent       *)
(* Engine, any number of calls in progress, any of which may die at any    *)
(* step.                                                                   *)
(***************************************************************************)
EXTENDS PrepareApplication, ReviewApplication, UpdateApplicationStatus,
        CreateApplication, GetApplicationAnalysis

vars == <<pc, arg, seen, verdict, engine, tables, lock>>

TypeOK == CallTypeOK /\ EngineTypeOK /\ StoreTypeOK

Init == CallInit /\ EngineInit /\ StoreInit

Arrive ==
  \/ \E c \in PrepareCall, a \in App : PrepareBegin(c, a)
  \/ \E c \in ReviewCall, a \in App, k \in Key, d \in Decision : ReviewBegin(c, a, k, d)
  \/ \E c \in UpdateCall, a \in App, k \in Key, s \in Target : UpdateBegin(c, a, k, s)
  \/ \E c \in CreateCall, a \in App, k \in Key, w \in Content : CreateBegin(c, a, k, w)
  \/ \E c \in ReadCall, a \in App : ReadBegin(c, a)

EngineStep ==
  /\ \/ \E c \in PrepareCall : EngineAnalyse(c)
     \/ \E c \in ReviewCall : EngineReview(c)
  /\ UNCHANGED <<pc, arg, seen, verdict, tables, lock>>

\* A call that has begun executes its next statement.
Advance ==
  \/ \E c \in PrepareCall : PrepareStep(c)
  \/ \E c \in ReviewCall : ReviewStep(c)
  \/ \E c \in UpdateCall : UpdateStep(c)
  \/ \E c \in CreateCall : CreateStep(c)
  \/ \E c \in ReadCall : ReadStep(c)

Next ==
  \/ Arrive
  \/ EngineStep
  \/ Advance
  \/ \E c \in Call : Crash(c)

Spec == Init /\ [][Next]_vars

\* The event loop keeps running coroutines that can proceed, PostgreSQL grants
\* a lock whose holder has ended, and the client's read timeout ends every wait
\* for the engine.  Nothing makes the engine act, or a call arrive or die.
Fairness ==
  /\ \A c \in PrepareCall : WF_vars(PrepareStep(c))
  /\ \A c \in ReviewCall : WF_vars(ReviewStep(c))
  /\ \A c \in UpdateCall : WF_vars(UpdateStep(c))
  /\ \A c \in CreateCall : WF_vars(CreateStep(c))
  /\ \A c \in ReadCall : WF_vars(ReadStep(c))

FairSpec == Spec /\ Fairness

=============================================================================
