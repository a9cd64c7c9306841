----------------------- MODULE GetApplicationAnalysis -----------------------
(***************************************************************************)
(* GetApplicationAnalysisService: read the thread the preparation names    *)
(* back from the Agent Engine (application/services/                       *)
(* get_application_analysis.py).  The reads and the GET change nothing.    *)
(***************************************************************************)
EXTENDS HubStore

ReadBegin(c, a) ==
  /\ pc[c] = "idle"
  /\ arg' = [arg EXCEPT ![c].app = a]
  /\ ReadApplication(c, a, "read:find")
  /\ UNCHANGED <<tables, verdict, engine>>

\* ApplicationAnalysisUnavailableError unless the preparation has a thread.
ReadFind(c) ==
  LET t == preparation[arg[c].app].thread IN
  /\ pc[c] = "read:find"
  /\ target' = [target EXCEPT ![c] = t]
  /\ Proceed(c, IF t = None THEN "unavailable" ELSE "read:get")
  /\ UNCHANGED <<tables, arg, seen, verdict, post, thread, applied>>

\* get_job_analysis answers with the status of the thread as it is now ...
ReadGet(c) ==
  /\ pc[c] = "read:get"
  /\ verdict' = [verdict EXCEPT ![c] = thread[target[c]]]
  /\ Goto(c, "returned")
  /\ UNCHANGED <<tables, lock, arg, seen, engine>>

\* ... or fails, like any request to the engine.
ReadFails(c) ==
  /\ pc[c] = "read:get"
  /\ Goto(c, "agent_error")
  /\ UNCHANGED <<tables, lock, arg, seen, verdict, engine>>

ReadStep(c) ==
  \/ ReadFind(c)
  \/ ReadGet(c)
  \/ ReadFails(c)

=============================================================================
