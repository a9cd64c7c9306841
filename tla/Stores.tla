------------------------------- MODULE Stores --------------------------------
(***************************************************************************)
(* The services are built over a factory of units of work: over PostgreSQL *)
(* (infrastructure/database), as the hub is deployed, or over dictionaries *)
(* (infrastructure/memory), as the tests and local runs build it.  What is *)
(* promised of the services is promised over either.                       *)
(***************************************************************************)
EXTENDS MemoryHub

VARIABLE store   \* the one the services were built over

allVars == <<vars, store>>

StoresInit == Init /\ store \in {"postgresql", "memory"}

StoresNext ==
  /\ \/ store = "postgresql" /\ Next
     \/ store = "memory" /\ MemNext
  /\ UNCHANGED store

StoresSpec == StoresInit /\ [][StoresNext]_allVars

-----------------------------------------------------------------------------
\* What a retry is answered really happened.  PostgreSQL keeps no claim without
\* its response; the dictionaries keep one of a refused request, and never
\* answer with it.
ClaimsAreTrue ==
  IF store = "postgresql" THEN ClaimsAreWitnessed ELSE StoredAnswersAreTrue

\* Over the dictionaries, whose transactions never interleave, no status that a
\* client set is overwritten by a preparation that read it before
\* (memory/repositories.py; over PostgreSQL one can be).
MemoryTransitionsAreLegal ==
  [][store = "memory" =>
       \A a \in App : application'[a] # application[a] =>
         \/ application[a] = Absent /\ application'[a] = "saved"
         \/ ValidTransition(application[a], application'[a])]_allVars

=============================================================================
