------------------------ MODULE ApplicationLifecycle ------------------------
(***************************************************************************)
(* The lifecycle of a job application: the statuses and the transitions    *)
(* the domain model accepts (domain/application_lifecycle.py).             *)
(***************************************************************************)

ApplicationStatus ==
  {"saved", "preparing", "ready_to_apply", "applied", "interviewing",
   "offer", "rejected", "withdrawn", "closed"}

\* _ALLOWED_TRANSITIONS, as a relation.
AllowedTransitions ==
  ({"saved"} \X {"preparing", "withdrawn"})
    \cup ({"preparing"} \X {"ready_to_apply", "withdrawn"})
    \cup ({"ready_to_apply"} \X {"applied", "withdrawn"})
    \cup ({"applied"} \X {"interviewing", "rejected", "withdrawn"})
    \cup ({"interviewing"} \X {"offer", "rejected", "withdrawn"})
    \cup ({"offer"} \X {"closed", "withdrawn"})
    \cup ({"rejected", "withdrawn"} \X {"closed"})

\* ensure_valid_status_transition accepts the step.
ValidTransition(current, next) == <<current, next>> \in AllowedTransitions

=============================================================================
