------------------------------ MODULE HubCalls ------------------------------
(***************************************************************************)
(* The calls the Automation Hub is serving.  Each element of a call set is *)
(* one execution of an application service (one MCP tool call), a coroutine *)
(* that alternates database transactions with one request to the Agent     *)
(* Engine.  A client retry is another call with the same arguments.        *)
(*                                                                         *)
(*   pc[c]       the statement the call executes next, or how it ended     *)
(*   arg[c]      its arguments: application, idempotency key, and what it  *)
(*               asks for (a decision, a target status, a new content)     *)
(*   seen[c]     the application status its last plain SELECT returned     *)
(*   verdict[c]  what the call concluded from the Agent Engine's answer    *)
(***************************************************************************)
EXTENDS Naturals, Sequences, FiniteSets, ApplicationLifecycle

CONSTANTS
  App,           \* application identifiers
  Key,           \* idempotency keys
  Decision,      \* human review decisions
  Content,       \* (company, role) pairs of new applications
  Target,        \* statuses clients ask update_application_status for
  PrepareCall,   \* calls of PrepareApplicationService.execute
  ReviewCall,    \* calls of ReviewApplicationService.execute
  UpdateCall,    \* calls of UpdateApplicationStatusService.execute
  CreateCall,    \* calls of CreateApplicationService.execute
  ReadCall,      \* calls of GetApplicationAnalysisService.execute
  None           \* no value

VARIABLES pc, arg, seen, verdict

Call == PrepareCall \cup ReviewCall \cup UpdateCall \cup CreateCall \cup ReadCall

ASSUME CallsAreDistinct ==
  /\ PrepareCall \cap (ReviewCall \cup UpdateCall \cup CreateCall \cup ReadCall) = {}
  /\ ReviewCall \cap (UpdateCall \cup CreateCall \cup ReadCall) = {}
  /\ UpdateCall \cap (CreateCall \cup ReadCall) = {}
  /\ CreateCall \cap ReadCall = {}
  /\ None \notin Call \cup App \cup Key \cup Decision \cup Content

ASSUME TargetsAreStatuses == Target \subseteq ApplicationStatus

Absent == "absent"

\* How a call can end: its result, or the exception it raises.
Ended ==
  {"returned", "replayed", "not_found", "invalid_transition", "blocked",
   "conflict", "replay_unavailable", "integrity_error", "agent_error",
   "unavailable", "inconsistent", "crashed"}

PreparePC ==
  {"prepare:find", "prepare:save_application", "prepare:add",
   "prepare:post", "prepare:await", "prepare:read_application",
   "prepare:require_starting", "prepare:save_ready", "prepare:save"}

ReviewPC ==
  {"review:find_key", "review:lock", "review:recheck",
   "review:find_unresolved", "review:add", "review:post", "review:await",
   "review:lock_again", "review:read_application",
   "review:require_submitting", "review:save_ready", "review:save"}

UpdatePC == {"update:claim", "update:save"}

CreatePC == {"create:claim", "create:save"}

ReadPC == {"read:find", "read:get"}

PC == {"idle"} \cup Ended
        \cup PreparePC \cup ReviewPC \cup UpdatePC \cup CreatePC \cup ReadPC

Wish == Decision \cup Target \cup Content

Arguments == [app : App \cup {None}, key : Key \cup {None}, want : Wish \cup {None}]

Verdict == {"awaiting_review", "completed", "failed", "outcome_unknown"}

NoArguments == [app |-> None, key |-> None, want |-> None]

CallTypeOK ==
  /\ pc \in [Call -> PC]
  /\ arg \in [Call -> Arguments]
  /\ seen \in [Call -> ApplicationStatus \cup {Absent}]
  /\ verdict \in [Call -> Verdict \cup {None}]

CallInit ==
  /\ pc = [c \in Call |-> "idle"]
  /\ arg = [c \in Call |-> NoArguments]
  /\ seen = [c \in Call |-> Absent]
  /\ verdict = [c \in Call |-> None]

Goto(c, next) == pc' = [pc EXCEPT ![c] = next]

Running(c) == pc[c] \notin Ended \cup {"idle"}

=============================================================================
