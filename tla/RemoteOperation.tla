-------------------------- MODULE RemoteOperation ---------------------------
(***************************************************************************)
(* What the hub promises of an operation it has the Agent Engine perform:  *)
(* it is claimed once, requested at most once, and the record of it never  *)
(* says more than is known.  An operation recorded as succeeded was        *)
(* performed, one recorded as failed was not and will not be, and of one   *)
(* in doubt nothing is claimed, now or later.  Operations that act on the  *)
(* same thing are not claimed while another of them is unresolved.         *)
(***************************************************************************)
CONSTANTS
  Operation,     \* the operations
  Scope,         \* what they act on
  NoScope

VARIABLES
  state,         \* what the record says of an operation
  scope,         \* what it acts on, once claimed
  performed      \* the operations the remote party has carried out

vars == <<state, scope, performed>>

State == {"open", "claimed", "requested", "succeeded", "failed", "in_doubt"}

Unresolved(s) ==
  {o \in Operation : scope[o] = s /\ state[o] \in {"claimed", "requested", "in_doubt"}}

Init ==
  /\ state = [o \in Operation |-> "open"]
  /\ scope = [o \in Operation |-> NoScope]
  /\ performed = {}

Claim(o, s) ==
  /\ state[o] = "open"
  /\ Unresolved(s) = {}
  /\ state' = [state EXCEPT ![o] = "claimed"]
  /\ scope' = [scope EXCEPT ![o] = s]
  /\ UNCHANGED performed

Request(o) ==
  /\ state[o] = "claimed"
  /\ state' = [state EXCEPT ![o] = "requested"]
  /\ UNCHANGED <<scope, performed>>

\* The remote party acts at any time after the request, once.
Perform(o) ==
  /\ state[o] \in {"requested", "in_doubt"}
  /\ o \notin performed
  /\ performed' = performed \cup {o}
  /\ UNCHANGED <<state, scope>>

Record(o, s) ==
  /\ state[o] = "requested"
  /\ s = "succeeded" => o \in performed
  /\ s = "failed" => o \notin performed
  /\ state' = [state EXCEPT ![o] = s]
  /\ UNCHANGED <<scope, performed>>

Next ==
  \E o \in Operation :
    \/ \E s \in Scope : Claim(o, s)
    \/ Request(o)
    \/ Perform(o)
    \/ \E s \in {"succeeded", "failed", "in_doubt"} : Record(o, s)

Spec == Init /\ [][Next]_vars

=============================================================================
