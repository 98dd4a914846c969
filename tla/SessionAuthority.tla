--------------------------- MODULE SessionAuthority ---------------------------
(***************************************************************************)
(* What the enrollment half of the server promises, with no rows, tokens   *)
(* or requests: a machine has at most one session, a session is opened at  *)
(* most once in the life of the system, and a session that was closed or   *)
(* replaced never comes back.  A session stands for one enrollment and is  *)
(* named by the JTI of its refresh token (apps/agents/services.py,         *)
(* enroll_agent: "Idempotent on `machine_id`").                            *)
(***************************************************************************)
CONSTANTS
  Machine,    \* the machines that can enroll
  Session,    \* the names sessions are drawn from
  NoSession   \* the absence of a session, not one of them

VARIABLES
  current,    \* the session each machine is in, or NoSession
  used        \* the sessions that were ever named

vars == <<current, used>>

Init ==
  /\ current = [m \in Machine |-> NoSession]
  /\ used = {}

(* An enrollment replaces whatever session m was in by a brand-new one. *)
Open(m) ==
  \E s \in Session \ used :
    /\ current' = [current EXCEPT ![m] = s]
    /\ used' = used \cup {s}

(* A revocation, or the deletion of the device. *)
Close(m) ==
  /\ current[m] # NoSession
  /\ current' = [current EXCEPT ![m] = NoSession]
  /\ UNCHANGED used

(* A session that was named but never entered the books. *)
Waste ==
  \E s \in Session \ used :
    /\ used' = used \cup {s}
    /\ UNCHANGED current

Next == Waste \/ \E m \in Machine : Open(m) \/ Close(m)

Spec == Init /\ [][Next]_vars
===============================================================================
