-------------------------------- MODULE Mailbox --------------------------------
(***************************************************************************)
(* What the command queue promises, with no rows, requests or retries: a   *)
(* message is posted to one reader, and either withdrawn or handed to that *)
(* reader, once, and leaving no older one behind that waits for the reader *)
(* -- save one that was posted late, after a younger one.  A hand-over may *)
(* still take a message that was withdrawn a moment ago, and withdraws     *)
(* what it finds stale; none is promised (apps/agents/services.py,         *)
(* issue_rescan_command and collect_pending_commands).                     *)
(***************************************************************************)
EXTENDS Naturals

CONSTANTS
  Message,    \* numbered by the time they bear
  Reader,     \* whom messages are for
  NoReader    \* the addressee of a message not posted yet

VARIABLES
  addressee,  \* the reader each message was posted to
  late,       \* the messages posted to a reader after a younger one
  waiting,    \* the messages that are neither withdrawn nor handed over
  handed      \* how many times each message was handed over

vars == <<addressee, late, waiting, handed>>

Init ==
  /\ addressee = [m \in Message |-> NoReader]
  /\ late = {}
  /\ waiting = {}
  /\ handed = [m \in Message |-> 0]

Post(m, r) ==
  /\ addressee[m] = NoReader
  /\ late' = IF \E n \in Message : n > m /\ addressee[n] = r
             THEN late \cup {m} ELSE late
  /\ addressee' = [addressee EXCEPT ![m] = r]
  /\ waiting' = waiting \cup {m}
  /\ UNCHANGED handed

(* Expired, deleted, or sent in an answer that nobody received. *)
Withdraw ==
  /\ waiting' \in SUBSET waiting
  /\ UNCHANGED <<addressee, late, handed>>

Hand(r) ==
  \E batch \in SUBSET {m \in Message : addressee[m] = r /\ handed[m] = 0} :
    /\ waiting' \in SUBSET (waiting \ batch)
    /\ \A m \in batch, n \in waiting' : n < m /\ addressee[n] = r => n \in late
    /\ handed' = [m \in Message |-> IF m \in batch THEN 1 ELSE handed[m]]
    /\ UNCHANGED <<addressee, late>>

Next ==
  \/ Withdraw
  \/ \E r \in Reader : Hand(r) \/ \E m \in Message : Post(m, r)

Spec == Init /\ [][Next]_vars
===============================================================================
