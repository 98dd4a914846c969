------------------------------ MODULE CommandQueue ------------------------------
(***************************************************************************)
(* Rescan commands from the operator's click to the agent's ack: the rows  *)
(* of agents_command, the workers that queue, collect, expire and          *)
(* acknowledge them, and the one thread of each agent that polls for them. *)
(*                                                                         *)
(*   rescan, rescan_now          apps/api/v1/assets.py, apps/assets/admin  *)
(*   heartbeat, command_ack      apps/api/v1/agents.py                     *)
(*   collect_pending_commands,                                             *)
(*   acknowledge_command         apps/agents/services.py                   *)
(*   expire_old_commands         apps/agents/tasks.py                      *)
(*   heartbeat, ack_command      agent/azurscan_agent/transport.py         *)
(*                                                                         *)
(* A request that authenticated keeps the Agent row it read while others   *)
(* revoke, re-enroll or delete it.  A request that timed out at the client *)
(* goes on in its worker, next to the retry tenacity sends: that is how    *)
(* one single-threaded agent comes to have two requests in the server.     *)
(* Commands are numbered by created_at, the order they are read in; the    *)
(* number is drawn in Python, before the INSERT that brings in the row.    *)
(***************************************************************************)
EXTENDS Naturals, FiniteSets

CONSTANTS
  Agent,        \* enrolled agents
  NoAgent,      \* the agent of a command not created yet
  Worker,       \* the server's request handlers
  NoWorker,     \* what an agent waits for when it waits for no answer
  Limit,        \* collect_pending_commands(limit=20)
  MaxCommands,  \* bound: commands ever created
  MaxEnroll     \* bound: nobody re-enrolls once one agent did so this often

ASSUME NoAgentAssumption == NoAgent \notin Agent
ASSUME NoWorkerAssumption == NoWorker \notin Worker
ASSUME LimitAssumption == Limit \in Nat \ {0}
ASSUME MaxCommandsAssumption == MaxCommands \in Nat
ASSUME MaxEnrollAssumption == MaxEnroll \in Nat

Command == 1 .. MaxCommands

VARIABLES
  agent,      \* "active", "revoked" or "deleted": the row of each agent
  session,    \* how many times each agent re-enrolled
  cmd_agent,  \* \
  status,     \*  | the columns of each command; "absent", "deleted": no row
  lapsed,     \* /  the commands with expires_at < now
  created,    \* how many values of created_at were drawn
  late,       \* the commands inserted after a younger one of their agent
  req,        \* the request each worker is in the middle of
  awaiting,   \* the worker whose answer each agent's thread is blocked on
  inbox,      \* the commands an agent has received and not yet dealt with
  delivered   \* how many times each command was received by an agent

row == <<agent, session>>
table == <<cmd_agent, status, lapsed, created, late>>
client == <<awaiting, inbox, delivered>>
vars == <<row, table, req, client>>

Idle == [op |-> "idle"]
Request == {Idle}
             \cup [op : {"rescan"}, agent : Agent, id : Command]
             \cup [op : {"heartbeat"}, agent : Agent, session : Nat]
             \cup [op : {"collect"}, agent : Agent, ids : SUBSET Command,
                   stale : SUBSET Command]
             \cup [op : {"ack"}, agent : Agent, id : Command]

Status == {"absent", "queued", "dispatched", "acked", "expired", "deleted"}

TypeOK ==
  /\ agent \in [Agent -> {"active", "revoked", "deleted"}]
  /\ session \in [Agent -> 0 .. MaxEnroll]
  /\ cmd_agent \in [Command -> Agent \cup {NoAgent}]
  /\ status \in [Command -> Status]
  /\ lapsed \subseteq Command /\ late \subseteq Command
  /\ created \in 0 .. MaxCommands
  /\ req \in [Worker -> Request]
  /\ awaiting \in [Agent -> Worker \cup {NoWorker}]
  /\ inbox \in [Agent -> SUBSET Command]
  /\ delivered \in [Command -> Nat]
  /\ \A c \in Command : c > created => status[c] = "absent"
  /\ \A c \in Command : status[c] = "absent" <=> cmd_agent[c] = NoAgent

Init ==
  /\ agent = [a \in Agent |-> "active"]
  /\ session = [a \in Agent |-> 0]
  /\ cmd_agent = [c \in Command |-> NoAgent]
  /\ status = [c \in Command |-> "absent"]
  /\ lapsed = {} /\ late = {}
  /\ created = 0
  /\ req = [w \in Worker |-> Idle]
  /\ awaiting = [a \in Agent |-> NoWorker]
  /\ inbox = [a \in Agent |-> {}]
  /\ delivered = [c \in Command |-> 0]

(* The rows agents_command holds. *)
Row(c) == status[c] \notin {"absent", "deleted"}

(* Seeded bugs: the model's default ordering, -created_at, and [:limit-1].  *)
Oldest_newest(pool) == {c \in pool : Cardinality({d \in pool : d > c}) < Limit}
Oldest_short(pool) == {c \in pool : Cardinality({d \in pool : d < c}) < Limit - 1}
(* Seeded bugs: a filter without its status, and without its agent.         *)
Queued_any_status(a) == {c \in Command : cmd_agent[c] = a /\ Row(c)}
Queued_any_agent(a) == {c \in Command : status[c] = "queued"}

(* filter(agent=a, status=QUEUED).order_by("created_at")[:limit], out of    *)
(* the commands in pool.                                                    *)
Oldest(pool) == {c \in pool : Cardinality({d \in pool : d < c}) < Limit}
Queued(a) == {c \in Command : cmd_agent[c] = a /\ status[c] = "queued"}

(* The rows that transactions under way have updated: the others read them  *)
(* as they were, and wait for the commit before they write to them.         *)
Locked == UNION {req[w].stale : w \in {v \in Worker : req[v].op = "collect"}}

(* Worker w is done; whoever is still waiting for its answer gets it.       *)
Finish(w) == req' = [req EXCEPT ![w] = Idle]
Answer(w) ==
  awaiting' = [awaiting EXCEPT ![req[w].agent] = IF @ = w THEN NoWorker ELSE @]
Hears(w) == awaiting[req[w].agent] = w

-------------------------------------------------------------------------------
(* The operator's side.  The endpoint and the admin page both look at       *)
(* asset.agent and agent.is_revoked, then build the command, which draws    *)
(* its created_at.                                                          *)
rescan(w, a) ==
  /\ req[w] = Idle
  /\ agent[a] = "active"
  /\ created < MaxCommands
  /\ created' = created + 1
  /\ req' = [req EXCEPT ![w] = [op |-> "rescan", agent |-> a, id |-> created + 1]]
  /\ UNCHANGED <<row, cmd_agent, status, lapsed, late, client>>

(* Whether a row of agent a has a later created_at than c. *)
Younger(a, c) == \E d \in Command : d > c /\ cmd_agent[d] = a

(* Seeded bug: a row for a command of no agent, when the agent is gone.     *)
issue_rescan_command_no_agent(w) ==
  /\ req[w].op = "rescan"
  /\ status' = [status EXCEPT ![req[w].id] = "queued"]
  /\ cmd_agent' = IF agent[req[w].agent] = "deleted" THEN cmd_agent
                  ELSE [cmd_agent EXCEPT ![req[w].id] = req[w].agent]
  /\ Finish(w)
  /\ UNCHANGED <<row, lapsed, created, late, client>>

(* issue_rescan_command: expires_at is a day away.  The foreign key refuses *)
(* a command for an agent deleted in the meantime.                          *)
issue_rescan_command(w) ==
  /\ req[w].op = "rescan"
  /\ LET a == req[w].agent
         c == req[w].id
     IN  \/ /\ agent[a] # "deleted"
            /\ status' = [status EXCEPT ![c] = "queued"]
            /\ cmd_agent' = [cmd_agent EXCEPT ![c] = a]
            /\ late' = IF Younger(a, c) THEN late \cup {c} ELSE late
         \/ agent[a] = "deleted" /\ UNCHANGED <<status, cmd_agent, late>>
  /\ Finish(w)
  /\ UNCHANGED <<row, lapsed, created, client>>

(* A day passes over a command, over the older ones first. *)
lapse(c) ==
  /\ Row(c)
  /\ c \notin lapsed
  /\ \A d \in Command : d < c /\ Row(d) => d \in lapsed
  /\ lapsed' = lapsed \cup {c}
  /\ UNCHANGED <<row, cmd_agent, status, created, late, req, client>>

(* Seeded bug: the task expires every command that lapsed. *)
expire_old_commands_any ==
  /\ status' = [c \in Command |-> IF Row(c) /\ c \in lapsed THEN "expired" ELSE status[c]]
  /\ UNCHANGED <<row, cmd_agent, lapsed, created, late, req, client>>

(* The periodic task: filter(status=QUEUED, expires_at__lt=now).update(). *)
expire_old_commands ==
  /\ Locked = {}
  /\ status' = [c \in Command |-> IF status[c] = "queued" /\ c \in lapsed
                                  THEN "expired" ELSE status[c]]
  /\ UNCHANGED <<row, cmd_agent, lapsed, created, late, req, client>>

(* revoke_agent, and destroy of the asset, which cascades to the commands.  *)
revoke_agent(a) ==
  /\ agent[a] = "active"
  /\ agent' = [agent EXCEPT ![a] = "revoked"]
  /\ UNCHANGED <<session, table, req, client>>

destroy(a) ==
  /\ agent[a] # "deleted"
  /\ \A c \in Locked : cmd_agent[c] # a
  /\ agent' = [agent EXCEPT ![a] = "deleted"]
  /\ status' = [c \in Command |-> IF cmd_agent[c] = a THEN "deleted" ELSE status[c]]
  /\ UNCHANGED <<session, cmd_agent, lapsed, created, late, req, client>>

(* enroll_agent on the row of an agent, revoked or not (AgentCredentials).  *)
enroll(a) ==
  /\ agent[a] # "deleted"
  /\ \A b \in Agent : session[b] < MaxEnroll
  /\ agent' = [agent EXCEPT ![a] = "active"]
  /\ session' = [session EXCEPT ![a] = @ + 1]
  /\ UNCHANGED <<table, req, client>>

-------------------------------------------------------------------------------
(* The agent's thread: with nothing left to handle it sends a heartbeat,    *)
(* which worker w receives and authenticates.                               *)
send_heartbeat(a, w) ==
  /\ awaiting[a] = NoWorker
  /\ inbox[a] = {}
  /\ agent[a] = "active"
  /\ req[w] = Idle
  /\ req' = [req EXCEPT ![w] = [op |-> "heartbeat", agent |-> a,
                                session |-> session[a]]]
  /\ awaiting' = [awaiting EXCEPT ![a] = w]
  /\ UNCHANGED <<row, table, inbox, delivered>>

(* Seeded bug: agent.save(), every column of the row that was authenticated. *)
heartbeat_full_save(w) ==
  /\ req[w].op = "heartbeat"
  /\ agent[req[w].agent] # "deleted"
  /\ agent' = [agent EXCEPT ![req[w].agent] = "active"]
  /\ session' = [session EXCEPT ![req[w].agent] = req[w].session]
  /\ Finish(w) /\ Answer(w)
  /\ UNCHANGED <<table, inbox, delivered>>

(* heartbeat saves two columns of the row it authenticated with -- or fails *)
(* on a row that is gone -- and the transaction of collect_pending_commands *)
(* starts: it expires what has lapsed and reads the oldest queued ids.      *)
(* Nothing queued: it commits, and the answer is empty.                     *)
heartbeat(w) ==
  /\ req[w].op = "heartbeat"
  /\ LET a == req[w].agent
         stale == Queued(a) \cap lapsed
         ids == Oldest(Queued(a) \ stale)
     IN  \/ /\ agent[a] # "deleted"
            /\ stale \cap Locked = {}
            /\ \/ /\ ids # {}
                  /\ req' = [req EXCEPT ![w] = [op |-> "collect", agent |-> a,
                                                ids |-> ids, stale |-> stale]]
                  /\ UNCHANGED <<status, awaiting>>
               \/ /\ ids = {}
                  /\ status' = [c \in Command |-> IF c \in stale THEN "expired" ELSE status[c]]
                  /\ Finish(w) /\ Answer(w)
         \/ agent[a] = "deleted" /\ Finish(w) /\ Answer(w) /\ UNCHANGED status
  /\ UNCHANGED <<row, cmd_agent, lapsed, created, late, inbox, delivered>>

(* Seeded bug: sending a command counts as its acknowledgement. *)
collect_pending_commands_acked(w) ==
  /\ req[w].op = "collect"
  /\ LET ids == {c \in req[w].ids : Row(c)}
     IN  /\ status' = [c \in Command |-> IF c \in ids THEN "acked" ELSE status[c]]
         /\ inbox' = IF Hears(w) THEN [inbox EXCEPT ![req[w].agent] = ids] ELSE inbox
         /\ delivered' = [c \in Command |-> IF c \in ids /\ Hears(w) THEN delivered[c] + 1
                                                                  ELSE delivered[c]]
  /\ Finish(w)
  /\ Answer(w)
  /\ UNCHANGED <<row, cmd_agent, lapsed, created, late>>

(* Seeded bug: when nobody hears the answer, the commands are queued again. *)
collect_pending_commands_requeue(w) ==
  /\ req[w].op = "collect"
  /\ LET ids == {c \in req[w].ids : Row(c)}
     IN  /\ status' = [c \in Command |-> IF c \notin ids THEN status[c]
                                         ELSE IF Hears(w) THEN "dispatched" ELSE "queued"]
         /\ inbox' = IF Hears(w) THEN [inbox EXCEPT ![req[w].agent] = ids] ELSE inbox
         /\ delivered' = [c \in Command |-> IF c \in ids /\ Hears(w) THEN delivered[c] + 1
                                                                  ELSE delivered[c]]
  /\ Finish(w)
  /\ Answer(w)
  /\ UNCHANGED <<row, cmd_agent, lapsed, created, late>>

(* What the transaction makes of the commands: those it read, dispatched;   *)
(* those it found lapsed, expired.                                          *)
Collected(w) ==
  [c \in Command |->
     IF c \in req[w].ids /\ Row(c) THEN "dispatched"
     ELSE IF c \in req[w].stale /\ status[c] = "queued" THEN "expired"
     ELSE status[c]]

(* filter(id__in=queued_ids).update(DISPATCHED), the commit, and the answer *)
(* with the rows of queued_ids.  The UPDATE does not look at status again.  *)
collect_pending_commands(w) ==
  /\ req[w].op = "collect"
  /\ req[w].ids \cap Locked = {}
  /\ status' = Collected(w)
  /\ LET a == req[w].agent
         ids == {c \in req[w].ids : Row(c)}
     IN  \/ /\ Hears(w)
            /\ inbox' = [inbox EXCEPT ![a] = ids]
            /\ delivered' = [c \in Command |-> IF c \in ids THEN delivered[c] + 1
                                                            ELSE delivered[c]]
         \/ ~Hears(w) /\ UNCHANGED <<inbox, delivered>>
  /\ Finish(w)
  /\ Answer(w)
  /\ UNCHANGED <<row, cmd_agent, lapsed, created, late>>

(* _handle_command ends in _safe_ack, whatever became of the scan. *)
send_ack(a, w, c) ==
  /\ awaiting[a] = NoWorker
  /\ c \in inbox[a]
  /\ agent[a] = "active"
  /\ req[w] = Idle
  /\ req' = [req EXCEPT ![w] = [op |-> "ack", agent |-> a, id |-> c]]
  /\ awaiting' = [awaiting EXCEPT ![a] = w]
  /\ UNCHANGED <<row, table, inbox, delivered>>

(* acknowledge_command: any command of the agent becomes ACKED, an unknown  *)
(* one is a 404.  Either answer ends the agent's work on it.                *)
acknowledge_command(w) ==
  /\ req[w].op = "ack"
  /\ LET a == req[w].agent
         c == req[w].id
     IN  /\ \/ /\ Row(c) /\ cmd_agent[c] = a
               /\ status' = [status EXCEPT ![c] = "acked"]
            \/ ~(Row(c) /\ cmd_agent[c] = a) /\ UNCHANGED status
         /\ inbox' = IF Hears(w) THEN [inbox EXCEPT ![a] = @ \ {c}] ELSE inbox
  /\ Finish(w)
  /\ Answer(w)
  /\ UNCHANGED <<row, cmd_agent, lapsed, created, late, delivered>>

(* The answer does not come, or comes after the read timeout: the worker    *)
(* may still be at it.  The agent tries again, or gives up on the rest.     *)
timeout(a) ==
  /\ awaiting[a] # NoWorker
  /\ awaiting' = [awaiting EXCEPT ![a] = NoWorker]
  /\ UNCHANGED <<row, table, req, inbox, delivered>>

(* _safe_ack gives up on a command -- or, being answered 401 or losing the  *)
(* process to a crash, the agent forgets what it had received.              *)
give_up(a, c) ==
  /\ awaiting[a] = NoWorker
  /\ c \in inbox[a]
  /\ inbox' = [inbox EXCEPT ![a] = @ \ {c}]
  /\ UNCHANGED <<row, table, req, awaiting, delivered>>

restart(a) ==
  /\ awaiting[a] # NoWorker \/ inbox[a] # {}
  /\ awaiting' = [awaiting EXCEPT ![a] = NoWorker]
  /\ inbox' = [inbox EXCEPT ![a] = {}]
  /\ UNCHANGED <<row, table, req, delivered>>

(* A worker dies with its request; its transaction is rolled back.          *)
worker_dies(w) ==
  /\ req[w] # Idle
  /\ Finish(w)
  /\ UNCHANGED <<row, table, client>>

Operator == \E a \in Agent : revoke_agent(a) \/ destroy(a) \/ enroll(a)
Time == expire_old_commands \/ \E c \in Command : lapse(c)
Client(a) ==
  \/ \E w \in Worker : send_heartbeat(a, w) \/ \E c \in Command : send_ack(a, w, c)
  \/ timeout(a) \/ restart(a) \/ \E c \in Command : give_up(a, c)
Server(w) ==
  \/ issue_rescan_command(w) \/ heartbeat(w)
  \/ collect_pending_commands(w) \/ acknowledge_command(w)

Next ==
  \/ Operator \/ Time
  \/ \E a \in Agent : Client(a) \/ \E w \in Worker : rescan(w, a)
  \/ \E w \in Worker : Server(w) \/ worker_dies(w)

Spec == Init /\ [][Next]_vars

(* Agents keep polling and get through what they received; a worker with a  *)
(* request works on it, and does not die in every heartbeat of an agent.    *)
(* Nothing is assumed of the operator, of time, of the periodic task (which *)
(* runs only if somebody schedules it) or of any answer arriving.           *)
ServesHeartbeat(a) ==
  \E w \in Worker : req[w].op = "heartbeat" /\ req[w].agent = a /\ heartbeat(w)
ServesCollect(a) ==
  \E w \in Worker : req[w].op = "collect" /\ req[w].agent = a
                      /\ collect_pending_commands(w)
Fairness ==
  /\ \A w \in Worker : WF_vars(Server(w))
  /\ \A a \in Agent : /\ SF_vars(\E w \in Worker : send_heartbeat(a, w))
                      /\ SF_vars(ServesHeartbeat(a)) /\ SF_vars(ServesCollect(a))
                      /\ SF_vars(\E c \in Command : give_up(a, c))
                      /\ WF_vars(timeout(a))

FairSpec == Spec /\ Fairness

-------------------------------------------------------------------------------
(* However a heartbeat and its retries overlap in the server, no command    *)
(* reaches the agent twice: it scans once for a click                       *)
(* (collect_pending_commands against tenacity's retry of _auth_call).       *)
AtMostOnceDelivery == \A c \in Command : delivered[c] <= 1

(* What an agent holds was addressed to it. *)
OnlyOwnCommands == \A a \in Agent : \A c \in inbox[a] : cmd_agent[c] = a

(* A command that reached its agent is settled: neither the task, nor a     *)
(* later collection, nor an overtaken worker makes it queued or expired.    *)
DeliveredIsSettled ==
  \A c \in Command : delivered[c] > 0 => status[c] \in {"dispatched", "acked", "deleted"}

(* ACKED means that the agent had the command in hand. *)
AckedWasDelivered == \A c \in Command : status[c] = "acked" => delivered[c] > 0

(* First come, first served: no command is handed out over the head of an   *)
(* older one of its agent that waits -- unless the older one's INSERT came  *)
(* after that of a younger one, when it may have come after the reading.    *)
NoOvertake ==
  [][\A c, d \in Command :
       /\ d < c /\ d \notin late /\ cmd_agent[c] = cmd_agent[d]
       /\ status[c] = "queued" /\ status[d] = "queued"
       /\ status'[c] = "dispatched"
       => status'[d] # "queued"]_vars

(* A request that authenticated before a revocation cannot undo it, nor put *)
(* an older enrollment's row back: each step leaves the sessions alone or   *)
(* is one the server may take with them, a new one being a new enrollment.  *)
Auth == INSTANCE SessionAuthority WITH
  Machine <- Agent, Session <- Agent \X (0 .. MaxEnroll), NoSession <- <<>>,
  current <- [a \in Agent |-> IF agent[a] = "active" THEN <<a, session[a]>> ELSE <<>>],
  used <- {s \in Agent \X (0 .. MaxEnroll) : s[2] <= session[s[1]]}

SessionsAreAuthorized == [][Auth!Next]_(Auth!vars)

(* The queue is a mailbox, whatever workers, retries, tasks and deletions   *)
(* are at it: a command once handed out, expired or lost never waits again, *)
(* and each hand-over takes its agent's own commands, oldest first.         *)
Mail == INSTANCE Mailbox WITH
  Message <- Command, Reader <- Agent, NoReader <- NoAgent,
  addressee <- cmd_agent,
  waiting <- {c \in Command : status[c] = "queued"},
  late <- late,
  handed <- delivered

ImplementsMailbox == Mail!Spec

(* A queued command does not stay queued while its agent polls, whatever    *)
(* becomes of single answers and workers.                                   *)
QueueDrains ==
  \A c \in Command :
    status[c] = "queued" ~> \/ status[c] # "queued"
                            \/ \E a \in Agent : cmd_agent[c] = a /\ agent[a] # "active"
===============================================================================
