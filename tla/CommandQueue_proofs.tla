-------------------------- MODULE CommandQueue_proofs --------------------------
(***************************************************************************)
(* The safety of CommandQueue for any number of agents, workers, commands  *)
(* and any limit.  At-most-once delivery is not inductive: that a command  *)
(* is delivered once rests on what the pending requests hold (Unheard: a   *)
(* worker whose agent still listens has collected nothing the agent ever   *)
(* received), on the status of what was delivered (DeliveredIsSettled),    *)
(* and on commands going only where they are addressed (Addressed).        *)
(***************************************************************************)
EXTENDS CommandQueue, FiniteSetTheorems, TLAPS

(* Inboxes and requests hold commands of their own agent, and only a        *)
(* command that was delivered is handled or acknowledged.                   *)
Addressed ==
  /\ \A a \in Agent : \A c \in inbox[a] : cmd_agent[c] = a /\ delivered[c] > 0
  /\ \A w \in Worker : req[w].op = "collect" =>
       \A c \in req[w].ids : cmd_agent[c] = req[w].agent
  /\ \A w \in Worker : req[w].op = "ack" => delivered[req[w].id] > 0

Unheard ==
  \A w \in Worker : req[w].op = "collect" /\ Hears(w) =>
    \A c \in req[w].ids : delivered[c] = 0

(* A pending collection holds, to dispatch or to expire, every queued       *)
(* command older than one it holds, save those inserted late.               *)
NoneSkipped ==
  \A w \in Worker : req[w].op = "collect" =>
    \A c \in req[w].ids, d \in Command :
      d < c /\ d \notin late /\ cmd_agent[d] = cmd_agent[c] /\ status[d] = "queued"
        => d \in req[w].ids \cup req[w].stale

(* Nobody else has the created_at that a pending command was built with.    *)
Reserved ==
  /\ \A w \in Worker : req[w].op = "rescan" =>
       status[req[w].id] = "absent" /\ req[w].id <= created
  /\ \A v, w \in Worker :
       req[v].op = "rescan" /\ req[w].op = "rescan" /\ v # w => req[v].id # req[w].id

Inv ==
  /\ TypeOK
  /\ Addressed
  /\ Unheard
  /\ NoneSkipped
  /\ Reserved
  /\ AtMostOnceDelivery
  /\ DeliveredIsSettled
  /\ AckedWasDelivered

USE NoAgentAssumption, NoWorkerAssumption, LimitAssumption,
    MaxCommandsAssumption, MaxEnrollAssumption DEF Idle

-------------------------------------------------------------------------------
(* What the kinds of pending request carry. *)
LEMMA RequestFields ==
  ASSUME NEW r \in Request
  PROVE  /\ r.op \in {"idle", "rescan", "heartbeat", "collect", "ack"}
         /\ r.op # "idle" => r.agent \in Agent
         /\ r.op = "heartbeat" => r.session \in Nat
         /\ r.op = "collect" => r.ids \subseteq Command /\ r.stale \subseteq Command
         /\ r.op \in {"rescan", "ack"} => r.id \in Command
<1>1. CASE r = Idle
  BY <1>1
<1>2. CASE r \in [op : {"rescan"}, agent : Agent, id : Command]
  BY <1>2
<1>3. CASE r \in [op : {"heartbeat"}, agent : Agent, session : Nat]
  BY <1>3
<1>4. CASE r \in [op : {"collect"}, agent : Agent, ids : SUBSET Command,
                  stale : SUBSET Command]
  BY <1>4
<1>5. CASE r \in [op : {"ack"}, agent : Agent, id : Command]
  BY <1>5
<1> QED
  BY <1>1, <1>2, <1>3, <1>4, <1>5 DEF Request

(* The answer of w reaches only the agent its request came from.            *)
LEMMA AnswerType ==
  ASSUME TypeOK, NEW w \in Worker, Answer(w), req[w].agent \in Agent
  PROVE  /\ awaiting' \in [Agent -> Worker \cup {NoWorker}]
         /\ \A a \in Agent : awaiting'[a] # w \/ a # req[w].agent
         /\ \A a \in Agent : awaiting'[a] = awaiting[a] \/ awaiting'[a] = NoWorker
  BY DEF TypeOK, Answer

(* Type correctness: every column, request and client variable stays in its *)
(* domain, and a command has an agent from the step that creates it.        *)
LEMMA TypeInductive ==
  /\ Init => TypeOK
  /\ TypeOK /\ Reserved /\ [Next]_vars => TypeOK'
<1>1. Init => TypeOK
  BY DEF Init, TypeOK, Request, Command, Status
<1>2. TypeOK /\ Reserved /\ [Next]_vars => TypeOK'
  <2> SUFFICES ASSUME TypeOK, Reserved, [Next]_vars PROVE TypeOK'
    OBVIOUS
  <2>1. CASE UNCHANGED vars
    BY <2>1 DEF TypeOK, vars, row, table, client
  <2>2. ASSUME NEW a \in Agent, revoke_agent(a) \/ destroy(a) \/ enroll(a)
        PROVE  TypeOK'
    <3>1. CASE revoke_agent(a)
      BY <2>2, <3>1 DEF TypeOK, revoke_agent, table, client
    <3>2. CASE destroy(a)
      BY <2>2, <3>2 DEF TypeOK, destroy, client, Status
    <3>3. CASE enroll(a)
      BY <2>2, <3>3 DEF TypeOK, enroll, table, client
    <3> QED
      BY <2>2, <3>1, <3>2, <3>3
  <2>3. CASE expire_old_commands
    BY <2>3 DEF TypeOK, expire_old_commands, row, client, Status
  <2>4. ASSUME NEW c \in Command, lapse(c) PROVE TypeOK'
    BY <2>4 DEF TypeOK, lapse, row, client
  <2>5. ASSUME NEW a \in Agent, NEW w \in Worker, send_heartbeat(a, w) PROVE TypeOK'
    <3>1. [op |-> "heartbeat", agent |-> a, session |-> session[a]] \in Request
      BY DEF TypeOK, Request
    <3> QED
      BY <2>5, <3>1 DEF TypeOK, send_heartbeat, row, table
  <2>6. ASSUME NEW a \in Agent, NEW w \in Worker, NEW c \in Command, send_ack(a, w, c)
        PROVE  TypeOK'
    <3>1. [op |-> "ack", agent |-> a, id |-> c] \in Request
      BY DEF Request
    <3> QED
      BY <2>6, <3>1 DEF TypeOK, send_ack, row, table
  <2>7. ASSUME NEW a \in Agent, timeout(a) PROVE TypeOK'
    BY <2>7 DEF TypeOK, timeout, row, table
  <2>8. ASSUME NEW a \in Agent, restart(a) PROVE TypeOK'
    BY <2>8 DEF TypeOK, restart, row, table
  <2>9. ASSUME NEW a \in Agent, NEW c \in Command, give_up(a, c) PROVE TypeOK'
    BY <2>9 DEF TypeOK, give_up, row, table
  <2>10. ASSUME NEW a \in Agent, NEW w \in Worker, rescan(w, a) PROVE TypeOK'
    <3>1. created + 1 \in Command /\ created' \in 0 .. MaxCommands /\ created' = created + 1
      BY <2>10 DEF TypeOK, rescan, Command
    <3>2. [op |-> "rescan", agent |-> a, id |-> created + 1] \in Request
      BY <3>1 DEF Request
    <3>3. \A c \in Command : c > created' => status[c] = "absent"
      BY <3>1 DEF TypeOK, Command
    <3> QED
      BY <2>10, <3>1, <3>2, <3>3 DEF TypeOK, rescan, row, client
  <2> Idle \in Request
    BY DEF Request
  <2>11. ASSUME NEW w \in Worker, issue_rescan_command(w) PROVE TypeOK'
    <3> DEFINE a == req[w].agent
               n == req[w].id
    <3>1. a \in Agent /\ n \in Command
      BY <2>11, RequestFields DEF TypeOK, issue_rescan_command
    <3>2. CASE UNCHANGED <<status, cmd_agent, late>>
      BY <2>11, <3>2 DEF TypeOK, issue_rescan_command, Finish, row, client
    <3>3. CASE /\ status' = [status EXCEPT ![n] = "queued"]
               /\ cmd_agent' = [cmd_agent EXCEPT ![n] = a]
               /\ late' = IF Younger(a, n) THEN late \cup {n} ELSE late
      <4>1. n <= created
        BY <2>11 DEF Reserved, issue_rescan_command
      <4>2. /\ status' \in [Command -> Status]
            /\ cmd_agent' \in [Command -> Agent \cup {NoAgent}]
            /\ late' \subseteq Command
        BY <3>1, <3>3 DEF TypeOK, Status
      <4>3. ASSUME NEW c \in Command
            PROVE  /\ c > created => status'[c] = "absent"
                   /\ status'[c] = "absent" <=> cmd_agent'[c] = NoAgent
        BY <3>1, <3>3, <4>1, <4>3 DEF TypeOK, Command
      <4> QED
        BY <2>11, <4>2, <4>3 DEF TypeOK, issue_rescan_command, Finish, row, client
    <3> QED
      BY <2>11, <3>2, <3>3 DEF issue_rescan_command
  <2>12. ASSUME NEW w \in Worker, heartbeat(w) PROVE TypeOK'
    <3> DEFINE a == req[w].agent
               stale == Queued(a) \cap lapsed
               ids == Oldest(Queued(a) \ stale)
    <3>1. a \in Agent
      BY <2>12, RequestFields DEF TypeOK, heartbeat
    <3>2. ids \subseteq Command /\ stale \subseteq Command
      BY DEF Oldest, Queued
    <3>3. req' \in [Worker -> Request]
      <4>1. [op |-> "collect", agent |-> a, ids |-> ids, stale |-> stale] \in Request
        BY <3>1, <3>2 DEF Request
      <4> QED
        BY <2>12, <4>1 DEF TypeOK, heartbeat, Finish
    <3>4. awaiting' \in [Agent -> Worker \cup {NoWorker}]
      BY <2>12, <3>1, AnswerType DEF TypeOK, heartbeat
    <3>5. /\ status' \in [Command -> Status]
          /\ \A c \in Command : status'[c] = "absent" <=> status[c] = "absent"
      <4>1. CASE status' = [c \in Command |-> IF c \in stale THEN "expired" ELSE status[c]]
        BY <4>1 DEF TypeOK, Status, Queued
      <4> QED
        BY <2>12, <4>1 DEF heartbeat, TypeOK
    <3> QED
      BY <2>12, <3>3, <3>4, <3>5 DEF TypeOK, heartbeat, row
  <2>13. ASSUME NEW w \in Worker, collect_pending_commands(w) PROVE TypeOK'
    <3> DEFINE a == req[w].agent
               ids == {c \in req[w].ids : Row(c)}
    <3>1. a \in Agent /\ ids \subseteq Command
      BY <2>13, RequestFields DEF TypeOK, collect_pending_commands
    <3>2. status' = Collected(w)
      BY <2>13 DEF collect_pending_commands
    <3>3. /\ status' \in [Command -> Status]
          /\ \A c \in Command : status'[c] = "absent" <=> status[c] = "absent"
      BY <3>2 DEF Collected, TypeOK, Status, Row
    <3>4. awaiting' \in [Agent -> Worker \cup {NoWorker}]
      BY <2>13, <3>1, AnswerType DEF collect_pending_commands
    <3>5. inbox' \in [Agent -> SUBSET Command] /\ delivered' \in [Command -> Nat]
      BY <2>13, <3>1 DEF TypeOK, collect_pending_commands
    <3> QED
      BY <2>13, <3>3, <3>4, <3>5 DEF TypeOK, collect_pending_commands, row, Finish
  <2>14. ASSUME NEW w \in Worker, acknowledge_command(w) PROVE TypeOK'
    <3>1. req[w].agent \in Agent /\ req[w].id \in Command
      BY <2>14, RequestFields DEF TypeOK, acknowledge_command
    <3>2. /\ status' \in [Command -> Status]
          /\ \A c \in Command : status'[c] = "absent" <=> status[c] = "absent"
      BY <2>14, <3>1 DEF TypeOK, acknowledge_command, Status, Row
    <3>3. awaiting' \in [Agent -> Worker \cup {NoWorker}]
      BY <2>14, <3>1, AnswerType DEF acknowledge_command
    <3>4. inbox' \in [Agent -> SUBSET Command]
      BY <2>14, <3>1 DEF TypeOK, acknowledge_command
    <3> QED
      BY <2>14, <3>2, <3>3, <3>4 DEF TypeOK, acknowledge_command, row, Finish
  <2>15. ASSUME NEW w \in Worker, worker_dies(w) PROVE TypeOK'
    BY <2>15 DEF TypeOK, worker_dies, row, table, client, Finish
  <2> QED
    BY <2>1, <2>2, <2>3, <2>4, <2>5, <2>6, <2>7, <2>8, <2>9, <2>10, <2>11, <2>12,
       <2>13, <2>14, <2>15 DEF Next, Operator, Time, Client, Server
<1> QED
  BY <1>1, <1>2

(* The numbers drawn for pending commands stay theirs.                      *)
LEMMA ReservedInductive ==
  /\ Init => Reserved
  /\ TypeOK /\ Reserved /\ [Next]_vars => Reserved'
<1>1. Init => Reserved
  BY DEF Init, Reserved
<1>2. TypeOK /\ Reserved /\ [Next]_vars => Reserved'
  <2> SUFFICES ASSUME TypeOK, Reserved, [Next]_vars PROVE Reserved'
    OBVIOUS
  <2> DEFINE Kept == /\ created' = created
                     /\ \A w \in Worker : req'[w].op = "rescan" => req'[w] = req[w]
                     /\ \A c \in Command : status[c] = "absent" => status'[c] = "absent"
  <2>1. ASSUME Kept PROVE Reserved'
    <3>1. \A w \in Worker : req[w].op = "rescan" => req[w].id \in Command
      BY RequestFields DEF TypeOK
    <3> QED
      BY <2>1, <3>1 DEF Reserved
  <2>2. ASSUME NEW a \in Agent, NEW w \in Worker, rescan(w, a) PROVE Reserved'
    <3>1. /\ created' = created + 1 /\ created \in Nat /\ status' = status
          /\ req'[w].op = "rescan" /\ req'[w].id = created + 1
          /\ \A v \in Worker : v # w => req'[v] = req[v]
          /\ status[created + 1] = "absent"
      BY <2>2 DEF rescan, TypeOK, Command
    <3>2. \A v \in Worker : req[v].op = "rescan" => req[v].id \in Nat
      BY RequestFields DEF TypeOK, Command
    <3> QED
      BY <3>1, <3>2 DEF Reserved
  <2>3. ASSUME NEW w \in Worker, issue_rescan_command(w) PROVE Reserved'
    <3> DEFINE n == req[w].id
    <3>1. /\ n \in Command /\ req[w].op = "rescan" /\ created' = created
          /\ req'[w] = Idle /\ \A v \in Worker : v # w => req'[v] = req[v]
      BY <2>3, RequestFields DEF issue_rescan_command, Finish, TypeOK
    <3>2. \A c \in Command : c # n => status'[c] = status[c]
      BY <2>3 DEF issue_rescan_command, TypeOK
    <3>3. \A v \in Worker : req[v].op = "rescan" => req[v].id \in Command
      BY RequestFields DEF TypeOK
    <3> QED
      BY <3>1, <3>2, <3>3 DEF Reserved
  <2>4. ASSUME NEW w \in Worker, heartbeat(w) PROVE Kept
    <3>1. \A v \in Worker : req'[v].op = "rescan" => req'[v] = req[v]
      BY <2>4 DEF heartbeat, Finish, TypeOK
    <3>2. \A c \in Command : status[c] = "absent" => status'[c] = "absent"
      BY <2>4 DEF heartbeat, Queued
    <3> QED
      BY <2>4, <3>1, <3>2 DEF heartbeat
  <2>5. ASSUME NEW w \in Worker, collect_pending_commands(w) PROVE Kept
    BY <2>5 DEF collect_pending_commands, Collected, Row, Finish, TypeOK
  <2>6. ASSUME NEW w \in Worker, acknowledge_command(w) PROVE Kept
    BY <2>6 DEF acknowledge_command, Row, Finish, TypeOK
  <2>7. ASSUME NEW a \in Agent, destroy(a) PROVE Kept
    BY <2>7 DEF destroy, TypeOK
  <2>8. ASSUME expire_old_commands PROVE Kept
    <3>1. UNCHANGED <<created, req>>
      BY <2>8 DEF expire_old_commands
    <3>2. \A c \in Command : status[c] = "absent" => status'[c] = "absent"
      BY <2>8 DEF expire_old_commands
    <3> QED
      BY <3>1, <3>2
  <2>9. ASSUME NEW a \in Agent, NEW w \in Worker,
               send_heartbeat(a, w) \/ \E c \in Command : send_ack(a, w, c)
        PROVE  Kept
    BY <2>9 DEF send_heartbeat, send_ack, table, TypeOK
  <2>10. ASSUME NEW w \in Worker, worker_dies(w) PROVE Kept
    BY <2>10 DEF worker_dies, Finish, table, TypeOK
  <2> HIDE DEF Kept
  <2>11. CASE UNCHANGED <<table, req>>
    BY <2>1, <2>11 DEF Kept, table
  <2>12. ASSUME NEW c \in Command, lapse(c) PROVE Kept
    BY <2>12 DEF lapse, Kept
  <2> QED
    BY <2>1, <2>2, <2>3, <2>4, <2>5, <2>6, <2>7, <2>8, <2>9, <2>10, <2>11, <2>12
       DEF Next, Operator, Time, Client, Server, vars, revoke_agent, enroll,
           timeout, restart, give_up
<1> QED
  BY <1>1, <1>2

LEMMA TypeAndReserved == Spec => [](TypeOK /\ Reserved)
  BY TypeInductive, ReservedInductive, PTL DEF Spec

THEOREM TypeCorrect == Spec => []TypeOK
  BY TypeAndReserved, PTL

-------------------------------------------------------------------------------
(* A step that delivers nothing, settles nothing and only drops requests    *)
(* and inbox entries keeps the invariant.                                   *)
LEMMA Shrinking ==
  ASSUME Inv, TypeOK', Reserved',
         UNCHANGED <<cmd_agent, late, delivered>>,
         \A a \in Agent : inbox'[a] \subseteq inbox[a],
         \A w \in Worker : req'[w] = req[w] \/ req'[w].op \notin {"collect", "ack"},
         \A a \in Agent : awaiting'[a] = awaiting[a] \/ awaiting'[a] = NoWorker
                            \/ req'[awaiting'[a]].op # "collect",
         \A c \in Command : \/ status'[c] = status[c]
                            \/ delivered[c] = 0 /\ status'[c] = "expired"
                            \/ delivered[c] > 0 /\ status'[c] = "acked"
                            \/ status'[c] = "deleted"
  PROVE  Inv'
<1>1. Addressed'
  BY DEF Inv, Addressed, TypeOK
<1>2. Unheard'
  <2> SUFFICES ASSUME NEW w \in Worker, req'[w].op = "collect", Hears(w)',
                      NEW c \in req'[w].ids
               PROVE  delivered'[c] = 0
    BY DEF Unheard
  <2>1. req'[w] = req[w] /\ req[w].agent \in Agent /\ w # NoWorker
    BY RequestFields DEF Inv, TypeOK
  <2>2. awaiting[req[w].agent] = w
    BY <2>1 DEF Hears
  <2> QED
    BY <2>1, <2>2 DEF Inv, Unheard, Hears
<1>3. NoneSkipped'
  BY DEF Inv, NoneSkipped
<1>4. AtMostOnceDelivery'
  BY DEF Inv, AtMostOnceDelivery
<1>5. DeliveredIsSettled'
  BY DEF Inv, DeliveredIsSettled, TypeOK
<1>6. AckedWasDelivered'
  BY DEF Inv, AckedWasDelivered
<1> QED
  BY <1>1, <1>2, <1>3, <1>4, <1>5, <1>6 DEF Inv

LEMMA InitInv == Init => Inv
<1>1. Init => TypeOK
  BY TypeInductive
<1>3. Init => Reserved
  BY ReservedInductive
<1>2. Init => /\ Addressed /\ Unheard /\ NoneSkipped
              /\ AtMostOnceDelivery /\ DeliveredIsSettled /\ AckedWasDelivered
  BY DEF Init, Addressed, Unheard, NoneSkipped, AtMostOnceDelivery,
         DeliveredIsSettled, AckedWasDelivered
<1> QED
  BY <1>1, <1>2, <1>3 DEF Inv

(* The steps that touch neither deliveries nor requests that matter.        *)
LEMMA QuietSteps ==
  ASSUME Inv, TypeOK', Reserved',
         \/ UNCHANGED vars
         \/ \E a \in Agent : revoke_agent(a) \/ destroy(a) \/ enroll(a)
         \/ expire_old_commands
         \/ \E c \in Command : lapse(c)
         \/ \E a \in Agent, w \in Worker : send_heartbeat(a, w) \/ rescan(w, a)
         \/ \E a \in Agent : timeout(a) \/ restart(a)
         \/ \E a \in Agent, c \in Command : give_up(a, c)
         \/ \E w \in Worker : worker_dies(w)
  PROVE  Inv'
<1>1. CASE UNCHANGED vars
  BY <1>1, Shrinking DEF vars, row, table, client
<1>2. ASSUME NEW a \in Agent, revoke_agent(a) \/ enroll(a) PROVE Inv'
  BY <1>2, Shrinking DEF revoke_agent, enroll, table, client
<1>3. ASSUME NEW a \in Agent, destroy(a) PROVE Inv'
  BY <1>3, Shrinking DEF destroy, client, Inv, TypeOK
<1>4. CASE expire_old_commands
  <2>1. \A c \in Command : status[c] = "queued" => delivered[c] = 0
    BY DEF Inv, DeliveredIsSettled, TypeOK
  <2> QED
    BY <1>4, <2>1, Shrinking DEF expire_old_commands, row, client
<1>5. ASSUME NEW c \in Command, lapse(c) PROVE Inv'
  BY <1>5, Shrinking DEF lapse, row, client
<1>6. ASSUME NEW a \in Agent, NEW w \in Worker, send_heartbeat(a, w) PROVE Inv'
  <2>1. req'[w].op = "heartbeat" /\ awaiting'[a] = w
        /\ \A v \in Worker : v # w => req'[v] = req[v]
        /\ \A b \in Agent : b # a => awaiting'[b] = awaiting[b]
    BY <1>6 DEF send_heartbeat, Inv, TypeOK
  <2> QED
    BY <1>6, <2>1, Shrinking DEF send_heartbeat, row, table
<1>7. ASSUME NEW a \in Agent, NEW w \in Worker, rescan(w, a) PROVE Inv'
  <2>1. req'[w].op = "rescan" /\ \A v \in Worker : v # w => req'[v] = req[v]
    BY <1>7 DEF rescan, Inv, TypeOK
  <2> QED
    BY <1>7, <2>1, Shrinking DEF rescan, row, table, client
<1>8. ASSUME NEW a \in Agent, timeout(a) \/ restart(a) PROVE Inv'
  BY <1>8, Shrinking DEF timeout, restart, row, table, Inv, TypeOK
<1>9. ASSUME NEW a \in Agent, NEW c \in Command, give_up(a, c) PROVE Inv'
  BY <1>9, Shrinking DEF give_up, row, table, Inv, TypeOK
<1>10. ASSUME NEW w \in Worker, worker_dies(w) PROVE Inv'
  BY <1>10, Shrinking DEF worker_dies, row, table, client, Finish, Inv, TypeOK
<1> QED
  BY <1>1, <1>2, <1>3, <1>4, <1>5, <1>6, <1>7, <1>8, <1>9, <1>10

(* A new command is in nobody's hands, and late where a younger one of its  *)
(* agent may be.                                                            *)
LEMMA IssueInv ==
  ASSUME Inv, TypeOK', Reserved', NEW w \in Worker, issue_rescan_command(w)
  PROVE  Inv'
<1> DEFINE a == req[w].agent
           n == req[w].id
<1>1. /\ req'[w] = Idle /\ \A v \in Worker : v # w => req'[v] = req[v]
      /\ UNCHANGED <<awaiting, inbox, delivered>>
  BY DEF issue_rescan_command, Finish, client, Inv, TypeOK
<1>2. CASE UNCHANGED <<status, cmd_agent, late>>
  BY <1>1, <1>2, Shrinking
<1>3. CASE /\ status' = [status EXCEPT ![n] = "queued"]
           /\ cmd_agent' = [cmd_agent EXCEPT ![n] = a]
           /\ late' = IF Younger(a, n) THEN late \cup {n} ELSE late
  <2>1. n \in Command /\ a \in Agent /\ status[n] = "absent" /\ cmd_agent[n] = NoAgent
    BY RequestFields DEF issue_rescan_command, Inv, TypeOK, Reserved
  <2>2. delivered[n] = 0
    BY <2>1 DEF Inv, DeliveredIsSettled, TypeOK
  <2>3. \A c \in Command : c # n => status'[c] = status[c] /\ cmd_agent'[c] = cmd_agent[c]
    BY <1>3 DEF Inv, TypeOK
  <2>4. status'[n] = "queued" /\ cmd_agent'[n] = a
    BY <1>3, <2>1 DEF Inv, TypeOK
  <2>5. \A v \in Worker : req[v].op = "collect" =>
          req[v].agent \in Agent /\ req[v].ids \subseteq Command /\ n \notin req[v].ids
    <3> SUFFICES ASSUME NEW v \in Worker, req[v].op = "collect"
                 PROVE  req[v].agent \in Agent /\ req[v].ids \subseteq Command /\ n \notin req[v].ids
      OBVIOUS
    <3>1. req[v].agent \in Agent /\ req[v].ids \subseteq Command
      BY RequestFields DEF Inv, TypeOK
    <3>2. \A c \in req[v].ids : cmd_agent[c] # NoAgent
      BY <3>1 DEF Inv, Addressed
    <3> QED
      BY <2>1, <3>1, <3>2
  <2>6. Addressed'
    <3>1. \A b \in Agent : \A c \in inbox[b] : c \in Command /\ c # n
      BY <2>2 DEF Inv, Addressed, TypeOK
    <3>2. \A b \in Agent : \A c \in inbox'[b] : cmd_agent'[c] = b /\ delivered'[c] > 0
      BY <1>1, <2>3, <3>1 DEF Inv, Addressed
    <3>3. \A v \in Worker : req'[v].op = "collect" =>
            \A c \in req'[v].ids : cmd_agent'[c] = req'[v].agent
      BY <1>1, <2>3, <2>5 DEF Inv, Addressed
    <3>4. \A v \in Worker : req'[v].op = "ack" => delivered'[req'[v].id] > 0
      BY <1>1 DEF Inv, Addressed
    <3> QED
      BY <3>2, <3>3, <3>4 DEF Addressed
  <2>7. Unheard'
    BY <1>1 DEF Inv, Unheard, Hears
  <2>8. NoneSkipped'
    <3> SUFFICES ASSUME NEW v \in Worker, req'[v].op = "collect",
                        NEW c \in req'[v].ids, NEW d \in Command, d < c, d \notin late',
                        cmd_agent'[d] = cmd_agent'[c], status'[d] = "queued"
                 PROVE  d \in req'[v].ids \cup req'[v].stale
      BY DEF NoneSkipped
    <3>1. v # w /\ req'[v] = req[v]
      BY <1>1
    <3>2. c \in Command /\ c # n /\ c \in Int /\ n \in Int /\ d \in Int
      BY <2>1, <2>5, <3>1 DEF Command
    <3>3. CASE d = n
      <4>1. cmd_agent[c] = a /\ c > n
        BY <2>3, <2>4, <3>2, <3>3
      <4>2. Younger(a, n)
        BY <3>2, <4>1 DEF Younger
      <4> QED
        BY <1>3, <3>3, <4>2
    <3>4. CASE d # n
      <4>1. d \notin late
        BY <1>3
      <4> QED
        BY <2>3, <3>1, <3>2, <3>4, <4>1 DEF Inv, NoneSkipped
    <3> QED
      BY <3>3, <3>4
  <2>9. AtMostOnceDelivery' /\ DeliveredIsSettled' /\ AckedWasDelivered'
    BY <1>1, <2>2, <2>3, <2>4 DEF Inv, AtMostOnceDelivery, DeliveredIsSettled, AckedWasDelivered
  <2> QED
    BY <2>6, <2>7, <2>8, <2>9 DEF Inv
<1> QED
  BY <1>2, <1>3 DEF issue_rescan_command

(* Of two commands of a pool, the older one is read if the younger one is.  *)
LEMMA OldestFirst ==
  ASSUME NEW pool \in SUBSET Command, NEW c \in Oldest(pool), NEW d \in pool, d < c
  PROVE  d \in Oldest(pool)
<1> DEFINE before(e) == {f \in pool : f < e}
<1>1. IsFiniteSet(Command)
  BY FS_Interval DEF Command
<1>2. before(c) \subseteq Command /\ before(d) \subseteq before(c)
  <2>1. c \in Int /\ d \in Int
    BY DEF Command, Oldest
  <2>2. ASSUME NEW f \in before(d) PROVE f \in before(c)
    <3>1. f \in pool /\ f < d /\ f \in Int
      BY <2>2 DEF Command
    <3> QED
      BY <2>1, <3>1
  <2> QED
    BY <2>2
<1>3. IsFiniteSet(before(c))
  BY <1>1, <1>2, FS_Subset
<1>4. /\ Cardinality(before(d)) <= Cardinality(before(c))
      /\ Cardinality(before(d)) \in Nat /\ Cardinality(before(c)) \in Nat
  BY <1>2, <1>3, FS_Subset, FS_CardinalityType
<1>5. Cardinality(before(c)) < Limit
  BY DEF Oldest
<1>6. Cardinality(before(d)) < Limit
  BY <1>4, <1>5
<1> QED
  BY <1>6 DEF Oldest

LEMMA HeartbeatInv ==
  ASSUME Inv, TypeOK', Reserved', NEW w \in Worker, heartbeat(w)
  PROVE  Inv'
<1> DEFINE a == req[w].agent
           stale == Queued(a) \cap lapsed
           ids == Oldest(Queued(a) \ stale)
<1>1. /\ a \in Agent /\ UNCHANGED <<cmd_agent, late, inbox, delivered>>
      /\ \A v \in Worker : v # w => req'[v] = req[v]
  BY RequestFields DEF heartbeat, Finish, Inv, TypeOK
<1>2. \A c \in Command : status'[c] = status[c] \/ (delivered[c] = 0 /\ status'[c] = "expired")
  <2>1. \A c \in stale : delivered[c] = 0
    BY DEF Queued, Inv, TypeOK, DeliveredIsSettled
  <2>2. \/ status' = status
        \/ status' = [c \in Command |-> IF c \in stale THEN "expired" ELSE status[c]]
    BY DEF heartbeat
  <2> HIDE DEF stale
  <2>3. CASE status' = status
    BY <2>3
  <2>4. CASE status' = [c \in Command |-> IF c \in stale THEN "expired" ELSE status[c]]
    BY <2>1, <2>4
  <2> QED
    BY <2>2, <2>3, <2>4
<1>3. CASE Finish(w) /\ Answer(w)
  BY <1>1, <1>2, <1>3, AnswerType, Shrinking DEF Finish, Inv, TypeOK
<1>4. CASE /\ req' = [req EXCEPT ![w] = [op |-> "collect", agent |-> a,
                                         ids |-> ids, stale |-> stale]]
           /\ UNCHANGED <<status, awaiting>>
  <2>1. /\ req'[w].op = "collect" /\ req'[w].agent = a
        /\ req'[w].ids = ids /\ req'[w].stale = stale
    BY <1>4 DEF Inv, TypeOK
  <2>2. \A c \in ids : c \in Command /\ cmd_agent[c] = a /\ status[c] = "queued" /\ delivered[c] = 0
    BY DEF Oldest, Queued, Inv, DeliveredIsSettled, TypeOK
  <2>3. Addressed'
    <3>1. \A b \in Agent : \A c \in inbox'[b] : cmd_agent'[c] = b /\ delivered'[c] > 0
      BY <1>1 DEF Inv, Addressed
    <3>2. ASSUME NEW v \in Worker, req'[v].op = "collect", NEW c \in req'[v].ids
          PROVE  cmd_agent'[c] = req'[v].agent
      <4>1. CASE v = w
        BY <1>1, <2>1, <2>2, <3>2, <4>1
      <4>2. CASE v # w
        BY <1>1, <3>2, <4>2 DEF Inv, Addressed
      <4> QED
        BY <4>1, <4>2
    <3>3. \A v \in Worker : req'[v].op = "ack" => delivered'[req'[v].id] > 0
      BY <1>1, <2>1 DEF Inv, Addressed
    <3> QED
      BY <3>1, <3>2, <3>3 DEF Addressed
  <2>4. Unheard'
    <3> SUFFICES ASSUME NEW v \in Worker, req'[v].op = "collect", Hears(v)',
                        NEW c \in req'[v].ids
                 PROVE  delivered'[c] = 0
      BY DEF Unheard
    <3>1. CASE v = w
      BY <1>1, <2>1, <2>2, <3>1
    <3>2. CASE v # w
      BY <1>1, <1>4, <3>2 DEF Inv, Unheard, Hears
    <3> QED
      BY <3>1, <3>2
  <2>5. NoneSkipped'
    <3> SUFFICES ASSUME NEW v \in Worker, req'[v].op = "collect",
                        NEW c \in req'[v].ids, NEW d \in Command, d < c, d \notin late,
                        cmd_agent[d] = cmd_agent[c], status'[d] = "queued"
                 PROVE  d \in req'[v].ids \cup req'[v].stale
      BY <1>1 DEF NoneSkipped
    <3>1. status[d] = "queued"
      BY <1>4
    <3>2. CASE v = w
      <4>1. d \in Queued(a)
        BY <2>1, <2>2, <3>1, <3>2 DEF Queued
      <4>2. Queued(a) \ stale \in SUBSET Command
        BY DEF Queued
      <4>3. CASE d \in stale
        BY <2>1, <3>2, <4>3
      <4>4. CASE d \notin stale
        BY <2>1, <3>2, <4>1, <4>2, <4>4, OldestFirst
      <4> QED
        BY <4>3, <4>4
    <3>3. CASE v # w
      BY <1>1, <3>1, <3>3 DEF Inv, NoneSkipped
    <3> QED
      BY <3>2, <3>3
  <2>6. AtMostOnceDelivery' /\ DeliveredIsSettled' /\ AckedWasDelivered'
    BY <1>1, <1>2 DEF Inv, AtMostOnceDelivery, DeliveredIsSettled, AckedWasDelivered
  <2> QED
    BY <2>3, <2>4, <2>5, <2>6 DEF Inv
<1> QED
  BY <1>3, <1>4 DEF heartbeat

LEMMA CollectInv ==
  ASSUME Inv, TypeOK', Reserved', NEW w \in Worker, collect_pending_commands(w)
  PROVE  Inv'
<1> DEFINE a == req[w].agent
           ids == {c \in req[w].ids : Row(c)}
<1>1. /\ a \in Agent /\ req[w].ids \subseteq Command /\ UNCHANGED <<cmd_agent, late>>
      /\ req'[w] = Idle /\ \A v \in Worker : v # w => req'[v] = req[v]
      /\ \A c \in req[w].ids : cmd_agent[c] = a
  BY RequestFields DEF collect_pending_commands, Finish, Inv, TypeOK, row, Addressed
<1>0. \A b \in Agent : awaiting'[b] = awaiting[b] \/ awaiting'[b] = NoWorker
  BY <1>1, AnswerType DEF collect_pending_commands, Inv
<1>2. /\ \A b \in Agent : awaiting'[b] = awaiting[b] \/ awaiting'[b] = NoWorker
      /\ \A c \in Command : IF c \in ids THEN status'[c] = "dispatched"
                            ELSE \/ status'[c] = status[c]
                                 \/ status[c] = "queued" /\ status'[c] = "expired"
  BY <1>0 DEF collect_pending_commands, Collected
<1>3. \/ /\ Hears(w)
         /\ inbox'[a] = ids /\ \A b \in Agent : b # a => inbox'[b] = inbox[b]
         /\ \A c \in Command : delivered'[c] = IF c \in ids THEN delivered[c] + 1 ELSE delivered[c]
      \/ ~Hears(w) /\ UNCHANGED <<inbox, delivered>>
  BY <1>1 DEF collect_pending_commands, Inv, TypeOK
<1>4. \A c \in Command : /\ delivered[c] \in Nat /\ delivered'[c] \in Nat
                         /\ delivered'[c] >= delivered[c]
  BY <1>3 DEF Inv, TypeOK
<1>5. Hears(w) => \A c \in ids : delivered[c] = 0
  BY DEF Inv, Unheard, collect_pending_commands
<1>6. Addressed'
  <2>1. ASSUME NEW b \in Agent, NEW c \in inbox'[b]
        PROVE  cmd_agent'[c] = b /\ delivered'[c] > 0
    <3>1. CASE c \in inbox[b]
      BY <1>1, <1>4, <2>1, <3>1 DEF Inv, Addressed, TypeOK
    <3>2. CASE c \notin inbox[b]
      BY <1>1, <1>3, <1>4, <1>5, <2>1, <3>2
    <3> QED
      BY <3>1, <3>2
  <2>2. ASSUME NEW v \in Worker, req'[v].op = "collect", NEW c \in req'[v].ids
        PROVE  cmd_agent'[c] = req'[v].agent
    BY <1>1, <2>2 DEF Inv, Addressed
  <2>3. ASSUME NEW v \in Worker, req'[v].op = "ack" PROVE delivered'[req'[v].id] > 0
    <3>1. v # w /\ req'[v] = req[v]
      BY <1>1, <2>3
    <3>2. req[v].id \in Command /\ delivered[req[v].id] > 0
      BY <2>3, <3>1, RequestFields DEF Inv, Addressed, TypeOK
    <3> QED
      BY <1>4, <3>1, <3>2
  <2> QED
    BY <2>1, <2>2, <2>3 DEF Addressed
<1>7. Unheard'
  <2> SUFFICES ASSUME NEW v \in Worker, req'[v].op = "collect", Hears(v)',
                      NEW c \in req'[v].ids
               PROVE  delivered'[c] = 0
    BY DEF Unheard
  <2>1. v # w /\ req'[v] = req[v] /\ req[v].agent \in Agent /\ c \in Command
        /\ v # NoWorker
    BY <1>1, RequestFields DEF Inv, TypeOK
  <2>2. Hears(v)
    BY <1>2, <2>1 DEF Hears
  <2>3. delivered[c] = 0 /\ cmd_agent[c] = req[v].agent
    BY <2>1, <2>2 DEF Inv, Unheard, Addressed
  <2>4. c \notin ids \/ ~Hears(w)
    BY <1>1, <2>1, <2>2, <2>3 DEF Hears
  <2> QED
    BY <1>3, <2>1, <2>3, <2>4
<1>8. NoneSkipped'
  BY <1>1, <1>2 DEF Inv, NoneSkipped
<1>9. AtMostOnceDelivery'
  BY <1>3, <1>5 DEF Inv, AtMostOnceDelivery
<1>10. DeliveredIsSettled'
  <2> SUFFICES ASSUME NEW c \in Command, delivered'[c] > 0
               PROVE  status'[c] \in {"dispatched", "acked", "deleted"}
    BY DEF DeliveredIsSettled
  <2>1. CASE c \in ids
    BY <1>2, <2>1
  <2>2. CASE c \notin ids
    <3>1. delivered[c] > 0
      BY <1>3, <2>2
    <3> QED
      BY <1>2, <2>2, <3>1 DEF Inv, DeliveredIsSettled
  <2> QED
    BY <2>1, <2>2
<1>11. AckedWasDelivered'
  BY <1>2, <1>4 DEF Inv, AckedWasDelivered
<1> QED
  BY <1>6, <1>7, <1>8, <1>9, <1>10, <1>11 DEF Inv

LEMMA AckInv ==
  ASSUME Inv, TypeOK', Reserved',
         NEW v \in Worker,
         \/ \E a \in Agent, c \in Command : send_ack(a, v, c)
         \/ acknowledge_command(v)
  PROVE  Inv'
<1>1. ASSUME NEW a \in Agent, NEW c \in Command, send_ack(a, v, c) PROVE Inv'
  <2>1. /\ req'[v].op = "ack" /\ req'[v].id = c /\ req'[v].agent = a
        /\ \A u \in Worker : u # v => req'[u] = req[u]
        /\ awaiting'[a] = v /\ \A b \in Agent : b # a => awaiting'[b] = awaiting[b]
        /\ delivered[c] > 0
        /\ UNCHANGED <<cmd_agent, status, late, inbox, delivered>>
    BY <1>1 DEF send_ack, Inv, TypeOK, Addressed, table
  <2>2. Addressed'
    BY <2>1 DEF Inv, Addressed
  <2>3. Unheard'
    <3> SUFFICES ASSUME NEW u \in Worker, req'[u].op = "collect", Hears(u)',
                        NEW d \in req'[u].ids
                 PROVE  delivered'[d] = 0
      BY DEF Unheard
    <3>1. u # v /\ req'[u] = req[u] /\ req[u].agent \in Agent
      BY <2>1, RequestFields DEF Inv, TypeOK
    <3>2. Hears(u)
      BY <2>1, <3>1 DEF Hears
    <3> QED
      BY <2>1, <3>1, <3>2 DEF Inv, Unheard
  <2>4. NoneSkipped'
    BY <2>1 DEF Inv, NoneSkipped
  <2>5. AtMostOnceDelivery' /\ DeliveredIsSettled' /\ AckedWasDelivered'
    BY <2>1 DEF Inv, AtMostOnceDelivery, DeliveredIsSettled, AckedWasDelivered
  <2> QED
    BY <2>2, <2>3, <2>4, <2>5 DEF Inv
<1>2. CASE acknowledge_command(v)
  <2> DEFINE c == req[v].id
  <2>1. req[v].agent \in Agent /\ c \in Command /\ delivered[c] > 0
    BY <1>2, RequestFields DEF acknowledge_command, Inv, TypeOK, Addressed
  <2>2. \A d \in Command : status'[d] = status[d] \/ (d = c /\ status'[d] = "acked")
    <3>1. status' = status \/ status' = [status EXCEPT ![c] = "acked"]
      BY <1>2 DEF acknowledge_command
    <3> HIDE DEF c
    <3>2. status \in [Command -> Status]
      BY DEF Inv, TypeOK
    <3>3. CASE status' = [status EXCEPT ![c] = "acked"]
      BY <2>1, <3>2, <3>3
    <3> QED
      BY <3>1, <3>3
  <2>3. \A b \in Agent : inbox'[b] \subseteq inbox[b]
    BY <1>2, <2>1 DEF acknowledge_command, Inv, TypeOK
  <2>4. \A b \in Agent : awaiting'[b] = awaiting[b] \/ awaiting'[b] = NoWorker
    BY <1>2, <2>1, AnswerType DEF acknowledge_command, Inv
  <2> QED
    BY <1>2, <2>1, <2>2, <2>3, <2>4, Shrinking
       DEF acknowledge_command, Finish, Inv, TypeOK
<1> QED
  BY <1>1, <1>2

(* The strengthened invariant is inductive. *)
LEMMA NextInv == Inv /\ [Next]_vars => Inv'
<1> SUFFICES ASSUME Inv, [Next]_vars PROVE Inv'
  OBVIOUS
<1>1. TypeOK' /\ Reserved'
  BY TypeInductive, ReservedInductive DEF Inv
<1> QED
  BY <1>1, QuietSteps, IssueInv, HeartbeatInv, CollectInv, AckInv
     DEF Next, Operator, Time, Client, Server

LEMMA InvHolds == Spec => []Inv
  BY InitInv, NextInv, PTL DEF Spec

-------------------------------------------------------------------------------
(* One click, at most one scan: no overlap of retries delivers twice. *)
THEOREM AtMostOnce == Spec => []AtMostOnceDelivery
<1>1. Inv => AtMostOnceDelivery
  BY DEF Inv
<1> QED
  BY <1>1, InvHolds, PTL

(* Agents only ever hold commands addressed to them. *)
THEOREM OwnCommands == Spec => []OnlyOwnCommands
<1>1. Inv => OnlyOwnCommands
  BY DEF Inv, Addressed, OnlyOwnCommands
<1> QED
  BY <1>1, InvHolds, PTL

(* What was delivered is never queued or expired again. *)
THEOREM Settled == Spec => []DeliveredIsSettled
<1>1. Inv => DeliveredIsSettled
  BY DEF Inv
<1> QED
  BY <1>1, InvHolds, PTL

(* An acknowledged command was delivered. *)
THEOREM AckIsTruthful == Spec => []AckedWasDelivered
<1>1. Inv => AckedWasDelivered
  BY DEF Inv
<1> QED
  BY <1>1, InvHolds, PTL

(* No worker, however late, dispatches past an older queued command. *)
THEOREM FirstComeFirstServed == Spec => NoOvertake
<1> DEFINE Fair == \A c, d \in Command :
             /\ d < c /\ d \notin late /\ cmd_agent[c] = cmd_agent[d]
             /\ status[c] = "queued" /\ status[d] = "queued"
             /\ status'[c] = "dispatched"
             => status'[d] # "queued"
<1>1. Inv /\ [Next]_vars => [Fair]_vars
  <2> SUFFICES ASSUME Inv, Next, NEW c \in Command, NEW d \in Command, d < c,
                      d \notin late, cmd_agent[c] = cmd_agent[d], status[c] = "queued",
                      status[d] = "queued", status'[c] = "dispatched"
               PROVE  status'[d] # "queued"
    BY DEF Next
  <2>1. PICK w \in Worker : collect_pending_commands(w)
    <3>1. status'[c] # status[c] /\ status \in [Command -> Status]
      BY DEF Inv, TypeOK
    <3>2. ASSUME NEW w \in Worker, heartbeat(w) PROVE FALSE
      BY <3>1, <3>2 DEF heartbeat
    <3>3. ASSUME NEW w \in Worker, acknowledge_command(w) PROVE FALSE
      BY <3>1, <3>3 DEF acknowledge_command
    <3>4. ASSUME NEW w \in Worker, issue_rescan_command(w) PROVE FALSE
      BY <3>1, <3>4 DEF issue_rescan_command
    <3>5. ASSUME NEW a \in Agent, destroy(a) PROVE FALSE
      BY <3>1, <3>5 DEF destroy
    <3>6. CASE expire_old_commands
      BY <3>1, <3>6 DEF expire_old_commands
    <3> QED
      BY <3>1, <3>2, <3>3, <3>4, <3>5, <3>6
         DEF Next, Operator, Time, Client, Server, revoke_agent, enroll, lapse,
             send_heartbeat, send_ack, timeout, restart, give_up, rescan, worker_dies, table
  <2>2. /\ c \in req[w].ids /\ req[w].op = "collect" /\ status' = Collected(w)
    BY <2>1 DEF collect_pending_commands, Collected
  <2>3. d \in req[w].ids \cup req[w].stale
    BY <2>2 DEF Inv, NoneSkipped
  <2> QED
    BY <2>2, <2>3 DEF Collected, Row
<1> QED
  BY <1>1, InvHolds, PTL DEF Spec, NoOvertake

(* The rows of the agents as sessions: who is in which one, and which were  *)
(* ever named.  What one agent's row goes through touches no other's.       *)
Current == [a \in Agent |-> IF agent[a] = "active" THEN <<a, session[a]>> ELSE <<>>]
Used == {s \in Agent \X (0 .. MaxEnroll) : s[2] <= session[s[1]]}

LEMMA Opened ==
  ASSUME TypeOK, NEW b \in Agent, enroll(b)
  PROVE  Auth!Open(b)
<1> DEFINE n == session[b] + 1
           s == <<b, n>>
<1>1. /\ session[b] \in Nat /\ n \in 0 .. MaxEnroll
      /\ session \in [Agent -> 0 .. MaxEnroll] /\ agent \in [Agent -> {"active", "revoked", "deleted"}]
  BY MaxEnrollAssumption DEF enroll, TypeOK
<1>2. agent' = [agent EXCEPT ![b] = "active"] /\ session' = [session EXCEPT ![b] = n]
  BY DEF enroll
<1>3. /\ \A c \in Agent : session'[c] = IF c = b THEN n ELSE session[c]
      /\ \A c \in Agent : agent'[c] = IF c = b THEN "active" ELSE agent[c]
  BY <1>1, <1>2
<1>4. s \in Agent \X (0 .. MaxEnroll) /\ s \notin Used
  BY <1>1 DEF Used
<1>5. Current' = [Current EXCEPT ![b] = s]
  BY <1>3 DEF Current
<1>6. Used' = Used \cup {s}
  <2>1. \A k \in 0 .. MaxEnroll : k <= n <=> k <= session[b] \/ k = n
    BY <1>1, MaxEnrollAssumption
  <2>2. \A c \in Agent, k \in 0 .. MaxEnroll :
          k <= session'[c] <=> k <= session[c] \/ (c = b /\ k = n)
    BY <1>3, <2>1
  <2>3. \A x \in Agent \X (0 .. MaxEnroll) : x = <<x[1], x[2]>> /\ x[1] \in Agent /\ x[2] \in 0 .. MaxEnroll
    OBVIOUS
  <2>4. \A x \in Agent \X (0 .. MaxEnroll) : x = s <=> x[1] = b /\ x[2] = n
    BY <2>3
  <2> HIDE DEF s, n
  <2>5. \A x \in Agent \X (0 .. MaxEnroll) : x \in Used' <=> x \in Used \/ x = s
    BY <2>2, <2>3, <2>4 DEF Used
  <2>6. Used' \subseteq Agent \X (0 .. MaxEnroll) /\ Used \subseteq Agent \X (0 .. MaxEnroll)
    BY DEF Used
  <2> QED
    BY <1>4, <2>5, <2>6
<1> QED
  BY <1>4, <1>5, <1>6 DEF Auth!Open, Current, Used

LEMMA Closed ==
  ASSUME TypeOK, NEW b \in Agent, revoke_agent(b) \/ destroy(b)
  PROVE  Auth!Close(b) \/ UNCHANGED Auth!vars
<1>1. /\ session' = session /\ agent[b] # "deleted"
      /\ \E st \in {"revoked", "deleted"} : agent' = [agent EXCEPT ![b] = st]
  BY DEF revoke_agent, destroy
<1>2. Used' = Used
  BY <1>1 DEF Used
<1>3. /\ agent'[b] # "active" /\ \A c \in Agent : c # b => agent'[c] = agent[c]
  BY <1>1 DEF TypeOK
<1>4. Current' = [Current EXCEPT ![b] = <<>>]
  BY <1>1, <1>3 DEF Current
<1>5. CASE agent[b] = "active"
  <2>1. Current[b] # <<>>
    BY <1>5 DEF Current
  <2> QED
    BY <1>2, <1>4, <2>1 DEF Auth!Close, Current, Used
<1>6. CASE agent[b] # "active"
  <2>1. Current' = Current
    BY <1>3, <1>1, <1>6 DEF Current
  <2> QED
    BY <1>2, <2>1 DEF Auth!vars, Current, Used
<1> QED
  BY <1>5, <1>6

(* No request that is under way takes a revocation or an enrollment back:   *)
(* to the books of SessionAuthority each step of the queue, of its workers  *)
(* and of their late answers is a step of theirs, or nothing.               *)
THEOREM RevocationStands == Spec => SessionsAreAuthorized
<1>1. TypeOK /\ [Next]_vars => [Auth!Next]_(Auth!vars)
  <2> SUFFICES ASSUME TypeOK, [Next]_vars PROVE [Auth!Next]_(Auth!vars)
    OBVIOUS
  <2>1. ASSUME NEW b \in Agent, enroll(b) PROVE Auth!Next
    BY <2>1, Opened DEF Auth!Next
  <2>2. ASSUME NEW b \in Agent, revoke_agent(b) \/ destroy(b) PROVE [Auth!Next]_(Auth!vars)
    BY <2>2, Closed DEF Auth!Next
  <2>3. CASE UNCHANGED row
    <3>1. Current' = Current /\ Used' = Used
      BY <2>3 DEF row, Current, Used
    <3> QED
      BY <3>1 DEF Auth!vars, Current, Used
  <2> QED
    BY <2>1, <2>2, <2>3
       DEF Next, Operator, Time, Client, Server, vars, lapse, expire_old_commands, send_heartbeat, send_ack,
           timeout, restart, give_up, rescan, issue_rescan_command, heartbeat,
           collect_pending_commands, acknowledge_command, worker_dies, client
<1> QED
  BY <1>1, TypeCorrect, PTL DEF Spec, SessionsAreAuthorized

-------------------------------------------------------------------------------
(* The refinement.  Whatever only takes commands out of the queue is a      *)
(* withdrawal.                                                              *)
Waiting == {c \in Command : status[c] = "queued"}

LEMMA Withdrawn ==
  ASSUME UNCHANGED <<cmd_agent, late, delivered>>,
         \A c \in Command : status'[c] = "queued" => status[c] = "queued"
  PROVE  Mail!Next
<1>1. Waiting' \in SUBSET Waiting
  BY DEF Waiting
<1>2. Mail!Withdraw
  BY <1>1 DEF Mail!Withdraw, Waiting
<1> QED
  BY <1>2 DEF Mail!Next

LEMMA Posted ==
  ASSUME TypeOK, Reserved, NEW w \in Worker, issue_rescan_command(w)
  PROVE  Mail!Next
<1>0. PICK a \in Agent, c \in Command : a = req[w].agent /\ c = req[w].id
  BY RequestFields DEF issue_rescan_command, TypeOK
<1>1. CASE UNCHANGED <<status, cmd_agent, late>>
  BY <1>1, Withdrawn DEF issue_rescan_command, client
<1>2. CASE /\ status' = [status EXCEPT ![c] = "queued"]
           /\ cmd_agent' = [cmd_agent EXCEPT ![c] = a]
           /\ late' = IF Younger(a, c) THEN late \cup {c} ELSE late
  <2>1. cmd_agent[c] = NoAgent /\ delivered' = delivered
    BY <1>0 DEF Reserved, TypeOK, issue_rescan_command, client
  <2>2. \A d \in Command : status'[d] = IF d = c THEN "queued" ELSE status[d]
    BY <1>2 DEF TypeOK
  <2>3. Waiting' = Waiting \cup {c}
    BY <2>2 DEF Waiting
  <2>4. Mail!Post(c, a)
    BY <1>2, <2>1, <2>3 DEF Mail!Post, Waiting, Younger
  <2> QED
    BY <2>4 DEF Mail!Next
<1> QED
  BY <1>0, <1>1, <1>2 DEF issue_rescan_command

LEMMA HandedOver ==
  ASSUME Inv, NEW w \in Worker, collect_pending_commands(w)
  PROVE  Mail!Next
<1> DEFINE ids == {c \in req[w].ids : Row(c)}
<1>0. PICK a \in Agent : a = req[w].agent
  BY RequestFields DEF collect_pending_commands, Inv, TypeOK
<1>1. /\ ids \subseteq Command /\ ids \subseteq req[w].ids /\ UNCHANGED <<cmd_agent, late>>
      /\ \A c \in ids : cmd_agent[c] = a
  BY <1>0, RequestFields DEF collect_pending_commands, Inv, TypeOK, Addressed
<1>2. \A c \in Command : IF c \in ids THEN status'[c] = "dispatched"
                         ELSE status'[c] = status[c] \/ status'[c] = "expired"
  BY DEF collect_pending_commands, Collected
<1>3. CASE ~Hears(w)
  BY <1>2, <1>3, Withdrawn DEF collect_pending_commands
<1>4. CASE Hears(w)
  <2>1. delivered' = [c \in Command |-> IF c \in ids THEN delivered[c] + 1 ELSE delivered[c]]
    BY <1>4 DEF collect_pending_commands
  <2>2. \A c \in ids : delivered[c] = 0
    BY <1>1, <1>4 DEF Inv, Unheard, collect_pending_commands
  <2>3. delivered' = [c \in Command |-> IF c \in ids THEN 1 ELSE delivered[c]]
    BY <2>1, <2>2
  <2>4. Waiting' \in SUBSET (Waiting \ ids)
    BY <1>2 DEF Waiting
  <2>5. \A c \in ids, d \in Waiting' : d < c /\ cmd_agent[d] = a => d \in late
    <3> SUFFICES ASSUME NEW c \in ids, NEW d \in Waiting', d < c, cmd_agent[d] = a,
                        d \notin late
                 PROVE  FALSE
      OBVIOUS
    <3>1. d \in Command /\ status[d] = "queued" /\ status'[d] = "queued" /\ d \notin ids
      BY <1>2 DEF Waiting
    <3>2. d \in req[w].ids \cup req[w].stale
      BY <1>1, <3>1 DEF Inv, NoneSkipped, collect_pending_commands
    <3>3. status' = Collected(w)
      BY DEF collect_pending_commands
    <3> QED
      BY <3>1, <3>2, <3>3 DEF Collected, Row
  <2>6. ids \in SUBSET {c \in Command : cmd_agent[c] = a /\ delivered[c] = 0}
    BY <1>1, <2>2
  <2> HIDE DEF ids
  <2>7. Mail!Hand(a)
    BY <1>1, <2>3, <2>4, <2>5, <2>6 DEF Mail!Hand, Waiting
  <2> QED
    BY <2>7 DEF Mail!Next
<1> QED
  BY <1>3, <1>4

LEMMA MailStep == Inv /\ [Next]_vars => [Mail!Next]_(Mail!vars)
<1> SUFFICES ASSUME Inv, [Next]_vars PROVE [Mail!Next]_(Mail!vars)
  OBVIOUS
<1>1. CASE UNCHANGED <<cmd_agent, status, late, delivered>>
  BY <1>1, Withdrawn
<1>2. ASSUME NEW a \in Agent, destroy(a) PROVE Mail!Next
  BY <1>2, Withdrawn DEF destroy, client
<1>3. CASE expire_old_commands
  BY <1>3, Withdrawn DEF expire_old_commands, client
<1>4. ASSUME NEW w \in Worker, heartbeat(w) PROVE Mail!Next
  <2>1. \A c \in Command : status'[c] = "queued" => status[c] = "queued"
    BY <1>4 DEF heartbeat
  <2> QED
    BY <1>4, <2>1, Withdrawn DEF heartbeat
<1>5. ASSUME NEW w \in Worker, acknowledge_command(w) PROVE Mail!Next
  <2>1. \A c \in Command : status'[c] = "queued" => status[c] = "queued"
    BY <1>5 DEF acknowledge_command, Inv, TypeOK
  <2> QED
    BY <1>5, <2>1, Withdrawn DEF acknowledge_command
<1>6. ASSUME NEW w \in Worker, issue_rescan_command(w) PROVE Mail!Next
  BY <1>6, Posted DEF Inv
<1> QED
  BY <1>1, <1>2, <1>3, <1>4, <1>5, <1>6, HandedOver
     DEF Next, Operator, Time, Client, Server, vars, table, client, revoke_agent, enroll, lapse, rescan,
         send_heartbeat, send_ack, timeout, restart, give_up, worker_dies

(* For any agents, workers, limit and interleaving, the queue is a mailbox. *)
THEOREM Refinement == Spec => ImplementsMailbox
<1>1. Init => Mail!Init
  <2>1. Init => Waiting = {}
    BY DEF Init, Waiting
  <2> QED
    BY <2>1 DEF Init, Mail!Init, Waiting
<1> QED
  BY <1>1, MailStep, InvHolds, PTL DEF Spec, ImplementsMailbox, Mail!Spec
===============================================================================
