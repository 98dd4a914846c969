--------------------------- MODULE AgentCredentials ---------------------------
(***************************************************************************)
(* The server's half of agent identity: the rows of agents_agent, the      *)
(* tokens signed over them, and the requests of several gunicorn workers   *)
(* (docker-compose: gunicorn -w 4) that read and write them concurrently.  *)
(*                                                                         *)
(*   enroll_agent    apps/agents/services.py   one transaction             *)
(*   token_refresh   apps/api/v1/agents.py     a SELECT, later an UPDATE   *)
(*   revoke_agent    apps/agents/services.py   one UPDATE                  *)
(*   destroy         apps/api/v1/assets.py     one transaction, cascades   *)
(*   authenticate    apps/agents/auth.py       a SELECT, see Accepted      *)
(*                                                                         *)
(* A statement of the database is atomic.  The transaction of enroll_agent *)
(* is one step when its row exists, because SELECT ... FOR UPDATE keeps    *)
(* every other writer of that row out until it commits; when there is no   *)
(* row there is nothing to lock and the lookup and the insert are two      *)
(* steps.  What an enrollment or a refresh committed and what its client    *)
(* hears of it are two steps as well: the answer with the tokens is under  *)
(* way for a while and may be lost.  uuid4() never repeats: identifiers    *)
(* are numbered in the order they are drawn and only ever compared for     *)
(* equality.                                                               *)
(***************************************************************************)
EXTENDS Naturals, FiniteSets

CONSTANTS
  Machine,      \* values of fingerprint["machine_id"]
  NoMachine,    \* the machine_id of a row that does not exist
  Worker,       \* the server's request handlers, each with its connection
  MaxAgents,    \* bound: rows the agents table ever holds
  MaxJti,       \* bound: uuid4() draws used as a JTI
  AuditFails    \* whether an audit INSERT may fail inside a transaction

ASSUME NoMachineAssumption == NoMachine \notin Machine
ASSUME MaxAgentsAssumption == MaxAgents \in Nat
ASSUME MaxJtiAssumption == MaxJti \in Nat
ASSUME AuditFailsAssumption == AuditFails \in BOOLEAN

AgentId == 1 .. MaxAgents
Jti == 1 .. MaxJti
NoJti == 0                  \* the empty string of jwt_jti and refresh_jti

VARIABLES
  stage,        \* where the row of an agent is in its life
  machine_id,   \* \
  jwt_jti,      \*  | the columns of the row, meaningful while it is "live"
  refresh_jti,  \*  |
  is_revoked,   \* /
  assets,       \* the agents whose Asset row exists (asset is OneToOne)
  rows,         \* primary keys drawn so far
  drawn,        \* JTIs drawn so far
  issued,       \* the tokens that reached the machine they were signed for
  lost,         \* the tokens that went down with their answer
  req           \* the request each worker is in the middle of

columns == <<machine_id, jwt_jti, refresh_jti, is_revoked>>
table == <<stage, columns, assets>>
vars == <<table, rows, drawn, issued, lost, req>>

(* A token names its device and its JTI.  root is not in the JWT: it is the *)
(* refresh JTI of the enrollment the token descends from.                   *)
Token == [kind : {"agent_access", "agent_refresh"}, device_id : AgentId,
          jti : Jti, root : Jti]

Idle == [op |-> "idle"]
Request == {Idle}
             \cup [op : {"enroll_agent"}, machine : Machine]
             \cup [op : {"token_refresh"}, device_id : AgentId, root : Jti]
             \cup [op : {"answer"}, tokens : SUBSET Token]

TypeOK ==
  /\ stage \in [AgentId -> {"absent", "live", "deleted"}]
  /\ machine_id \in [AgentId -> Machine \cup {NoMachine}]
  /\ jwt_jti \in [AgentId -> Jti \cup {NoJti}]
  /\ refresh_jti \in [AgentId -> Jti \cup {NoJti}]
  /\ is_revoked \in [AgentId -> BOOLEAN]
  /\ assets \subseteq AgentId
  /\ rows \in 0 .. MaxAgents
  /\ drawn \in 0 .. MaxJti
  /\ issued \subseteq Token /\ lost \subseteq Token
  /\ req \in [Worker -> Request]
  /\ \A a \in AgentId : stage[a] = "absent" <=> machine_id[a] = NoMachine

-------------------------------------------------------------------------------

Init ==
  /\ stage = [a \in AgentId |-> "absent"]
  /\ machine_id = [a \in AgentId |-> NoMachine]
  /\ jwt_jti = [a \in AgentId |-> NoJti]
  /\ refresh_jti = [a \in AgentId |-> NoJti]
  /\ is_revoked = [a \in AgentId |-> FALSE]
  /\ assets = {}
  /\ rows = 0
  /\ drawn = 0
  /\ issued = {} /\ lost = {}
  /\ req = [w \in Worker |-> Idle]

(* The rows that Agent.objects.filter(machine_id=m) finds. *)
Rows(m) == {a \in AgentId : stage[a] = "live" /\ machine_id[a] = m}

(* The database side of AgentJWTAuthentication.authenticate and of the      *)
(* lookup in token_refresh: filter(id, the jti column of the kind,          *)
(* is_revoked=False).  An expired token is a token nobody presents.         *)
Accepted(t) ==
  /\ stage[t.device_id] = "live"
  /\ ~is_revoked[t.device_id]
  /\ \/ t.kind = "agent_access" /\ t.jti = jwt_jti[t.device_id]
     \/ t.kind = "agent_refresh" /\ t.jti = refresh_jti[t.device_id]

AccessToken(a, jti, root) ==
  [kind |-> "agent_access", device_id |-> a, jti |-> jti, root |-> root]
RefreshToken(a, jti) ==
  [kind |-> "agent_refresh", device_id |-> a, jti |-> jti, root |-> jti]

(* log_event swallows the exception of a failed INSERT, but inside          *)
(* transaction.atomic the connection is already marked for rollback: the    *)
(* block ends without an exception and without a commit, and the handler    *)
(* goes on to answer as if it had committed.                                *)
Committed == IF AuditFails THEN BOOLEAN ELSE {TRUE}

(* Two uuid4() draws, and the pair of tokens signed on them. *)
SignPair ==
  /\ drawn + 2 <= MaxJti
  /\ drawn' = drawn + 2

Pair(a) == {AccessToken(a, drawn + 1, drawn + 2), RefreshToken(a, drawn + 2)}

(* The transaction is over; what is left of the request is its response. *)
Answer(w, tokens) ==
  req' = [req EXCEPT ![w] = [op |-> "answer", tokens |-> tokens]]

(* Seeded bug: the re-enrollment branch forgets agent.is_revoked = False. *)
StorePair_keeps_revoked(a) ==
  /\ jwt_jti' = [jwt_jti EXCEPT ![a] = drawn + 1]
  /\ refresh_jti' = [refresh_jti EXCEPT ![a] = drawn + 2]
  /\ UNCHANGED is_revoked

(* agent.jwt_jti = ..., agent.refresh_jti = ..., agent.save() *)
StorePair(a) ==
  /\ jwt_jti' = [jwt_jti EXCEPT ![a] = drawn + 1]
  /\ refresh_jti' = [refresh_jti EXCEPT ![a] = drawn + 2]
  /\ is_revoked' = [is_revoked EXCEPT ![a] = FALSE]

-------------------------------------------------------------------------------
(* enroll_agent when select_for_update() finds the row: the row is locked   *)
(* to the end of the transaction, so the whole transaction is one step.     *)
enroll_existing(w, m) ==
  /\ req[w] = Idle
  /\ \E a \in Rows(m), committed \in Committed :
       /\ SignPair
       /\ \/ committed /\ StorePair(a)
          \/ ~committed /\ UNCHANGED <<jwt_jti, refresh_jti, is_revoked>>
       /\ Answer(w, Pair(a))
  /\ UNCHANGED <<stage, machine_id, assets, rows, issued, lost>>

(* enroll_agent when there is no row, so no lock either: .first() is None. *)
enroll_lookup(w, m) ==
  /\ req[w] = Idle
  /\ Rows(m) = {}
  /\ req' = [req EXCEPT ![w] = [op |-> "enroll_agent", machine |-> m]]
  /\ UNCHANGED <<table, rows, drawn, issued, lost>>

(* Seeded bug: without transaction.atomic the Asset outlives the conflict. *)
enroll_conflict_not_atomic(w) ==
  /\ req[w].op = "enroll_agent"
  /\ Rows(req[w].machine) # {}
  /\ rows < MaxAgents
  /\ rows' = rows + 1
  /\ assets' = assets \cup {rows + 1}
  /\ req' = [req EXCEPT ![w] = Idle]
  /\ UNCHANGED <<stage, columns, drawn, issued, lost>>

(* Agent.objects.create violates the unique machine_id: IntegrityError, and *)
(* the Asset created a statement before goes with the transaction.          *)
enroll_conflict(w) ==
  /\ req[w].op = "enroll_agent"
  /\ Rows(req[w].machine) # {}
  /\ req' = [req EXCEPT ![w] = Idle]
  /\ UNCHANGED <<table, rows, drawn, issued, lost>>

(* Seeded bug: machine_id indexed but not unique. *)
enroll_insert_not_unique(w) ==
  /\ req[w].op = "enroll_agent"
  /\ rows < MaxAgents
  /\ rows' = rows + 1
  /\ SignPair
  /\ StorePair(rows + 1)
  /\ stage' = [stage EXCEPT ![rows + 1] = "live"]
  /\ machine_id' = [machine_id EXCEPT ![rows + 1] = req[w].machine]
  /\ assets' = assets \cup {rows + 1}
  /\ Answer(w, Pair(rows + 1))
  /\ UNCHANGED <<issued, lost>>

(* Seeded bug: the row is created without its machine_id. *)
enroll_insert_anonymous(w) ==
  /\ req[w].op = "enroll_agent"
  /\ rows < MaxAgents
  /\ rows' = rows + 1
  /\ SignPair
  /\ StorePair(rows + 1)
  /\ stage' = [stage EXCEPT ![rows + 1] = "live"]
  /\ assets' = assets \cup {rows + 1}
  /\ Answer(w, Pair(rows + 1))
  /\ UNCHANGED <<machine_id, issued, lost>>

(* Asset and Agent created, tokens signed and stored, audited, committed -- *)
(* or, when the audit INSERT failed, rolled back and answered all the same. *)
enroll_insert(w) ==
  /\ req[w].op = "enroll_agent"
  /\ Rows(req[w].machine) = {}
  /\ rows < MaxAgents
  /\ rows' = rows + 1
  /\ SignPair
  /\ \E committed \in Committed :
       \/ /\ committed
          /\ StorePair(rows + 1)
          /\ stage' = [stage EXCEPT ![rows + 1] = "live"]
          /\ machine_id' = [machine_id EXCEPT ![rows + 1] = req[w].machine]
          /\ assets' = assets \cup {rows + 1}
       \/ ~committed /\ UNCHANGED table
  /\ Answer(w, Pair(rows + 1))
  /\ UNCHANGED <<issued, lost>>

(* token_refresh finds the row of an unrevoked agent by its refresh JTI... *)
token_refresh_lookup(w) ==
  /\ req[w] = Idle
  /\ \E t \in issued :
       /\ t.kind = "agent_refresh"
       /\ Accepted(t)
       /\ req' = [req EXCEPT ![w] = [op |-> "token_refresh",
                                     device_id |-> t.device_id,
                                     root |-> t.jti]]
  /\ UNCHANGED <<table, rows, drawn, issued, lost>>

(* Seeded bug: agent.save() on the row read by the lookup, every column.    *)
token_refresh_update_full_save(w) ==
  /\ req[w].op = "token_refresh"
  /\ drawn < MaxJti
  /\ drawn' = drawn + 1
  /\ LET a == req[w].device_id
     IN  /\ stage[a] = "live"
         /\ jwt_jti' = [jwt_jti EXCEPT ![a] = drawn + 1]
         /\ refresh_jti' = [refresh_jti EXCEPT ![a] = req[w].root]
         /\ is_revoked' = [is_revoked EXCEPT ![a] = FALSE]
         /\ Answer(w, {AccessToken(a, drawn + 1, req[w].root)})
  /\ UNCHANGED <<stage, machine_id, assets, rows, issued, lost>>

(* Seeded bug: the token is signed on the JTI the row had. *)
token_refresh_update_old_jti(w) ==
  /\ req[w].op = "token_refresh"
  /\ drawn < MaxJti
  /\ drawn' = drawn + 1
  /\ LET a == req[w].device_id
     IN  /\ stage[a] = "live" /\ jwt_jti[a] # NoJti
         /\ jwt_jti' = [jwt_jti EXCEPT ![a] = drawn + 1]
         /\ Answer(w, {AccessToken(a, jwt_jti[a], req[w].root)})
  /\ UNCHANGED <<stage, machine_id, refresh_jti, is_revoked, assets, rows,
                 issued, lost>>

(* ... and, after signing, stores the new access JTI with                   *)
(* filter(id=agent.id).update(jwt_jti=...), which looks at the id alone and *)
(* matches no row once the agent is deleted.  It answers in either case.    *)
token_refresh_update(w) ==
  /\ req[w].op = "token_refresh"
  /\ drawn < MaxJti
  /\ drawn' = drawn + 1
  /\ LET a == req[w].device_id
     IN  /\ jwt_jti' = IF stage[a] = "live"
                       THEN [jwt_jti EXCEPT ![a] = drawn + 1]
                       ELSE jwt_jti
         /\ Answer(w, {AccessToken(a, drawn + 1, req[w].root)})
  /\ UNCHANGED <<stage, machine_id, refresh_jti, is_revoked, assets, rows,
                 issued, lost>>

(* The response with the tokens reaches the client. *)
respond(w) ==
  /\ req[w].op = "answer"
  /\ issued' = issued \cup req[w].tokens
  /\ req' = [req EXCEPT ![w] = Idle]
  /\ UNCHANGED <<table, rows, drawn, lost>>

(* The worker dies, or its connection does, between two statements of the   *)
(* request or after the last of them: what was committed stays committed,   *)
(* and the tokens of an answer under way are nobody's.                      *)
request_lost(w) ==
  /\ req[w] # Idle
  /\ lost' = IF req[w].op = "answer" THEN lost \cup req[w].tokens ELSE lost
  /\ req' = [req EXCEPT ![w] = Idle]
  /\ UNCHANGED <<table, rows, drawn, issued>>

(* save(update_fields=[...]): one UPDATE of these columns and no others. *)
revoke_agent(a) ==
  /\ stage[a] = "live"
  /\ is_revoked' = [is_revoked EXCEPT ![a] = TRUE]
  /\ jwt_jti' = [jwt_jti EXCEPT ![a] = NoJti]
  /\ refresh_jti' = [refresh_jti EXCEPT ![a] = NoJti]
  /\ UNCHANGED <<stage, machine_id, assets, rows, drawn, issued, lost, req>>

(* DELETE of an asset; the agent goes with it (on_delete=CASCADE).  When    *)
(* the audit INSERT of the post_delete receiver fails the collector's own   *)
(* transaction rolls back, which leaves every row as it was.                *)
destroy(a) ==
  /\ a \in assets
  /\ assets' = assets \ {a}
  /\ stage' = [stage EXCEPT ![a] = IF @ = "live" THEN "deleted" ELSE @]
  /\ UNCHANGED <<columns, rows, drawn, issued, lost, req>>

Next ==
  \/ \E w \in Worker :
       \/ \E m \in Machine : enroll_existing(w, m) \/ enroll_lookup(w, m)
       \/ enroll_conflict(w) \/ enroll_insert(w)
       \/ token_refresh_lookup(w) \/ token_refresh_update(w)
       \/ respond(w) \/ request_lost(w)
  \/ \E a \in AgentId : revoke_agent(a) \/ destroy(a)

Spec == Init /\ [][Next]_vars

-------------------------------------------------------------------------------
(* Two workers that enroll one machine for the first time both find no row; *)
(* still the table never holds two agents of a machine                      *)
(* (services.py: "Idempotent on `machine_id`").                             *)
OneAgentPerMachine ==
  \A a, b \in AgentId :
    stage[a] = "live" /\ stage[b] = "live" /\ machine_id[a] = machine_id[b]
      => a = b

(* The loser of that race takes its Asset back out, a deleted Asset takes   *)
(* its agent along: enrollment and deletion, whatever they are interleaved  *)
(* with, move a device and its agent together.  (A PATCH that overlaps the  *)
(* deletion puts the asset back without its agent: AssetRecord has that.)   *)
NoOrphanAsset == assets = {a \in AgentId : stage[a] = "live"}

(* Whatever a revocation is interleaved with, is_revoked and the session    *)
(* agree: a revoked agent has no refresh JTI to come back with, and an      *)
(* agent that is not revoked has a pair to work with.                       *)
ActiveHasSession ==
  \A a \in AgentId : stage[a] = "live" =>
    IF is_revoked[a] THEN refresh_jti[a] = NoJti
                     ELSE refresh_jti[a] # NoJti /\ jwt_jti[a] # NoJti

(* Every token that was signed: with its machine, in an answer that is      *)
(* under way, or lost with one.                                             *)
UnderWay == UNION {req[w].tokens : w \in {v \in Worker : req[v].op = "answer"}}
Signed == issued \cup lost \cup UnderWay

(* No row waits for a token that was never signed for it: each JTI of a    *)
(* row is that of a token of its device and kind, which has reached the     *)
(* machine, is about to, or was lost with its answer after the commit.      *)
(* (The last leaves an active agent that nobody can be; so does a machine   *)
(* that took the tokens of an enrollment that was rolled back.)             *)
RowsAwaitSignedTokens ==
  \A a \in AgentId : stage[a] = "live" =>
    /\ jwt_jti[a] # NoJti =>
         \E t \in Signed : t.kind = "agent_access" /\ t.device_id = a
                             /\ t.jti = jwt_jti[a]
    /\ refresh_jti[a] # NoJti => RefreshToken(a, refresh_jti[a]) \in Signed

(* A token that has stopped being accepted -- displaced by a newer one, its *)
(* agent revoked, re-enrolled or deleted -- is never accepted again, even   *)
(* if the agent is un-revoked by a later enrollment.                        *)
NoResurrection ==
  [][\A t \in Signed : ~Accepted(t) => ~Accepted(t)']_vars

-------------------------------------------------------------------------------
(* Sessions: the refresh half of the credentials implements the abstract    *)
(* authority, in which a replaced or closed session is gone for good.       *)
Active(m) == {a \in Rows(m) : ~is_revoked[a]}
SessionOf(m) == IF Active(m) = {} THEN NoJti
                                  ELSE refresh_jti[CHOOSE a \in Active(m) : TRUE]
Used == {t.root : t \in Signed}

Sessions == INSTANCE SessionAuthority WITH
  Session <- Jti,
  NoSession <- NoJti,
  current <- [m \in Machine |-> SessionOf(m)],
  used <- Used

(* Every history of the table is a history of SessionAuthority. *)
ImplementsSessionAuthority == Sessions!Spec

-------------------------------------------------------------------------------
(* What the code's own words promise and its interleavings do not keep.     *)

(* services.py, enroll_agent: "previously issued tokens immediately become  *)
(* invalid".  A token_refresh that looked its row up before the enrollment  *)
(* stores its access JTI after it: the old session is back in, and the new  *)
(* session's own access token is out.                                       *)
PreviousTokensInvalid ==
  \A t \in issued : Accepted(t) => t.root = refresh_jti[t.device_id]

(* audit.py: "losing an audit row is better than 500-ing a live request".   *)
(* A failed audit INSERT loses the enrollment, which was answered with 201. *)
AnsweredEnrollmentPersists ==
  \A t \in issued : stage[t.device_id] # "absent"
===============================================================================
