------------------------ MODULE AgentCredentials_proofs ------------------------
(***************************************************************************)
(* The safety of AgentCredentials for any number of machines, workers,     *)
(* rows and tokens.  Everything rests on one inductive invariant, Inv: the *)
(* invariants a reader cares about strengthened with Freshness, which says *)
(* that the table, the tokens and the pending requests only ever mention   *)
(* identifiers that have been drawn.                                       *)
(***************************************************************************)
EXTENDS AgentCredentials, TLAPS

Freshness ==
  /\ \A a \in AgentId : jwt_jti[a] <= drawn /\ refresh_jti[a] <= drawn
  /\ \A a \in AgentId : a > rows => stage[a] = "absent"
  /\ \A t \in Signed : t.jti <= drawn /\ t.root <= drawn /\ t.device_id <= rows
  /\ \A t \in Signed : RefreshToken(t.device_id, t.root) \in Signed
  /\ \A w \in Worker : req[w].op = "token_refresh" =>
       RefreshToken(req[w].device_id, req[w].root) \in Signed

Inv ==
  /\ TypeOK
  /\ Freshness
  /\ OneAgentPerMachine
  /\ NoOrphanAsset
  /\ ActiveHasSession
  /\ RowsAwaitSignedTokens

USE MaxAgentsAssumption, MaxJtiAssumption, AuditFailsAssumption,
    NoMachineAssumption DEF AgentId, Jti, NoJti, Idle

-------------------------------------------------------------------------------
(* What the two kinds of pending request carry. *)
LEMMA RequestFields ==
  ASSUME NEW r \in Request
  PROVE  /\ r.op = "enroll_agent" => r.machine \in Machine
         /\ r.op = "token_refresh" => r.device_id \in AgentId /\ r.root \in Jti
         /\ r.op = "answer" => r.tokens \subseteq Token
<1>1. CASE r = Idle
  BY <1>1
<1>2. CASE r \in [op : {"enroll_agent"}, machine : Machine]
  BY <1>2
<1>3. CASE r \in [op : {"token_refresh"}, device_id : AgentId, root : Jti]
  BY <1>3
<1>4. CASE r \in [op : {"answer"}, tokens : SUBSET Token]
  BY <1>4
<1> QED
  BY <1>1, <1>2, <1>3, <1>4 DEF Request

(* The answer to an enrollment keeps to the vocabulary of tokens. *)
LEMMA SignPairType ==
  ASSUME TypeOK, NEW a \in AgentId, NEW w \in Worker, SignPair, Answer(w, Pair(a))
  PROVE  drawn' \in 0 .. MaxJti /\ req' \in [Worker -> Request]
<1>1. drawn + 1 \in Jti /\ drawn + 2 \in Jti
  BY DEF TypeOK, SignPair
<1>2. Pair(a) \in SUBSET Token
  BY <1>1 DEF Pair, AccessToken, RefreshToken, Token
<1>3. [op |-> "answer", tokens |-> Pair(a)] \in Request
  BY <1>2 DEF Request
<1> QED
  BY <1>1, <1>3 DEF TypeOK, SignPair, Answer

(* Storing a pair that was just signed keeps the columns typed. *)
LEMMA StorePairType ==
  ASSUME TypeOK, NEW a \in AgentId, SignPair, StorePair(a)
  PROVE  /\ jwt_jti' \in [AgentId -> Jti \cup {NoJti}]
         /\ refresh_jti' \in [AgentId -> Jti \cup {NoJti}]
         /\ is_revoked' \in [AgentId -> BOOLEAN]
<1>1. drawn + 1 \in Jti /\ drawn + 2 \in Jti
  BY DEF TypeOK, SignPair
<1> QED
  BY <1>1 DEF TypeOK, StorePair

(* Type correctness: every column, token and request stays in its domain,   *)
(* and a row has a machine_id from the step that creates it.                *)
LEMMA TypeInductive ==
  /\ Init => TypeOK
  /\ TypeOK /\ [Next]_vars => TypeOK'
<1>1. Init => TypeOK
  BY DEF Init, TypeOK, Request
<1>2. TypeOK /\ [Next]_vars => TypeOK'
  <2> SUFFICES ASSUME TypeOK, [Next]_vars PROVE TypeOK'
    OBVIOUS
  <2>1. CASE UNCHANGED vars
    BY <2>1 DEF vars, table, columns, TypeOK
  <2>2. ASSUME NEW w \in Worker, NEW m \in Machine, enroll_existing(w, m)
        PROVE TypeOK'
    <3>1. PICK a \in Rows(m), committed \in Committed :
            /\ SignPair /\ Answer(w, Pair(a))
            /\ \/ committed /\ StorePair(a)
               \/ ~committed /\ UNCHANGED <<jwt_jti, refresh_jti, is_revoked>>
      BY <2>2 DEF enroll_existing
    <3>2. a \in AgentId
      BY DEF Rows
    <3> QED
      BY <2>2, <3>1, <3>2, SignPairType, StorePairType DEF enroll_existing, TypeOK
  <2>3. ASSUME NEW w \in Worker, NEW m \in Machine, enroll_lookup(w, m)
        PROVE TypeOK'
    BY <2>3 DEF enroll_lookup, Request, TypeOK, table, columns
  <2>4. ASSUME NEW w \in Worker, enroll_conflict(w) PROVE TypeOK'
    BY <2>4 DEF enroll_conflict, Request, TypeOK, table, columns
  <2>5. ASSUME NEW w \in Worker, enroll_insert(w) PROVE TypeOK'
    <3> DEFINE a == rows + 1
    <3>1. /\ a \in AgentId /\ SignPair /\ Answer(w, Pair(a)) /\ rows' \in 0 .. MaxAgents
          /\ UNCHANGED <<issued, lost>>
      BY <2>5 DEF enroll_insert, TypeOK
    <3>2. req[w].machine \in Machine
      BY <2>5, RequestFields DEF enroll_insert, TypeOK
    <3>3. CASE UNCHANGED table
      BY <3>1, <3>3, SignPairType DEF TypeOK, table, columns
    <3>4. CASE /\ StorePair(a)
               /\ stage' = [stage EXCEPT ![a] = "live"]
               /\ machine_id' = [machine_id EXCEPT ![a] = req[w].machine]
               /\ assets' = assets \cup {a}
      BY <3>1, <3>2, <3>4, SignPairType, StorePairType DEF TypeOK
    <3> QED
      BY <2>5, <3>3, <3>4 DEF enroll_insert
  <2>6. ASSUME NEW w \in Worker, token_refresh_lookup(w) PROVE TypeOK'
    <3>1. PICK t \in issued :
            req' = [req EXCEPT ![w] = [op |-> "token_refresh",
                                       device_id |-> t.device_id, root |-> t.jti]]
      BY <2>6 DEF token_refresh_lookup
    <3>2. t.device_id \in AgentId /\ t.jti \in Jti
      BY DEF TypeOK, Token
    <3>3. req' \in [Worker -> Request]
      BY <3>1, <3>2 DEF TypeOK, Request
    <3> QED
      BY <2>6, <3>3 DEF token_refresh_lookup, TypeOK, table, columns
  <2>7. ASSUME NEW w \in Worker, token_refresh_update(w) PROVE TypeOK'
    <3>1. req[w].device_id \in AgentId /\ req[w].root \in Jti
      BY <2>7, RequestFields DEF token_refresh_update, TypeOK
    <3>2. drawn + 1 \in Jti /\ drawn' \in 0 .. MaxJti
      BY <2>7 DEF token_refresh_update, TypeOK
    <3>3. req' \in [Worker -> Request]
      <4> DEFINE t == AccessToken(req[w].device_id, drawn + 1, req[w].root)
      <4>1. t \in Token
        BY <3>1, <3>2 DEF AccessToken, Token
      <4>2. [op |-> "answer", tokens |-> {t}] \in Request
        BY <4>1 DEF Request
      <4> QED
        BY <2>7, <4>2 DEF token_refresh_update, Answer, TypeOK
    <3>4. jwt_jti' \in [AgentId -> Jti \cup {NoJti}]
      BY <2>7, <3>1, <3>2 DEF token_refresh_update, TypeOK
    <3> QED
      BY <2>7, <3>2, <3>3, <3>4 DEF token_refresh_update, TypeOK
  <2>8. ASSUME NEW w \in Worker, respond(w) \/ request_lost(w) PROVE TypeOK'
    <3>1. req[w].op = "answer" => req[w].tokens \subseteq Token
      BY RequestFields DEF TypeOK
    <3>2. issued' \subseteq Token /\ lost' \subseteq Token
      BY <2>8, <3>1 DEF respond, request_lost, TypeOK
    <3>3. req' \in [Worker -> Request]
      BY <2>8 DEF respond, request_lost, Request, TypeOK
    <3> QED
      BY <2>8, <3>2, <3>3 DEF respond, request_lost, TypeOK, table, columns
  <2>9. ASSUME NEW a \in AgentId, revoke_agent(a) PROVE TypeOK'
    BY <2>9 DEF revoke_agent, TypeOK
  <2>10. ASSUME NEW a \in AgentId, destroy(a) PROVE TypeOK'
    BY <2>10 DEF destroy, TypeOK, columns
  <2> QED
    BY <2>1, <2>2, <2>3, <2>4, <2>5, <2>6, <2>7, <2>8, <2>9, <2>10 DEF Next
<1> QED
  BY <1>1, <1>2

THEOREM TypeCorrect == Spec => []TypeOK
  BY TypeInductive, PTL DEF Spec

-------------------------------------------------------------------------------
(* What each kind of step does to the tokens that were ever signed: an      *)
(* answer adds its own, a step between two statements adds none, and        *)
(* neither delivering an answer nor losing it forgets any.                  *)
LEMMA AnswerSigns ==
  ASSUME TypeOK, NEW w \in Worker, NEW T, Answer(w, T), req[w].op # "answer",
         UNCHANGED <<issued, lost>>
  PROVE  Signed' = Signed \cup T
<1>1. /\ req'[w] = [op |-> "answer", tokens |-> T]
      /\ \A v \in Worker : v # w => req'[v] = req[v]
  BY DEF TypeOK, Answer
<1>2. UnderWay' = UnderWay \cup T
  <2>1. ASSUME NEW t \in UnderWay' PROVE t \in UnderWay \cup T
    <3>1. PICK v \in Worker : req'[v].op = "answer" /\ t \in req'[v].tokens
      BY <2>1 DEF UnderWay
    <3> QED
      BY <1>1, <3>1 DEF UnderWay
  <2>2. ASSUME NEW t \in UnderWay PROVE t \in UnderWay'
    <3>1. PICK v \in Worker : req[v].op = "answer" /\ t \in req[v].tokens
      BY <2>2 DEF UnderWay
    <3> QED
      BY <1>1, <3>1 DEF UnderWay
  <2>3. T \subseteq UnderWay'
    BY <1>1 DEF UnderWay
  <2> QED
    BY <2>1, <2>2, <2>3
<1> QED
  BY <1>2 DEF Signed

LEMMA NothingSigned ==
  ASSUME TypeOK, NEW w \in Worker, NEW r, req' = [req EXCEPT ![w] = r],
         req[w].op # "answer", r.op # "answer", UNCHANGED <<issued, lost>>
  PROVE  Signed' = Signed
<1>1. /\ req'[w] = r
      /\ \A v \in Worker : v # w => req'[v] = req[v]
  BY DEF TypeOK
<1>2. {v \in Worker : req'[v].op = "answer"} = {v \in Worker : req[v].op = "answer"}
  BY <1>1
<1>3. UnderWay' = UnderWay
  BY <1>1, <1>2 DEF UnderWay
<1> QED
  BY <1>3 DEF Signed

LEMMA BetweenStatements ==
  ASSUME TypeOK, NEW w \in Worker,
         \/ \E m \in Machine : enroll_lookup(w, m)
         \/ enroll_conflict(w) \/ token_refresh_lookup(w)
  PROVE  Signed' = Signed
<1>1. CASE \E m \in Machine : enroll_lookup(w, m)
  <2>1. PICK m \in Machine : enroll_lookup(w, m)
    BY <1>1
  <2> DEFINE r == [op |-> "enroll_agent", machine |-> m]
  <2>2. r.op # "answer" /\ req[w].op # "answer"
    BY <2>1 DEF enroll_lookup
  <2>3. req' = [req EXCEPT ![w] = r] /\ UNCHANGED <<issued, lost>>
    BY <2>1 DEF enroll_lookup
  <2> HIDE DEF r
  <2> QED
    BY <2>2, <2>3, NothingSigned
<1>2. CASE enroll_conflict(w)
  <2>1. Idle.op # "answer" /\ req[w].op # "answer"
    BY <1>2 DEF enroll_conflict
  <2>2. req' = [req EXCEPT ![w] = Idle] /\ UNCHANGED <<issued, lost>>
    BY <1>2 DEF enroll_conflict
  <2> QED
    BY <2>1, <2>2, NothingSigned
<1>3. CASE token_refresh_lookup(w)
  <2>1. PICK t \in issued :
          req' = [req EXCEPT ![w] = [op |-> "token_refresh",
                                     device_id |-> t.device_id, root |-> t.jti]]
    BY <1>3 DEF token_refresh_lookup
  <2> DEFINE r == [op |-> "token_refresh", device_id |-> t.device_id, root |-> t.jti]
  <2>2. r.op # "answer" /\ req[w].op # "answer"
    BY <1>3 DEF token_refresh_lookup
  <2>3. req' = [req EXCEPT ![w] = r] /\ UNCHANGED <<issued, lost>>
    BY <1>3, <2>1 DEF token_refresh_lookup
  <2> HIDE DEF r
  <2> QED
    BY <2>2, <2>3, NothingSigned
<1> QED
  BY <1>1, <1>2, <1>3

LEMMA NothingForgotten ==
  ASSUME TypeOK, NEW w \in Worker, respond(w) \/ request_lost(w)
  PROVE  Signed' = Signed
<1>1. /\ req'[w] = Idle /\ Idle.op # "answer"
      /\ \A v \in Worker : v # w => req'[v] = req[v]
  BY DEF TypeOK, respond, request_lost
<1>2. CASE req[w].op = "answer"
  <2>1. issued' \cup lost' = issued \cup lost \cup req[w].tokens
    BY <1>2 DEF respond, request_lost
  <2>2. UnderWay = UnderWay' \cup req[w].tokens
    <3>1. ASSUME NEW t \in UnderWay PROVE t \in UnderWay' \cup req[w].tokens
      <4>1. PICK v \in Worker : req[v].op = "answer" /\ t \in req[v].tokens
        BY <3>1 DEF UnderWay
      <4> QED
        BY <1>1, <4>1 DEF UnderWay
    <3>2. ASSUME NEW t \in UnderWay' PROVE t \in UnderWay
      <4>1. PICK v \in Worker : req'[v].op = "answer" /\ t \in req'[v].tokens
        BY <3>2 DEF UnderWay
      <4> QED
        BY <1>1, <4>1 DEF UnderWay
    <3>3. req[w].tokens \subseteq UnderWay
      BY <1>2 DEF UnderWay
    <3> QED
      BY <3>1, <3>2, <3>3
  <2> QED
    BY <2>1, <2>2 DEF Signed
<1>3. CASE req[w].op # "answer"
  BY <1>1, <1>3, NothingSigned DEF respond, request_lost
<1> QED
  BY <1>2, <1>3

LEMMA SignedTokens ==
  ASSUME TypeOK
  PROVE  Signed \subseteq Token
<1>1. \A w \in Worker : req[w].op = "answer" => req[w].tokens \subseteq Token
  BY RequestFields DEF TypeOK
<1> QED
  BY <1>1 DEF TypeOK, Signed, UnderWay

(* An enrollment draws two JTIs and signs a pair for row a on them. *)
Signs(a) == SignPair /\ Signed' = Signed \cup Pair(a)

-------------------------------------------------------------------------------
(* A step that leaves the table and the tokens alone can only disturb what  *)
(* is said of the pending requests.                                         *)
LEMMA TableKept ==
  ASSUME Inv, TypeOK', UNCHANGED <<table, rows, drawn>>, Signed' = Signed,
         \A w \in Worker : req'[w].op = "token_refresh" =>
           RefreshToken(req'[w].device_id, req'[w].root) \in Signed
  PROVE  Inv'
<1>1. Freshness'
  BY DEF Inv, Freshness, table, columns, RefreshToken
<1>2. OneAgentPerMachine' /\ NoOrphanAsset' /\ ActiveHasSession' /\ RowsAwaitSignedTokens'
  BY DEF Inv, OneAgentPerMachine, NoOrphanAsset, ActiveHasSession,
         RowsAwaitSignedTokens, table, columns, RefreshToken
<1> QED
  BY <1>1, <1>2 DEF Inv

(* Signing a pair, for a row already drawn or for the next one, leaves the  *)
(* tokens fresh.                                                            *)
LEMMA SignedFresh ==
  ASSUME Inv, NEW a \in AgentId, Signs(a), rows' \in Nat,
         rows <= rows', a <= rows'
  PROVE  /\ \A t \in Signed' :
              t.jti <= drawn' /\ t.root <= drawn' /\ t.device_id <= rows'
         /\ \A t \in Signed' : RefreshToken(t.device_id, t.root) \in Signed'
         /\ AccessToken(a, drawn + 1, drawn + 2) \in Signed'
         /\ RefreshToken(a, drawn + 2) \in Signed'
         /\ Signed \subseteq Signed'
<1> DEFINE new == {AccessToken(a, drawn + 1, drawn + 2), RefreshToken(a, drawn + 2)}
<1>1. drawn \in Nat /\ rows \in Nat /\ drawn' = drawn + 2 /\ Signed' = Signed \cup new
  BY DEF Inv, TypeOK, Signs, SignPair, Pair
<1>2. \A t \in Signed : /\ t.jti \in Nat /\ t.root \in Nat /\ t.device_id \in Nat
                        /\ t.jti <= drawn /\ t.root <= drawn /\ t.device_id <= rows
                        /\ RefreshToken(t.device_id, t.root) \in Signed
  <2> TAKE t \in Signed
  <2>1. t \in Token
    BY SignedTokens DEF Inv
  <2>2. t.jti \in Nat /\ t.root \in Nat /\ t.device_id \in Nat
    BY <2>1 DEF Token
  <2> QED
    BY <2>2 DEF Inv, Freshness
<1>3. \A t \in new : /\ t.jti <= drawn + 2 /\ t.root = drawn + 2 /\ t.device_id = a
  BY <1>1 DEF AccessToken, RefreshToken
<1>4. \A t \in new : RefreshToken(t.device_id, t.root) \in new
  BY <1>3
<1>7. /\ AccessToken(a, drawn + 1, drawn + 2) \in Signed'
      /\ RefreshToken(a, drawn + 2) \in Signed' /\ Signed \subseteq Signed'
  BY <1>1
<1> HIDE DEF new
<1>5. \A t \in Signed' : t.jti <= drawn' /\ t.root <= drawn' /\ t.device_id <= rows'
  BY <1>1, <1>2, <1>3
<1>6. \A t \in Signed' : RefreshToken(t.device_id, t.root) \in Signed'
  BY <1>1, <1>2, <1>4
<1> QED
  BY <1>5, <1>6, <1>7

(* Storing the pair just signed into row a: the row ends up in the session  *)
(* that was signed for it, the others stay as they were.                    *)
LEMMA StoredPair ==
  ASSUME Inv, TypeOK', NEW a \in AgentId, Signs(a), StorePair(a),
         rows' \in Nat, rows <= rows', a <= rows',
         \A b \in AgentId : b # a => stage'[b] = stage[b]
  PROVE  /\ \A b \in AgentId : jwt_jti'[b] <= drawn' /\ refresh_jti'[b] <= drawn'
         /\ ActiveHasSession'
         /\ RowsAwaitSignedTokens'
<1>1. drawn \in Nat /\ drawn' = drawn + 2
  BY DEF Inv, TypeOK, Signs, SignPair, Pair
<1>2. /\ jwt_jti'[a] = drawn + 1 /\ refresh_jti'[a] = drawn + 2
      /\ is_revoked'[a] = FALSE
  BY DEF Inv, TypeOK, StorePair
<1>3. \A b \in AgentId : b # a => /\ jwt_jti'[b] = jwt_jti[b]
                                  /\ refresh_jti'[b] = refresh_jti[b]
                                  /\ is_revoked'[b] = is_revoked[b]
  BY DEF Inv, TypeOK, StorePair
<1>4. \A b \in AgentId : jwt_jti'[b] <= drawn' /\ refresh_jti'[b] <= drawn'
  <2>1. ASSUME NEW b \in AgentId PROVE jwt_jti'[b] <= drawn' /\ refresh_jti'[b] <= drawn'
    <3>1. /\ jwt_jti[b] \in Nat /\ refresh_jti[b] \in Nat
          /\ jwt_jti[b] <= drawn /\ refresh_jti[b] <= drawn
      BY <2>1 DEF Inv, TypeOK, Freshness
    <3> QED
      BY <1>1, <1>2, <1>3, <2>1, <3>1
  <2> QED
    BY <2>1
<1>5. ActiveHasSession'
  BY <1>1, <1>2, <1>3 DEF Inv, ActiveHasSession
<1>6. RowsAwaitSignedTokens'
  <2> SUFFICES ASSUME NEW b \in AgentId, stage'[b] = "live"
               PROVE  /\ jwt_jti'[b] # NoJti =>
                           \E t \in Signed' : t.kind = "agent_access"
                               /\ t.device_id = b /\ t.jti = jwt_jti'[b]
                      /\ refresh_jti'[b] # NoJti =>
                           RefreshToken(b, refresh_jti'[b]) \in Signed'
    BY DEF RowsAwaitSignedTokens, RefreshToken
  <2>1. CASE b = a
    <3> DEFINE t == AccessToken(a, drawn + 1, drawn + 2)
    <3>1. t \in Signed' /\ RefreshToken(a, drawn + 2) \in Signed'
      BY SignedFresh
    <3>2. t.kind = "agent_access" /\ t.device_id = a /\ t.jti = drawn + 1
      BY DEF AccessToken
    <3> QED
      BY <1>2, <2>1, <3>1, <3>2
  <2>2. CASE b # a
    <3>1. Signed \subseteq Signed'
      BY SignedFresh
    <3> QED
      BY <1>3, <2>2, <3>1 DEF Inv, RowsAwaitSignedTokens
  <2> QED
    BY <2>1, <2>2
<1> QED
  BY <1>4, <1>5, <1>6

(* A pair that was signed and never stored: the rolled-back enrollment.     *)
LEMMA WastedPair ==
  ASSUME Inv, TypeOK', NEW a \in AgentId, Signs(a), UNCHANGED table,
         rows' \in Nat, rows <= rows', a <= rows',
         \A w \in Worker : req'[w].op = "token_refresh" =>
           RefreshToken(req'[w].device_id, req'[w].root) \in Signed
  PROVE  Inv'
<1>1. drawn \in Nat /\ rows \in Nat /\ drawn' = drawn + 2
  BY DEF Inv, TypeOK, Signs, SignPair, Pair
<1>2. Freshness'
  <2>1. \A b \in AgentId : jwt_jti'[b] <= drawn' /\ refresh_jti'[b] <= drawn'
    <3>1. ASSUME NEW b \in AgentId
          PROVE  jwt_jti'[b] <= drawn' /\ refresh_jti'[b] <= drawn'
      <4>1. /\ jwt_jti[b] \in Nat /\ refresh_jti[b] \in Nat
            /\ jwt_jti[b] <= drawn /\ refresh_jti[b] <= drawn
        BY <3>1 DEF Inv, TypeOK, Freshness
      <4> QED
        BY <1>1, <4>1 DEF table, columns
    <3> QED
      BY <3>1
  <2>2. \A b \in AgentId : b > rows' => stage'[b] = "absent"
    BY <1>1 DEF Inv, Freshness, table
  <2>3. \A w \in Worker : req'[w].op = "token_refresh" =>
          RefreshToken(req'[w].device_id, req'[w].root) \in Signed'
    BY SignedFresh
  <2> QED
    BY <2>1, <2>2, <2>3, SignedFresh DEF Freshness, RefreshToken
<1>3. OneAgentPerMachine' /\ NoOrphanAsset' /\ ActiveHasSession'
  BY DEF Inv, OneAgentPerMachine, NoOrphanAsset, ActiveHasSession, table, columns
<1>4. RowsAwaitSignedTokens'
  <2>1. Signed \subseteq Signed'
    BY SignedFresh
  <2> QED
    BY <2>1 DEF Inv, RowsAwaitSignedTokens, table, columns, RefreshToken
<1> QED
  BY <1>2, <1>3, <1>4 DEF Inv

-------------------------------------------------------------------------------
LEMMA InitInv == Init => Inv
<1> SUFFICES ASSUME Init PROVE Inv
  OBVIOUS
<1>1. TypeOK
  BY TypeInductive
<1>2. Freshness
  BY DEF Init, Freshness, Signed, UnderWay
<1> QED
  BY <1>1, <1>2 DEF Init, Inv, OneAgentPerMachine, NoOrphanAsset,
                    ActiveHasSession, RowsAwaitSignedTokens

LEMMA EnrollExistingInv ==
  ASSUME Inv, TypeOK', NEW w \in Worker, NEW m \in Machine, enroll_existing(w, m)
  PROVE  Inv'
<1>0. PICK a \in Rows(m), committed \in Committed :
        /\ SignPair /\ Answer(w, Pair(a))
        /\ \/ committed /\ StorePair(a)
           \/ ~committed /\ UNCHANGED <<jwt_jti, refresh_jti, is_revoked>>
  BY DEF enroll_existing
<1>1. Signs(a)
  BY <1>0, AnswerSigns DEF Signs, enroll_existing, Inv
<1>2. a \in AgentId /\ stage[a] = "live"
  BY DEF Rows
<1>3. /\ UNCHANGED <<stage, machine_id, assets, rows>>
      /\ rows \in Nat /\ a <= rows
  BY <1>2 DEF enroll_existing, Inv, TypeOK, Freshness
<1>4. \A v \in Worker : req'[v].op = "token_refresh" =>
        RefreshToken(req'[v].device_id, req'[v].root) \in Signed
  BY <1>0 DEF Answer, Inv, TypeOK, Freshness
<1>5. CASE StorePair(a)
  <2>1. /\ \A b \in AgentId : jwt_jti'[b] <= drawn' /\ refresh_jti'[b] <= drawn'
        /\ ActiveHasSession' /\ RowsAwaitSignedTokens'
    BY <1>1, <1>2, <1>3, <1>5, StoredPair
  <2>2. Freshness'
    <3>1. /\ \A t \in Signed' :
               t.jti <= drawn' /\ t.root <= drawn' /\ t.device_id <= rows'
          /\ \A t \in Signed' : RefreshToken(t.device_id, t.root) \in Signed'
          /\ Signed \subseteq Signed'
      BY <1>1, <1>2, <1>3, SignedFresh
    <3>2. \A b \in AgentId : b > rows' => stage'[b] = "absent"
      BY <1>3 DEF Inv, Freshness
    <3> QED
      BY <1>4, <2>1, <3>1, <3>2 DEF Freshness, RefreshToken
  <2>3. OneAgentPerMachine' /\ NoOrphanAsset'
    BY <1>3 DEF Inv, OneAgentPerMachine, NoOrphanAsset
  <2> QED
    BY <2>1, <2>2, <2>3 DEF Inv
<1>6. CASE UNCHANGED <<jwt_jti, refresh_jti, is_revoked>>
  <2>1. UNCHANGED table
    BY <1>3, <1>6 DEF table, columns
  <2> QED
    BY <1>1, <1>2, <1>3, <1>4, <2>1, WastedPair
<1> QED
  BY <1>0, <1>5, <1>6

LEMMA EnrollInsertInv ==
  ASSUME Inv, TypeOK', NEW w \in Worker, enroll_insert(w)
  PROVE  Inv'
<1> DEFINE a == rows + 1
<1>0. /\ a \in AgentId /\ rows \in Nat /\ rows' = a /\ rows <= rows'
      /\ SignPair /\ Answer(w, Pair(a)) /\ Rows(req[w].machine) = {}
  BY DEF enroll_insert, Inv, TypeOK
<1>1. /\ a \in AgentId /\ rows \in Nat /\ rows' = a /\ rows <= rows' /\ Signs(a)
      /\ Rows(req[w].machine) = {}
  BY <1>0, AnswerSigns DEF Signs, enroll_insert, Inv
<1>2. \A v \in Worker : req'[v].op = "token_refresh" =>
        RefreshToken(req'[v].device_id, req'[v].root) \in Signed
  BY <1>0 DEF Answer, Inv, TypeOK, Freshness
<1>3. stage[a] = "absent"
  BY <1>1 DEF Inv, Freshness
<1>4. CASE UNCHANGED table
  BY <1>1, <1>2, <1>4, WastedPair
<1>5. CASE /\ StorePair(a)
           /\ stage' = [stage EXCEPT ![a] = "live"]
           /\ machine_id' = [machine_id EXCEPT ![a] = req[w].machine]
           /\ assets' = assets \cup {a}
  <2>1. /\ stage'[a] = "live" /\ machine_id'[a] = req[w].machine
        /\ \A b \in AgentId : b # a => /\ stage'[b] = stage[b]
                                       /\ machine_id'[b] = machine_id[b]
    BY <1>1, <1>5 DEF Inv, TypeOK
  <2>2. /\ \A b \in AgentId : jwt_jti'[b] <= drawn' /\ refresh_jti'[b] <= drawn'
        /\ ActiveHasSession' /\ RowsAwaitSignedTokens'
    BY <1>1, <1>5, <2>1, StoredPair
  <2>3. Freshness'
    <3>1. /\ \A t \in Signed' :
               t.jti <= drawn' /\ t.root <= drawn' /\ t.device_id <= rows'
          /\ \A t \in Signed' : RefreshToken(t.device_id, t.root) \in Signed'
          /\ Signed \subseteq Signed'
      BY <1>1, SignedFresh
    <3>2. \A b \in AgentId : b > rows' => stage'[b] = "absent"
      BY <1>1, <2>1 DEF Inv, Freshness
    <3> QED
      BY <1>2, <2>2, <3>1, <3>2 DEF Freshness, RefreshToken
  <2>4. OneAgentPerMachine'
    BY <1>1, <2>1 DEF Inv, OneAgentPerMachine, Rows
  <2>5. NoOrphanAsset'
    BY <1>1, <1>5, <2>1 DEF Inv, NoOrphanAsset
  <2> QED
    BY <2>2, <2>3, <2>4, <2>5 DEF Inv
<1> QED
  BY <1>4, <1>5 DEF enroll_insert

LEMMA TokenRefreshUpdateInv ==
  ASSUME Inv, TypeOK', NEW w \in Worker, token_refresh_update(w)
  PROVE  Inv'
<1> DEFINE a == req[w].device_id
           t == AccessToken(a, drawn + 1, req[w].root)
<1>1. /\ a \in AgentId /\ req[w].root \in Jti
      /\ RefreshToken(a, req[w].root) \in Signed
  BY RequestFields DEF token_refresh_update, Inv, TypeOK, Freshness
<1>0. /\ drawn \in Nat /\ drawn' = drawn + 1 /\ Answer(w, {t})
      /\ UNCHANGED <<stage, machine_id, refresh_jti, is_revoked, assets, rows>>
  BY DEF token_refresh_update, Inv, TypeOK
<1>2. /\ drawn \in Nat /\ drawn' = drawn + 1 /\ Signed' = Signed \cup {t}
      /\ UNCHANGED <<stage, machine_id, refresh_jti, is_revoked, assets, rows>>
  BY <1>0, AnswerSigns DEF token_refresh_update, Inv
<1>3. /\ \A b \in AgentId : b # a => jwt_jti'[b] = jwt_jti[b]
      /\ jwt_jti'[a] = IF stage[a] = "live" THEN drawn + 1 ELSE jwt_jti[a]
  BY <1>1 DEF token_refresh_update, Inv, TypeOK
<1>4. t.kind = "agent_access" /\ t.device_id = a /\ t.jti = drawn + 1 /\ t.root = req[w].root
  BY DEF AccessToken
<1>5. a <= rows /\ req[w].root <= drawn
  BY <1>1 DEF Inv, Freshness, RefreshToken
<1>6. Freshness'
  <2>1. ASSUME NEW b \in AgentId
        PROVE  jwt_jti'[b] <= drawn' /\ refresh_jti'[b] <= drawn'
    <3>1. /\ jwt_jti[b] \in Nat /\ refresh_jti[b] \in Nat
          /\ jwt_jti[b] <= drawn /\ refresh_jti[b] <= drawn
      BY <2>1 DEF Inv, TypeOK, Freshness
    <3> QED
      BY <1>1, <1>2, <1>3, <3>1
  <2>2. \A b \in AgentId : b > rows' => stage'[b] = "absent"
    BY <1>2 DEF Inv, Freshness
  <2>3. ASSUME NEW u \in Signed'
        PROVE  /\ u.jti <= drawn' /\ u.root <= drawn' /\ u.device_id <= rows'
               /\ RefreshToken(u.device_id, u.root) \in Signed'
    <3>1. CASE u \in Signed
      <4>1. u.jti \in Nat /\ u.root \in Nat
        BY <3>1, SignedTokens DEF Inv, Token
      <4>2. u.jti <= drawn /\ u.root <= drawn /\ u.device_id <= rows
            /\ RefreshToken(u.device_id, u.root) \in Signed
        BY <3>1 DEF Inv, Freshness
      <4> QED
        BY <1>2, <4>1, <4>2
    <3>2. CASE u = t
      BY <1>1, <1>2, <1>4, <1>5, <3>2
    <3> QED
      BY <1>2, <2>3, <3>1, <3>2
  <2>4. \A v \in Worker : req'[v].op = "token_refresh" =>
          RefreshToken(req'[v].device_id, req'[v].root) \in Signed'
    BY <1>0, <1>2 DEF Answer, Inv, TypeOK, Freshness
  <2> QED
    BY <2>1, <2>2, <2>3, <2>4 DEF Freshness, RefreshToken
<1>7. OneAgentPerMachine' /\ NoOrphanAsset'
  BY <1>2 DEF Inv, OneAgentPerMachine, NoOrphanAsset
<1>8. ActiveHasSession'
  BY <1>2, <1>3 DEF Inv, ActiveHasSession
<1>9. RowsAwaitSignedTokens'
  <2>1. t \in Signed' /\ Signed \subseteq Signed'
    BY <1>2
  <2> HIDE DEF t
  <2> SUFFICES ASSUME NEW b \in AgentId, stage'[b] = "live"
               PROVE  /\ jwt_jti'[b] # NoJti =>
                           \E u \in Signed' : u.kind = "agent_access"
                               /\ u.device_id = b /\ u.jti = jwt_jti'[b]
                      /\ refresh_jti'[b] # NoJti =>
                           RefreshToken(b, refresh_jti'[b]) \in Signed'
    BY DEF RowsAwaitSignedTokens, RefreshToken
  <2> QED
    BY <1>2, <1>3, <1>4, <2>1 DEF Inv, RowsAwaitSignedTokens
<1> QED
  BY <1>6, <1>7, <1>8, <1>9 DEF Inv

LEMMA RevokeInv ==
  ASSUME Inv, TypeOK', NEW a \in AgentId, revoke_agent(a)
  PROVE  Inv'
<1>1. /\ UNCHANGED <<stage, machine_id, assets, rows, drawn, Signed, req>>
      /\ jwt_jti'[a] = NoJti /\ refresh_jti'[a] = NoJti /\ is_revoked'[a] = TRUE
      /\ \A b \in AgentId : b # a => /\ jwt_jti'[b] = jwt_jti[b]
                                     /\ refresh_jti'[b] = refresh_jti[b]
                                     /\ is_revoked'[b] = is_revoked[b]
  BY DEF revoke_agent, Signed, UnderWay, Inv, TypeOK
<1>2. Freshness'
  <2>1. drawn \in Nat
    BY DEF Inv, TypeOK
  <2>2. \A b \in AgentId : jwt_jti'[b] <= drawn' /\ refresh_jti'[b] <= drawn'
    BY <1>1, <2>1 DEF Inv, Freshness
  <2> QED
    BY <1>1, <2>2 DEF Inv, Freshness, RefreshToken
<1>3. OneAgentPerMachine' /\ NoOrphanAsset' /\ ActiveHasSession'
  BY <1>1 DEF Inv, OneAgentPerMachine, NoOrphanAsset, ActiveHasSession
<1>4. RowsAwaitSignedTokens'
  BY <1>1 DEF Inv, RowsAwaitSignedTokens, RefreshToken
<1> QED
  BY <1>2, <1>3, <1>4 DEF Inv

LEMMA DestroyInv ==
  ASSUME Inv, TypeOK', NEW a \in AgentId, destroy(a)
  PROVE  Inv'
<1>1. /\ UNCHANGED <<machine_id, jwt_jti, refresh_jti, is_revoked, rows, drawn, Signed, req>>
      /\ assets' = assets \ {a}
      /\ stage[a] = "live" /\ stage'[a] = "deleted"
      /\ \A b \in AgentId : b # a => stage'[b] = stage[b]
  BY DEF destroy, Signed, UnderWay, columns, Inv, TypeOK, NoOrphanAsset
<1>2. Freshness'
  BY <1>1 DEF Inv, Freshness, RefreshToken
<1>3. OneAgentPerMachine' /\ NoOrphanAsset' /\ ActiveHasSession'
  BY <1>1 DEF Inv, OneAgentPerMachine, NoOrphanAsset, ActiveHasSession
<1>4. RowsAwaitSignedTokens'
  BY <1>1 DEF Inv, RowsAwaitSignedTokens, RefreshToken
<1> QED
  BY <1>2, <1>3, <1>4 DEF Inv

(* The strengthened invariant is inductive. *)
LEMMA NextInv == Inv /\ [Next]_vars => Inv'
<1> SUFFICES ASSUME Inv, [Next]_vars PROVE Inv'
  OBVIOUS
<1>0. TypeOK'
  BY TypeInductive DEF Inv
<1>1. CASE UNCHANGED vars
  BY <1>0, <1>1, TableKept DEF vars, Signed, UnderWay, Inv, Freshness
<1>2. ASSUME NEW w \in Worker, NEW m \in Machine, enroll_existing(w, m) PROVE Inv'
  BY <1>0, <1>2, EnrollExistingInv
<1>3. ASSUME NEW w \in Worker, NEW m \in Machine, enroll_lookup(w, m) PROVE Inv'
  <2>1. UNCHANGED <<table, rows, drawn>> /\ Signed' = Signed
    BY <1>3, BetweenStatements DEF Inv, enroll_lookup
  <2> QED
    BY <1>0, <1>3, <2>1, TableKept DEF enroll_lookup, Inv, TypeOK, Freshness
<1>4. ASSUME NEW w \in Worker, enroll_conflict(w) PROVE Inv'
  <2>1. UNCHANGED <<table, rows, drawn>> /\ Signed' = Signed
    BY <1>4, BetweenStatements DEF Inv, enroll_conflict
  <2> QED
    BY <1>0, <1>4, <2>1, TableKept DEF enroll_conflict, Inv, TypeOK, Freshness
<1>5. ASSUME NEW w \in Worker, enroll_insert(w) PROVE Inv'
  BY <1>0, <1>5, EnrollInsertInv
<1>6. ASSUME NEW w \in Worker, token_refresh_lookup(w) PROVE Inv'
  <2>1. PICK t \in issued :
          /\ t.kind = "agent_refresh" /\ Accepted(t)
          /\ req' = [req EXCEPT ![w] = [op |-> "token_refresh",
                                     device_id |-> t.device_id, root |-> t.jti]]
    BY <1>6 DEF token_refresh_lookup
  <2>2. RefreshToken(t.device_id, t.jti) \in Signed
    BY <2>1 DEF Accepted, Inv, TypeOK, Token, RowsAwaitSignedTokens, RefreshToken
  <2>3. \A v \in Worker : req'[v].op = "token_refresh" =>
          RefreshToken(req'[v].device_id, req'[v].root) \in Signed
    BY <2>1, <2>2 DEF Inv, TypeOK, Freshness
  <2>4. Signed' = Signed
    BY <1>6, BetweenStatements DEF Inv
  <2> QED
    BY <1>0, <1>6, <2>3, <2>4, TableKept DEF token_refresh_lookup
<1>7. ASSUME NEW w \in Worker, token_refresh_update(w) PROVE Inv'
  BY <1>0, <1>7, TokenRefreshUpdateInv
<1>8. ASSUME NEW w \in Worker, respond(w) \/ request_lost(w) PROVE Inv'
  <2>1. UNCHANGED <<table, rows, drawn>> /\ Signed' = Signed
    BY <1>8, NothingForgotten DEF Inv, respond, request_lost
  <2>2. \A v \in Worker : req'[v].op = "token_refresh" => req'[v] = req[v]
    BY <1>8 DEF Inv, TypeOK, respond, request_lost
  <2>3. \A v \in Worker : req'[v].op = "token_refresh" =>
          RefreshToken(req'[v].device_id, req'[v].root) \in Signed
    BY <2>2 DEF Inv, Freshness
  <2> QED
    BY <1>0, <2>1, <2>3, TableKept
<1>9. ASSUME NEW a \in AgentId, revoke_agent(a) PROVE Inv'
  BY <1>0, <1>9, RevokeInv
<1>10. ASSUME NEW a \in AgentId, destroy(a) PROVE Inv'
  BY <1>0, <1>10, DestroyInv
<1> QED
  BY <1>1, <1>2, <1>3, <1>4, <1>5, <1>6, <1>7, <1>8, <1>9, <1>10 DEF Next

LEMMA InvHolds == Spec => []Inv
  BY InitInv, NextInv, PTL DEF Spec

-------------------------------------------------------------------------------
(* However many first enrollments of a machine race, one agent results. *)
THEOREM UniqueAgent == Spec => []OneAgentPerMachine
<1>1. Inv => OneAgentPerMachine
  BY DEF Inv
<1> QED
  BY <1>1, InvHolds, PTL

(* Enrollment and deletion move an asset and its agent together. *)
THEOREM InventoryFollowsAgents == Spec => []NoOrphanAsset
<1>1. Inv => NoOrphanAsset
  BY DEF Inv
<1> QED
  BY <1>1, InvHolds, PTL

(* Revoked agents have no session, the others have one. *)
THEOREM SessionIffActive == Spec => []ActiveHasSession
<1>1. Inv => ActiveHasSession
  BY DEF Inv
<1> QED
  BY <1>1, InvHolds, PTL

(* What a row waits for is a token somebody has, or had before it was lost. *)
THEOREM AwaitedTokensExist == Spec => []RowsAwaitSignedTokens
<1>1. Inv => RowsAwaitSignedTokens
  BY DEF Inv
<1> QED
  BY <1>1, InvHolds, PTL

(* Dead tokens stay dead. *)
THEOREM TokensStayDead == Spec => NoResurrection
<1> DEFINE Safe == \A t \in Signed : ~Accepted(t) => ~Accepted(t)'
<1>1. Inv /\ [Next]_vars => [Safe]_vars
  <2> SUFFICES ASSUME Inv, Next, NEW t \in Signed, Accepted(t)' PROVE Accepted(t)
    BY DEF Next
  <2> DEFINE a == t.device_id
  <2>1. /\ t \in Token /\ a \in AgentId /\ t.jti \in Nat
        /\ t.jti <= drawn /\ drawn \in Nat
    BY SignedTokens DEF Inv, TypeOK, Token, Freshness
  <2>2. ASSUME UNCHANGED table PROVE Accepted(t)
    BY <2>2 DEF Accepted, table, columns
  <2>3. ASSUME NEW b \in AgentId, StorePair(b),
               \A c \in AgentId : c # b => stage'[c] = stage[c]
        PROVE  Accepted(t)
    <3>1. CASE a = b
      BY <2>1, <2>3, <3>1 DEF Accepted, StorePair, Inv, TypeOK
    <3>2. CASE a # b
      BY <2>1, <2>3, <3>2 DEF Accepted, StorePair, Inv, TypeOK
    <3> QED
      BY <3>1, <3>2
  <2>4. ASSUME NEW w \in Worker, NEW m \in Machine, enroll_existing(w, m)
        PROVE  Accepted(t)
    BY <2>2, <2>3, <2>4 DEF enroll_existing, Rows, table, columns
  <2>5. ASSUME NEW w \in Worker, enroll_insert(w) PROVE Accepted(t)
    <3>1. rows + 1 \in AgentId
      BY <2>5 DEF enroll_insert, Inv, TypeOK
    <3> QED
      BY <2>2, <2>3, <2>5, <3>1 DEF enroll_insert, Inv, TypeOK
  <2>6. ASSUME NEW w \in Worker, token_refresh_update(w) PROVE Accepted(t)
    BY <2>1, <2>6 DEF token_refresh_update, Accepted, Inv, TypeOK, Token
  <2>7. ASSUME NEW b \in AgentId, revoke_agent(b) PROVE Accepted(t)
    BY <2>1, <2>7 DEF revoke_agent, Accepted, Inv, TypeOK
  <2>8. ASSUME NEW b \in AgentId, destroy(b) PROVE Accepted(t)
    BY <2>1, <2>8 DEF destroy, Accepted, Inv, TypeOK, columns
  <2> QED
    BY <2>2, <2>4, <2>5, <2>6, <2>7, <2>8
       DEF Next, enroll_lookup, enroll_conflict, token_refresh_lookup, respond, request_lost
<1> QED
  BY <1>1, InvHolds, PTL DEF Spec, NoResurrection

-------------------------------------------------------------------------------
(* The refinement.  The session of a machine is the refresh JTI of its one  *)
(* active row, whichever row CHOOSE takes.                                  *)
LEMMA SessionOfActive ==
  ASSUME Inv, NEW m \in Machine, NEW a \in Active(m)
  PROVE  SessionOf(m) = refresh_jti[a]
<1> DEFINE b == CHOOSE c \in Active(m) : TRUE
<1>1. b \in Active(m)
  OBVIOUS
<1>2. a = b
  BY <1>1 DEF Inv, OneAgentPerMachine, Active, Rows
<1> QED
  BY <1>1, <1>2 DEF SessionOf

(* A machine whose active rows and their refresh JTIs a step leaves alone   *)
(* stays in its session.                                                    *)
LEMMA SessionKept ==
  ASSUME Inv, Inv', NEW m \in Machine, Active(m)' = Active(m),
         \A a \in Active(m) : refresh_jti'[a] = refresh_jti[a]
  PROVE  SessionOf(m)' = SessionOf(m)
<1>1. CASE Active(m) = {}
  BY <1>1 DEF SessionOf, NoJti
<1>2. CASE Active(m) # {}
  BY <1>2 DEF SessionOf
<1> QED
  BY <1>1, <1>2

(* Storing a fresh pair in row a of machine m opens a session of m.         *)
LEMMA StoreOpens ==
  ASSUME Inv, Inv', NEW m \in Machine, NEW a \in AgentId, Signs(a), StorePair(a),
         stage'[a] = "live", machine_id'[a] = m,
         stage[a] = "live" => machine_id[a] = m,
         \A b \in AgentId : b # a => stage'[b] = stage[b] /\ machine_id'[b] = machine_id[b]
  PROVE  Sessions!Open(m)
<1> DEFINE s == drawn + 2
<1>1. s \in Jti /\ drawn \in Nat
  BY DEF Signs, SignPair, Pair, Inv, TypeOK
<1>2. s \notin Used
  <2>1. \A t \in Signed : t.root <= drawn /\ t.root \in Nat
    BY SignedTokens DEF Inv, Freshness, Token
  <2> QED
    BY <1>1, <2>1 DEF Used
<1>3. Used' = Used \cup {s}
  <2>1. /\ Signed' = Signed \cup {AccessToken(a, drawn + 1, s), RefreshToken(a, s)}
        /\ AccessToken(a, drawn + 1, s).root = s /\ RefreshToken(a, s).root = s
    BY DEF Signs, SignPair, Pair, AccessToken, RefreshToken
  <2> HIDE DEF s
  <2> QED
    BY <2>1 DEF Used
<1>4. /\ refresh_jti'[a] = s /\ is_revoked'[a] = FALSE
      /\ \A b \in AgentId : b # a => /\ refresh_jti'[b] = refresh_jti[b]
                                     /\ is_revoked'[b] = is_revoked[b]
  BY DEF StorePair, Inv, TypeOK
<1>5. SessionOf(m)' = s
  <2>1. a \in Active(m)'
    BY <1>4 DEF Active, Rows
  <2>2. \A b \in Active(m)' : b = a
    BY <2>1 DEF Inv, OneAgentPerMachine, Active, Rows
  <2>3. (CHOOSE b \in Active(m) : TRUE)' = a
    BY <2>1, <2>2
  <2> QED
    BY <1>4, <2>1, <2>3 DEF SessionOf
<1>6. ASSUME NEW n \in Machine, n # m PROVE SessionOf(n)' = SessionOf(n)
  <2>1. Active(n)' = Active(n) /\ a \notin Active(n)
    BY <1>4, <1>6 DEF Active, Rows
  <2> QED
    BY <1>4, <1>6, <2>1, SessionKept DEF Active, Rows
<1>7. [n \in Machine |-> SessionOf(n)]'
        = [[n \in Machine |-> SessionOf(n)] EXCEPT ![m] = s]
  BY <1>5, <1>6
<1> QED
  BY <1>1, <1>2, <1>3, <1>7 DEF Sessions!Open

(* A pair signed for nobody wastes the name of a session.                   *)
LEMMA RollbackWastes ==
  ASSUME Inv, Inv', NEW a \in AgentId, Signs(a), UNCHANGED table
  PROVE  Sessions!Waste
<1> DEFINE s == drawn + 2
<1>1. s \in Jti /\ drawn \in Nat
  BY DEF Signs, SignPair, Pair, Inv, TypeOK
<1>2. s \notin Used
  <2>1. \A t \in Signed : t.root <= drawn /\ t.root \in Nat
    BY SignedTokens DEF Inv, Freshness, Token
  <2> QED
    BY <1>1, <2>1 DEF Used
<1>3. Used' = Used \cup {s}
  <2>1. /\ Signed' = Signed \cup {AccessToken(a, drawn + 1, s), RefreshToken(a, s)}
        /\ AccessToken(a, drawn + 1, s).root = s /\ RefreshToken(a, s).root = s
    BY DEF Signs, SignPair, Pair, AccessToken, RefreshToken
  <2> HIDE DEF s
  <2> QED
    BY <2>1 DEF Used
<1>4. \A n \in Machine : SessionOf(n)' = SessionOf(n)
  BY DEF SessionOf, Active, Rows, table, columns
<1> QED
  BY <1>1, <1>2, <1>3, <1>4 DEF Sessions!Waste

(* Taking row a out of the active rows closes the session of its machine,   *)
(* if it was in one.                                                        *)
LEMMA DropCloses ==
  ASSUME Inv, Inv', NEW a \in AgentId, stage[a] = "live", UNCHANGED machine_id, Signed' = Signed,
         ~(stage'[a] = "live" /\ ~is_revoked'[a]),
         \A b \in AgentId : b # a => /\ stage'[b] = stage[b]
                                     /\ is_revoked'[b] = is_revoked[b]
                                     /\ refresh_jti'[b] = refresh_jti[b]
  PROVE  [Sessions!Next]_(Sessions!vars)
<1> DEFINE m == machine_id[a]
<1>1. m \in Machine
  BY DEF Inv, TypeOK
<1>2. Used' = Used
  BY DEF Used
<1>3. ASSUME NEW n \in Machine, n # m \/ is_revoked[a]
      PROVE  SessionOf(n)' = SessionOf(n)
  <2>1. Active(n)' = Active(n) /\ a \notin Active(n)
    BY <1>3 DEF Active, Rows
  <2> QED
    BY <1>3, <2>1, SessionKept DEF Active, Rows
<1>4. CASE is_revoked[a]
  BY <1>2, <1>3, <1>4 DEF Sessions!vars
<1>5. CASE ~is_revoked[a]
  <2>1. a \in Active(m)
    BY <1>5 DEF Active, Rows
  <2>2. SessionOf(m) = refresh_jti[a] /\ refresh_jti[a] # NoJti
    BY <1>1, <1>5, <2>1, SessionOfActive DEF Inv, ActiveHasSession
  <2>3. Active(m)' = {}
    BY DEF Inv, OneAgentPerMachine, Active, Rows
  <2>4. SessionOf(m)' = NoJti
    BY <2>3 DEF SessionOf
  <2>5. [n \in Machine |-> SessionOf(n)]'
          = [[n \in Machine |-> SessionOf(n)] EXCEPT ![m] = NoJti]
    BY <1>3, <2>4
  <2> QED
    BY <1>1, <1>2, <2>2, <2>5 DEF Sessions!Next, Sessions!Close
<1> QED
  BY <1>4, <1>5

(* Every behaviour of the table, its tokens and its requests is, through    *)
(* SessionOf and Used, a behaviour of SessionAuthority.                     *)
THEOREM Refinement == Spec => ImplementsSessionAuthority
<1>1. Init => Sessions!Init
  BY DEF Init, Sessions!Init, SessionOf, Active, Rows, Used, Signed, UnderWay
<1>2. Inv /\ Inv' /\ [Next]_vars => [Sessions!Next]_(Sessions!vars)
  <2> SUFFICES ASSUME Inv, Inv', [Next]_vars
               PROVE  [Sessions!Next]_(Sessions!vars)
    OBVIOUS
  <2>1. ASSUME UNCHANGED table /\ Signed' = Signed PROVE UNCHANGED Sessions!vars
    BY <2>1 DEF Sessions!vars, SessionOf, Active, Rows, Used, table, columns
  <2>2. ASSUME NEW w \in Worker, NEW m \in Machine, enroll_existing(w, m)
        PROVE  Sessions!Next
    <3>0. PICK a \in Rows(m) :
            /\ SignPair /\ Answer(w, Pair(a))
            /\ \/ StorePair(a)
               \/ UNCHANGED <<jwt_jti, refresh_jti, is_revoked>>
      BY <2>2 DEF enroll_existing
    <3>1. Signs(a)
      BY <2>2, <3>0, AnswerSigns DEF Signs, enroll_existing, Inv
    <3>2. /\ a \in AgentId /\ stage[a] = "live" /\ machine_id[a] = m
          /\ UNCHANGED <<stage, machine_id, assets>>
      BY <2>2 DEF Rows, enroll_existing
    <3>3. CASE StorePair(a)
      BY <3>1, <3>2, <3>3, StoreOpens DEF Sessions!Next
    <3>4. CASE UNCHANGED <<jwt_jti, refresh_jti, is_revoked>>
      BY <3>1, <3>2, <3>4, RollbackWastes DEF Sessions!Next, table, columns
    <3> QED
      BY <3>0, <3>3, <3>4
  <2>3. ASSUME NEW w \in Worker, enroll_insert(w) PROVE Sessions!Next
    <3> DEFINE a == rows + 1
               m == req[w].machine
    <3>0. a \in AgentId /\ m \in Machine /\ stage[a] = "absent"
      BY <2>3, RequestFields DEF enroll_insert, Inv, TypeOK, Freshness
    <3>1. a \in AgentId /\ m \in Machine /\ Signs(a) /\ stage[a] = "absent"
      BY <2>3, <3>0, AnswerSigns DEF Signs, enroll_insert, Inv
    <3>2. CASE UNCHANGED table
      BY <3>1, <3>2, RollbackWastes DEF Sessions!Next
    <3>3. CASE /\ StorePair(a)
               /\ stage' = [stage EXCEPT ![a] = "live"]
               /\ machine_id' = [machine_id EXCEPT ![a] = m]
      <4>1. /\ stage'[a] = "live" /\ machine_id'[a] = m
            /\ \A b \in AgentId : b # a => /\ stage'[b] = stage[b]
                                           /\ machine_id'[b] = machine_id[b]
        BY <3>1, <3>3 DEF Inv, TypeOK
      <4> QED
        BY <3>1, <3>3, <4>1, StoreOpens DEF Sessions!Next
    <3> QED
      BY <2>3, <3>2, <3>3 DEF enroll_insert
  <2>4. ASSUME NEW w \in Worker, token_refresh_update(w)
        PROVE  UNCHANGED Sessions!vars
    <3> DEFINE t == AccessToken(req[w].device_id, drawn + 1, req[w].root)
               r == RefreshToken(req[w].device_id, req[w].root)
    <3>0. Answer(w, {t})
      BY <2>4 DEF token_refresh_update
    <3>1. Signed' = Signed \cup {t} /\ t.root = req[w].root
      BY <2>4, <3>0, AnswerSigns DEF token_refresh_update, AccessToken, Inv
    <3>2. r \in Signed /\ r.root = req[w].root
      BY <2>4 DEF token_refresh_update, Inv, Freshness, RefreshToken
    <3> HIDE DEF t, r
    <3>3. Used' = Used
      BY <3>1, <3>2 DEF Used
    <3>4. UNCHANGED <<stage, machine_id, refresh_jti, is_revoked>>
      BY <2>4 DEF token_refresh_update
    <3> QED
      BY <3>3, <3>4 DEF Sessions!vars, SessionOf, Active, Rows
  <2>5. ASSUME NEW a \in AgentId, revoke_agent(a)
        PROVE  [Sessions!Next]_(Sessions!vars)
    <3>1. /\ stage[a] = "live" /\ is_revoked'[a] = TRUE
          /\ UNCHANGED <<stage, machine_id>> /\ Signed' = Signed
          /\ \A b \in AgentId : b # a => /\ is_revoked'[b] = is_revoked[b]
                                         /\ refresh_jti'[b] = refresh_jti[b]
      BY <2>5 DEF revoke_agent, Signed, UnderWay, Inv, TypeOK
    <3> QED
      BY <3>1, DropCloses
  <2>6. ASSUME NEW a \in AgentId, destroy(a)
        PROVE  [Sessions!Next]_(Sessions!vars)
    <3>1. /\ stage[a] = "live" /\ stage'[a] = "deleted"
          /\ UNCHANGED <<machine_id, refresh_jti, is_revoked>> /\ Signed' = Signed
          /\ \A b \in AgentId : b # a => stage'[b] = stage[b]
      BY <2>6 DEF destroy, Signed, UnderWay, columns, Inv, TypeOK, NoOrphanAsset
    <3> QED
      BY <3>1, DropCloses
  <2>7. ASSUME NEW w \in Worker,
               \/ \E m \in Machine : enroll_lookup(w, m)
               \/ enroll_conflict(w) \/ token_refresh_lookup(w)
        PROVE  UNCHANGED table /\ Signed' = Signed
    BY <2>7, BetweenStatements
       DEF enroll_lookup, enroll_conflict, token_refresh_lookup, Inv
  <2>8. ASSUME NEW w \in Worker, respond(w) \/ request_lost(w)
        PROVE  UNCHANGED table /\ Signed' = Signed
    BY <2>8, NothingForgotten DEF respond, request_lost, Inv
  <2>9. CASE UNCHANGED vars
    BY <2>1, <2>9 DEF vars, Signed, UnderWay
  <2> QED
    BY <2>1, <2>2, <2>3, <2>4, <2>5, <2>6, <2>7, <2>8, <2>9 DEF Next
<1> QED
  BY <1>1, <1>2, InvHolds, PTL DEF Spec, Sessions!Spec, ImplementsSessionAuthority
===============================================================================
