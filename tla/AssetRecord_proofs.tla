-------------------------- MODULE AssetRecord_proofs --------------------------
(***************************************************************************)
(* Proofs about AssetRecord, for any numbers of workers, owners, scans and *)
(* records.  A request writes what it read some statements before, so the  *)
(* invariants that are inductive speak of the requests as well as of the   *)
(* row: whatever a request carries is something the row may become.        *)
(***************************************************************************)
EXTENDS AssetRecord, TLAPS

USE NoOwnerAssumption, MaxScansAssumption, MaxRecordsAssumption

-------------------------------------------------------------------------------
(* What the request of each operation carries, and back. *)
Uploading == {"lookup", "save_asset", "commit_scan"}
Closing == {"lock_records", "save_owner", "commit_owner"}

LEMMA Carried ==
  ASSUME NEW r \in Request
  PROVE  /\ r.op \in Uploading => r.scan \in Scan /\ r.owner \in AnyOwner
         /\ r.op = "save_edit" => r.row \in Row
         /\ r.op = "close_records" => r.owner \in AnyOwner
         /\ r.op \in Closing => r.owner \in AnyOwner /\ r.rows \in SUBSET Nat
BY DEF Request, Idle, Uploading, Closing

LEMMA Made ==
  /\ Idle \in Request /\ Idle.op = "idle"
  /\ \A op \in Uploading, s \in Scan, o \in AnyOwner :
       /\ Upload(op, s, o) \in Request
       /\ Upload(op, s, o).op = op /\ Upload(op, s, o).scan = s /\ Upload(op, s, o).owner = o
  /\ \A r \in Row : [op |-> "save_edit", row |-> r] \in Request
  /\ \A o \in AnyOwner : [op |-> "close_records", owner |-> o] \in Request
  /\ [op |-> "update_status"] \in Request
  /\ \A op \in Closing, o \in AnyOwner, rows \in SUBSET Nat :
       /\ Assign(op, o, rows) \in Request
       /\ Assign(op, o, rows).op = op /\ Assign(op, o, rows).owner = o
       /\ Assign(op, o, rows).rows = rows
BY DEF Request, Idle, Uploading, Closing, Upload, Assign

(* One worker's request changes, and no other's. *)
LEMMA Others ==
  ASSUME req \in [Worker -> Request], NEW w \in Worker, NEW r \in Request,
         req' = [req EXCEPT ![w] = r]
  PROVE  /\ req' \in [Worker -> Request]
         /\ req'[w] = r
         /\ \A v \in Worker : v # w => req'[v] = req[v]
OBVIOUS

LEMMA RowOf ==
  /\ \A o \in AnyOwner, s \in Scan \cup {NoScan}, t \in {"online", "offline", "unknown"} :
       [owner |-> o, scan |-> s, status |-> t] \in Row
  /\ \A r \in Row : /\ r.owner \in AnyOwner /\ r.scan \in Scan \cup {NoScan}
                    /\ r.status \in {"online", "offline", "unknown"}
BY DEF Row

-------------------------------------------------------------------------------
(* The history only grows, and keeps the owner of each record. *)
LEMMA RecordOf ==
  /\ \A o \in Owner, b \in BOOLEAN : [owner |-> o, open |-> b] \in Record
  /\ \A r \in Record : r.owner \in Owner /\ r.open \in BOOLEAN
BY DEF Record

LEMMA Closed ==
  ASSUME history \in Seq(Record), NEW rows \in SUBSET Nat,
         NEW c, c = ClosedRecords(rows)
  PROVE  /\ c \in Seq(Record) /\ Len(c) = Len(history)
         /\ \A i \in DOMAIN history : c[i].owner = history[i].owner
         /\ \A i \in DOMAIN history : i \in rows => ~c[i].open
         /\ \A i \in DOMAIN history : i \notin rows => c[i] = history[i]
<1>1. DOMAIN history = 1 .. Len(history) /\ Len(history) \in Nat
  OBVIOUS
<1>2. \A i \in 1 .. Len(history) : history[i] \in Record
  OBVIOUS
<1>3. c = [i \in 1 .. Len(history) |->
              IF i \in rows THEN [owner |-> history[i].owner, open |-> FALSE] ELSE history[i]]
  BY <1>1 DEF ClosedRecords
<1>4. \A i \in 1 .. Len(history) : i \in rows => c[i] = [owner |-> history[i].owner, open |-> FALSE]
  BY <1>3
<1>5. \A i \in 1 .. Len(history) : i \notin rows => c[i] = history[i]
  BY <1>3
<1>6. \A i \in 1 .. Len(history) : c[i] \in Record
  <2> TAKE i \in 1 .. Len(history)
  <2>1. history[i].owner \in Owner
    BY <1>2, RecordOf
  <2>2. [owner |-> history[i].owner, open |-> FALSE] \in Record
    BY <2>1, RecordOf
  <2>3. QED
    BY <2>2, <1>2, <1>4, <1>5
<1>7. c \in Seq(Record) /\ Len(c) = Len(history)
  <2>1. c \in [1 .. Len(history) -> Record]
    BY <1>3, <1>6
  <2>2. QED
    BY <1>1, <2>1
<1>8. \A o : [owner |-> o, open |-> FALSE].owner = o /\ ~[owner |-> o, open |-> FALSE].open
  OBVIOUS
<1>9. QED
  BY <1>1, <1>4, <1>5, <1>7, <1>8

LEMMA Added ==
  ASSUME NEW h \in Seq(Record), NEW o \in AnyOwner, NEW n, n = Recorded(h, o)
  PROVE  /\ n \in Seq(Record)
         /\ \A i \in DOMAIN h : i \in DOMAIN n /\ n[i] = h[i]
         /\ o \notin Owner => n = h
         /\ o \in Owner => /\ Len(h) + 1 \in DOMAIN n
                           /\ n[Len(h) + 1] = [owner |-> o, open |-> TRUE]
                           /\ DOMAIN n = DOMAIN h \cup {Len(h) + 1}
<1>1. CASE o \notin Owner
  BY <1>1 DEF Recorded
<1>2. CASE o \in Owner
  <2> DEFINE e == [owner |-> o, open |-> TRUE]
  <2>1. e \in Record
    BY <1>2, RecordOf
  <2>2. n = Append(h, e)
    BY <1>2 DEF Recorded
  <2> HIDE DEF e
  <2>3. /\ n \in Seq(Record) /\ Len(n) = Len(h) + 1 /\ n[Len(h) + 1] = e
        /\ \A i \in 1 .. Len(h) : n[i] = h[i]
    BY <2>1, <2>2
  <2>4. DOMAIN h = 1 .. Len(h) /\ DOMAIN n = 1 .. (Len(h) + 1) /\ Len(h) \in Nat
    BY <2>3
  <2>5. QED
    BY <1>2, <2>3, <2>4 DEF e
<1>3. QED
  BY <1>1, <1>2

(* What commit_owner makes of the history. *)
LEMMA Committed ==
  ASSUME history \in Seq(Record), NEW rows \in SUBSET Nat, NEW o \in AnyOwner,
         NEW n, n = Recorded(ClosedRecords(rows), o)
  PROVE  /\ n \in Seq(Record)
         /\ \A i \in DOMAIN history : i \in DOMAIN n /\ n[i].owner = history[i].owner
         /\ o \in Owner => \E i \in DOMAIN n : n[i].owner = o
         /\ Open \subseteq rows =>
              {i \in DOMAIN n : n[i].open} = IF o \in Owner THEN {Len(history) + 1} ELSE {}
         /\ o \in Owner => n[Len(history) + 1].owner = o
<1> DEFINE c == ClosedRecords(rows)
<1>1. /\ c \in Seq(Record) /\ Len(c) = Len(history)
      /\ \A i \in DOMAIN history : c[i].owner = history[i].owner
      /\ \A i \in DOMAIN history : i \in rows => ~c[i].open
      /\ \A i \in DOMAIN history : i \notin rows => c[i] = history[i]
  BY Closed
<1>2. DOMAIN c = DOMAIN history
  BY <1>1
<1>3. n = Recorded(c, o)
  OBVIOUS
<1> HIDE DEF c
<1>4. /\ n \in Seq(Record)
      /\ \A i \in DOMAIN c : i \in DOMAIN n /\ n[i] = c[i]
      /\ o \notin Owner => n = c
      /\ o \in Owner => /\ Len(c) + 1 \in DOMAIN n
                        /\ n[Len(c) + 1] = [owner |-> o, open |-> TRUE]
                        /\ DOMAIN n = DOMAIN c \cup {Len(c) + 1}
  BY <1>1, <1>3, Added
<1>5. [owner |-> o, open |-> TRUE].owner = o /\ [owner |-> o, open |-> TRUE].open
  OBVIOUS
<1>6. o \in Owner => n[Len(history) + 1].owner = o /\ n[Len(history) + 1].open
  BY <1>1, <1>4, <1>5
<1>7. ASSUME Open \subseteq rows
      PROVE  {i \in DOMAIN n : n[i].open} = IF o \in Owner THEN {Len(history) + 1} ELSE {}
  <2>1. \A i \in DOMAIN c : ~c[i].open
    BY <1>1, <1>2, <1>7 DEF Open
  <2>2. \A i \in DOMAIN c : ~n[i].open
    BY <2>1, <1>4
  <2>3. CASE o \in Owner
    <3>1. DOMAIN n = DOMAIN c \cup {Len(history) + 1}
      BY <1>1, <1>4, <2>3
    <3>2. QED
      BY <3>1, <2>2, <1>6, <2>3, Zenon
  <2>4. CASE o \notin Owner
    BY <2>1, <2>4, <1>4, Zenon
  <2>5. QED
    BY <2>3, <2>4
<1>8. QED
  BY <1>1, <1>2, <1>4, <1>6, <1>7

-------------------------------------------------------------------------------
LEMMA TypeInit == Init => TypeOK
<1> SUFFICES ASSUME Init PROVE TypeOK
  OBVIOUS
<1>1. \A o \in AnyOwner : NewRow(o) \in Row
  BY RowOf DEF NewRow
<1>2. \A o \in AnyOwner : Recorded(<<>>, o) \in Seq(Record)
  <2>1. <<>> \in Seq(Record)
    OBVIOUS
  <2>2. QED
    BY <2>1, Added
<1>3. asset \in Row /\ history \in Seq(Record)
  <2>1. NoOwner \in AnyOwner /\ <<>> \in Seq(Record)
    BY DEF AnyOwner
  <2>2. QED
    BY <1>1, <1>2, <2>1 DEF Init
<1>4. req \in [Worker -> Request] /\ sessions \in Seq(Scan)
  BY Made DEF Init
<1>5. QED
  BY <1>3, <1>4 DEF Init, TypeOK

LEMMA Appended ==
  ASSUME NEW q \in Seq(Scan), NEW s \in Scan
  PROVE  Append(q, s) \in Seq(Scan)
OBVIOUS

(* A step that only turns one request into another, or ends it. *)
LEMMA TypeWaits ==
  ASSUME TypeOK, NEW w \in Worker, NEW r \in Request, req' = [req EXCEPT ![w] = r],
         UNCHANGED db, edited' \in SUBSET AnyOwner, overlapped' \in BOOLEAN
  PROVE  TypeOK'
BY DEF TypeOK, db

LEMMA TypeBegin ==
  ASSUME TypeOK, NEW w \in Worker, NEW r \in Request, Begin(w, r), UNCHANGED <<db, edited>>
  PROVE  TypeOK'
<1>1. req' = [req EXCEPT ![w] = r] /\ overlapped' \in BOOLEAN
  BY DEF Begin
<1>2. edited' \in SUBSET AnyOwner
  BY DEF TypeOK
<1>3. QED
  BY <1>1, <1>2, TypeWaits

LEMMA TypeContinue ==
  ASSUME TypeOK, NEW w \in Worker, NEW r \in Request, Continue(w, r), UNCHANGED <<db, notes>>
  PROVE  TypeOK'
<1>1. edited' \in SUBSET AnyOwner /\ overlapped' \in BOOLEAN
  BY DEF TypeOK, notes
<1>2. QED
  BY <1>1, TypeWaits DEF Continue

(* What a deletion leaves of the requests: those that were about to look at *)
(* records again find none.                                                 *)
LEMMA Forgotten ==
  ASSUME TypeOK, Overtakes
  PROVE  /\ req' \in [Worker -> Request]
         /\ \A w \in Worker : \/ req'[w] = req[w]
                              \/ /\ req[w].op = "lock_records"
                                 /\ req'[w] = Assign("lock_records", req[w].owner, {})
<1>1. \A w \in Worker : req'[w] = IF req[w].op = "lock_records"
                                 THEN Assign("lock_records", req[w].owner, {}) ELSE req[w]
  BY DEF Overtakes
<1>2. \A w \in Worker : req'[w] \in Request
  <2> TAKE w \in Worker
  <2>1. req[w] \in Request
    BY DEF TypeOK
  <2>2. CASE req[w].op = "lock_records"
    <3>1. req[w].owner \in AnyOwner /\ {} \in SUBSET Nat
      BY <2>1, <2>2, Carried DEF Closing
    <3> QED
      BY <1>1, <2>2, <3>1, Made DEF Closing
  <2> QED
    BY <1>1, <2>1, <2>2
<1>3. req' \in [Worker -> Request]
  BY <1>2 DEF Overtakes
<1> QED
  BY <1>1, <1>3

LEMMA TypeStep == TypeOK /\ [Next]_vars => TypeOK'
<1> SUFFICES ASSUME TypeOK, [Next]_vars PROVE TypeOK'
  OBVIOUS
<1>1. CASE UNCHANGED vars
  BY <1>1 DEF TypeOK, vars, db, notes
<1>2. ASSUME NEW w \in Worker, NEW s \in Scan, scan(w, s) PROVE TypeOK'
  <2>1. Upload("lookup", s, asset.owner) \in Request
    BY Made, RowOf DEF TypeOK, Uploading
  <2>2. QED
    BY <1>2, <2>1, TypeBegin DEF scan
<1>3. ASSUME NEW w \in Worker, mark_offline_assets(w) PROVE TypeOK'
  BY <1>3, TypeBegin, Made DEF mark_offline_assets
<1>4. ASSUME NEW w \in Worker, NEW o \in AnyOwner, partial_update(w, o) PROVE TypeOK'
  <2>1. Owned(o) \in Row
    BY RowOf DEF TypeOK, Owned
  <2>2. [op |-> "save_edit", row |-> Owned(o)] \in Request
    BY <2>1, Made
  <2>3. edited' \in SUBSET AnyOwner
    BY <1>4 DEF partial_update, TypeOK
  <2>4. QED
    BY <1>4, <2>2, <2>3, TypeWaits DEF partial_update, Begin
<1>5. ASSUME NEW w \in Worker, NEW o \in AnyOwner, set_owner(w, o) PROVE TypeOK'
  BY <1>5, TypeBegin, Made DEF set_owner
<1>6. ASSUME NEW w \in Worker, lookup(w) PROVE TypeOK'
  <2>1. Upload("save_asset", req[w].scan, req[w].owner) \in Request
    BY <1>6, Carried, Made DEF lookup, TypeOK, Uploading
  <2>2. QED
    BY <1>6, <2>1, TypeContinue, Made DEF lookup, Finish
<1>7. ASSUME NEW w \in Worker, save_asset(w) PROVE TypeOK'
  <2>1. Upload("commit_scan", req[w].scan, req[w].owner) \in Request
    BY <1>7, Carried, Made DEF save_asset, TypeOK, Uploading
  <2>2. QED
    BY <1>7, <2>1, TypeContinue DEF save_asset
<1>8. ASSUME NEW w \in Worker, commit_scan(w) PROVE TypeOK'
  <2>1. req[w].scan \in Scan /\ req[w].owner \in AnyOwner
    BY <1>8, Carried DEF commit_scan, TypeOK, Uploading
  <2>2. Scanned(w) \in Row
    BY <2>1, RowOf DEF Scanned
  <2>3. req' \in [Worker -> Request]
    BY <1>8, Others, Made DEF commit_scan, Finish, Continue, TypeOK
  <2>4. /\ asset' \in Row /\ parts' \in Scan \cup {NoScan} /\ sessions' \in Seq(Scan)
        /\ ~has_agent => sessions' = <<>>
    <3>1. /\ asset \in Row /\ parts \in Scan \cup {NoScan} /\ sessions \in Seq(Scan)
          /\ ~has_agent => sessions = <<>>
      BY DEF TypeOK
    <3>2. CASE /\ has_agent /\ asset' = Scanned(w) /\ parts' = req[w].scan
               /\ sessions' = Append(sessions, req[w].scan)
      <4>1. sessions' \in Seq(Scan)
        BY <2>1, <3>1, <3>2, Appended
      <4>2. QED
        BY <2>1, <2>2, <3>2, <4>1
    <3>3. CASE asset' = asset /\ parts' = parts /\ sessions' = sessions
      BY <3>1, <3>3
    <3>4. QED
      BY <1>8, <3>2, <3>3 DEF commit_scan
  <2>5. /\ row' = row /\ has_agent' = has_agent /\ heard' = heard /\ history' = history
        /\ edited' = edited /\ overlapped' = overlapped
    BY <1>8 DEF commit_scan, notes
  <2>6. QED
    BY <2>3, <2>4, <2>5 DEF TypeOK
<1>9. ASSUME NEW w \in Worker, save_edit(w) PROVE TypeOK'
  <2>1. req' \in [Worker -> Request]
    BY <1>9, Others, Made DEF save_edit, Finish, Continue, TypeOK
  <2>2. asset' \in Row
    BY <1>9, Carried DEF save_edit, TypeOK
  <2>3. QED
    BY <1>9, <2>1, <2>2 DEF save_edit, TypeOK, notes, Exists
<1>10. ASSUME NEW w \in Worker, close_records(w) PROVE TypeOK'
  <2>1. Open \in SUBSET Nat
    BY DEF Open, TypeOK
  <2>2. Assign("lock_records", req[w].owner, Open) \in Request
    BY <1>10, <2>1, Carried, Made DEF close_records, TypeOK, Closing
  <2>3. QED
    BY <1>10, <2>2, TypeContinue DEF close_records
<1>11. ASSUME NEW w \in Worker, lock_records(w) PROVE TypeOK'
  <2>1. Assign("save_owner", req[w].owner, req[w].rows \cap Open) \in Request
    BY <1>11, Carried, Made DEF lock_records, TypeOK, Closing
  <2>2. QED
    BY <1>11, <2>1, TypeContinue DEF lock_records
<1>12. ASSUME NEW w \in Worker, save_owner(w) PROVE TypeOK'
  <2>1. Assign("commit_owner", req[w].owner, req[w].rows) \in Request
    BY <1>12, Carried, Made DEF save_owner, TypeOK, Closing
  <2>2. QED
    BY <1>12, <2>1, TypeContinue, Made DEF save_owner, Finish
<1>13. ASSUME NEW w \in Worker, commit_owner(w) PROVE TypeOK'
  <2>1. req[w].owner \in AnyOwner /\ req[w].rows \in SUBSET Nat
    BY <1>13, Carried DEF commit_owner, TypeOK, Closing
  <2>2. asset' \in Row
    BY <1>13, <2>1, RowOf DEF commit_owner, Owned, TypeOK
  <2>3. history' \in Seq(Record)
    BY <1>13, <2>1, Committed DEF commit_owner, TypeOK
  <2>4. req' \in [Worker -> Request]
    BY <1>13, Others, Made DEF commit_owner, Finish, Continue, TypeOK
  <2>5. QED
    BY <1>13, <2>2, <2>3, <2>4 DEF commit_owner, TypeOK, notes
<1>14. ASSUME NEW w \in Worker, update_status(w) PROVE TypeOK'
  <2>1. req' \in [Worker -> Request]
    BY <1>14, Others, Made DEF update_status, Finish, Continue, TypeOK
  <2>2. asset' \in Row
    BY <1>14, RowOf DEF update_status, TypeOK
  <2>3. QED
    BY <1>14, <2>1, <2>2 DEF update_status, TypeOK, notes
<1>15. ASSUME NEW w \in Worker, fails(w) PROVE TypeOK'
  BY <1>15, TypeContinue, Made DEF fails, Finish
<1>16. CASE heartbeat
  BY <1>16 DEF heartbeat, TypeOK, notes
<1>17. CASE silence
  <2>1. heard' = "long_ago" /\ edited' = edited /\ overlapped' = overlapped
    BY <1>17 DEF silence, notes
  <2>2. QED
    BY <1>17, <2>1 DEF silence, TypeOK
<1>18. CASE destroy
  <2>1. /\ row' = "deleted" /\ has_agent' = FALSE /\ sessions' = <<>> /\ history' = <<>>
        /\ heard' = "never" /\ parts' = NoScan
    BY <1>18 DEF destroy
  <2>2. asset' = asset /\ edited' = edited /\ overlapped' \in BOOLEAN
    BY <1>18 DEF destroy, Overtakes
  <2>3. <<>> \in Seq(Record) /\ <<>> \in Seq(Scan)
    OBVIOUS
  <2>4. req' \in [Worker -> Request]
    BY <1>18, Forgotten DEF destroy
  <2>5. QED
    BY <2>1, <2>2, <2>3, <2>4 DEF TypeOK
<1>19. QED
  BY <1>1, <1>2, <1>3, <1>4, <1>5, <1>6, <1>7, <1>8, <1>9, <1>10, <1>11, <1>12, <1>13, <1>14,
     <1>15, <1>16, <1>17, <1>18 DEF Next, Handler, Caller

(* Every state is well typed. *)
THEOREM TypeCorrect == Spec => []TypeOK
<1>1. QED
  BY TypeInit, TypeStep, PTL DEF Spec

-------------------------------------------------------------------------------
(* What a step does to the requests.  What a request carries it had, or     *)
(* reads in this step from what is there.                                   *)
Brings(v, r) ==
  /\ r.op \in Uploading =>
       \/ req[v].op \in Uploading /\ r.owner = req[v].owner
       \/ asset' = asset /\ r.owner = asset.owner
  /\ r.op = "save_edit" =>
       \/ r = req[v]
       \/ /\ asset' = asset /\ r.row.scan = asset.scan
          /\ r.row.owner = asset.owner \/ r.row.owner \in edited'
  /\ r.op \in Closing =>
       \/ req[v].op \in Closing /\ r.rows \in {req[v].rows, req[v].rows \cap Open}
       \/ history' = history /\ r.rows = Open
  /\ r.op = "commit_owner" => Exists

Moves(w, r) ==
  /\ Begin(w, r) \/ (req[w] # Idle /\ Continue(w, r) /\ overlapped' = overlapped)
  /\ Brings(w, r)

LEMMA Ends ==
  ASSUME TypeOK, NEW w \in Worker, req[w] # Idle, Finish(w), overlapped' = overlapped
  PROVE  Idle \in Request /\ Moves(w, Idle)
BY Made DEF Moves, Finish, Brings, Uploading, Closing

LEMMA Moved ==
  ASSUME TypeOK, [Next]_vars
  PROVE  \/ req' = req /\ (overlapped => overlapped')
         \/ \E w \in Worker, r \in Request : Moves(w, r)
         \/ destroy
<1> DEFINE Goal == \/ req' = req /\ (overlapped => overlapped')
                   \/ \E w \in Worker, r \in Request : Moves(w, r)
<1>0. asset.owner \in AnyOwner
  BY RowOf DEF TypeOK
<1>1. CASE UNCHANGED vars
  BY <1>1 DEF vars, notes
<1>2. ASSUME NEW w \in Worker, NEW s \in Scan, scan(w, s) PROVE Goal
  <2> DEFINE r == Upload("lookup", s, asset.owner)
  <2>1. r \in Request /\ r.op = "lookup" /\ r.owner = asset.owner
    BY <1>0, Made DEF Uploading
  <2> HIDE DEF r
  <2>2. Begin(w, r) /\ asset' = asset
    BY <1>2 DEF scan, r, db
  <2>3. QED
    BY <2>1, <2>2 DEF Moves, Brings, Closing
<1>3. ASSUME NEW w \in Worker, mark_offline_assets(w) PROVE Goal
  <2>1. Moves(w, [op |-> "update_status"]) /\ [op |-> "update_status"] \in Request
    BY <1>3, Made DEF mark_offline_assets, Moves, Brings, Uploading, Closing
  <2>2. QED
    BY <2>1
<1>4. ASSUME NEW w \in Worker, NEW o \in AnyOwner, partial_update(w, o) PROVE Goal
  <2> DEFINE r == [op |-> "save_edit", row |-> Owned(o)]
  <2>1. Owned(o) \in Row /\ Owned(o).owner = o /\ Owned(o).scan = asset.scan
    BY RowOf DEF TypeOK, Owned
  <2>2. r \in Request /\ r.op = "save_edit" /\ r.row = Owned(o)
    BY <2>1, Made
  <2> HIDE DEF r
  <2>3. Begin(w, r) /\ asset' = asset /\ (o = asset.owner \/ o \in edited')
    BY <1>4 DEF partial_update, r, db
  <2>4. QED
    BY <2>1, <2>2, <2>3 DEF Moves, Brings, Uploading, Closing
<1>5. ASSUME NEW w \in Worker, NEW o \in AnyOwner, set_owner(w, o) PROVE Goal
  <2> DEFINE r == [op |-> "close_records", owner |-> o]
  <2>1. r \in Request /\ r.op = "close_records"
    BY Made
  <2> HIDE DEF r
  <2>2. Begin(w, r)
    BY <1>5 DEF set_owner, r
  <2>3. QED
    BY <2>1, <2>2 DEF Moves, Brings, Uploading, Closing
<1>6. ASSUME NEW w \in Worker, req[w].op # "idle", Finish(w), overlapped' = overlapped PROVE Goal
  BY <1>6, Ends, Made
<1>7. ASSUME NEW w \in Worker, NEW r \in Request, Continue(w, r), overlapped' = overlapped,
             req[w].op \in Uploading, r.op \in Uploading, r.owner = req[w].owner PROVE Goal
  BY <1>7, Made DEF Moves, Brings, Uploading, Closing
<1>8. ASSUME NEW w \in Worker, NEW r \in Request, Continue(w, r), overlapped' = overlapped,
             req[w].op \in Closing, r.op \in Closing, r.rows \in {req[w].rows, req[w].rows \cap Open},
             r.op = "commit_owner" => Exists
      PROVE  Goal
  BY <1>8, Made DEF Moves, Brings, Uploading, Closing
<1>9. ASSUME NEW w \in Worker, lookup(w) \/ save_asset(w) PROVE Goal
  <2>1. req[w].scan \in Scan /\ req[w].owner \in AnyOwner
    BY <1>9, Carried DEF lookup, save_asset, TypeOK, Uploading
  <2>2. \A op \in Uploading : /\ Upload(op, req[w].scan, req[w].owner) \in Request
                              /\ Upload(op, req[w].scan, req[w].owner).op = op
                              /\ Upload(op, req[w].scan, req[w].owner).owner = req[w].owner
    BY <2>1, Made
  <2>3. QED
    BY <1>6, <1>7, <1>9, <2>2 DEF lookup, save_asset, notes, Uploading
<1>10. ASSUME NEW w \in Worker, close_records(w) PROVE Goal
  <2> DEFINE r == Assign("lock_records", req[w].owner, Open)
  <2>1. req[w].owner \in AnyOwner /\ Open \in SUBSET Nat
    BY <1>10, Carried DEF close_records, TypeOK, Open
  <2>2. r \in Request /\ r.op = "lock_records" /\ r.rows = Open
    BY <2>1, Made DEF Closing
  <2> HIDE DEF r
  <2>3. Continue(w, r) /\ history' = history /\ overlapped' = overlapped /\ req[w] # Idle
    BY <1>10, Made DEF close_records, r, db, notes
  <2>4. QED
    BY <2>2, <2>3 DEF Moves, Brings, Uploading
<1>11. ASSUME NEW w \in Worker, lock_records(w) \/ save_owner(w) PROVE Goal
  <2>1. req[w].owner \in AnyOwner /\ req[w].rows \in SUBSET Nat
    BY <1>11, Carried DEF lock_records, save_owner, TypeOK, Closing
  <2>2. \A op \in Closing, rows \in {req[w].rows, req[w].rows \cap Open} :
          /\ Assign(op, req[w].owner, rows) \in Request
          /\ Assign(op, req[w].owner, rows).op = op
          /\ Assign(op, req[w].owner, rows).rows = rows
    BY <2>1, Made
  <2>3. QED
    BY <1>6, <1>8, <1>11, <2>2 DEF lock_records, save_owner, notes, Closing
<1>12. ASSUME NEW w \in Worker,
              commit_scan(w) \/ save_edit(w) \/ commit_owner(w) \/ update_status(w) \/ fails(w)
       PROVE  Goal
  BY <1>6, <1>12 DEF commit_scan, save_edit, commit_owner, update_status, fails, notes
<1>13. CASE heartbeat \/ silence
  BY <1>13 DEF heartbeat, silence, notes
<1>14. QED
  BY <1>1, <1>2, <1>3, <1>4, <1>5, <1>9, <1>10, <1>11, <1>12, <1>13 DEF Next, Handler, Caller

(* And to the database.  The five steps that write end a request, or are a  *)
(* deletion.                                                                *)
Writes(w) == commit_scan(w) \/ save_edit(w) \/ commit_owner(w) \/ update_status(w)

LEMMA Written ==
  ASSUME TypeOK, [Next]_vars
  PROVE  /\ edited \subseteq edited' /\ (overlapped => overlapped')
         /\ \/ /\ row' = row /\ has_agent' = has_agent /\ asset' = asset
               /\ parts' = parts /\ sessions' = sessions /\ history' = history
            \/ \E w \in Worker : Writes(w)
            \/ destroy
<1> DEFINE Same == /\ row' = row /\ has_agent' = has_agent /\ asset' = asset
                   /\ parts' = parts /\ sessions' = sessions /\ history' = history
           More == edited \subseteq edited' /\ (overlapped => overlapped')
<1>1. CASE UNCHANGED vars
  BY <1>1 DEF vars, db, notes
<1>2. ASSUME NEW w \in Worker, Caller(w) PROVE More /\ Same
  <2>1. CASE mark_offline_assets(w) \/ (\E s \in Scan : scan(w, s)) \/ (\E o \in AnyOwner : set_owner(w, o))
    BY <2>1 DEF mark_offline_assets, scan, set_owner, Begin, db
  <2>2. ASSUME NEW o \in AnyOwner, partial_update(w, o) PROVE More /\ Same
    BY <2>2 DEF partial_update, Begin, db
  <2>3. QED
    BY <1>2, <2>1, <2>2 DEF Caller
<1>3. ASSUME NEW w \in Worker, Handler(w) PROVE More /\ (Same \/ Writes(w))
  <2>1. More
    BY <1>3 DEF Handler, lookup, save_asset, commit_scan, save_edit, close_records, lock_records,
       save_owner, commit_owner, update_status, fails, notes
  <2>2. Same \/ Writes(w)
    BY <1>3 DEF Handler, lookup, save_asset, close_records, lock_records, save_owner, fails, db, Writes
  <2>3. QED
    BY <2>1, <2>2
<1>4. CASE heartbeat \/ silence
  BY <1>4 DEF heartbeat, silence, notes
<1>5. CASE destroy
  BY <1>5 DEF destroy, Overtakes
<1>6. QED
  BY <1>1, <1>2, <1>3, <1>4, <1>5 DEF Next

-------------------------------------------------------------------------------
(* What commit_scan does to the sessions, if it does anything. *)
LEMMA Sessions ==
  ASSUME TypeOK, NEW w \in Worker, commit_scan(w)
  PROVE  /\ req[w].scan \in Scan
         /\ \/ /\ has_agent /\ ~Stored(req[w].scan)
               /\ asset' = Scanned(w) /\ parts' = req[w].scan
               /\ sessions' \in Seq(Scan) /\ Len(sessions') = Len(sessions) + 1
               /\ sessions'[Len(sessions) + 1] = req[w].scan
               /\ \A i \in 1 .. Len(sessions) : sessions'[i] = sessions[i]
            \/ asset' = asset /\ parts' = parts /\ sessions' = sessions
<1>1. req[w].scan \in Scan /\ sessions \in Seq(Scan)
  BY Carried DEF commit_scan, TypeOK, Uploading
<1>2. QED
  BY <1>1 DEF commit_scan

LEMMA StoredOnceStep == TypeOK /\ StoredOnce /\ [Next]_vars => StoredOnce'
<1> SUFFICES ASSUME TypeOK, StoredOnce, [Next]_vars PROVE StoredOnce'
  OBVIOUS
<1>1. CASE sessions' = sessions
  BY <1>1 DEF StoredOnce
<1>2. CASE destroy
  BY <1>2 DEF destroy, StoredOnce
<1>3. ASSUME NEW w \in Worker, commit_scan(w) PROVE StoredOnce'
  <2> DEFINE n == Len(sessions) + 1
  <2>1. CASE /\ ~Stored(req[w].scan)
             /\ sessions' \in Seq(Scan) /\ Len(sessions') = n
             /\ sessions'[n] = req[w].scan
             /\ \A i \in 1 .. Len(sessions) : sessions'[i] = sessions[i]
    <3>1. Len(sessions) \in Nat /\ DOMAIN sessions = 1 .. Len(sessions) /\ DOMAIN sessions' = 1 .. n
      BY <2>1 DEF TypeOK
    <3>2. \A i \in 1 .. Len(sessions) : sessions[i] # sessions'[n]
      BY <2>1, <3>1 DEF Stored
    <3>3. QED
      BY <2>1, <3>1, <3>2 DEF StoredOnce
  <2>2. QED
    BY <1>1, <1>3, <2>1, Sessions
<1>4. ASSUME NEW w \in Worker, save_edit(w) \/ commit_owner(w) \/ update_status(w) PROVE StoredOnce'
  BY <1>1, <1>4 DEF save_edit, commit_owner, update_status
<1>5. QED
  BY <1>1, <1>2, <1>3, <1>4, Written DEF Writes

(* For any number of scans, workers and retries, a scan is stored once.     *)
THEOREM ScansStoredOnce == Spec => []StoredOnce
<1>1. Init => StoredOnce
  BY DEF Init, StoredOnce
<1>2. QED
  BY <1>1, StoredOnceStep, TypeCorrect, PTL DEF Spec

-------------------------------------------------------------------------------
(* The scan a row's columns are from is stored, and not after the one its   *)
(* parts are from; so is that of every row a PATCH is about to write back.  *)
Behind(s) ==
  s # NoScan => \E i, j \in DOMAIN sessions : i <= j /\ sessions[i] = s /\ sessions[j] = parts
Columns ==
  row = "there" => /\ Behind(asset.scan)
                   /\ \A w \in Worker : req[w].op = "save_edit" => Behind(req[w].row.scan)

LEMMA ColumnsStep == TypeOK /\ Columns /\ [Next]_vars => Columns'
<1> SUFFICES ASSUME TypeOK, Columns, [Next]_vars, row' = "there" PROVE Columns'
  BY DEF Columns
<1>1. row = "there" /\ ~destroy
  BY Written DEF Writes, commit_scan, save_edit, commit_owner, update_status, destroy
<1>2. ASSUME NEW s, Behind(s), sessions' = sessions, parts' = parts PROVE Behind(s)'
  BY <1>2 DEF Behind
<1>3. ASSUME NEW v \in Worker, req'[v].op = "save_edit"
      PROVE  Behind(req'[v].row.scan)
  <2>1. req' \in [Worker -> Request] /\ req \in [Worker -> Request]
    BY TypeStep DEF TypeOK
  <2>2. CASE req'[v] = req[v]
    BY <1>1, <1>3, <2>2 DEF Columns
  <2>3. ASSUME NEW w \in Worker, NEW r \in Request, Moves(w, r), v = w
        PROVE  Behind(req'[v].row.scan)
    <3>1. req'[v] = r /\ Brings(w, r)
      BY <2>1, <2>3 DEF Moves, Begin, Continue
    <3>2. r = req[v] \/ r.row.scan = asset.scan
      BY <1>3, <2>3, <3>1 DEF Brings
    <3>3. QED
      BY <1>1, <1>3, <3>1, <3>2 DEF Columns
  <2>4. ASSUME NEW w \in Worker, NEW r \in Request, Moves(w, r), v # w
        PROVE  req'[v] = req[v]
    BY <2>1, <2>4 DEF Moves, Begin, Continue
  <2>5. QED
    BY <1>1, <2>2, <2>3, <2>4, Moved
<1>4. CASE asset'.scan = asset.scan /\ sessions' = sessions /\ parts' = parts
  BY <1>1, <1>2, <1>3, <1>4 DEF Columns
<1>5. ASSUME NEW w \in Worker, save_edit(w) PROVE Columns'
  BY <1>1, <1>2, <1>3, <1>5 DEF Columns, save_edit
<1>6. ASSUME NEW w \in Worker, commit_scan(w) PROVE Columns'
  <2> DEFINE n == Len(sessions) + 1
  <2>1. CASE /\ asset' = Scanned(w) /\ parts' = req[w].scan
             /\ sessions' \in Seq(Scan) /\ Len(sessions') = n
             /\ sessions'[n] = req[w].scan
             /\ \A i \in 1 .. Len(sessions) : sessions'[i] = sessions[i]
    <3>1. Len(sessions) \in Nat /\ DOMAIN sessions = 1 .. Len(sessions) /\ DOMAIN sessions' = 1 .. n
      BY <2>1 DEF TypeOK
    <3>2. n \in DOMAIN sessions' /\ sessions'[n] = parts'
      BY <2>1, <3>1
    <3>3. ASSUME NEW s, Behind(s) PROVE Behind(s)'
      BY <2>1, <3>1, <3>2, <3>3 DEF Behind
    <3>4. asset'.scan = parts'
      BY <2>1 DEF Scanned
    <3>5. Behind(asset.scan)'
      BY <3>1, <3>2, <3>4 DEF Behind
    <3>6. QED
      BY <1>3, <3>3, <3>5 DEF Columns
  <2>2. QED
    BY <1>4, <1>6, <2>1, Sessions
<1>7. ASSUME NEW w \in Worker, commit_owner(w) \/ update_status(w) PROVE Columns'
  <2>1. sessions' = sessions /\ parts' = parts
    BY <1>7 DEF commit_owner, update_status
  <2>2. asset'.scan = asset.scan
    <3>1. CASE commit_owner(w)
      BY <3>1 DEF commit_owner, Owned
    <3>2. CASE update_status(w)
      BY <3>2 DEF update_status
    <3>3. QED
      BY <1>7, <3>1, <3>2
  <2>3. QED
    BY <1>4, <2>1, <2>2
<1>8. QED
  BY <1>1, <1>4, <1>5, <1>6, <1>7, Written DEF Writes

LEMMA ColumnsInit == Init => Columns
<1>1. \A o : NewRow(o).scan = NoScan
  BY DEF NewRow
<1>2. Idle.op # "save_edit"
  BY DEF Idle
<1>3. ASSUME Init PROVE asset.scan = NoScan /\ \A w \in Worker : req[w] = Idle
  BY <1>1, <1>3 DEF Init
<1> QED
  BY <1>2, <1>3 DEF Columns, Behind

(* However scans, retries and stale PATCHes interleave, the collected       *)
(* columns come from a stored scan and are never ahead of NICs and disks.   *)
THEOREM NeverAhead == Spec => []ColumnsNotAhead
<1>1. Columns => ColumnsNotAhead
  BY DEF Columns, ColumnsNotAhead, Behind
<1>2. QED
  BY <1>1, ColumnsInit, ColumnsStep, TypeCorrect, PTL DEF Spec

-------------------------------------------------------------------------------
(* Nothing that is or may become the owner of the row lacks a record.       *)
Known(o) == o \in Owner \ edited => \E i \in DOMAIN history : history[i].owner = o
Owners ==
  row = "there" =>
    /\ Known(asset.owner)
    /\ \A w \in Worker : /\ req[w].op \in Uploading => Known(req[w].owner)
                         /\ req[w].op = "save_edit" => Known(req[w].row.owner)

LEMMA HistoryGrows ==
  ASSUME TypeOK, NEW w \in Worker, commit_owner(w)
  PROVE  /\ req[w].owner \in AnyOwner /\ req[w].rows \in SUBSET Nat
         /\ asset'.owner = req[w].owner
         /\ history' = Recorded(ClosedRecords(req[w].rows), req[w].owner)
         /\ \A i \in DOMAIN history : i \in DOMAIN history' /\ history'[i].owner = history[i].owner
         /\ req[w].owner \in Owner => \E i \in DOMAIN history' : history'[i].owner = req[w].owner
<1>1. req[w].owner \in AnyOwner /\ req[w].rows \in SUBSET Nat
  BY Carried DEF commit_owner, TypeOK, Closing
<1>2. /\ asset'.owner = req[w].owner
      /\ history' = Recorded(ClosedRecords(req[w].rows), req[w].owner)
  BY DEF commit_owner, Owned
<1>3. history \in Seq(Record)
  BY DEF TypeOK
<1>4. QED
  BY <1>1, <1>2, <1>3, Committed

LEMMA OwnersStep == TypeOK /\ Owners /\ [Next]_vars => Owners'
<1> SUFFICES ASSUME TypeOK, Owners, [Next]_vars, row' = "there" PROVE Owners'
  BY DEF Owners
<1>1. row = "there" /\ ~destroy
  BY Written DEF Writes, commit_scan, save_edit, commit_owner, update_status, destroy
<1>2. \A i \in DOMAIN history : i \in DOMAIN history' /\ history'[i].owner = history[i].owner
  <2>1. CASE history' = history
    BY <2>1
  <2>2. ASSUME NEW w \in Worker, commit_owner(w) PROVE <1>2!:
    BY <2>2, HistoryGrows
  <2>3. QED
    BY <1>1, <2>1, <2>2, Written DEF Writes, commit_scan, save_edit, update_status
<1>3. ASSUME NEW o, Known(o) PROVE Known(o)'
  BY <1>2, <1>3, Written DEF Known
<1>4. ASSUME NEW v \in Worker, NEW o,
             \/ req'[v].op \in Uploading /\ o = req'[v].owner
             \/ req'[v].op = "save_edit" /\ o = req'[v].row.owner
      PROVE  Known(o)'
  <2>1. req' \in [Worker -> Request] /\ req \in [Worker -> Request]
    BY TypeStep DEF TypeOK
  <2>2. CASE req'[v] = req[v]
    BY <1>1, <1>3, <1>4, <2>2 DEF Owners
  <2>3. ASSUME NEW w \in Worker, NEW r \in Request, Moves(w, r), v = w
        PROVE  Known(o)'
    <3>1. req'[v] = r /\ Brings(w, r)
      BY <2>1, <2>3 DEF Moves, Begin, Continue
    <3>2. CASE r.op \in Uploading /\ o = r.owner
      <4>1. (req[v].op \in Uploading /\ o = req[v].owner) \/ o = asset.owner
        BY <2>3, <3>1, <3>2 DEF Brings
      <4>2. QED
        BY <1>1, <1>3, <4>1 DEF Owners
    <3>3. CASE r.op = "save_edit" /\ o = r.row.owner
      <4>1. r = req[v] \/ o = asset.owner \/ o \in edited'
        BY <2>3, <3>1, <3>3 DEF Brings
      <4>2. CASE o \in edited'
        BY <4>2 DEF Known
      <4>3. QED
        BY <1>1, <1>3, <3>3, <4>1, <4>2 DEF Owners
    <3>4. QED
      BY <1>4, <3>1, <3>2, <3>3
  <2>4. ASSUME NEW w \in Worker, NEW r \in Request, Moves(w, r), v # w
        PROVE  req'[v] = req[v]
    BY <2>1, <2>4 DEF Moves, Begin, Continue
  <2>5. QED
    BY <1>1, <2>2, <2>3, <2>4, Moved
<1>5. Known(asset.owner)'
  <2>1. CASE asset'.owner = asset.owner
    BY <1>1, <1>3, <2>1 DEF Owners
  <2>2. ASSUME NEW w \in Worker, commit_owner(w) PROVE Known(asset.owner)'
    BY <2>2, HistoryGrows DEF Known
  <2>3. ASSUME NEW w \in Worker, save_edit(w) PROVE Known(asset.owner)'
    BY <1>1, <1>3, <2>3 DEF Owners, save_edit
  <2>4. ASSUME NEW w \in Worker, commit_scan(w) PROVE Known(asset.owner)'
    <3>1. asset'.owner = asset.owner \/ asset'.owner = req[w].owner
      BY <2>4 DEF commit_scan, Scanned
    <3>2. Known(req[w].owner)
      BY <1>1, <2>4 DEF Owners, commit_scan, Uploading
    <3>3. QED
      BY <1>3, <2>1, <3>1, <3>2
  <2>5. ASSUME NEW w \in Worker, update_status(w) PROVE Known(asset.owner)'
    BY <2>1, <2>5 DEF update_status
  <2>6. QED
    BY <1>1, <2>1, <2>2, <2>3, <2>4, <2>5, Written DEF Writes
<1>6. QED
  BY <1>4, <1>5 DEF Owners

LEMMA OwnersInit == Init => Owners
<1> SUFFICES ASSUME Init PROVE Owners
  OBVIOUS
<1>1. \A o : NewRow(o).owner = o
  BY DEF NewRow
<1>2. \A w \in Worker : req[w].op = "idle"
  BY DEF Init, Idle
<1>3. Known(asset.owner)
  <2>1. CASE has_agent = TRUE
    BY <1>1, <2>1 DEF Init, Known
  <2>2. ASSUME NEW o \in AnyOwner, asset = NewRow(o), history = Recorded(<<>>, o)
        PROVE  Known(asset.owner)
    <3>1. o \in Owner => history = Append(<<>>, [owner |-> o, open |-> TRUE])
      BY <2>2 DEF Recorded
    <3>2. o \in Owner => 1 \in DOMAIN history /\ history[1].owner = o
      BY <3>1
    <3>3. QED
      BY <1>1, <2>2, <3>2 DEF Known
  <2>3. QED
    BY <2>1, <2>2 DEF Init
<1>4. QED
  BY <1>2, <1>3 DEF Owners, Uploading

(* No stale save, retry or rollback ever shows an owner whom no assignment  *)
(* put into the history, but those typed into a PATCH.                      *)
THEOREM OwnersAreRecorded == Spec => []OwnerHasRecord
<1>1. Owners => OwnerHasRecord
  BY DEF Owners, OwnerHasRecord, Known
<1>2. QED
  BY <1>1, OwnersInit, OwnersStep, TypeCorrect, PTL DEF Spec

-------------------------------------------------------------------------------
(* While no request has overlapped another, at most one worker is busy, and *)
(* what its request carries is still what is there.                         *)
Alone == ~overlapped => \A v, w \in Worker : req[v] # Idle /\ req[w] # Idle => v = w
Agrees ==
  /\ {history[i].owner : i \in Open} = {asset.owner} \ {NoOwner}
  /\ \A i, j \in Open : i = j
Current(r) ==
  /\ r.op \in Uploading => r.owner = asset.owner
  /\ r.op = "save_edit" => r.row.owner = asset.owner
  /\ r.op \in Closing => Open \subseteq r.rows
InStep ==
  row = "there" /\ ~overlapped /\ edited = {} => Agrees /\ \A w \in Worker : Current(req[w])

LEMMA AloneStep == TypeOK /\ Alone /\ [Next]_vars => Alone'
<1> SUFFICES ASSUME TypeOK, Alone, [Next]_vars, ~overlapped' PROVE Alone'
  BY DEF Alone
<1>1. ~overlapped
  BY Written
<1>2. req' \in [Worker -> Request] /\ req \in [Worker -> Request]
  BY TypeStep DEF TypeOK
<1>3. CASE req' = req
  BY <1>1, <1>3 DEF Alone
<1>4. ASSUME NEW w \in Worker, NEW r \in Request, Moves(w, r) PROVE Alone'
  <2>1. \A v \in Worker : v # w => req'[v] = req[v]
    BY <1>2, <1>4 DEF Moves, Begin, Continue
  <2>2. CASE Begin(w, r)
    BY <1>1, <2>1, <2>2 DEF Begin, Alone
  <2>3. CASE req[w] # Idle
    BY <1>1, <2>1, <2>3 DEF Alone
  <2>4. QED
    BY <1>4, <2>2, <2>3 DEF Moves
<1>5. CASE destroy
  <2>1. /\ \A v \in Worker : req[v].op = "lock_records" => req[v] # Idle
        /\ \A v \in Worker : req[v] = Idle
    BY <1>5, Made DEF destroy, Overtakes
  <2> QED
    BY <1>5, <2>1, Forgotten DEF destroy, Alone
<1>6. QED
  BY <1>3, <1>4, <1>5, Moved

LEMMA InStepStep == TypeOK /\ Alone /\ InStep /\ [Next]_vars => InStep'
<1> SUFFICES ASSUME TypeOK, Alone, InStep, [Next]_vars,
                    row' = "there", ~overlapped', edited' = {}
             PROVE  (Agrees /\ \A w \in Worker : Current(req[w]))'
  BY DEF InStep
<1>1. /\ row = "there" /\ ~overlapped /\ edited = {} /\ ~destroy
      /\ Agrees /\ \A w \in Worker : Current(req[w])
  <2>1. ~overlapped /\ edited = {}
    BY Written
  <2>2. row = "there" /\ ~destroy
    BY Written DEF Writes, commit_scan, save_edit, commit_owner, update_status, destroy
  <2>3. QED
    BY <2>1, <2>2 DEF InStep
<1>2. req' \in [Worker -> Request] /\ req \in [Worker -> Request]
  BY TypeStep DEF TypeOK
(* A step that writes leaves nobody with a request. *)
<1>3. ASSUME NEW w \in Worker, Writes(w) PROVE \A v \in Worker : Current(req[v])'
  <2>1. req' = [req EXCEPT ![w] = Idle] /\ req[w] # Idle
    BY <1>3, Made DEF Writes, commit_scan, save_edit, commit_owner, update_status, Finish, Continue
  <2>2. \A v \in Worker : req'[v] = Idle
    BY <1>1, <1>2, <2>1 DEF Alone
  <2>3. QED
    BY <2>2, Made DEF Current, Uploading, Closing
<1>4. ASSUME history' = history, asset' = asset, NEW v \in Worker PROVE Current(req[v])'
  <2>1. \A r : Current(r) <=> Current(r)'
    BY <1>4 DEF Current, Open
  <2>2. CASE req'[v] = req[v]
    BY <1>1, <2>1, <2>2
  <2>3. ASSUME NEW w \in Worker, NEW r \in Request, Moves(w, r), v = w PROVE Current(req'[v])
    <3>1. req'[v] = r /\ Brings(w, r)
      BY <1>2, <2>3 DEF Moves, Begin, Continue
    <3>2. Current(req[v])
      BY <1>1
    <3>3. ~(r.op = "save_edit" /\ r.row.owner \in edited')
      OBVIOUS
    <3>4. r.op \in Uploading => r.owner = asset.owner
      BY <2>3, <3>1, <3>2 DEF Current, Brings
    <3>5. r.op = "save_edit" => r.row.owner = asset.owner
      BY <2>3, <3>1, <3>2, <3>3 DEF Current, Brings
    <3>6. r.op \in Closing => Open \subseteq r.rows
      BY <2>3, <3>1, <3>2 DEF Current, Brings
    <3>7. QED
      BY <3>1, <3>4, <3>5, <3>6 DEF Current
  <2>4. ASSUME NEW w \in Worker, NEW r \in Request, Moves(w, r), v # w PROVE req'[v] = req[v]
    BY <1>2, <2>4 DEF Moves, Begin, Continue
  <2>5. Current(req'[v])
    BY <1>1, <2>2, <2>3, <2>4, Moved
  <2>6. QED
    BY <1>4, <2>5 DEF Current, Open
<1>5. ASSUME history' = history, asset'.owner = asset.owner PROVE Agrees'
  <2>1. Open' = Open
    BY <1>5 DEF Open
  <2>2. {history'[i].owner : i \in Open'} = {history[i].owner : i \in Open}
    BY <1>5, <2>1
  <2>3. {asset'.owner} \ {NoOwner} = {asset.owner} \ {NoOwner}
    BY <1>5
  <2>4. \A i, j \in Open' : i = j
    BY <1>1, <2>1 DEF Agrees
  <2>5. {history'[i].owner : i \in Open'} = {asset'.owner} \ {NoOwner}
    BY <1>1, <2>2, <2>3 DEF Agrees
  <2>6. QED
    BY <2>4, <2>5 DEF Agrees
<1>6. ASSUME NEW w \in Worker, Writes(w) PROVE Agrees'
  <2>0. Current(req[w])
    BY <1>1
  <2>1. CASE save_edit(w)
    BY <1>5, <2>0, <2>1 DEF save_edit, Current
  <2>2. CASE update_status(w)
    BY <1>5, <2>2 DEF update_status
  <2>3. CASE commit_scan(w)
    <3>1. asset'.owner = asset.owner
      BY <2>0, <2>3 DEF commit_scan, Scanned, Current, Uploading
    <3>2. QED
      BY <1>5, <2>3, <3>1 DEF commit_scan
  <2>4. CASE commit_owner(w)
    <3> DEFINE o == req[w].owner
               rows == req[w].rows
    <3>1. o \in AnyOwner /\ rows \in SUBSET Nat /\ Open \subseteq rows /\ asset'.owner = o
      BY <2>0, <2>4, HistoryGrows DEF Current, commit_owner, Closing
    <3>2. /\ {i \in DOMAIN history' : history'[i].open} = IF o \in Owner THEN {Len(history) + 1} ELSE {}
          /\ o \in Owner => history'[Len(history) + 1].owner = o
      <4>1. history' = Recorded(ClosedRecords(rows), o) /\ history \in Seq(Record)
        BY <2>4 DEF commit_owner, TypeOK
      <4> HIDE DEF o, rows
      <4>2. QED
        BY <3>1, <4>1, Committed
    <3> HIDE DEF o, rows
    <3>3. Open' = IF o \in Owner THEN {Len(history) + 1} ELSE {}
      BY <3>2 DEF Open
    <3>4. CASE o \in Owner
      <4>1. {history'[i].owner : i \in Open'} = {o}
        BY <3>2, <3>3, <3>4
      <4>2. o # NoOwner
        BY <3>4
      <4>3. QED
        BY <3>1, <3>3, <3>4, <4>1, <4>2 DEF Agrees
    <3>5. CASE o \notin Owner
      <4>1. o = NoOwner /\ Open' = {}
        BY <3>1, <3>3, <3>5 DEF AnyOwner
      <4>2. QED
        BY <3>1, <4>1 DEF Agrees
    <3>6. QED
      BY <3>4, <3>5
  <2>5. QED
    BY <1>6, <2>1, <2>2, <2>3, <2>4 DEF Writes
<1>7. QED
  BY <1>1, <1>3, <1>4, <1>5, <1>6, Written

(* As long as requests do not overlap, and whichever of them fail, the      *)
(* owner has the one open record of the history.                            *)
THEOREM HistoryAgrees == Spec => []SequentialHistory
<1>1. Init => Alone /\ InStep
  <2> SUFFICES ASSUME Init PROVE Alone /\ InStep
    OBVIOUS
  <2>1. \A w \in Worker : req[w] = Idle
    BY DEF Init
  <2>2. \A o : NewRow(o).owner = o
    BY DEF NewRow
  <2>3. Alone /\ \A w \in Worker : Current(req[w])
    BY <2>1, Made DEF Alone, Current, Uploading, Closing
  <2>4. ASSUME NEW o \in AnyOwner, asset.owner = o, history = Recorded(<<>>, o) PROVE Agrees
    <3>1. CASE o \in Owner
      <4> DEFINE e == [owner |-> o, open |-> TRUE]
      <4>0. e.owner = o /\ e.open
        OBVIOUS
      <4>1. DOMAIN history = {1} /\ history[1] = e
        <5>1. history = Append(<<>>, e)
          BY <2>4, <3>1 DEF Recorded
        <5> HIDE DEF e
        <5>2. QED
          BY <5>1
      <4>2. Open = {1} /\ history[1].owner = o
        BY <4>0, <4>1 DEF Open
      <4>3. {history[i].owner : i \in Open} = {o}
        BY <4>2
      <4>4. QED
        BY <2>4, <3>1, <4>2, <4>3 DEF Agrees
    <3>2. CASE o \notin Owner
      <4>1. o = NoOwner /\ history = <<>>
        BY <2>4, <3>2 DEF Recorded, AnyOwner
      <4>2. Open = {}
        BY <4>1 DEF Open
      <4>3. QED
        BY <2>4, <4>1, <4>2 DEF Agrees
    <3>3. QED
      BY <3>1, <3>2
  <2>5. NoOwner \in AnyOwner /\ Recorded(<<>>, NoOwner) = <<>>
    BY DEF AnyOwner, Recorded
  <2>6. Agrees
    BY <2>2, <2>4, <2>5 DEF Init
  <2>7. QED
    BY <2>3, <2>6 DEF InStep
<1>2. InStep => SequentialHistory
  BY DEF InStep, Agrees, SequentialHistory
<1>3. QED
  BY <1>1, <1>2, AloneStep, InStepStep, TypeCorrect, PTL DEF Spec

-------------------------------------------------------------------------------
(* The refinement.  An assignment that is about to commit holds the lock    *)
(* of the row, which is therefore still there.                              *)
Held == \A w \in Worker : req[w].op = "commit_owner" => Exists

LEMMA HeldStep == TypeOK /\ Held /\ [Next]_vars => Held'
<1> SUFFICES ASSUME TypeOK, Held, [Next]_vars, NEW v \in Worker, req'[v].op = "commit_owner"
             PROVE  Exists'
  BY DEF Held
<1>1. req' \in [Worker -> Request] /\ req \in [Worker -> Request]
  BY TypeStep DEF TypeOK
<1>2. ASSUME Exists, ~destroy PROVE Exists'
  <2>1. row' = row \/ row' = "inserted"
    BY <1>2, Written DEF Writes, commit_scan, save_edit, commit_owner, update_status
  <2> QED
    BY <1>2, <2>1 DEF Exists
<1>3. CASE destroy
  <2>1. req'[v] = req[v] \/ req'[v].op = "lock_records"
    <3>1. ASSUME req[v].op = "lock_records", req'[v] = Assign("lock_records", req[v].owner, {})
          PROVE  req'[v].op = "lock_records"
      BY <3>1 DEF Assign
    <3> QED
      BY <1>3, <3>1, Forgotten DEF destroy
  <2>2. req[v].op # "commit_owner"
    BY <1>3 DEF destroy, Locks
  <2> QED
    BY <2>1, <2>2
<1>4. CASE req'[v] = req[v]
  BY <1>2, <1>3, <1>4 DEF Held
<1>5. ASSUME NEW w \in Worker, NEW r \in Request, Moves(w, r), ~destroy PROVE Exists'
  <2>1. CASE v = w
    <3>1. r.op = "commit_owner"
      BY <1>1, <1>5, <2>1 DEF Moves, Begin, Continue
    <3> QED
      BY <1>2, <1>5, <3>1 DEF Moves, Brings
  <2>2. CASE v # w
    <3>1. req'[v] = req[v]
      BY <1>1, <1>5, <2>2 DEF Moves, Begin, Continue
    <3> QED
      BY <1>4, <3>1
  <2> QED
    BY <2>1, <2>2
<1> QED
  BY <1>3, <1>4, <1>5, Moved

EInv == TypeOK /\ Columns /\ Owners /\ Held

(* Whatever may become the owner is named in the entry. *)
LEMMA NamedIsKnown ==
  ASSUME TypeOK, NEW o \in AnyOwner, Known(o)
  PROVE  o \in Entry!Named
BY DEF Known, Entry!Named, AnyOwner

LEMMA EntryRests ==
  ASSUME UNCHANGED <<row, has_agent, asset, parts, sessions, history, edited>>
  PROVE  UNCHANGED Entry!vars
BY DEF Entry!vars

LEMMA TypeEntry ==
  ASSUME TypeOK, NEW w \in Worker, NEW o \in AnyOwner, partial_update(w, o)
  PROVE  [Entry!Next]_(Entry!vars)
<1>1. CASE edited' = edited
  BY <1>1, EntryRests DEF partial_update, db
<1>2. CASE edited' = edited \cup {o}
  <2>1. Entry!Type(o)
    BY <1>2 DEF partial_update, db, Exists, Entry!Type
  <2> QED
    BY <2>1 DEF Entry!Next, AnyOwner
<1> QED
  BY <1>1, <1>2 DEF partial_update

LEMMA StoreEntry ==
  ASSUME EInv, NEW w \in Worker, commit_scan(w)
  PROVE  [Entry!Next]_(Entry!vars)
<1>1. /\ row' = row /\ has_agent' = has_agent /\ history' = history /\ edited' = edited
      /\ req[w].op = "commit_scan" /\ req[w].scan \in Scan /\ req[w].owner \in AnyOwner
  BY Carried DEF EInv, TypeOK, commit_scan, notes, Uploading
<1>2. CASE asset' = asset /\ parts' = parts /\ sessions' = sessions
  BY <1>1, <1>2, EntryRests
<1>3. CASE /\ has_agent /\ ~Stored(req[w].scan) /\ asset' = Scanned(w)
           /\ parts' = req[w].scan /\ sessions' = Append(sessions, req[w].scan)
  <2>1. asset'.owner = req[w].owner /\ asset'.scan = req[w].scan
    BY <1>3 DEF Scanned
  <2>2. row = "there"
    BY <1>3 DEF EInv, TypeOK
  <2>3. asset'.owner \in Entry!Named
    BY <1>1, <2>1, <2>2, NamedIsKnown DEF EInv, Owners, Uploading
  <2>4. req[w].scan \notin Entry!Stored
    <3>1. req[w].scan # NoScan
      BY <1>1 DEF Scan, NoScan
    <3> QED
      BY <1>3, <3>1 DEF Entry!Stored, Stored
  <2>5. Entry!Store(req[w].scan)
    BY <1>1, <1>3, <2>1, <2>2, <2>3, <2>4 DEF Entry!Store, Entry!Reverts
  <2> QED
    BY <1>1, <2>5 DEF Entry!Next
<1> QED
  BY <1>2, <1>3 DEF commit_scan

LEMMA EditEntry ==
  ASSUME EInv, NEW w \in Worker, save_edit(w)
  PROVE  [Entry!Next]_(Entry!vars)
<1> DEFINE r == req[w].row
<1>1. /\ has_agent' = has_agent /\ parts' = parts /\ sessions' = sessions /\ history' = history
      /\ edited' = edited /\ asset' = r /\ req[w].op = "save_edit"
      /\ r.owner \in AnyOwner /\ r.scan \in Scan \cup {NoScan}
  BY Carried, RowOf DEF EInv, TypeOK, save_edit, notes
<1>2. CASE row = "there"
  <2>1. row' = row
    BY <1>2 DEF save_edit, Exists
  <2>2. r.owner \in Entry!Named
    BY <1>1, <1>2, NamedIsKnown DEF EInv, Owners
  <2>3. r.scan \in Entry!Stored
    BY <1>1, <1>2 DEF EInv, Columns, Behind, Entry!Stored
  <2>4. Entry!Edit
    BY <1>1, <1>2, <2>1, <2>2, <2>3 DEF Entry!Edit, Entry!Reverts
  <2> QED
    BY <2>4 DEF Entry!Next
<1>3. CASE row = "inserted"
  <2>1. row' = row
    BY <1>3 DEF save_edit, Exists
  <2>2. Entry!Edit
    BY <1>1, <1>3, <2>1 DEF Entry!Edit, Entry!Reverts, AnyOwner
  <2> QED
    BY <2>2 DEF Entry!Next
<1>4. CASE row = "deleted"
  <2>1. row' = "inserted"
    BY <1>4 DEF save_edit, Exists
  <2>2. Entry!Reinsert
    BY <1>1, <1>4, <2>1 DEF Entry!Reinsert, AnyOwner
  <2> QED
    BY <2>2 DEF Entry!Next
<1> QED
  BY <1>2, <1>3, <1>4 DEF EInv, TypeOK

LEMMA GiveEntry ==
  ASSUME EInv, NEW w \in Worker, commit_owner(w)
  PROVE  [Entry!Next]_(Entry!vars)
<1> DEFINE o == req[w].owner
           closing == req[w].rows \cap DOMAIN history
<1>1. /\ row' = row /\ has_agent' = has_agent /\ parts' = parts /\ sessions' = sessions
      /\ edited' = edited /\ asset'.owner = o /\ asset'.scan = asset.scan /\ o \in AnyOwner
      /\ row # "deleted"
  BY Carried DEF EInv, TypeOK, Held, Exists, commit_owner, Owned, notes, Closing
<1>2. Entry!Closed(closing) = ClosedRecords(req[w].rows)
  BY DEF Entry!Closed, ClosedRecords
<1>3. history' = IF o = NoOwner THEN Entry!Closed(closing)
                 ELSE Append(Entry!Closed(closing), Entry!Record(o))
  BY <1>1, <1>2 DEF commit_owner, Recorded, AnyOwner, Entry!Record
<1>4. closing \in SUBSET DOMAIN history
  OBVIOUS
<1> HIDE DEF o, closing
<1>5. Entry!Give(o)
  BY <1>1, <1>3, <1>4 DEF Entry!Give
<1> QED
  BY <1>1, <1>5 DEF Entry!Next, AnyOwner

LEMMA EntryStep == EInv /\ [Next]_vars => [Entry!Next]_(Entry!vars)
<1> SUFFICES ASSUME EInv, [Next]_vars PROVE [Entry!Next]_(Entry!vars)
  OBVIOUS
<1>1. CASE UNCHANGED vars
  BY <1>1, EntryRests DEF vars, db, notes
<1>2. ASSUME NEW w \in Worker, Caller(w) PROVE [Entry!Next]_(Entry!vars)
  <2>1. CASE mark_offline_assets(w) \/ (\E s \in Scan : scan(w, s)) \/ (\E o \in AnyOwner : set_owner(w, o))
    BY <2>1, EntryRests DEF mark_offline_assets, scan, set_owner, db
  <2> QED
    BY <1>2, <2>1, TypeEntry DEF Caller, EInv
<1>3. ASSUME NEW w \in Worker, update_status(w) PROVE [Entry!Next]_(Entry!vars)
  <2>1. asset'.owner = asset.owner /\ asset'.scan = asset.scan
    BY <1>3 DEF update_status
  <2> QED
    BY <1>3, <2>1 DEF update_status, notes, Entry!vars
<1>4. ASSUME NEW w \in Worker,
             \/ lookup(w) \/ save_asset(w) \/ fails(w)
             \/ close_records(w) \/ lock_records(w) \/ save_owner(w)
      PROVE  [Entry!Next]_(Entry!vars)
  BY <1>4, EntryRests DEF lookup, save_asset, fails, close_records, lock_records, save_owner, db, notes
<1>5. CASE heartbeat \/ silence
  BY <1>5, EntryRests DEF heartbeat, silence, notes
<1>6. CASE destroy
  <2>1. Entry!Delete
    BY <1>6 DEF destroy, Exists, Entry!Delete
  <2> QED
    BY <2>1 DEF Entry!Next
<1> QED
  BY <1>1, <1>2, <1>3, <1>4, <1>5, <1>6, StoreEntry, EditEntry, GiveEntry DEF Next, Handler

LEMMA EntryInit == Init => Entry!Init
<1> SUFFICES ASSUME Init PROVE Entry!Init
  OBVIOUS
<1>1. ASSUME NEW o \in AnyOwner, asset = NewRow(o), history = Recorded(<<>>, o),
             o \in Owner => has_agent = FALSE
      PROVE  Entry!Init
  <2>1. asset.owner = o /\ asset.scan = NoScan
    BY <1>1 DEF NewRow
  <2>2. o = NoOwner => history = <<>>
    BY <1>1 DEF Recorded
  <2>3. o \in Owner => history = <<Entry!Record(o)>>
    <3>1. o \in Owner => history = Append(<<>>, Entry!Record(o))
      BY <1>1 DEF Recorded, Entry!Record
    <3>2. Append(<<>>, Entry!Record(o)) = <<Entry!Record(o)>>
      OBVIOUS
    <3> QED
      BY <3>1, <3>2
  <2> QED
    BY <1>1, <2>1, <2>2, <2>3 DEF Init, Entry!Init, AnyOwner
<1>2. NoOwner \in AnyOwner /\ NoOwner \notin Owner /\ Recorded(<<>>, NoOwner) = <<>>
  BY DEF AnyOwner, Recorded
<1> QED
  BY <1>1, <1>2 DEF Init

(* For any requests and whatever interleaving of their statements, failures *)
(* and a deletion included, the asset is an entry of the inventory.         *)
THEOREM Refinement == Spec => ImplementsInventory
<1>1. Init => Held
  <2>1. Idle.op # "commit_owner"
    BY DEF Idle
  <2> QED
    BY <2>1 DEF Init, Held
<1>2. Spec => []EInv
  BY <1>1, HeldStep, ColumnsInit, ColumnsStep, OwnersInit, OwnersStep, TypeCorrect, PTL DEF Spec, EInv
<1> QED
  BY <1>2, EntryInit, EntryStep, PTL DEF Spec, ImplementsInventory, Entry!Spec
===============================================================================
