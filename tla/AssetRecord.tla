------------------------------ MODULE AssetRecord ------------------------------
(***************************************************************************)
(* One asset of the inventory and the requests that write it at the same   *)
(* time: the scans its agent uploads, the operators who assign or edit it  *)
(* through the API, the task that marks it offline, and its deletion.      *)
(*                                                                         *)
(*   ingest_scan                 apps/scanning/services.py                 *)
(*   reassign_owner,                                                       *)
(*   create_manual_asset         apps/assets/services.py                   *)
(*   AssetViewSet                apps/api/v1/assets.py (and serializers)   *)
(*   mark_offline_assets         apps/agents/tasks.py                      *)
(*   heartbeat                   apps/api/v1/agents.py                     *)
(*                                                                         *)
(* The database runs at READ COMMITTED: a statement sees what was          *)
(* committed when it began; an UPDATE waits for the row's lock and then    *)
(* writes over the newest version.  Every handler writes a row it read     *)
(* some statements before, and Asset.save() writes all of its columns.     *)
(* The row is abstracted to its owner, its status and the scan that wrote  *)
(* its automatically collected columns.  A few of those keep the value of  *)
(* the row that was read where that scan has none: ScanFacts is about them.*)
(***************************************************************************)
EXTENDS Naturals, Sequences, FiniteSets

CONSTANTS
  Worker,      \* request handlers and the task's worker
  Owner,       \* e-mail addresses
  NoOwner,     \* ""
  MaxScans,    \* bound: scan_ids the agent uploads
  MaxRecords   \* bound: rows of the owner history

ASSUME NoOwnerAssumption == NoOwner \notin Owner
ASSUME MaxScansAssumption == MaxScans \in Nat
ASSUME MaxRecordsAssumption == MaxRecords \in Nat

Scan == 1 .. MaxScans
NoScan == 0

VARIABLES
  row,       \* the Asset row is "there", "deleted" or, since, "inserted" again
  has_agent, \* and an Agent row for it
  asset,     \* its columns
  parts,     \* the scan its NIC and Disk rows were made from
  sessions,  \* the ScanSession rows, as the sequence of their scan_ids
  heard,     \* last_heartbeat_at: "never", "recent" or "long_ago"
  history,   \* the AssetOwnerHistory rows, in the order of their ids
  req,       \* the request each worker is in the middle of
  edited,    \* owners typed into a PATCH
  overlapped \* has a request ever begun before another was over

db == <<row, has_agent, asset, parts, sessions, heard, history>>
notes == <<edited, overlapped>>
vars == <<db, req, notes>>

AnyOwner == Owner \cup {NoOwner}
Row == [owner : AnyOwner, scan : Scan \cup {NoScan},
        status : {"online", "offline", "unknown"}]
Record == [owner : Owner, open : BOOLEAN]

Idle == [op |-> "idle"]
Request ==
  {Idle}
    \cup [op : {"lookup", "save_asset", "commit_scan"}, scan : Scan, owner : AnyOwner]
    \cup [op : {"save_edit"}, row : Row]
    \cup [op : {"close_records"}, owner : AnyOwner]
    \cup [op : {"lock_records", "save_owner", "commit_owner"}, owner : AnyOwner,
          rows : SUBSET Nat]
    \cup [op : {"update_status"}]

TypeOK ==
  /\ row \in {"there", "deleted", "inserted"} /\ has_agent \in BOOLEAN
  /\ asset \in Row
  /\ parts \in Scan \cup {NoScan}
  /\ sessions \in Seq(Scan)
  /\ heard \in {"never", "recent", "long_ago"}
  /\ history \in Seq(Record)
  /\ req \in [Worker -> Request]
  /\ edited \subseteq AnyOwner
  /\ overlapped \in BOOLEAN
  /\ has_agent => row = "there"
  /\ ~has_agent => sessions = <<>>

NewRow(o) == [owner |-> o, scan |-> NoScan, status |-> "unknown"]
(* Seeded bug: update_or_create in place of create. *)
Recorded_reopened(h, o) ==
  IF \E i \in DOMAIN h : h[i].owner = o
  THEN [i \in DOMAIN h |-> IF h[i].owner = o THEN [owner |-> o, open |-> TRUE] ELSE h[i]]
  ELSE IF o \in Owner THEN Append(h, [owner |-> o, open |-> TRUE]) ELSE h
Recorded(h, o) == IF o \in Owner THEN Append(h, [owner |-> o, open |-> TRUE]) ELSE h

(* The asset as enroll_agent creates it, or create_manual_asset, which      *)
(* writes the first record of the history too.                              *)
Init ==
  /\ row = "there"
  /\ \/ /\ has_agent = TRUE
        /\ asset = NewRow(NoOwner) /\ history = <<>>
     \/ /\ has_agent = FALSE
        /\ \E o \in AnyOwner : asset = NewRow(o) /\ history = Recorded(<<>>, o)
  /\ parts = NoScan /\ sessions = <<>> /\ heard = "never"
  /\ req = [w \in Worker |-> Idle]
  /\ edited = {} /\ overlapped = FALSE

(* The transactions that hold the lock of the Asset row, and those that     *)
(* hold locks on records.                                                   *)
Locks(w) == req[w].op \in {"commit_scan", "commit_owner"}
Unlocked == \A w \in Worker : ~Locks(w)
Closes(w) == IF req[w].op \in {"save_owner", "commit_owner"} THEN req[w].rows ELSE {}

Begin(w, r) ==
  /\ req[w] = Idle
  /\ req' = [req EXCEPT ![w] = r]
  /\ overlapped' = (overlapped \/ \E v \in Worker : req[v] # Idle)
Continue(w, r) == req' = [req EXCEPT ![w] = r]
Finish(w) == Continue(w, Idle)
Exists == row # "deleted"
Stored(s) == \E i \in DOMAIN sessions : sessions[i] = s

-------------------------------------------------------------------------------
Upload(op, s, o) == [op |-> op, scan |-> s, owner |-> o]

(* The agent is authenticated, and its row and the asset's are read at once *)
(* (select_related).  Of the asset's columns the request keeps the owner;   *)
(* notes and asset_type, which are saved again as well, go its way.         *)
scan(w, s) ==
  /\ has_agent
  /\ Begin(w, Upload("lookup", s, asset.owner))
  /\ UNCHANGED <<db, edited>>

(* ingest_scan: a scan_id that is stored is answered again. *)
lookup(w) ==
  /\ req[w].op = "lookup"
  /\ \/ Stored(req[w].scan) /\ Finish(w)
     \/ ~Stored(req[w].scan) /\ Continue(w, Upload("save_asset", req[w].scan, req[w].owner))
  /\ UNCHANGED <<db, notes>>

(* asset.save() takes the lock.  The rest of the transaction shows when it  *)
(* commits.                                                                 *)
save_asset(w) ==
  /\ req[w].op = "save_asset"
  /\ Unlocked
  /\ Continue(w, Upload("commit_scan", req[w].scan, req[w].owner))
  /\ UNCHANGED <<db, notes>>

(* The os, cpu, ram, gpu, board and bios columns are the scan's; hostname,  *)
(* fqdn, last_logged_user, manufacturer, model and serial_number are, where *)
(* it has a value for them.  The owner is as it was read.                   *)
Scanned(w) == [owner |-> req[w].owner, scan |-> req[w].scan, status |-> "online"]

(* Seeded bug: no uniq_agent_client_scan_id. *)
commit_scan_not_unique(w) ==
  /\ req[w].op = "commit_scan"
  /\ LET s == req[w].scan
     IN  /\ has_agent
         /\ Len(sessions) < MaxScans
         /\ asset' = Scanned(w)
         /\ parts' = s
         /\ sessions' = Append(sessions, s)
  /\ Finish(w)
  /\ UNCHANGED <<row, has_agent, heard, history, notes>>

(* Seeded bug: ingest_scan without transaction.atomic, and the session not  *)
(* unique is an error too late.                                             *)
commit_scan_not_atomic(w) ==
  /\ req[w].op = "commit_scan"
  /\ LET s == req[w].scan
     IN  /\ has_agent
         /\ asset' = Scanned(w)
         /\ \/ ~Stored(s) /\ parts' = s /\ sessions' = Append(sessions, s)
            \/ UNCHANGED <<parts, sessions>>
  /\ Finish(w)
  /\ UNCHANGED <<row, has_agent, heard, history, notes>>

(* Every column, the owner as it was when the agent authenticated; NICs and *)
(* disks replaced; the session, unless its scan_id is there or its agent is *)
(* not, which undoes it all.                                                *)
commit_scan(w) ==
  /\ req[w].op = "commit_scan"
  /\ LET s == req[w].scan
     IN  \/ /\ has_agent /\ ~Stored(s)
            /\ asset' = Scanned(w)
            /\ parts' = s
            /\ sessions' = Append(sessions, s)
         \/ /\ ~has_agent \/ Stored(s)
            /\ UNCHANGED <<asset, parts, sessions>>
  /\ Finish(w)
  /\ UNCHANGED <<row, has_agent, heard, history, notes>>

-------------------------------------------------------------------------------
Owned(o) == [owner |-> o, scan |-> asset.scan, status |-> asset.status]

(* PATCH: get_object, then serializer.save(), every column of what it read  *)
(* -- in one statement that commits by itself.  Where the row is gone,      *)
(* save() inserts it again.  current_owner_email is not read-only.          *)
partial_update(w, o) ==
  /\ Exists
  /\ Begin(w, [op |-> "save_edit", row |-> Owned(o)])
  /\ edited' = IF o = asset.owner THEN edited ELSE edited \cup {o}
  /\ UNCHANGED db

save_edit(w) ==
  /\ req[w].op = "save_edit"
  /\ Unlocked
  /\ asset' = req[w].row
  /\ row' = IF Exists THEN row ELSE "inserted"
  /\ Finish(w)
  /\ UNCHANGED <<has_agent, parts, sessions, heard, history, notes>>

-------------------------------------------------------------------------------
Assign(op, o, rows) == [op |-> op, owner |-> o, rows |-> rows]
Assigning == {"close_records", "lock_records", "save_owner", "commit_owner"}

(* set-owner: get_object, then reassign_owner in a transaction.             *)
set_owner(w, o) ==
  /\ Exists
  /\ Len(history) + Cardinality({v \in Worker : req[v].op \in Assigning}) < MaxRecords
  /\ Begin(w, [op |-> "close_records", owner |-> o])
  /\ UNCHANGED <<db, edited>>

(* The UPDATE of the open records begins, and sees those that are there. *)
Open == {i \in DOMAIN history : history[i].open}
close_records(w) ==
  /\ req[w].op = "close_records"
  /\ Continue(w, Assign("lock_records", req[w].owner, Open))
  /\ UNCHANGED <<db, notes>>

(* It waits for whoever is closing one of them, and looks at it again.      *)
lock_records(w) ==
  /\ req[w].op = "lock_records"
  /\ \A v \in Worker \ {w} : Closes(v) \cap req[w].rows = {}
  /\ Continue(w, Assign("save_owner", req[w].owner, req[w].rows \cap Open))
  /\ UNCHANGED <<db, notes>>

(* asset.save(update_fields=[...]): an error if the row is gone. *)
save_owner(w) ==
  /\ req[w].op = "save_owner"
  /\ Unlocked
  /\ \/ Exists /\ Continue(w, Assign("commit_owner", req[w].owner, req[w].rows))
     \/ ~Exists /\ Finish(w)
  /\ UNCHANGED <<db, notes>>

ClosedRecords(rows) ==
  [i \in DOMAIN history |-> IF i \in rows THEN [owner |-> history[i].owner, open |-> FALSE]
                                          ELSE history[i]]

(* Seeded bug: the previous record stays open. *)
commit_owner_not_closed(w) ==
  /\ req[w].op = "commit_owner"
  /\ asset' = Owned(req[w].owner)
  /\ history' = Recorded(history, req[w].owner)
  /\ Finish(w)
  /\ UNCHANGED <<row, has_agent, parts, sessions, heard, notes>>

(* Seeded bug: reassign_owner without transaction.atomic, and an error at   *)
(* the INSERT of the record.                                                *)
commit_owner_not_atomic(w) ==
  /\ req[w].op = "commit_owner"
  /\ asset' = Owned(req[w].owner)
  /\ history' \in {ClosedRecords(req[w].rows),
                   Recorded(ClosedRecords(req[w].rows), req[w].owner)}
  /\ Finish(w)
  /\ UNCHANGED <<row, has_agent, parts, sessions, heard, notes>>

(* The new record, unless the owner is cleared, and the commit.             *)
commit_owner(w) ==
  /\ req[w].op = "commit_owner"
  /\ asset' = Owned(req[w].owner)
  /\ history' = Recorded(ClosedRecords(req[w].rows), req[w].owner)
  /\ Finish(w)
  /\ UNCHANGED <<row, has_agent, parts, sessions, heard, notes>>

-------------------------------------------------------------------------------
(* heartbeat: last_heartbeat_at and nothing of the asset.  Time passes.     *)
heartbeat ==
  /\ has_agent
  /\ heard # "recent"
  /\ heard' = "recent"
  /\ UNCHANGED <<row, has_agent, asset, parts, sessions, history, req, notes>>

silence ==
  /\ heard = "recent"
  /\ heard' = "long_ago"
  /\ UNCHANGED <<row, has_agent, asset, parts, sessions, history, req, notes>>

(* Seeded bug: filter(status=ONLINE) in place of exclude(status=OFFLINE).   *)
mark_offline_assets_online(w) ==
  /\ has_agent /\ heard = "long_ago"
  /\ asset.status = "online"
  /\ Begin(w, [op |-> "update_status"])
  /\ UNCHANGED <<db, edited>>

(* mark_offline_assets: one UPDATE, which finds the asset by the agent's    *)
(* last heartbeat, waits for the row and then checks only the row again.    *)
mark_offline_assets(w) ==
  /\ has_agent /\ heard = "long_ago"
  /\ asset.status # "offline"
  /\ Begin(w, [op |-> "update_status"])
  /\ UNCHANGED <<db, edited>>

update_status(w) ==
  /\ req[w].op = "update_status"
  /\ Unlocked
  /\ asset' = IF Exists THEN [owner |-> asset.owner, scan |-> asset.scan, status |-> "offline"] ELSE asset
  /\ Finish(w)
  /\ UNCHANGED <<row, has_agent, parts, sessions, heard, history, notes>>

(* A deletion overlaps whatever is under way; an UPDATE that is about to    *)
(* look at records again finds none, for ids are not used twice.            *)
Overtakes ==
  /\ overlapped' = (overlapped \/ \E w \in Worker : req[w] # Idle)
  /\ req' = [w \in Worker |-> IF req[w].op = "lock_records"
                              THEN Assign("lock_records", req[w].owner, {}) ELSE req[w]]

(* Seeded bug: on_delete=SET_NULL on the sessions. *)
destroy_keeps_sessions ==
  /\ Exists
  /\ \A w \in Worker : ~Locks(w) /\ Closes(w) = {}
  /\ row' = "deleted" /\ has_agent' = FALSE
  /\ parts' = NoScan /\ history' = <<>> /\ heard' = "never"
  /\ Overtakes
  /\ UNCHANGED <<asset, sessions, edited>>

(* destroy cascades; a deletion that meets a transaction in progress waits, *)
(* or fails on rows that appear behind it.                                  *)
destroy ==
  /\ Exists
  /\ \A w \in Worker : ~Locks(w) /\ Closes(w) = {}
  /\ row' = "deleted" /\ has_agent' = FALSE
  /\ parts' = NoScan /\ sessions' = <<>> /\ history' = <<>> /\ heard' = "never"
  /\ Overtakes
  /\ UNCHANGED <<asset, edited>>

(* A deadlock, an error -- in the audit INSERT, which nobody hears of -- or *)
(* a lost worker: what the request wrote is undone.  The task has written   *)
(* nothing before its one statement; its failures are the runs it skips.    *)
fails(w) ==
  /\ req[w].op \notin {"idle", "update_status"}
  /\ Finish(w)
  /\ UNCHANGED <<db, notes>>

Handler(w) ==
  \/ lookup(w) \/ save_asset(w) \/ commit_scan(w)
  \/ save_edit(w)
  \/ close_records(w) \/ lock_records(w) \/ save_owner(w) \/ commit_owner(w)
  \/ update_status(w) \/ fails(w)
Caller(w) ==
  \/ \E s \in Scan : scan(w, s)
  \/ mark_offline_assets(w)
  \/ \E o \in AnyOwner : partial_update(w, o) \/ set_owner(w, o)

Next ==
  \/ \E w \in Worker : Handler(w) \/ Caller(w)
  \/ heartbeat \/ silence \/ destroy

Spec == Init /\ [][Next]_vars

(* Requests end; the task is scheduled, and some of its UPDATEs get through. *)
FairSpec ==
  /\ Spec
  /\ \A w \in Worker : WF_vars(Handler(w))
  /\ SF_vars(\E w \in Worker : mark_offline_assets(w))
  /\ SF_vars(\E w \in Worker : update_status(w))

-------------------------------------------------------------------------------
(* However uploads of a scan overlap -- a retry next to the attempt that    *)
(* timed out -- it is stored once, and with it its effect on the asset      *)
(* ("Idempotent on (agent, client_scan_id)", ingest_scan).                  *)
StoredOnce == \A i, j \in DOMAIN sessions : sessions[i] = sessions[j] => i = j

(* The automatic columns, as far as each scan overwrites them, come from    *)
(* one stored scan, never from one that was rolled back, and are never      *)
(* ahead of the NICs and disks.  They may be behind: a PATCH writes back    *)
(* what it read.                                                            *)
ColumnsNotAhead ==
  row = "there" /\ asset.scan # NoScan =>
    \E i, j \in DOMAIN sessions : /\ i <= j
                                  /\ sessions[i] = asset.scan
                                  /\ sessions[j] = parts

(* Whoever the inventory shows as owner has a record in the history, unless *)
(* the name was typed into a PATCH or the asset came back from a deletion;  *)
(* no stale save and no rollback shows an owner who never was assigned.     *)
OwnerHasRecord ==
  row = "there" /\ asset.owner \in Owner \ edited =>
    \E i \in DOMAIN history : history[i].owner = asset.owner

(* As long as requests come one after another, the owner and the one open   *)
(* record agree, with failures and whatever scans and tasks do in between   *)
(* (reassign_owner).                                                        *)
SequentialHistory ==
  row = "there" /\ ~overlapped /\ edited = {} =>
    {history[i].owner : i \in Open} = {asset.owner} \ {NoOwner}
      /\ \A i, j \in Open : i = j

(* To its readers the asset is an entry each request changes at once or not *)
(* at all, whatever other requests do between its statements, and one that  *)
(* a late PATCH brings back after its deletion has nothing of what it had.  *)
Entry == INSTANCE Inventory WITH
  entry <- row, reporting <- has_agent, owner <- asset.owner, shown <- asset.scan,
  ledger <- sessions, records <- history, typed <- edited

ImplementsInventory == Entry!Spec

(* An asset whose agent has fallen silent is marked offline, past scans and *)
(* stale saves that make it online.                                         *)
SilentGoesOffline ==
  heard = "long_ago" ~> asset.status = "offline" \/ heard # "long_ago"

-------------------------------------------------------------------------------
(* reassign_owner: "Close out the previous owner record (if any)".  Two of  *)
(* them at once each see the records open at their own start: the second    *)
(* one does not close the first one's, and both stay open.                  *)
OneOpenRecord == \A i, j \in Open : i = j
===============================================================================
