------------------------------ MODULE AgentRuntime ------------------------------
(***************************************************************************)
(* One endpoint's agent: the single thread of runtime.Runtime, what it     *)
(* keeps on disk (config.yaml, credentials.bin, outbox.sqlite3), the       *)
(* service manager that restarts it, and as much of the server as answers  *)
(* it.  The thread can be killed between any two steps; the disk survives. *)
(*                                                                         *)
(*   Runtime                     agent/azurscan_agent/runtime.py           *)
(*   Transport, Outbox           agent/azurscan_agent/transport.py         *)
(*   AgentConfig.save            agent/azurscan_agent/config.py            *)
(*   store_credentials, ...      agent/azurscan_agent/secrets_store.py     *)
(*   run, set-config             agent/azurscan_agent/cli.py               *)
(*                                                                         *)
(* A call of the server, with tenacity's attempts and the refresh of the   *)
(* access token in it, is one step with one of six results.  The timers    *)
(* of the loop are a choice between doing a thing now and not yet.         *)
(***************************************************************************)
EXTENDS Naturals, Sequences, FiniteSets

CONSTANTS
  Limit,      \* due(limit=10)
  MaxScans,   \* bound: scans ever taken
  MaxBatch,   \* bound: commands in one heartbeat's answer
  MaxUpsets,  \* bound: kills, signals, revocations, full disks, exceptions of httpx,
              \* successes that are none
  Patience,   \* failures after which _BACKOFF_SCHEDULE outlasts the next flush
  Hopeless    \* scans that may be answered with an error for ever

ASSUME LimitAssumption == Limit \in Nat \ {0}
ASSUME MaxScansAssumption == MaxScans \in Nat
ASSUME MaxBatchAssumption == MaxBatch \in Nat
ASSUME MaxUpsetsAssumption == MaxUpsets \in Nat
ASSUME PatienceAssumption == Patience \in Nat \ {0}

Scan == 1 .. MaxScans     \* scan_id, in the order they are taken and queued

ASSUME HopelessAssumption == Hopeless \subseteq Scan

VARIABLES
  pc,          \* \
  source,      \*  | the thread: where it is, do_full_scan's argument,
  todo,        \*  | the rest of response["commands"], of due(limit),
  batch,       \*  | and _stop
  stopping,    \* /
  server_url,  \* \
  device_id,   \*  | the disk: is there a server_url, a device_id,
  stored,      \*  | a pair of tokens; the rows of the outbox
  outbox,      \*  |
  attempts,    \* /
  honoured,    \* who holds the pair the server honours: "disk", "answer", "nobody"
  accepted,    \* the scans the server stored
  taken,       \* \
  fate,        \*  | history: scans taken, those that went down with the thread,
  vouched,     \*  | those acknowledged with ok: True,
  misled,      \*  | those the agent was told are stored, by a server that kept nothing
  upsets       \* /

thread == <<pc, source, todo, batch, stopping>>
rows == <<outbox, attempts>>
disk == <<server_url, device_id, stored, outbox, attempts>>
server == <<honoured, accepted>>
history == <<taken, fate, vouched, misled, upsets>>
vars == <<thread, disk, server, history>>

Down == {"down", "stopped"}
Place == Down \cup {"boot", "enroll", "save_config", "store_credentials", "scan", "upload",
                    "enqueue", "loop", "forget", "clear_credentials", "commands", "ack",
                    "ack_failed", "schedule", "flush", "resend", "mark_sent"}
Kind == {"rescan", "revoke", "update_config"}     \* AgentCommand.Type

TypeOK ==
  /\ pc \in Place
  /\ source \in {"enrollment", "scheduled", "rescan_command"}
  /\ todo \in Seq(Kind) /\ Len(todo) <= MaxBatch
  /\ batch \subseteq Scan
  /\ stopping \in BOOLEAN
  /\ server_url \in BOOLEAN /\ device_id \in BOOLEAN /\ stored \in BOOLEAN
  /\ outbox \in [Scan -> {"none", "due", "waiting", "resting", "poisoned"}]
  /\ attempts \in [Scan -> 0 .. Patience]
  /\ honoured \in {"disk", "answer", "nobody"}
  /\ accepted \subseteq Scan
  /\ taken \in 0 .. MaxScans
  /\ fate \in [Scan -> {"kept", "killed", "crashed"}]
  /\ vouched \subseteq Scan
  /\ misled \subseteq Scan
  /\ upsets \in 0 .. MaxUpsets
  /\ honoured = "disk" => stored
  /\ honoured = "answer" => pc \in {"save_config", "store_credentials"}
  /\ pc \in {"upload", "enqueue"} => taken > 0
  /\ pc \in {"resend", "mark_sent"} => batch # {} /\ \A s \in batch : outbox[s] = "due"
  /\ pc \in {"ack", "ack_failed"} => todo # <<>>
  /\ pc \in Down => todo = <<>> /\ batch = {} /\ ~stopping

(* A machine on which set-config ran; the service has not been started yet. *)
Init ==
  /\ pc = "down" /\ source = "enrollment" /\ todo = <<>> /\ batch = {} /\ stopping = FALSE
  /\ server_url = TRUE /\ device_id = FALSE /\ stored = FALSE
  /\ outbox = [s \in Scan |-> "none"] /\ attempts = [s \in Scan |-> 0]
  /\ honoured = "nobody" /\ accepted = {}
  /\ taken = 0 /\ fate = [s \in Scan |-> "kept"] /\ vouched = {} /\ misled = {}
  /\ upsets = 0

First(s) == s \in batch /\ \A t \in batch : s <= t
InHand == IF pc \in {"upload", "enqueue"} THEN {taken} ELSE {}
Held(s) == outbox[s] # "none"
(* SELECT ... WHERE poisoned = 0 AND next_attempt_at <= now ORDER BY id LIMIT *)
Due == LET ready == {s \in Scan : outbox[s] = "due"}
       IN  {s \in ready : Cardinality({t \in ready : t < s}) < Limit}

Upset == upsets < MaxUpsets /\ upsets' = upsets + 1

(* The thread is gone; an answer it had not stored is lost with it.         *)
Dies(how, place) ==
  /\ pc' = place /\ source' = "enrollment" /\ todo' = <<>> /\ batch' = {} /\ stopping' = FALSE
  /\ fate' = [s \in Scan |-> IF s \in InHand THEN how ELSE fate[s]]

(* What a call of the server comes to.  "exception": httpx raises after     *)
(* three attempts, or raise_for_status in the refresh of the access token.  *)
(* "hollow": a success that is none.  _auth_call raises from 400 on, and    *)
(* httpx follows no redirect, so any 3xx is one; and ingest_scan answers    *)
(* 201 for a transaction that was rolled back, because log_event swallows   *)
(* the failed INSERT that doomed it.                                        *)
Result == {"ok", "hollow", "unauthorized", "4xx", "5xx", "exception"}
Call(r) ==
  /\ r = "ok" => honoured = "disk"
  /\ r = "unauthorized" => honoured # "disk"
  /\ \/ r \in {"exception", "hollow"} /\ Upset
     \/ r \notin {"exception", "hollow"} /\ UNCHANGED upsets

(* upload_scan.  A 5xx and an exception leave open whether the server has   *)
(* stored the scan; the scan_id makes a second upload of it harmless.       *)
Upload(r, s) ==
  /\ Call(r)
  /\ \/ r = "ok" /\ accepted' = accepted \cup {s}
     \/ r \in {"5xx", "exception"} /\ honoured = "disk" /\ accepted' = accepted \cup {s}
     \/ r # "ok" /\ UNCHANGED accepted
  /\ misled' = IF r = "hollow" THEN misled \cup {s} ELSE misled

(* An exception no clause of the loop names ends the process, unless        *)
(* _handle_command is there to catch it.                                    *)
Raise ==
  \/ /\ pc = "ack" \/ (pc \in {"upload", "enqueue"} /\ source = "rescan_command")
     /\ pc' = "ack_failed"
     /\ fate' = [s \in Scan |-> IF s \in InHand THEN "crashed" ELSE fate[s]]
     /\ UNCHANGED <<source, todo, batch, stopping>>
  \/ /\ pc # "ack" /\ ~(pc \in {"upload", "enqueue"} /\ source = "rescan_command")
     /\ Dies("crashed", "down")

Goto(place) == pc' = place /\ UNCHANGED <<source, todo, batch, stopping, fate>>

-------------------------------------------------------------------------------
(* run: with no usable server_url the CLI exits before the loop.            *)
start ==
  /\ pc \in Down
  /\ server_url
  /\ Goto("boot")
  /\ UNCHANGED <<disk, server, taken, vouched, misled, upsets>>

(* The loop around ensure_enrolled, and its test of the credentials.        *)
boot ==
  /\ pc = "boot"
  /\ \/ stopping /\ Dies("killed", "stopped")
     \/ ~stopping /\ stored /\ device_id /\ Goto("scan")
     \/ ~stopping /\ ~(stored /\ device_id) /\ Goto("enroll")
  /\ UNCHANGED <<disk, server, taken, vouched, misled, upsets>>

(* Where ensure_enrolled returns to: run, or _do_heartbeat. *)
AfterEnroll == IF source = "enrollment" THEN "boot" ELSE "schedule"

(* transport.enroll: no attempt is repeated and only TransportError caught. *)
(* An enrollment the server committed has ended the previous session even   *)
(* if its answer is an error or does not arrive; one it rolled back hands   *)
(* out a pair that was never good; a redirect has no JSON in it and raises. *)
enroll(r) ==
  /\ pc = "enroll"
  /\ \/ r = "ok" /\ honoured' = "answer" /\ Goto("save_config") /\ UNCHANGED upsets
     \/ r = "4xx" /\ Goto(AfterEnroll) /\ UNCHANGED <<honoured, upsets>>
     \/ r = "5xx" /\ Goto(AfterEnroll) /\ honoured' \in {honoured, "nobody"} /\ UNCHANGED upsets
     \/ r = "exception" /\ Upset /\ Raise /\ honoured' \in {honoured, "nobody"}
     \/ r = "hollow" /\ Upset /\ Goto("save_config") /\ UNCHANGED honoured
  /\ UNCHANGED <<disk, accepted, taken, vouched, misled>>

save_config ==
  /\ pc = "save_config"
  /\ device_id' = TRUE
  /\ Goto("store_credentials")
  /\ UNCHANGED <<server_url, stored, rows, server, taken, vouched, misled, upsets>>

store_credentials ==
  /\ pc = "store_credentials"
  /\ stored' = TRUE
  /\ honoured' = IF honoured = "answer" THEN "disk" ELSE "nobody"
  /\ Goto(AfterEnroll)
  /\ UNCHANGED <<server_url, device_id, rows, accepted, taken, vouched, misled, upsets>>

-------------------------------------------------------------------------------
(* Where do_full_scan returns to. *)
AfterScan == CASE source = "enrollment" -> "loop"
               [] source = "rescan_command" -> "ack"
               [] OTHER -> "flush"
ScanDone ==
  /\ pc' = AfterScan
  /\ source' = IF source = "enrollment" THEN "scheduled" ELSE source
  /\ UNCHANGED <<todo, batch, stopping, fate>>

(* collect_all, and a fresh scan_id.  Past the bound on scans the first     *)
(* scan after a start is left out.                                          *)
collect ==
  /\ pc = "scan"
  /\ \/ taken < MaxScans /\ taken' = taken + 1 /\ Goto("upload")
     \/ taken = MaxScans /\ source = "enrollment" /\ ScanDone /\ UNCHANGED taken
  /\ UNCHANGED <<disk, server, vouched, misled, upsets>>

(* Seeded bug: a scan the server will not authorize is dropped. *)
upload_drops_unauthorized(r) ==
  /\ pc = "upload"
  /\ Upload(r, taken)
  /\ \/ r \in {"ok", "hollow", "unauthorized"} /\ ScanDone
     \/ r \in {"4xx", "5xx"} /\ Goto("enqueue")
     \/ r = "exception" /\ Raise
  /\ UNCHANGED <<disk, honoured, taken, vouched>>

(* do_full_scan: both of transport.py's exceptions queue the scan. *)
upload(r) ==
  /\ pc = "upload"
  /\ Upload(r, taken)
  /\ \/ r \in {"ok", "hollow"} /\ ScanDone
     \/ r \in {"unauthorized", "4xx", "5xx"} /\ Goto("enqueue")
     \/ r = "exception" /\ Raise
  /\ UNCHANGED <<disk, honoured, taken, vouched>>

(* Outbox.enqueue.  sqlite3 raises on a full disk. *)
enqueue ==
  /\ pc = "enqueue"
  /\ \/ outbox' = [outbox EXCEPT ![taken] = "due"] /\ ScanDone /\ UNCHANGED upsets
     \/ Upset /\ Raise /\ UNCHANGED outbox
  /\ UNCHANGED <<server_url, device_id, stored, attempts, server, taken, vouched, misled>>

-------------------------------------------------------------------------------
(* What heartbeats are answered with: as many rescans as scans are left.    *)
Answers == {cmds \in UNION {[1 .. n -> Kind] : n \in 0 .. MaxBatch} :
              taken + Len(SelectSeq(cmds, LAMBDA k : k = "rescan")) <= MaxScans}

(* Seeded bug: a heartbeat that is not authorized is one more that failed.  *)
heartbeat_ignores_unauthorized(r, cmds) ==
  /\ pc = "loop"
  /\ ~stopping
  /\ Call(r)
  /\ \/ r = "ok" /\ pc' = "commands" /\ todo' = cmds
        /\ UNCHANGED <<source, batch, stopping, fate>>
     \/ r = "hollow" /\ cmds = <<>> /\ Goto("schedule")
     \/ r \in {"unauthorized", "4xx", "5xx"} /\ Goto("schedule")
     \/ r = "exception" /\ Raise
  /\ UNCHANGED <<disk, server, taken, vouched, misled>>

(* _do_heartbeat: forget a session that ended, or deal with the commands.   *)
heartbeat(r, cmds) ==
  /\ pc = "loop"
  /\ ~stopping
  /\ Call(r)
  /\ \/ r = "ok" /\ pc' = "commands" /\ todo' = cmds
        /\ UNCHANGED <<source, batch, stopping, fate>>
     \/ r = "hollow" /\ cmds = <<>> /\ Goto("schedule")
     \/ r = "unauthorized" /\ Goto("forget")
     \/ r \in {"4xx", "5xx"} /\ Goto("schedule")
     \/ r = "exception" /\ Raise
  /\ UNCHANGED <<disk, server, taken, vouched, misled>>

(* The head of the loop: stop, or go on without a heartbeat yet.            *)
loop ==
  /\ pc = "loop"
  /\ \/ stopping /\ Dies("killed", "stopped")
     \/ ~stopping /\ Goto("schedule")
  /\ UNCHANGED <<disk, server, taken, vouched, misled, upsets>>

(* cfg.device_id = "" and save, clear_credentials, then ensure_enrolled,    *)
(* which has nothing left to find on the disk.                              *)
forget ==
  /\ pc = "forget"
  /\ device_id' = FALSE
  /\ Goto("clear_credentials")
  /\ UNCHANGED <<server_url, stored, rows, server, taken, vouched, misled, upsets>>

clear_credentials ==
  /\ pc = "clear_credentials"
  /\ stored' = FALSE
  /\ Goto("enroll")
  /\ UNCHANGED <<server_url, device_id, rows, server, taken, vouched, misled, upsets>>

(* _handle_command, for each command in turn.  An unknown type is only      *)
(* acknowledged, with ok: False.                                            *)
handle_command ==
  /\ pc = "commands"
  /\ \/ /\ todo = <<>>
        /\ Goto("schedule")
     \/ /\ todo # <<>> /\ Head(todo) = "rescan"
        /\ pc' = "scan" /\ source' = "rescan_command"
        /\ UNCHANGED <<todo, batch, stopping, fate>>
     \/ /\ todo # <<>> /\ Head(todo) # "rescan"
        /\ Goto("ack")
  /\ UNCHANGED <<disk, server, taken, vouched, misled, upsets>>

NextCommand(stop) ==
  /\ pc' = "commands" /\ source' = "scheduled" /\ todo' = Tail(todo)
  /\ stopping' = (stopping \/ stop)
  /\ UNCHANGED <<batch, fate>>

(* _safe_ack swallows TransportError.  What httpx raises goes to the except *)
(* of _handle_command, which acknowledges once more, with ok: False, and    *)
(* lets a second exception go.                                              *)
ack(r) ==
  /\ pc = "ack"
  /\ Call(r)
  /\ vouched' = IF Head(todo) = "rescan" THEN vouched \cup {taken} ELSE vouched
  /\ \/ r # "exception" /\ NextCommand(Head(todo) = "revoke")
     \/ r = "exception" /\ Raise
  /\ UNCHANGED <<disk, server, taken, misled>>

(* Seeded bug: the except acknowledges with ok: True. *)
ack_failed_ok(r) ==
  /\ pc = "ack_failed"
  /\ Call(r)
  /\ vouched' = IF Head(todo) = "rescan" THEN vouched \cup {taken} ELSE vouched
  /\ \/ r # "exception" /\ NextCommand(FALSE)
     \/ r = "exception" /\ Raise
  /\ UNCHANGED <<disk, server, taken, misled>>

ack_failed(r) ==
  /\ pc = "ack_failed"
  /\ Call(r)
  /\ \/ r # "exception" /\ NextCommand(FALSE)
     \/ r = "exception" /\ Raise
  /\ UNCHANGED <<disk, server, taken, vouched, misled>>

schedule ==
  /\ pc = "schedule"
  /\ \/ taken < MaxScans /\ Goto("scan")
     \/ Goto("flush")
  /\ UNCHANGED <<disk, server, taken, vouched, misled, upsets>>

-------------------------------------------------------------------------------
(* _flush_outbox: the due rows, read once.  What backs off for longer than  *)
(* it takes to the next flush has sat out this one.                         *)
flush ==
  /\ pc = "flush"
  /\ \/ Due # {} /\ pc' = "resend" /\ batch' = Due
        /\ UNCHANGED <<source, todo, stopping, fate>>
     \/ Due = {} /\ Goto("loop")
  /\ outbox' = [s \in Scan |-> IF outbox[s] = "resting" THEN "waiting" ELSE outbox[s]]
  /\ UNCHANGED <<server_url, device_id, stored, attempts, server>>
  /\ UNCHANGED <<taken, vouched, misled, upsets>>

(* Thirty seconds have not passed since the last flush. *)
no_flush ==
  /\ pc = "flush"
  /\ Goto("loop")
  /\ UNCHANGED <<disk, server, taken, vouched, misled, upsets>>

NextRow(s) ==
  /\ batch' = batch \ {s}
  /\ pc' = IF batch' = {} THEN "loop" ELSE "resend"
  /\ UNCHANGED <<source, todo, stopping, fate>>

(* "HTTP 4" in str(exc) and "HTTP 401" not in str(exc).  The text has the   *)
(* status and 200 characters of the body, which may quote another status.   *)
Quote == {"nothing", "HTTP 4xx", "HTTP 401"}
Poisons(r, quote) == (r = "4xx" \/ quote # "nothing") /\ quote # "HTTP 401"

(* Seeded bug: a failed row is due again at once. *)
mark_failed_no_backoff(s, poisoned) ==
  /\ attempts' = [attempts EXCEPT ![s] = IF @ < Patience THEN @ + 1 ELSE @]
  /\ outbox' = [outbox EXCEPT ![s] = IF poisoned THEN "poisoned" ELSE "due"]

(* Outbox.mark_failed: the more attempts, the longer the backoff.           *)
mark_failed(s, poisoned) ==
  /\ attempts' = [attempts EXCEPT ![s] = IF @ < Patience THEN @ + 1 ELSE @]
  /\ outbox' = [outbox EXCEPT ![s] = IF poisoned THEN "poisoned"
                                     ELSE IF attempts'[s] < Patience THEN "waiting"
                                     ELSE "resting"]

(* Seeded bug: the row of an error is marked sent. *)
resend_forgets_errors(r, s) ==
  /\ pc = "resend"
  /\ First(s)
  /\ Upload(r, s)
  /\ \/ r \in {"ok", "hollow", "4xx", "5xx"} /\ Goto("mark_sent") /\ UNCHANGED rows
     \/ r = "unauthorized" /\ mark_failed(s, FALSE)
        /\ pc' = "loop" /\ batch' = {} /\ UNCHANGED <<source, todo, stopping, fate>>
     \/ r = "exception" /\ Raise /\ UNCHANGED rows
  /\ UNCHANGED <<server_url, device_id, stored, honoured, taken, vouched>>

(* One row: sent; or back off, and if it is not authorized leave the rest   *)
(* for another time; or give it up for good on what reads like a 4xx.       *)
resend(r, s) ==
  /\ pc = "resend"
  /\ First(s)
  /\ Upload(r, s)
  /\ \/ r \in {"ok", "hollow"} /\ Goto("mark_sent") /\ UNCHANGED rows
     \/ r = "unauthorized" /\ mark_failed(s, FALSE)
        /\ pc' = "loop" /\ batch' = {} /\ UNCHANGED <<source, todo, stopping, fate>>
     \/ r \in {"4xx", "5xx"} /\ NextRow(s)
        /\ \E quote \in Quote : mark_failed(s, Poisons(r, quote))
     \/ r = "exception" /\ Raise /\ UNCHANGED rows
  /\ UNCHANGED <<server_url, device_id, stored, honoured, taken, vouched>>

(* Seeded bug: the row is deleted and sent again. *)
mark_sent_again(s) ==
  /\ pc = "mark_sent"
  /\ First(s)
  /\ outbox' = [outbox EXCEPT ![s] = "none"]
  /\ Goto("resend")
  /\ UNCHANGED <<server_url, device_id, stored, attempts, server, taken, vouched, misled, upsets>>

(* Outbox.mark_sent: DELETE. *)
mark_sent(s) ==
  /\ pc = "mark_sent"
  /\ First(s)
  /\ outbox' = [outbox EXCEPT ![s] = "none"]
  /\ NextRow(s)
  /\ UNCHANGED <<server_url, device_id, stored, attempts, server, taken, vouched, misled, upsets>>

(* next_attempt_at passes; a long backoff, while the thread is down.        *)
lapse(s) ==
  /\ outbox[s] = "waiting" \/ (outbox[s] = "resting" /\ pc \in Down)
  /\ outbox' = [outbox EXCEPT ![s] = "due"]
  /\ UNCHANGED <<thread, server_url, device_id, stored, attempts, server, history>>

-------------------------------------------------------------------------------
(* SIGTERM and SIGINT: the handler sets _stop, the loops look at it.        *)
signal ==
  /\ pc \notin Down
  /\ ~stopping
  /\ Upset
  /\ stopping' = TRUE
  /\ UNCHANGED <<pc, source, todo, batch, disk, server, taken, fate, vouched, misled>>

(* The process is killed, or the machine loses power.  config.yaml is       *)
(* written in place, and on Windows credentials.bin too, which any call     *)
(* that refreshes the access token writes: a write that is cut short leaves *)
(* a file with less in it, or nothing.                                      *)
kill ==
  /\ pc \notin Down
  /\ Upset
  /\ \/ UNCHANGED <<server_url, device_id>>
     \/ /\ pc \in {"save_config", "forget"}
        /\ device_id' = FALSE
        /\ server_url' \in BOOLEAN
  /\ \/ UNCHANGED stored
     \/ /\ pc \in {"store_credentials", "upload", "resend", "loop", "ack", "ack_failed"}
        /\ stored' = FALSE
  /\ honoured' = IF honoured = "answer" \/ ~stored' THEN "nobody" ELSE honoured
  /\ Dies("killed", "down")
  /\ UNCHANGED <<rows, accepted, taken, vouched, misled>>

(* Somebody runs set-config, which leaves the rest of the file as it reads. *)
set_config ==
  /\ pc \in Down
  /\ ~server_url
  /\ server_url' = TRUE
  /\ UNCHANGED <<thread, device_id, stored, rows, server, history>>

(* revoke_agent on the server, or anything else that ends the session.      *)
revoke_agent ==
  /\ honoured # "nobody"
  /\ Upset
  /\ honoured' = "nobody"
  /\ UNCHANGED <<thread, disk, accepted, taken, fate, vouched, misled>>

Thread ==
  \/ boot \/ save_config \/ store_credentials \/ collect \/ enqueue \/ loop
  \/ forget \/ clear_credentials \/ handle_command \/ schedule \/ flush \/ no_flush
  \/ \E s \in Scan : mark_sent(s) \/ \E r \in Result : resend(r, s)
  \/ \E r \in Result : \/ enroll(r) \/ upload(r) \/ ack(r) \/ ack_failed(r)
                       \/ \E cmds \in Answers : heartbeat(r, cmds)
World == signal \/ kill \/ set_config \/ revoke_agent \/ \E s \in Scan : lapse(s)

Next == start \/ Thread \/ World
Spec == Init /\ [][Next]_vars

(* The thread runs, and the service manager starts it again when it ends    *)
(* other than by a stop.  The clock advances: backoffs pass, timers fire (a *)
(* heartbeat, a flush) if the loop comes by often enough.  Of calls made    *)
(* again and again one is answered: enrollments, heartbeats, uploads of a   *)
(* scan that is not hopeless -- a scan without its system section or with   *)
(* a serial number that another asset has is a 500 each time.  What the     *)
(* world does to the agent is bounded by MaxUpsets and otherwise free.      *)
Fairness ==
  /\ WF_vars(Thread)
  /\ WF_vars(pc = "down" /\ start)
  /\ SF_vars(enroll("ok"))
  /\ SF_vars(\E r \in {"ok", "unauthorized"}, cmds \in Answers : heartbeat(r, cmds))
  /\ SF_vars(flush)
  /\ \A s \in Scan : WF_vars(lapse(s))
  /\ \A s \in Scan \ Hopeless : SF_vars(resend("ok", s))

FairSpec == Spec /\ Fairness

-------------------------------------------------------------------------------
(* A scan in the outbox stays there until the server said that it has it,   *)
(* whenever the process is killed between the upload, its answer and the    *)
(* DELETE (_flush_outbox).  The server's word is all the agent has: what a  *)
(* rolled-back 201 or a redirect misled it about is gone.                   *)
RowsOutliveDelivery ==
  [][\A s \in Scan : Held(s) /\ outbox'[s] = "none" => s \in accepted \cup misled]_vars

(* Every scan that was taken is stored by the server, or queued on the      *)
(* disk, or in the thread's hands -- unless it went down with the thread or *)
(* the agent was told that a server that kept nothing has it.               *)
EveryScanAccountedFor ==
  \A s \in 1 .. taken :
    s \in accepted \/ Held(s) \/ s \in InHand \/ fate[s] # "kept" \/ s \in misled

(* A rescan acknowledged with ok: True has its data on the server or in the *)
(* outbox, or the agent was told so; the except of _handle_command never    *)
(* says it for a scan it lost.                                              *)
VouchedIsSafe == \A s \in vouched : s \in accepted \/ Held(s) \/ s \in misled

(* The agent is a courier, whatever is raised, killed or answered late on   *)
(* the way: nothing is delivered that was not taken, nothing leaves the     *)
(* outbox without the server's word, nothing that was put aside comes back, *)
(* and nothing is lost but what was in the thread's hands when it went down *)
(* or what the server says it has and has not.                              *)
Queued == {s \in Scan : outbox[s] \in {"due", "waiting", "resting"}}
Poisoned == {s \in Scan : outbox[s] = "poisoned"}
Lost == {s \in Scan : fate[s] # "kept"}
Errand == INSTANCE Courier WITH
  hand <- InHand, kept <- Queued, aside <- Poisoned, delivered <- accepted,
  lost <- Lost, receipts <- vouched

ImplementsCourier == Errand!Spec

(* Every row that is not hopeless gets out of the queue, past hopeless ones *)
(* at its head that fill a batch of the flush and fail for ever, past       *)
(* crashes and re-enrollments -- if nobody stops the service or has to      *)
(* repair its configuration.                                                *)
Abandoned == pc = "stopped" \/ ~server_url
RowsDrain ==
  \A s \in Scan \ Hopeless : s \in Queued ~> s \notin Queued \/ Abandoned

(* An agent without a session the server honours finds its way to one, from *)
(* whatever a crash or a revocation left of its files.                      *)
SessionRecovers == honoured # "disk" ~> honoured = "disk" \/ Abandoned

-------------------------------------------------------------------------------
(* transport.py: "Outbox (SQLite) -- buffers scans when the server is       *)
(* unreachable".  httpx's exceptions are not transport.py's: they pass      *)
(* do_full_scan by, and the scan in its hands is gone.                      *)
UnreachableIsBuffered == \A s \in Scan : fate[s] # "crashed"
===============================================================================
