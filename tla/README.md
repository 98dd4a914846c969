# AzurScan in TLA+

A verification development for AzurScan, an inventory of a company's computers:
a Django server keeps an `Asset` per device, and an agent on each device enrolls
itself, sends heartbeats, executes rescans and uploads what it finds. The modules
here model the agent identity, the command queue, the agent's run loop with its
outbox, the files it shares with commands and installers, the asset record with
its owner history, and what a scan turns into. TLC checks them on small
instances; TLAPS proves the safety of all of them for every value of their
constants. The repository has no tests of its own, so the code and its comments
are the reference throughout.

`tlc -config <run>.cfg <module>` runs a check, `tlapm <module>_proofs.tla` a
proof. `PROJECT.json` maps each definition to the lines it models and lists the
runs, the theorems, the hazards of the code, and a seeded bug for every property.

## 1. The system

| Component | State | Operations | Talks to |
|---|---|---|---|
| Agent credentials (`apps/agents/services.py`, `auth.py`, `tokens.py`, `api/v1/agents.py`) | rows of `agents_agent`: `machine_id`, `jwt_jti`, `refresh_jti`, `is_revoked`; one `Asset` each | `enroll_agent`, `token_refresh`, `authenticate`, `revoke_agent`, deletion of the asset | every request of an agent authenticates with it |
| Command queue (same files, `apps/agents/tasks.py`) | rows of `agents_command` | `rescan`, `collect_pending_commands` in a heartbeat, `command_ack`, `expire_old_commands` | operators put in, agents take out |
| Asset record (`apps/assets/`, `api/v1/assets.py`) | the `Asset` row, `AssetOwnerHistory` | create, PATCH, `reassign_owner`, delete, `mark_offline_assets` | written by scans, operators, a periodic task |
| Scan ingestion (`apps/scanning/`) | `ScanSession`, NICs, disks | `ingest_scan` | writes the asset record |
| Agent runtime (`agent/azurscan_agent/runtime.py`) | one thread: its place in the loop, commands at hand, `_stop` | `ensure_enrolled`, `do_full_scan`, `_do_heartbeat`, `_handle_command`, `_flush_outbox` | transport, files, service manager |
| Transport and outbox (`transport.py`) | SQLite rows: `attempts`, `next_attempt_at`, `poisoned`; tokens in memory | calls with retries and a refresh of the access token; enqueue, due, mark_sent, mark_failed | server |
| Local files (`config.py`, `secrets_store.py`) | `config.yaml`, `credentials.bin` | save, load, clear | runtime, CLI |
| Agent CLI (`cli.py`) | none | `run`, `set-config`; `enroll`, `scan-now`, `uninstall` next to the service | files and outbox |
| Installers, service managers (`agent/installer/`) | the service: registered, to be kept running | `preinstall`, `postinstall`, `preuninstall`; `installer_main.py`, `install.ps1`, `uninstall.ps1`; launchd, WinSW | CLI, files, service |
| Collectors, machine identity (`collectors.py`, `machine.py`) | none | `collect_all`, `get_machine_id` | payload of a scan |
| Audit log (`apps/core/audit.py`, `signals.py`) | append-only rows | `log_event`, called inside others' transactions | nearly everything |
| User authentication, roles, throttles | user JWTs, rate counters | `MinRole` | every request of an operator |
| Admin site (`apps/assets/admin.py`, `apps/scanning/admin.py`) | none of its own | `rescan_now`; edits of whole rows; edits and deletions in the owner history; deletion of scan sessions | queue, asset record |
| Serializers, dashboard, settings, migrations | | presentation, configuration | |

The server is `gunicorn -w 4` over PostgreSQL at READ COMMITTED, plus a Celery
worker: any two requests interleave between statements. An agent is one thread,
but a request that timed out goes on in its worker next to the retry, so one
agent can have several requests in the server. The agent process can be killed
between any two writes to its disk and is restarted by the service manager.

What is hard in each part, and what makes it correct:

- **Credentials.** A refresh reads a row and writes it later; a first enrollment
  has no row to lock. One agent and one asset per machine; a token once dead
  stays dead; a row waits for a pair that was signed for its device, although an
  answer lost after the commit may leave the device without it; revoked means no
  session.
- **Commands.** The ids are read in one statement and marked in the next, and
  the mark is committed before the answer arrives; a command is numbered before
  it is inserted. At most one delivery, to the right agent, in the order of what
  is in the table; nothing delivered is queued again or expired; a revocation is
  not undone by a request that authenticated before it.
- **Agent.** Crashes, lost answers, a revoked session, a full disk, a success
  that is none: a 201 whose transaction was rolled back, a redirect nobody
  follows. No scan disappears but in the thread's hands or on the server's word;
  none is deleted from the outbox before the server said that it has it; what is
  acknowledged as done was done, or the server said so; the outbox drains past
  rows that fail for ever; the agent finds its way back to a session.
- **Local files.** A service and a command read and write two files, and one
  temporary file, without a lock; installers stop an agent without waiting for
  it, and go on from some of their failures. Credentials are whole after a crash;
  no installer that did not go on from one works next to the agent it replaces,
  or reports what did not happen; the service ends up connected.
- **Asset record.** Every writer saves a whole row it read earlier. A scan is
  stored once and whole; the columns are not ahead of what is stored; an owner
  nobody typed into a PATCH has a record; a silent device goes offline.
- **Scan facts.** Any collector may fail, and the row a scan is applied to may be
  stale. A healthy part is stored whatever the rest did; a known serial number
  is lost to a request with a stale row at most, never to a collector that
  failed.

The 40 places where these can go wrong are the hazards of `PROJECT.json`, each
at its line with the properties aimed at it, or the reason none is.

## 2. Modules

| Module | Models | Instance for TLC | Proofs |
|---|---|---|---|
| `SessionAuthority` | abstract: one session per machine, never reopened | as a property of `AgentCredentials` and of `CommandQueue` | as a theorem of both |
| `AgentCredentials` | enrollment, refresh, revocation, deletion | `MCAgentCredentials` | `AgentCredentials_proofs` |
| `Mailbox` | abstract: messages handed over once, in order, or withdrawn | as a property of `CommandQueue` | as a theorem |
| `CommandQueue` | commands from the click to the acknowledgement | `MCCommandQueue` | `CommandQueue_proofs` |
| `Courier` | abstract: scans delivered, kept, or lost with their carrier; receipts only for safe ones | as a property of `AgentRuntime` | as a theorem |
| `AgentRuntime` | the agent's thread, disk and restarts | `MCAgentRuntime` | `AgentRuntime_proofs` |
| `LocalStore` | `config.yaml` and `credentials.bin` under a service and a command | through `Setup` | `LocalStore_proofs` |
| `Setup` | installers, uninstallers, service manager, over `LocalStore` | `MCSetup` | `Setup_proofs` |
| `Inventory` | abstract: an entry that every request changes at once or not at all | as a property of `AssetRecord` | as a theorem |
| `AssetRecord` | one asset under concurrent writers | `MCAssetRecord` | `AssetRecord_proofs` |
| `ScanFacts` | collectors, schema, columns and constraints | `MCScanFacts` | `ScanFacts_proofs` |

The modules meet at the calls between their parts. `AgentRuntime` sees the
server as six results of a call (ok, a hollow success, 401, another 4xx, 5xx, an
exception of httpx) and the one fact of `AgentCredentials` it depends on: who
holds the pair of tokens the server honours. `CommandQueue` has the same agents
as clients that poll, time out, retry and forget. `Setup` composes its scripts
and the service manager with the processes of `LocalStore`, in which a call is
not one step but the reading of a token, a refusal, a refresh and a retry.
`AssetRecord` has the scans as uploads that may overlap with their own retries,
and `ScanFacts` what is in them.

### AgentCredentials

`stage`, `machine_id`, `jwt_jti`, `refresh_jti`, `is_revoked`, `assets` are the
tables; `issued` is every token that reached its machine, `lost` those whose
answer did not; `req` is what each worker holds between two statements, or
between a commit and the end of its answer. A statement is a step. `enroll_agent`
is one step if its row exists (`SELECT ... FOR UPDATE` holds it until the commit)
and two if it does not (there is nothing to lock; the unique `machine_id` decides
the race in `enroll_conflict`, whose rollback takes the asset back out).
`token_refresh` is a lookup and an update of one column. After either the tokens
are under way: `respond` hands them over, `request_lost` loses them, or what the
request had not committed yet. `Committed` is `log_event` inside the transaction:
when its INSERT fails, the exception is swallowed but the transaction is not
committed, and the tokens are answered all the same. JTIs are numbered in the
order they are drawn; `root` in a token is history, the enrollment it descends
from. Expiry is left out: it only makes tokens die earlier.

`ImplementsSessionAuthority` maps a machine's session to the refresh JTI of its
active row, and the names used to those in a token that was signed.

### CommandQueue

`agent`, `session` are what a request needs of the agent's row; `cmd_agent`,
`status`, `lapsed` the commands; `req` what each worker read and has not yet
written; `awaiting`, `inbox`, `delivered` the agents. A command is numbered by
`created_at`, which `rescan` draws before `issue_rescan_command` inserts the row:
`created` counts the draws, `late` has those that came in after a younger one. A
heartbeat is three steps (authenticated; `save(update_fields=...)` and the SELECT
of the oldest queued commands; the writes of EXPIRED and DISPATCHED, committed
together, and the answer). `Locked` are the expired commands such a transaction
has written and not committed: other writers wait for them, and a worker that
dies takes the write back. An answer reaches the agent only if it still waits for
that worker. An enrollment opens a new session of an active row as well as of a
revoked one. `expire_old_commands` may run at any time, `give_up` is `_safe_ack`
dropping a failed acknowledgement.

`ImplementsMailbox` maps the queued commands to `waiting`, and `delivered` to
`handed`: a command leaves the queue for good, and what an answer carries is the
agent's own, received for the first time, with every older command that waits
but for the late ones. `SessionsAreAuthorized` maps the rows of the agents to
the sessions of `SessionAuthority`: the enrollment an active agent is in, and
those it was ever in. The agents begin enrolled here, so it is about steps: a
request that authenticated in one session and writes in another may not bring
the first one back. `CommandQueue` and `AgentCredentials` thus agree on what
happens to a row that both of them model.

### AgentRuntime

`pc` and the rest of `thread` follow `Runtime.run`, one place per write to the
disk or call of the server; `disk` is what survives. A call with tenacity's
three attempts and the refresh of the access token in it is one step. Where the
server's part is uncertain (a 5xx, no answer), both outcomes follow. A hollow
success is what the agent takes for one although the server kept nothing:
`ingest_scan` rolled back by a failed audit INSERT and answered 201, or any
status below 400 (`transport.py:129`), such as the redirect of
`SECURE_SSL_REDIRECT`. `misled` has the scans this happened to. What a flush makes
of a failure is decided as in the code, by text (`runtime.py:245`): the exception
carries 200 characters of the body, so `resend` has a status and a quotation in
it, and `Poisons` is the match on both.

`Raise` is an exception that no clause of the loop names: it ends the process,
except under `_handle_command`, which acknowledges with `ok: False`. `kill` may
come between any two steps and cut a write in place short: `config.yaml` then
reads as less, or as nothing. The timers are a choice of now or not yet, with one
exception: a row that failed `Patience` times rests until the next flush has begun
without it. `_BACKOFF_SCHEDULE` grows from 30 seconds to two hours and a flush is
due every 30, so that is after a few failures however long the loop takes.
`Hopeless` are scans that may be answered with an
error every time: a serial number another asset has, a failed system collector.

`ImplementsCourier` maps the scan in the thread's hands to `hand`, the rows that
are due, waiting or resting to `kept`, poisoned ones to `aside`, what the server
stored to `delivered`, what went down with the process to `lost`, and the rescans
acknowledged with `ok: True` to `receipts`. The server may store a scan whose
answer is lost, so a delivery need not empty the hand, a scan may be lost that
was delivered, and one may be put aside that was. A row is released, and a
receipt signed, on the word of the addressee; what he says he has and threw away
is `misled`, the one way out of the courier's care besides `lost`.

### LocalStore and Setup

`exists`, `config`, `creds`, `tmp` are the files, as `load()` would read them;
`pc`, `mem`, `have`, `task`, `ret`, `fd` are what each of two processes is doing:
the service (`cli.py run`) and one command. A step is one system call. On POSIX
`store_credentials` opens and truncates `credentials.bin.tmp`, writes it, renames
it and reads the result back; on Windows it writes in place and an open file
cannot be removed. `config.yaml` is written in place on both. `call` presents the
pair that is on the disk to the server in the process's memory; a 401 leads to a
refresh and `update_access_token`, which loads the pair again; a second 401 to
`save`, `clear` and another enrollment. Tokens nobody holds are drawn again,
which bounds them without changing who may use what.

A script of `Setup` is the sequence of its steps (`StepsOf`). `bootout`, `sc stop`
and a signal only ask; `kill`, the removal of the service and the lock on a
running executable are what an installer relies on afterwards. Every step may
fail. A script that looks at the result stops there (`Abort`: a copy, a
registration, a start, a command); one that does not goes on, as after `bootout
|| true`, `pkill || true`, a `Stop-Service` with `SilentlyContinue` or WinSW's
uninstall, and `ignored` remembers it where an installer's guarantee is lost by
it. A command is started in `LocalStore` and awaited. `restart` is the service
manager: it starts a service that is registered and wanted. What macOS does
between `preinstall` and `postinstall`, the payload's copy, is taken to succeed.

### AssetRecord

The columns are abstracted to the owner, the status and the scan the collected
ones come from. `req` holds what a request keeps of the row it read: a scan the
owner, a PATCH every column, an assignment the records it found open.
Locks are taken by the steps that write: `Unlocked` and `Closes` say who waits.
`fails` undoes what a transaction wrote. A PATCH whose asset is deleted before
it saves inserts it again (`row = "inserted"`), as Django's `save()` does. Records
are numbered by their place, so a deletion empties what a waiting UPDATE was about
to look at (`Overtakes`): the ids of deleted rows are not used again.

`ImplementsInventory` maps the row, the sessions and the history to an entry. A
scan enters the ledger with the columns and the parts it shows, or nothing
happens; an owner appears with his record; an edit may show an older scan of the
ledger and an older owner, never a scan that was not stored; records are closed,
never reopened or rewritten; and what a late PATCH brings back after a deletion
has neither agent nor ledger nor history.

### ScanFacts

A request, a scan or a PATCH, is two steps: the row is read when it is
authenticated and saved whole when it commits (`auth.py:38`,
`scanning/services.py:122`); `since` tells what happened to the row in between. A
PATCH whose asset is gone inserts it again (`unmanaged`), with the serial number
it read. Of the row only that number is kept, for the columns that only a value
overwrites; the NICs are deleted and inserted again. Failures leave blanks:
`errors` is not modelled, since half of the collectors swallow exceptions without
a line in it. `Accepts` is the schema and the constraints of the tables: a MAC
once per asset, a serial number once.

## 3. Runs

| Run | Question | Instance | Distinct states |
|---|---|---|---|
| `credentials` | Are identity and sessions safe under any interleaving? | 2 machines, 2 workers, 3 rows, 7 JTIs, audit failures, answers lost; symmetric | 636,020 |
| `previous_tokens` | Do "previously issued tokens immediately become invalid"? **No** | 1 machine, 2 workers | stops at 302 |
| `answered_enrollment` | Does losing an audit row lose only the audit row? **No** | 1 machine, 2 workers | stops at 9 |
| `commands` | Are deliveries and sessions safe? | 2 agents, 2 workers, 2 commands, limit 1, 1 re-enrollment; symmetric | 1,080,538 |
| `queue_drains` | Does each queued command leave the queue? | 1 agent, 2 workers, 2 commands, limit 1 | 24,283 |
| `runtime` | Is the agent safe and does it recover? | 2 scans, the first hopeless, batch 1, limit 1, 2 upsets, patience 2 | 185,964 |
| `unreachable_is_buffered` | Are scans buffered "when the server is unreachable"? **No** | as above | stops at 62 |
| `setup` | Do files, service and installers come out right? | service and a command, 2 servers, 12 tokens, 2 scripts or kills | 596,712 |
| `reenroll` | Does `enroll` and a restart move a machine to another server? **No** | as above | stops at 3,097 |
| `asset_record` | Is one asset consistent under all its writers? | 2 workers, 1 owner, 2 scans, 2 records | 796,242 |
| `one_open_record` | Does an assignment close the previous record? **Not if two overlap** | as above | stops at 30,644 |
| `scan_facts` | Does every healthy scan get in, and which numbers are lost? | 2 machines, 2 workers, 1 serial number, 2 MACs, 8 lists of interfaces; symmetric | 38,507 |

The figures of the runs that stop are those of one worker.

What the passing runs show:

- `credentials`: racing first enrollments leave one agent and one asset; a
  revoked row has no session, and an active one waits for a pair that was signed
  for it, in an answer that arrived, is under way or was lost; no step makes a
  dead token acceptable, one that never arrived included; the table implements
  `SessionAuthority`.
- `commands`: no overlap of a heartbeat with its retries delivers twice or to a
  wrong agent; a delivered command is never queued or expired again; ACKED
  implies delivered; a younger command overtakes an older one only if that one
  was inserted after it; a late heartbeat undoes neither a revocation nor an
  enrollment; the queue implements `Mailbox`, and the agents' rows change as
  `SessionAuthority` allows.
- `queue_drains`: with more commands than a heartbeat takes, each of them leaves
  the queue, with lost answers and dying workers on the way.
- `runtime`: every scan taken is with the server, in the outbox or in hand, or
  went down with the process, or the server said it has it and has not; a rescan
  is acknowledged only with its scan stored, queued, or said to be stored; the
  agent implements `Courier`, in which a
  row leaves the outbox on the server's word only; every row that is not hopeless
  gets out of the queue past one that is; every lost session is replaced.
- `setup`: on POSIX no crash leaves empty credentials, unless two processes were
  storing at once; unless it went on from a bootout, a pkill or a removal that
  failed, no installer runs a command while the agent it replaces is alive, and
  one that reports success has pointed the file and the service at its server;
  and whatever commands, scripts, failures and kills did, a service that is to
  run and can read a `server_url` ends up with a pair its server honours.
- `asset_record`: uploads that overlap store a scan once; the columns a scan
  overwrites come from stored scans; an owner nobody typed into a PATCH, and no
  deletion brought back, has a record; as long as requests do not overlap, the
  one open record is that of the owner; the asset implements `Inventory`; scans
  and PATCHes that set a device online do not keep it there once its heartbeats
  have stopped.
- `scan_facts`: whatever fails besides the system collector, and however
  interfaces share MACs, the scan is accepted unless another row has its serial
  number or its asset is gone; a serial number goes with its asset, or is
  overwritten by a request whose row was written since it read it, and never by
  a scan whose row is current, whatever its collectors found; the primary NIC is
  one, and reachable.

What the violations show is quoted with the contradicted lines under "findings"
in `PROJECT.json`. In short: `token_refresh` writes a JTI over an enrollment
committed since it read the row; a failed audit INSERT rolls back an enrollment
that is answered 201 (and, in `ingest_scan`, a scan: `runtime` has that as a hollow
success); httpx's exceptions are not `TransportError`, so an
unreachable server ends the process with the scan in its hands; two assignments
at once leave two open records; a service that runs while its machine is enrolled
elsewhere uses the new pair with the old server, is refused and saves its own
`server_url` over the new one.

### Bounds

Each constant named "bound" caps a counter in a guard; the rest are parameters
of the code. Two workers are the smallest number with a race, and each hazard
listed is between two requests; a third only waits or repeats. In `credentials`
three rows let one machine lose the race for its row or be deleted and come
back while the other has one; seven JTIs are three enrollments and a refresh. In
`commands` two commands and limit 1 (the code's 20) make a queue longer than
an answer; a third command would be a second of the two. In `runtime` two
scans with limit 1 (the code's 10) make an outbox longer than a flush, whose head
row, the hopeless one, fills the batch: as many hopeless rows as a batch holds are
the most that can be got past, for with more of them in turn something else may
never be among the oldest ten. Two upsets (kills, signals, revocations,
exceptions, full disks, hollow successes) are what one recovery needs to be
disturbed once more; on Windows the service manager also
restarts the service twice only (`azurscan-service.xml:12-14`). In `setup` one
budget of two is for scripts, kills and refused enrollments: a script and a kill
in it, a script after another, a command next to the service that is killed; a
script runs ten processes' worth of steps, so a third event repeats one of the
two. Twelve values of tokens are more than files, processes and servers can hold
at once, so a fresh one is always found. `asset_record`
has two scans for an old and a new one and two records for a previous and a next
one; with one owner they are an assignment, its clearing and another one, or the
same one twice. A second owner passes as well (Spec, symmetric, 1,925,762 states;
the liveness property is what makes the run leave him out). The
lists of `scan_facts` hold each case of sharing or lacking a MAC that
`_collect_network` and the NIC loop tell apart, three interfaces being the
shortest in which a MAC comes back behind another; two requests are a stale one
and the one that makes it stale. The proofs (section 4) do not
depend on any of these.

`CHECK_DEADLOCK FALSE` stands where a bounded counter, or a service that was
stopped, lets the system end.

### Fairness

- `CommandQueue`: a worker with a request works on it; agents keep polling, wait
  no longer than their timeout and get through what they received (the loop of
  `Runtime.run`); not every heartbeat of an agent meets a dying worker. Nothing
  is assumed of operators, the periodic task or any single answer.
- `AgentRuntime`: the thread runs; the service manager restarts it when it ends
  other than by a stop (launchd's `KeepAlive`; WinSW's restarts, for the two
  upsets there are). Timers fire and backoffs pass, which in the code takes a
  wall clock (`time.time()`) that advances. Of calls made again and again one is
  answered: enrollments, heartbeats, uploads of a scan that is not hopeless.
  That is strong fairness, because failures disable the call in between; without
  it no retrying program delivers anything. Nothing is assumed of a hopeless
  scan: it may be accepted, poisoned, or a 500 for ever. `RowsDrain` and
  `SessionRecovers` exempt a service that was stopped and a configuration that
  needs `set-config`.
- `Setup`: processes run, the manager starts what is registered and wanted
  (`KeepAlive`; `sc failure` with a last action that is repeated, as
  `installer_main.py:84` and `install.ps1:106` set it; the MSI sets none), and a
  script goes on. No single step of a script, call, refresh or store is assumed
  to succeed beyond the budget of events. `ServiceSettles` exempts a service
  that is not to run and a `config.yaml` without `server_url`.
- `AssetRecord`: requests end; `mark_offline_assets` is scheduled and some of
  its UPDATEs get through. `docker-compose.yml` starts beat with the database
  scheduler, but the schedule itself is a row an administrator adds: the
  repository creates none. `SilentGoesOffline` is about installations that have
  it.

## 4. Theorems

All are of the form `Spec => []P`, `Spec => [][A]_vars` or a refinement, for all
values of the constants under the named assumptions of each module: the bounds
are natural numbers, the limits positive, the null values outside their sets.
TLC evaluates these assumptions in every run.

**AgentCredentials_proofs**: `TypeCorrect`, `UniqueAgent`,
`InventoryFollowsAgents`, `SessionIffActive`, `AwaitedTokensExist`,
`TokensStayDead`, `Refinement`. None of the invariants is inductive alone: a
pending refresh could write a JTI nobody drew. The strengthening is `Freshness`:
rows, tokens and pending requests only mention identifiers drawn so far, a
pending refresh carries a refresh token that was signed, with its answer under
way or lost if need be. Then a new pair is fresh for the whole state, which
gives both that a dead token stays dead and that an enrollment is a step `Open`
of `SessionAuthority` or, rolled back, a `Waste`.

**CommandQueue_proofs**: `TypeCorrect`, `AtMostOnce`, `OwnCommands`, `Settled`,
`AckIsTruthful`, `FirstComeFirstServed`, `RevocationStands`, `Refinement`.
At-most-once is about what pending requests hold. `Unheard`: a worker whose
agent still listens has collected nothing the agent ever received. `Addressed`:
requests and inboxes hold only the agent's own commands. `NoneSkipped`: a
pending collection holds every older queued command of its agent that was not
inserted late, which is why even a late UPDATE overtakes nothing else.
`Reserved`: the number a pending rescan drew is its own. With these a collection
whose answer is heard is a step `Hand` of `Mailbox`; an issue is a `Post`, and
every other step withdraws some commands or none. `RevocationStands` needs only
the types: an enrollment is an `Open` of `SessionAuthority` (`Opened`), a
revocation or a deletion a `Close` (`Closed`), and nobody else writes an agent's
row.

**AgentRuntime_proofs**: `TypeCorrect`, `ScansAccountedFor`,
`AcknowledgedIsSafe`, `NoRowLost`, `Refinement`. What is missing from the
invariants is what the thread knows at each place: `SentIsAnswered` (before the
DELETE the server said that it has the scan), `AckFollowsScan` (before the
acknowledgement of a rescan its scan was answered for or queued), `RescanInHand`
(who called `do_full_scan`) and `ForgottenIsOver` (credentials are cleared only
when the server no longer honours them; without it the type invariant's "an
honoured pair is stored" would break). The rest is four facts about single
steps: the server forgets nothing (`ServerRemembers`), only a scan that was
answered for leaves the outbox (`RowsStay`), a scan in hand is passed on or goes
down with the thread (`ScanPassedOn`), and only the acknowledged rescan is
vouched for (`Vouches`). The refinement needs one more part, `QueuedOnce`: a
scan in hand, or not taken yet, has no row; without it a scan could be kept
twice. Then each step is one of the courier's: an upload is `Deliver`,
`Mislead`, `Lose` or nothing (`UploadErrand`), a flush the same of a row, or
`PutAside` (`ResendErrand`), `enqueue` a `Keep` or, on a full disk, a `Lose`,
the DELETE a `Release`, an acknowledgement a `Sign`; and whatever else the
thread does, killed or not, leaves the errand alone but for what it has in hand
(`OtherErrand`).

**LocalStore_proofs**: `TypeCorrect`, `AtomicStore`. What a process holds at each
place is inductive once it is said of its task: everything but an uninstall has
a `server_url` in memory. That credentials are whole rests on whose the temporary
file is: as long as no two processes were in `store_credentials` at once, at most
one has it open, only between opening and filling it, and whoever renames it has
filled it.

**Setup_proofs**: `SetupTypeCorrect`, `SetupAtomicStore`, `NoDaemonLeft`,
`InstallersTakeEffect`. A step of `Setup` is a step of `LocalStore`, a start of a
process, the end of one, or leaves the files alone, so the invariant of
`LocalStore_proofs` carries over. The rest follows an installer through its
script (`Stages`): from the step that makes sure that the agent is gone
(`Stopped`) nobody starts one before `config.yaml` names the installer's server
(`Points`), and from then on no process holds another one in memory. It does so
while no failure was ignored; that `ignored` stays set until the next script is
what lets a stage rely on the earlier ones. A command
runs only while its script awaits it (`CommandAwaited`), which is what makes a
stage of one installer final for the next.

**AssetRecord_proofs**: `TypeCorrect`, `ScansStoredOnce`, `NeverAhead`,
`OwnersAreRecorded`, `HistoryAgrees`, `Refinement`. A handler writes what it
read earlier, so each invariant is stated of the row and of what every request
carries: `Columns` (a PATCH about to save holds columns of a stored scan),
`Owners` (no scan or PATCH carries an owner without a record), `InStep` (while
requests do not overlap, what the one request carries is still current). Two
lemmas do the work once for all of them: `Moved` (what a step lets a request
carry it carried or reads now) and `Written` (the database changes only in four
closing statements and a deletion). For the refinement there is also `Held`: an
assignment about to commit has locked a row, which a deletion then waits for.
With `Columns` and `Owners` a stale save is an `Edit`, which may show only
stored scans and recorded owners; the commits of a scan and of an assignment are
`Store` and `Give`, and every other statement is a stutter.

**ScanFacts_proofs**: `TypeCorrect`, `PrimaryWasReachable`, `HealthyAccepted`,
`SerialStays`. The invariant is about what requests hold: one whose row nobody
wrote since has the serial number that is stored (`Fresh`), so only a stale one
can put another in its place. The rest of the work is in lemmas about the pure
definitions: `Collected` (what `_collect_network` answers for any list of
interfaces), `Created` (the rows are one per MAC, and some if there was a NIC), by
the least element of a set of places.

Only model-checked: the liveness properties (`QueueDrains`, `RowsDrain`,
`SessionRecovers`, `ServiceSettles`, `SilentGoesOffline`), which need fairness and
ENABLED, outside what TLAPS does. Every other property of a passing run is a
theorem.

## 5. Not modelled

User authentication is simplejwt's; `MinRole` is one comparison of ranks;
throttles are counters of DRF (a 429 is one of the 4xx the agent sees), and
`LoginThrottle` is declared but no view uses it. Serializers and filters beyond
the writes of a PATCH, settings, migrations and packaging are presentation,
configuration or generated. Of the admin site, `rescan_now` is modelled with the
API's rescan, and the page of an asset saves the whole row it read as a PATCH
does (`fqdn`, `status` and `is_manual` are not among the modelled columns). Its
pages of the owner history (`AssetOwnerHistoryAdmin`, `assets/admin.py:199`),
which edit and delete records, and the deletion of scan sessions are left out:
whoever uses them rewrites what `OwnerHasRecord`, `SequentialHistory`,
`ColumnsNotAhead` and `ImplementsInventory` compare the asset with, and these
hold of installations where nobody does. Of the agent: how each operating system
is asked by the collectors and `machine.py`, DPAPI and file modes (neither
changes what is read back), tenacity's attempts inside one call, the length of a
backoff beyond whether it outlasts a flush, and two processes on one outbox
(SQLite serialises them; a scan sent twice is stored once by `AssetRecord`).
Types and lengths of single fields, expiry of tokens and the wording of anything
are abstracted.

The agents and the queue are not composed into one model of a fleet: the two
agree on the interface (an answer of a heartbeat, an acknowledgement, a 401), and
their product exceeds what TLC can enumerate at bounds where both halves do
something.

Observed while modelling, and in the modules, but not stated as a run because no
line of the repository promises otherwise:

- an answer to a heartbeat that is lost loses its commands: they stay DISPATCHED,
  although the admin page says that the device will pick them up;
- a PATCH writes the columns the serializer calls read-only back as it read them,
  also when a scan has replaced them since (`ColumnsNotAhead` bounds it);
- `preuninstall` removes the data while an agent that was asked to stop may still
  save its files again;
- a command that is cut short while it writes `config.yaml` leaves one that reads
  as no configuration, and the service then exits until `set-config` is run;
- a worker overtaken by a retry may set an ACKED or EXPIRED command back to
  DISPATCHED (`services.py:148` does not look at `status` again); the properties
  of `commands` bound what follows from it;
- an interface that is primary but shares the MAC of an earlier one is dropped,
  and the asset has no primary NIC;
- a failed system collector, or a serial number another asset has, is a 500 that
  the agent retries for ever; a 429 poisons the row instead, and so does a 502
  whose body quotes an `HTTP 404`;
- a scan whose audit row cannot be inserted is rolled back and answered 201, and
  an `http://` address that is redirected swallows every call with a 301: the
  agent drops the scans as uploaded;
- an answer lost after the commit of an enrollment or a refresh leaves a row that
  waits for tokens nobody has, until the machine enrolls again;
- a collector that fails is not told from a machine that lacks the part, nor
  always in `errors`; a stale save may blank a serial number;
- an installer that goes on after a `bootout` or a `pkill` that failed may work next
  to the agent it replaces;
- a PATCH that overlaps a deletion brings the asset back without its agent;
- an agent that never sent a heartbeat is never marked offline;
- a revoked agent enrolls itself again at its next heartbeat;
- the outbox delivers older scans after newer ones, and the asset goes back.

## 6. Plan

Done, most important behaviour first: `AgentCredentials` with `SessionAuthority`;
`CommandQueue` with `Mailbox`; `AgentRuntime`; `AssetRecord`; `ScanFacts`;
`LocalStore` and `Setup`; the proofs of all of them; the abstract specifications
`Courier` and `Inventory`, with the proofs that `AgentRuntime` and `AssetRecord`
implement them.

What could follow:

1. the three attempts of tenacity and the length of a backoff in `AgentRuntime`;
2. two processes on one outbox, statement by statement;
3. a composition of `Mailbox`, `Courier` and `Inventory`, which the components are
   proved to implement, that follows an operator's click to the stored scan and
   says when an outbox row delivered late may show older data again;
4. the choice of addresses in `_collect_network` against a reference definition.
