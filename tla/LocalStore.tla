------------------------------ MODULE LocalStore ------------------------------
(***************************************************************************)
(* The files of one endpoint and the processes that share them without a   *)
(* lock: the service, and one command of the CLI next to it.               *)
(*                                                                         *)
(*   AgentConfig.load, save      agent/azurscan_agent/config.py            *)
(*   store_credentials, ...      agent/azurscan_agent/secrets_store.py     *)
(*   refresh_access_token, ...   agent/azurscan_agent/transport.py         *)
(*   ensure_enrolled, heartbeat  agent/azurscan_agent/runtime.py           *)
(*   enroll, set-config, ...     agent/azurscan_agent/cli.py               *)
(*                                                                         *)
(* A step is one system call on a file, or a read of one with the request  *)
(* it is for.  A file that is missing and one that was truncated both read *)
(* as defaults, so "content" is what load() returns.                       *)
(***************************************************************************)
EXTENDS Naturals

CONSTANTS
  Server,      \* the backends a server_url may name
  Home,        \* the one the machine was enrolled at, if it was
  None,        \* no server_url
  MaxToken,    \* bound: values of tokens; one that nobody holds is drawn again
  MaxEvents    \* bound: kills, enrollments that fail and, in Setup, scripts

ASSUME HomeAssumption == Home \in Server
ASSUME NoneAssumption == None \notin Server
ASSUME MaxTokenAssumption == MaxToken \in Nat
ASSUME MaxEventsAssumption == MaxEvents \in Nat

VARIABLES
  platform,    \* sys.platform: "posix" or "windows"
  exists,      \* which of the files there are
  config,      \* config.yaml
  creds,       \* credentials.bin
  tmp,         \* credentials.bin.tmp
  session,     \* the pair of tokens each server honours
  pc,          \* \
  mem,         \*  | per process: its place, its AgentConfig, the tokens in its
  have,        \*  | hands, what it was started for (the service: "boot", then
  task,        \*  | "beat"), where store_credentials returns to, the file it
  ret,         \*  | has open
  fd,          \* /
  exit,        \* how the last command ended
  stopping,    \* the service's _stop
  overlapped,  \* history: two processes were in store_credentials at once
  events       \* history: how many of them there were

files == <<platform, exists, config, creds, tmp>>
process == <<pc, mem, have, task, ret, fd, exit, stopping>>
vars == <<files, session, process, overlapped, events>>

Process == {"service", "cli"}
File == {"config", "creds", "tmp"}
Place == {"off", "ensure", "enroll", "save", "write", "store", "fill", "replace", "verify",
          "call", "refresh", "update", "retry", "clear", "unlink"}
Task == {"none", "boot", "beat", "enroll", "set_config", "scan_now", "uninstall"}
Token == 1 .. MaxToken

Config == [url : Server \cup {None}, dev : BOOLEAN]
Blank == [url |-> None, dev |-> FALSE]
Pair == [access : Token \cup {0}, refresh : Token \cup {0}]
NoPair == [access |-> 0, refresh |-> 0]

TypeOK ==
  /\ platform \in {"posix", "windows"}
  /\ exists \subseteq File
  /\ config \in Config /\ creds \in Pair /\ tmp \in Pair
  /\ session \in [Server -> Pair]
  /\ pc \in [Process -> Place]
  /\ mem \in [Process -> Config]
  /\ have \in [Process -> Pair]
  /\ task \in [Process -> Task]
  /\ ret \in [Process -> {"off", "call", "retry"}]
  /\ fd \in [Process -> File \cup {"none", "gone"}]
  /\ exit \in {"ok", "failed"}
  /\ stopping \in BOOLEAN /\ overlapped \in BOOLEAN
  /\ events \in 0 .. MaxEvents
  /\ \A p \in Process :
       /\ pc[p] = "off" <=> task[p] = "none"
       /\ pc[p] \in {"ensure", "enroll", "call", "refresh", "update", "retry"} => mem[p].url # None
       /\ pc[p] \in {"update", "store", "fill", "replace", "verify", "retry"} => have[p].access # 0

(* Nobody runs.  The machine is fresh, or was enrolled at its home server.  *)
Init ==
  /\ platform \in {"posix", "windows"}
  /\ tmp = NoPair
  /\ \/ /\ exists = {} /\ config = Blank /\ creds = NoPair
        /\ session = [s \in Server |-> NoPair]
     \/ /\ MaxToken > 0
        /\ config = [url |-> Home, dev |-> TRUE]
        /\ creds = [access |-> 1, refresh |-> 1]
        /\ session = [s \in Server |-> IF s = Home THEN creds ELSE NoPair]
        /\ exists = {"config", "creds"}
  /\ pc = [p \in Process |-> "off"] /\ mem = [p \in Process |-> Blank]
  /\ have = [p \in Process |-> NoPair] /\ task = [p \in Process |-> "none"]
  /\ ret = [p \in Process |-> "off"] /\ fd = [p \in Process |-> "none"]
  /\ exit = "ok" /\ stopping = FALSE
  /\ overlapped = FALSE /\ events = 0

InUse == LET pairs == {creds, tmp} \cup {session[s] : s \in Server} \cup {have[p] : p \in Process}
         IN  {q.access : q \in pairs} \cup {q.refresh : q \in pairs}
Fresh(t) == /\ t \in Token \ InUse
            /\ \A u \in Token \ InUse : t <= u

Event == events < MaxEvents /\ events' = events + 1

Goto(p, place) == pc' = [pc EXCEPT ![p] = place]

(* The process is gone, and with it what it held.                           *)
Ends(p, how) ==
  /\ pc' = [pc EXCEPT ![p] = "off"]
  /\ mem' = [mem EXCEPT ![p] = Blank]
  /\ have' = [have EXCEPT ![p] = NoPair]
  /\ task' = [task EXCEPT ![p] = "none"]
  /\ ret' = [ret EXCEPT ![p] = "off"]
  /\ fd' = [fd EXCEPT ![p] = "none"]
  /\ exit' = IF p = "cli" THEN how ELSE exit
  /\ stopping' = (stopping /\ p # "service")

(* A command that has what it came for ends; the service goes on.           *)
Returns(p) ==
  \/ /\ p = "service"
     /\ Goto(p, "call")
     /\ have' = [have EXCEPT ![p] = NoPair]
     /\ task' = [task EXCEPT ![p] = "beat"]
     /\ UNCHANGED <<mem, ret, fd, exit, stopping>>
  \/ p = "cli" /\ Ends(p, "ok")

-------------------------------------------------------------------------------
(* The commands.  Each loads the configuration first; run and scan-now exit *)
(* without a server_url, enroll and set-config bring one.                   *)
Launch(p, what, place, cfg) ==
  /\ pc[p] = "off"
  /\ Goto(p, place)
  /\ task' = [task EXCEPT ![p] = what]
  /\ mem' = [mem EXCEPT ![p] = cfg]
  /\ UNCHANGED <<files, session, have, ret, fd, exit, stopping, overlapped, events>>

run == config.url # None /\ Launch("service", "boot", "ensure", config)
enroll_command(s) == Launch("cli", "enroll", "enroll", [url |-> s, dev |-> config.dev])
set_config(s) == Launch("cli", "set_config", "save", [url |-> s, dev |-> config.dev])
scan_now == config.url # None /\ Launch("cli", "scan_now", "ensure", config)
uninstall == Launch("cli", "uninstall", "clear", Blank)

-------------------------------------------------------------------------------
(* ensure_enrolled's test.  The device_id is the one in memory; the service *)
(* looks at _stop first.                                                    *)
ensure(p) ==
  /\ pc[p] = "ensure"
  /\ ~(p = "service" /\ stopping)
  /\ \/ creds.access # 0 /\ mem[p].dev /\ Goto(p, "call")
     \/ ~(creds.access # 0 /\ mem[p].dev) /\ Goto(p, "enroll")
  /\ UNCHANGED <<files, session, mem, have, task, ret, fd, exit, stopping, overlapped, events>>

(* transport.enroll at the server the process was started for: the session  *)
(* there was up to now is over.                                             *)
enroll(p) ==
  /\ pc[p] = "enroll"
  /\ \E t \in Token :
       /\ Fresh(t)
       /\ have' = [have EXCEPT ![p] = [access |-> t, refresh |-> t]]
       /\ session' = [session EXCEPT ![mem[p].url] = have'[p]]
  /\ mem' = [mem EXCEPT ![p] = [url |-> mem[p].url, dev |-> TRUE]]
  /\ ret' = [ret EXCEPT ![p] = IF task[p] = "enroll" THEN "off" ELSE "call"]
  /\ Goto(p, "save")
  /\ UNCHANGED <<files, task, fd, exit, stopping, overlapped, events>>

(* A TransportError, or an exception of httpx; the server may have enrolled *)
(* the machine all the same.  The loop around ensure_enrolled tries again,  *)
(* after a heartbeat the next one does; a command gives up.                 *)
enroll_fails(p) ==
  /\ pc[p] = "enroll"
  /\ Event
  /\ session' \in {session, [session EXCEPT ![mem[p].url] = NoPair]}
  /\ \/ /\ p = "service"
        /\ Goto(p, IF task[p] = "boot" THEN "ensure" ELSE "call")
        /\ UNCHANGED <<mem, have, task, ret, fd, exit, stopping>>
     \/ Ends(p, "failed")
  /\ UNCHANGED <<files, overlapped>>

-------------------------------------------------------------------------------
(* AgentConfig.save: open truncates ...                                     *)
save(p) ==
  /\ pc[p] = "save"
  /\ config' = Blank
  /\ exists' = exists \cup {"config"}
  /\ fd' = [fd EXCEPT ![p] = "config"]
  /\ Goto(p, "write")
  /\ UNCHANGED <<platform, creds, tmp, session, mem, have, task, ret, exit, stopping, overlapped,
                 events>>

(* Where the caller goes on: with the pair it was answered, or, having      *)
(* forgotten its device_id, with clear_credentials.                         *)
Saved(p) ==
  \/ task[p] = "set_config" /\ Ends(p, "ok")
  \/ /\ task[p] # "set_config"
     /\ Goto(p, IF have[p].access # 0 THEN "store" ELSE "clear")
     /\ fd' = [fd EXCEPT ![p] = "none"]
     /\ UNCHANGED <<mem, have, task, ret, exit, stopping>>

(* ... and the text is written when it closes.  Over the text of another    *)
(* process it can leave a mix of both, which does not parse.                *)
write(p) ==
  /\ pc[p] = "write"
  /\ \/ fd[p] = "config" /\ config' = mem[p]
     \/ fd[p] = "config" /\ config # Blank /\ config' = Blank
     \/ fd[p] # "config" /\ UNCHANGED config
  /\ Saved(p)
  /\ UNCHANGED <<platform, exists, creds, tmp, session, overlapped, events>>

-------------------------------------------------------------------------------
InStore(p) == pc[p] \in {"fill", "replace"}
Overlap(p) == overlapped' = (overlapped \/ \E q \in Process \ {p} : InStore(q))

(* Seeded bug: no temporary file. *)
store_in_place(p) ==
  /\ pc[p] = "store"
  /\ Overlap(p)
  /\ creds' = NoPair /\ exists' = exists \cup {"creds"}
  /\ fd' = [fd EXCEPT ![p] = "creds"]
  /\ UNCHANGED tmp
  /\ Goto(p, "fill")
  /\ UNCHANGED <<platform, config, session, mem, have, task, ret, exit, stopping, events>>

(* store_credentials: _store_plain opens a temporary file whose name is the *)
(* same in every process, _store_windows the file itself.                   *)
store(p) ==
  /\ pc[p] = "store"
  /\ Overlap(p)
  /\ \/ /\ platform = "posix"
        /\ tmp' = NoPair /\ exists' = exists \cup {"tmp"}
        /\ fd' = [fd EXCEPT ![p] = "tmp"]
        /\ UNCHANGED creds
     \/ /\ platform = "windows"
        /\ creds' = NoPair /\ exists' = exists \cup {"creds"}
        /\ fd' = [fd EXCEPT ![p] = "creds"]
        /\ UNCHANGED tmp
  /\ Goto(p, "fill")
  /\ UNCHANGED <<platform, config, session, mem, have, task, ret, exit, stopping, events>>

(* The write goes to the file that was opened, whatever its name is now.    *)
fill(p) ==
  /\ pc[p] = "fill"
  /\ creds' = IF fd[p] = "creds" THEN have[p] ELSE creds
  /\ tmp' = IF fd[p] = "tmp" THEN have[p] ELSE tmp
  /\ fd' = [fd EXCEPT ![p] = "none"]
  /\ Goto(p, IF platform = "posix" THEN "replace" ELSE "verify")
  /\ UNCHANGED <<platform, exists, config, session, mem, have, task, ret, exit, stopping, overlapped,
                 events>>

(* os.replace.  It raises if the other process has renamed the file first.  *)
replace(p) ==
  /\ pc[p] = "replace"
  /\ \/ /\ "tmp" \in exists
        /\ creds' = tmp /\ tmp' = NoPair
        /\ exists' = (exists \ {"tmp"}) \cup {"creds"}
        /\ fd' = [q \in Process |-> CASE fd[q] = "tmp" -> "creds"
                                      [] fd[q] = "creds" -> "gone"
                                      [] OTHER -> fd[q]]
        /\ Goto(p, "verify")
        /\ UNCHANGED <<mem, have, task, ret, exit, stopping>>
     \/ "tmp" \notin exists /\ Ends(p, "failed") /\ UNCHANGED <<exists, creds, tmp>>
  /\ UNCHANGED <<platform, config, session, overlapped, events>>

(* The roundtrip verification.  A mismatch is a RuntimeError, which nothing *)
(* catches.                                                                 *)
verify(p) ==
  /\ pc[p] = "verify"
  /\ \/ creds # have[p] /\ Ends(p, "failed")
     \/ /\ creds = have[p] /\ ret[p] = "retry"
        /\ Goto(p, "retry")
        /\ ret' = [ret EXCEPT ![p] = "off"]
        /\ UNCHANGED <<mem, have, task, fd, exit, stopping>>
     \/ creds = have[p] /\ ret[p] = "off" /\ Ends(p, "ok")
     \/ /\ creds = have[p] /\ ret[p] = "call"
        /\ Goto(p, "call")
        /\ have' = [have EXCEPT ![p] = NoPair]
        /\ ret' = [ret EXCEPT ![p] = "off"]
        /\ UNCHANGED <<mem, task, fd, exit, stopping>>
  /\ UNCHANGED <<files, session, overlapped, events>>

-------------------------------------------------------------------------------
(* An Unauthorized.  The heartbeat forgets device_id and credentials;       *)
(* scan-now queues its scan.                                                *)
Unauthorized(p) ==
  \/ /\ p = "service"
     /\ mem' = [mem EXCEPT ![p] = [url |-> mem[p].url, dev |-> FALSE]]
     /\ have' = [have EXCEPT ![p] = NoPair]
     /\ task' = [task EXCEPT ![p] = "beat"]
     /\ Goto(p, "save")
     /\ UNCHANGED <<ret, fd, exit, stopping>>
  \/ p = "cli" /\ Ends(p, "ok")

(* _auth_call with the access token that is on the disk; the service's      *)
(* calls stand for its heartbeats.                                          *)
call(p) ==
  /\ pc[p] = "call"
  /\ ~(p = "service" /\ stopping)
  /\ LET honoured == creds.access # 0 /\ creds.access = session[mem[p].url].access
     IN  \/ honoured /\ Returns(p)
         \/ /\ ~honoured
            /\ Goto(p, "refresh")
            /\ UNCHANGED <<mem, have, task, ret, fd, exit, stopping>>
  /\ UNCHANGED <<files, session, overlapped, events>>

(* refresh_access_token: the refresh token on the disk, if there is one.    *)
refresh(p) ==
  /\ pc[p] = "refresh"
  /\ LET s == mem[p].url
         honoured == creds.refresh # 0 /\ creds.refresh = session[s].refresh
     IN  \/ /\ honoured
            /\ \E t \in Token :
                 /\ Fresh(t)
                 /\ session' = [session EXCEPT ![s] = [access |-> t, refresh |-> session[s].refresh]]
                 /\ have' = [have EXCEPT ![p] = [access |-> t, refresh |-> 0]]
            /\ ret' = [ret EXCEPT ![p] = "retry"]
            /\ Goto(p, "update")
            /\ UNCHANGED <<mem, task, fd, exit, stopping>>
         \/ ~honoured /\ Unauthorized(p) /\ UNCHANGED session
  /\ UNCHANGED <<files, overlapped, events>>

(* Seeded bug: what is stored is the pair that was loaded once more. *)
update_nothing(p) ==
  /\ pc[p] = "update"
  /\ have' = [have EXCEPT ![p] = creds]
  /\ Goto(p, "store")
  /\ UNCHANGED <<files, session, mem, task, ret, fd, exit, stopping, overlapped, events>>

(* update_access_token loads the pair once more and keeps its refresh token.*)
update_access_token(p) ==
  /\ pc[p] = "update"
  /\ have' = [have EXCEPT ![p] = [access |-> have[p].access, refresh |-> creds.refresh]]
  /\ Goto(p, "store")
  /\ UNCHANGED <<files, session, mem, task, ret, fd, exit, stopping, overlapped, events>>

(* The request once more, with the token that was answered.                 *)
retry(p) ==
  /\ pc[p] = "retry"
  /\ \/ have[p].access = session[mem[p].url].access /\ Returns(p)
     \/ have[p].access # session[mem[p].url].access /\ Unauthorized(p)
  /\ UNCHANGED <<files, session, overlapped, events>>

(* An open file can be unlinked, except on Windows.                         *)
Unlink(f) ==
  /\ exists' = exists \ {f}
  /\ fd' = [q \in Process |-> IF fd[q] = f THEN "gone" ELSE fd[q]]
Locked(f) == platform = "windows" /\ \E q \in Process : fd[q] = f

(* Seeded bug: the heartbeat that forgot its identity leaves it at that. *)
clear_and_go_on(p) ==
  /\ pc[p] = "clear"
  /\ \/ /\ ~Locked("creds")
        /\ Unlink("creds") /\ creds' = NoPair
        /\ Goto(p, IF task[p] = "uninstall" THEN "unlink" ELSE "call")
        /\ UNCHANGED <<mem, have, task, ret, exit, stopping>>
     \/ Locked("creds") /\ Ends(p, "failed") /\ UNCHANGED <<exists, creds>>
  /\ UNCHANGED <<platform, config, tmp, session, overlapped, events>>

(* clear_credentials, after which a heartbeat goes on to ensure_enrolled    *)
(* (there is no device_id) and uninstall to the configuration.              *)
clear(p) ==
  /\ pc[p] = "clear"
  /\ \/ /\ ~Locked("creds")
        /\ Unlink("creds") /\ creds' = NoPair
        /\ Goto(p, IF task[p] = "uninstall" THEN "unlink" ELSE "enroll")
        /\ UNCHANGED <<mem, have, task, ret, exit, stopping>>
     \/ Locked("creds") /\ Ends(p, "failed") /\ UNCHANGED <<exists, creds>>
  /\ UNCHANGED <<platform, config, tmp, session, overlapped, events>>

unlink_config(p) ==
  /\ pc[p] = "unlink"
  /\ \/ /\ ~Locked("config")
        /\ config' = Blank
        /\ exists' = exists \ {"config"}
        /\ pc' = [pc EXCEPT ![p] = "off"] /\ mem' = [mem EXCEPT ![p] = Blank]
        /\ task' = [task EXCEPT ![p] = "none"]
        /\ exit' = "ok"
        /\ fd' = [q \in Process |-> IF fd[q] = "config" THEN "gone" ELSE fd[q]]
        /\ UNCHANGED <<have, ret, stopping>>
     \/ Locked("config") /\ Ends(p, "failed") /\ UNCHANGED <<exists, config>>
  /\ UNCHANGED <<platform, creds, tmp, session, overlapped, events>>

-------------------------------------------------------------------------------
(* SIGTERM, or WinSW's Ctrl+C: the handler sets _stop, the two loops of run *)
(* look at it.                                                              *)
stop ==
  /\ pc["service"] # "off"
  /\ stopping' = TRUE
  /\ UNCHANGED <<files, session, pc, mem, have, task, ret, fd, exit, overlapped, events>>

stopped ==
  /\ pc["service"] \in {"ensure", "call"}
  /\ stopping
  /\ Ends("service", "ok")
  /\ UNCHANGED <<files, session, overlapped, events>>

(* SIGKILL, or an exception nobody catches.                                 *)
Dies(p) ==
  /\ pc[p] # "off"
  /\ Ends(p, "failed")
  /\ UNCHANGED <<files, session, overlapped>>

Step(p) ==
  \/ ensure(p) \/ enroll(p) \/ enroll_fails(p) \/ save(p) \/ write(p)
  \/ store(p) \/ fill(p) \/ replace(p) \/ verify(p)
  \/ call(p) \/ refresh(p) \/ update_access_token(p) \/ retry(p)
  \/ clear(p) \/ unlink_config(p)

kill(p) == Dies(p) /\ Event
terminate == Dies("service") /\ UNCHANGED events

(* preuninstall's rm -rf of the data directory. *)
erase ==
  /\ platform = "posix"
  /\ exists' = {} /\ config' = Blank /\ creds' = NoPair /\ tmp' = NoPair
  /\ fd' = [q \in Process |-> IF fd[q] \in File THEN "gone" ELSE fd[q]]
  /\ UNCHANGED <<platform, session, pc, mem, have, task, ret, exit, stopping, overlapped, events>>

Commands == run \/ scan_now \/ uninstall \/ \E s \in Server : enroll_command(s) \/ set_config(s)
Next ==
  \/ \E p \in Process : Step(p) \/ kill(p)
  \/ Commands
  \/ stop \/ stopped \/ terminate \/ erase
Spec == Init /\ [][Next]_vars

-------------------------------------------------------------------------------
(* secrets_store.py: "Without atomic rename, a crash between truncate and   *)
(* write would leave us with empty credentials".  With it, no crash at any  *)
(* point leaves a credentials.bin that reads as nothing -- as long as the   *)
(* service and a command are not in store_credentials at once, since both   *)
(* use the same name for the temporary file.                                *)
CredentialsWhole ==
  platform = "posix" /\ ~overlapped /\ "creds" \in exists => creds.access # 0
===============================================================================
