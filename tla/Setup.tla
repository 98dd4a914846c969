-------------------------------- MODULE Setup --------------------------------
(***************************************************************************)
(* What is done to an endpoint from outside: installers, uninstallers, the *)
(* procedure of the READMEs, single commands; and the service manager that *)
(* keeps the service running.                                              *)
(*                                                                         *)
(*   _worker                 agent/installer/windows/installer_main.py     *)
(*   install.ps1, uninstall.ps1, azurscan-service.xml    (same directory)  *)
(*   preinstall, postinstall, preuninstall, plist   agent/installer/macos/ *)
(*                                                                         *)
(* Each is a script of steps over LocalStore.  A step that runs a command  *)
(* waits for it.  What a step does may fail; a script ends at the first    *)
(* failure it looks at, and goes on from those it does not.                *)
(***************************************************************************)
EXTENDS LocalStore, Sequences

VARIABLES
  kind,        \* which script runs, or ran last
  script,      \* the steps it has left
  goal,        \* the server it was given, or found
  outcome,     \* how it ended: "ok" or "failed"
  registered,  \* is there a service
  wanted,      \* does the manager keep it running
  ignored      \* history: has the script gone on from a bootout, pkill or removal that failed

setup == <<kind, script, goal, outcome, registered, wanted, ignored>>
allvars == <<vars, setup>>

Installer == {"pkg", "gui", "ps1"}
StepsOf(k) ==
  CASE k = "pkg" -> <<"bootout", "kill", "set_config_if_missing", "bootout", "bootstrap", "kickstart">>
    [] k = "gui" -> <<"sc stop", "remove", "copy", "register", "enroll", "start">>
    [] k = "ps1" -> <<"sc stop", "wait", "remove", "copy", "set_config", "register", "start">>
    [] k = "preuninstall" -> <<"bootout", "erase">>
    [] k = "uninstall.ps1" -> <<"sc stop", "wait", "remove">>
    [] k = "restart" -> IF platform = "posix" THEN <<"enroll", "kickstart">>
                                              ELSE <<"enroll", "sc stop", "wait", "start">>
    [] OTHER -> <<k>>
WithServer == {"pkg", "gui", "ps1", "enroll", "set_config", "restart"}
Kinds == {"enroll", "set_config", "scan_now", "uninstall", "restart"} \cup
         IF platform = "posix" THEN {"pkg", "preuninstall"} ELSE {"gui", "ps1", "uninstall.ps1"}
AnyStep == {"bootout", "kill", "set_config_if_missing", "bootstrap", "kickstart", "sc stop",
            "remove", "copy", "register", "enroll", "start", "wait", "set_config", "scan_now",
            "uninstall", "erase", "await"}
AnyKind == Installer \cup {"none", "preuninstall", "uninstall.ps1", "restart", "enroll",
                           "set_config", "scan_now", "uninstall"}

SetupTypeOK ==
  /\ TypeOK
  /\ kind \in AnyKind
  /\ script \in Seq(AnyStep)
  /\ goal \in Server \cup {None}
  /\ outcome \in {"ok", "failed"}
  /\ registered \in BOOLEAN /\ wanted \in BOOLEAN /\ ignored \in BOOLEAN

(* An enrolled machine has a service, which starts; a fresh one has none.   *)
SetupInit ==
  /\ Init
  /\ kind = "none" /\ script = <<>> /\ goal = None /\ outcome = "ok"
  /\ registered = ("config" \in exists) /\ wanted = registered /\ ignored = FALSE

Down == pc["service"] = "off"

-------------------------------------------------------------------------------
(* The manager: launchd's KeepAlive; on Windows the recovery actions the    *)
(* installers set with sc failure, of which the last is repeated.           *)
restart ==
  /\ registered /\ wanted
  /\ run
  /\ UNCHANGED setup

(* Somebody starts a script.                                                *)
begin(k, s) ==
  /\ script = <<>>
  /\ Event
  /\ k = "restart" => wanted /\ registered
  /\ k \in WithServer <=> s # None
  /\ kind' = k /\ script' = StepsOf(k) /\ goal' = s /\ outcome' = "failed" /\ ignored' = FALSE
  /\ UNCHANGED <<files, session, process, overlapped, registered, wanted>>

At(step) == script # <<>> /\ Head(script) = step
Advance ==
  /\ script' = Tail(script)
  /\ outcome' = IF script' = <<>> THEN "ok" ELSE outcome
  /\ UNCHANGED kind
Abort ==
  /\ script' = <<>>
  /\ UNCHANGED <<kind, outcome>>

(* sc stop and launchctl bootout: the service is asked to stop, and is not  *)
(* started again.  Neither waits for it.                                    *)
ask_to_stop ==
  /\ At("sc stop") \/ At("bootout")
  /\ wanted' = FALSE
  /\ \/ stop
     \/ Down /\ UNCHANGED vars
  /\ registered' = (registered /\ ~At("bootout"))
  /\ Advance
  /\ UNCHANGED <<goal, ignored>>

(* Only who restarts it by hand minds if that fails.  Stop-Service is left  *)
(* out where the service is not "Running".                                  *)
ask_in_vain ==
  /\ At("sc stop") \/ At("bootout")
  /\ registered /\ kind # "restart"
  /\ Advance
  /\ ignored' = (ignored \/ At("bootout"))
  /\ UNCHANGED <<vars, goal, registered, wanted>>

(* Stop-Service waits, unless it was left out or fails: install.ps1 goes on *)
(* (SilentlyContinue), uninstall.ps1 does not.                              *)
wait ==
  /\ At("wait")
  /\ \/ (Down \/ kind # "restart") /\ Advance
     \/ kind = "uninstall.ps1" /\ Abort
  /\ UNCHANGED <<vars, goal, registered, wanted, ignored>>

(* Seeded bug: preinstall has no third part. *)
force_kill_not ==
  /\ At("kill")
  /\ Advance
  /\ UNCHANGED <<vars, goal, registered, wanted, ignored>>

(* preinstall: after ten seconds pkill -9, which may fail too.              *)
force_kill ==
  /\ At("kill")
  /\ \/ Down /\ UNCHANGED <<vars, ignored>>
     \/ terminate /\ UNCHANGED ignored
     \/ ~Down /\ ignored' = TRUE /\ UNCHANGED vars
  /\ Advance
  /\ UNCHANGED <<goal, registered, wanted>>

(* postinstall: a config.yaml that is there is kept, whatever is in it.     *)
keep_config ==
  /\ At("set_config_if_missing")
  /\ "config" \in exists
  /\ goal' = config.url
  /\ Advance
  /\ UNCHANGED <<vars, registered, wanted, ignored>>

(* A command of the CLI ...                                                 *)
command ==
  /\ \/ At("set_config") /\ set_config(goal)
     \/ At("set_config_if_missing") /\ "config" \notin exists /\ set_config(goal)
     \/ At("enroll") /\ enroll_command(goal)
     \/ At("scan_now") /\ scan_now
     \/ At("uninstall") /\ uninstall
  /\ script' = [script EXCEPT ![1] = "await"]
  /\ UNCHANGED <<kind, goal, outcome, registered, wanted, ignored>>

(* ... without a server_url scan-now exits at once ...                      *)
command_refused ==
  /\ At("scan_now") /\ config.url = None
  /\ Abort
  /\ UNCHANGED <<vars, goal, registered, wanted, ignored>>

(* ... and its exit code.                                                   *)
await ==
  /\ At("await")
  /\ pc["cli"] = "off"
  /\ \/ exit = "ok" /\ Advance
     \/ exit = "failed" /\ Abort
  /\ UNCHANGED <<vars, goal, registered, wanted, ignored>>

(* WinSW uninstall; nobody looks at how it ends. *)
remove ==
  /\ At("remove")
  /\ \/ registered' = FALSE /\ wanted' = FALSE /\ UNCHANGED ignored
     \/ registered /\ ignored' = TRUE /\ UNCHANGED <<registered, wanted>>
  /\ Advance
  /\ UNCHANGED <<vars, goal>>

(* Seeded bug: the files are copied whether or not the agent still runs. *)
copy_over ==
  /\ At("copy")
  /\ Advance
  /\ UNCHANGED <<vars, goal, registered, wanted, ignored>>

(* Windows does not let the executable of a running process be replaced.    *)
copy ==
  /\ At("copy")
  /\ \/ Down /\ Advance
     \/ Abort
  /\ UNCHANGED <<vars, goal, registered, wanted, ignored>>

(* There cannot be two of a name. *)
register ==
  /\ At("register")
  /\ \/ ~registered /\ registered' = TRUE /\ Advance
     \/ Abort /\ UNCHANGED registered
  /\ UNCHANGED <<vars, goal, wanted, ignored>>

(* sc start, whose result only the log has, Start-Service, launchctl        *)
(* bootstrap.                                                               *)
start ==
  /\ At("start") \/ At("bootstrap")
  /\ \/ /\ At("bootstrap") => ~registered
        /\ registered' = (registered \/ At("bootstrap"))
        /\ wanted' = registered'
        /\ Advance
     \/ /\ Abort \/ (kind = "gui" /\ Advance)
        /\ UNCHANGED <<registered, wanted>>
  /\ UNCHANGED <<vars, goal, ignored>>

(* launchctl kickstart -k: what runs is killed, and started again. *)
kickstart ==
  /\ At("kickstart")
  /\ \/ Down /\ Advance /\ UNCHANGED vars
     \/ terminate /\ Advance
     \/ Abort /\ UNCHANGED vars
  /\ UNCHANGED <<goal, registered, wanted, ignored>>

erase_data ==
  /\ At("erase")
  /\ erase
  /\ Advance
  /\ UNCHANGED <<goal, registered, wanted, ignored>>

ScriptStep ==
  \/ ask_to_stop \/ ask_in_vain \/ wait \/ force_kill \/ keep_config \/ command \/ command_refused \/ await
  \/ remove \/ copy \/ register \/ start \/ kickstart \/ erase_data
Running(p) == (Step(p) \/ (p = "service" /\ stopped)) /\ UNCHANGED setup

SetupNext ==
  \/ \E p \in Process : Running(p) \/ (kill(p) /\ UNCHANGED setup)
  \/ restart
  \/ ScriptStep
  \/ \E k \in Kinds, s \in Server \cup {None} : begin(k, s)

SetupSpec == SetupInit /\ [][SetupNext]_allvars

(* Processes run, the manager does its work, and a script goes on.          *)
SetupFairness ==
  /\ \A p \in Process : WF_allvars(Running(p))
  /\ WF_allvars(restart)
  /\ WF_allvars(ScriptStep)
SetupFairSpec == SetupSpec /\ SetupFairness

-------------------------------------------------------------------------------
(* preinstall: "Job is to guarantee ... that no leftover daemon will race   *)
(* with the newly-installed one".  No installer runs a command on the files *)
(* while an agent it was to replace is still alive, however long that one   *)
(* takes to stop, and whether or not it could be asked to: pkill or the     *)
(* lock on its executable sees to it.  The guarantee is launchd's and       *)
(* WinSW's where bootout, pkill or the removal fails, and the script does   *)
(* not look.                                                                *)
NoLeftoverDaemon == kind \in Installer /\ ~ignored /\ pc["cli"] # "off" => Down

(* An installer that reports success has pointed the agent at the server it *)
(* was given, or found: no earlier agent's late save puts another URL back. *)
(* The same failures are its exception.                                     *)
Serves(s) ==
  /\ Down \/ mem["service"].url = s
  /\ config.url \in {s, None}
InstallTakesEffect == kind \in Installer /\ ~ignored /\ outcome = "ok" => Serves(goal)

(* Whatever commands, scripts and crashes did to the files, a service that  *)
(* is to run and can read a server_url ends up with credentials the server  *)
(* honours, and keeps them.                                                 *)
Connected ==
  /\ pc["service"] = "call"
  /\ creds.access # 0 /\ creds.access = session[mem["service"].url].access
ServiceSettles == <>[]Connected \/ <>[](~wanted \/ ~registered \/ config.url = None)

(* installer/windows/README.md: enroll, then "Restart the service to pick   *)
(* up new credentials"; installer/macos/README.md says the same.  While the *)
(* old service runs, it uses the new pair with the old server, is refused,  *)
(* and saves its own URL and another pair over what enroll stored.          *)
ReenrollTakesEffect == kind = "restart" /\ outcome = "ok" => Serves(goal)
===============================================================================
