----------------------------- MODULE Setup_proofs -----------------------------
(***************************************************************************)
(* Proofs about Setup: what LocalStore_proofs shows of the files holds     *)
(* under scripts, and what the installers promise, for any servers and any *)
(* numbers of scripts, kills and tokens.                                   *)
(*                                                                         *)
(* The invariant follows an installer, as long as no failure it ignores    *)
(* befalls it, through its steps: from the point where it has made sure    *)
(* that the agent is gone, nobody starts one until config.yaml names the   *)
(* installer's server; from then on no process holds another one in        *)
(* memory.                                                                 *)
(***************************************************************************)
EXTENDS Setup, LocalStore_proofs, SequenceTheorems

(* A command ends before the step of its script that waits for it.          *)
CommandAwaited == pc["cli"] # "off" => script # <<>> /\ Head(script) = "await"

(* A script has not succeeded before it is done.                            *)
UnfinishedIsFailed == script # <<>> => outcome = "failed"

(* The agent that was there is gone, and the manager does not start it.     *)
Stopped == ~wanted /\ Down

(* config.yaml names the server of the installer, or none.                  *)
Points == config.url \in {goal, None}

(* The command of an installer on its way.                                  *)
Awaiting(t) ==
  /\ pc["cli"] # "off" =>
       /\ task["cli"] = t /\ mem["cli"].url = goal
       /\ pc["cli"] \in {"enroll", "save", "write", "store", "fill", "replace", "verify"}
       /\ pc["cli"] \notin {"save", "write"} => t = "enroll"
       /\ t = "enroll" /\ pc["cli"] # "enroll" => ret["cli"] = "off" /\ have["cli"].access # 0
       /\ pc["cli"] = "write" => fd["cli"] = "config"
       /\ pc["cli"] \in {"store", "fill", "replace", "verify"} => Points
  /\ pc["cli"] = "off" /\ exit = "ok" => Points

(* Where an installer is, and what it has seen to by then.                  *)
Done == script = <<>> /\ (outcome = "ok" => Serves(goal))
PkgStage ==
  \/ script = <<"bootout", "kill", "set_config_if_missing", "bootout", "bootstrap", "kickstart">>
  \/ script = <<"kill", "set_config_if_missing", "bootout", "bootstrap", "kickstart">> /\ ~wanted
  \/ script = <<"set_config_if_missing", "bootout", "bootstrap", "kickstart">> /\ Stopped
  \/ script = <<"await", "bootout", "bootstrap", "kickstart">> /\ Stopped /\ Awaiting("set_config")
  \/ script \in {<<"bootout", "bootstrap", "kickstart">>, <<"bootstrap", "kickstart">>} /\ Stopped /\ Points
  \/ script = <<"kickstart">> /\ Serves(goal)
  \/ Done
GuiStage ==
  \/ script = <<"sc stop", "remove", "copy", "register", "enroll", "start">>
  \/ script = <<"remove", "copy", "register", "enroll", "start">>
  \/ script = <<"copy", "register", "enroll", "start">> /\ ~wanted
  \/ script \in {<<"register", "enroll", "start">>, <<"enroll", "start">>} /\ Stopped
  \/ script = <<"await", "start">> /\ Stopped /\ Awaiting("enroll")
  \/ script = <<"start">> /\ Stopped /\ Points
  \/ Done
Ps1Stage ==
  \/ script = <<"sc stop", "wait", "remove", "copy", "set_config", "register", "start">>
  \/ script \in {<<"wait", "remove", "copy", "set_config", "register", "start">>,
                 <<"remove", "copy", "set_config", "register", "start">>}
  \/ script = <<"copy", "set_config", "register", "start">> /\ ~wanted
  \/ script = <<"set_config", "register", "start">> /\ Stopped
  \/ script = <<"await", "register", "start">> /\ Stopped /\ Awaiting("set_config")
  \/ script \in {<<"register", "start">>, <<"start">>} /\ Stopped /\ Points
  \/ Done

Stages ==
  ~ignored =>
    /\ kind = "pkg" => PkgStage
    /\ kind = "gui" => GuiStage
    /\ kind = "ps1" => Ps1Stage

(* Who runs a command with a server was given one; after postinstall's      *)
(* set-config, which may find another, there is none.                       *)
TakesServer == {"enroll", "set_config", "set_config_if_missing"}
GoalGiven ==
  /\ \A i \in 1 .. Len(script) : script[i] \in TakesServer => goal \in Server
  /\ \A i, j \in 1 .. Len(script) :
       script[i] = "set_config_if_missing" /\ i < j => script[j] \notin TakesServer

SetupTyped ==
  /\ kind \in AnyKind
  /\ script \in Seq(AnyStep)
  /\ goal \in Server \cup {None}
  /\ outcome \in {"ok", "failed"}
  /\ registered \in BOOLEAN /\ wanted \in BOOLEAN /\ ignored \in BOOLEAN

SInv == IInv /\ SetupTyped /\ CommandAwaited /\ UnfinishedIsFailed /\ Stages /\ GoalGiven

USE HomeAssumption, NoneAssumption, MaxTokenAssumption, MaxEventsAssumption

-------------------------------------------------------------------------------
(* Every step of Setup is one of LocalStore, but the start of a script,     *)
(* which is counted.                                                        *)
LEMMA Heads ==
  ASSUME script \in Seq(AnyStep), NEW step, At(step)
  PROVE  /\ 1 \in 1 .. Len(script) /\ script[1] = step /\ script # <<>>
         /\ Tail(script) \in Seq(AnyStep)
         /\ Len(Tail(script)) = Len(script) - 1
         /\ \A i \in 1 .. Len(Tail(script)) : Tail(script)[i] = script[i + 1] /\ i + 1 \in 1 .. Len(script)
BY DEF At

LEMMA ScriptIsLocal ==
  ASSUME SetupTyped, GoalGiven, ScriptStep
  PROVE  [Next]_vars
<1>1. ASSUME ask_to_stop \/ ask_in_vain PROVE [Next]_vars
  BY <1>1 DEF ask_to_stop, ask_in_vain, Next
<1>2. ASSUME force_kill \/ kickstart PROVE [Next]_vars
  BY <1>2 DEF force_kill, kickstart, Next
<1>3. ASSUME command PROVE [Next]_vars
  <2>1. CASE scan_now \/ uninstall
    BY <2>1 DEF Next, Commands
  <2>2. CASE /\ At("enroll") \/ At("set_config") \/ At("set_config_if_missing")
             /\ enroll_command(goal) \/ set_config(goal)
    <3>1. goal \in Server
      BY <2>2, Heads DEF SetupTyped, GoalGiven, TakesServer
    <3>2. QED
      BY <2>2, <3>1 DEF Next, Commands
  <2>3. QED
    BY <1>3, <2>1, <2>2 DEF command
<1>4. ASSUME erase_data PROVE [Next]_vars
  BY <1>4 DEF erase_data, Next
<1>5. ASSUME wait \/ keep_config \/ command_refused \/ await \/ remove \/ copy \/ register \/ start
      PROVE  [Next]_vars
  BY <1>5 DEF wait, keep_config, command_refused, await, remove, copy, register, start
<1>6. QED
  BY <1>1, <1>2, <1>3, <1>4, <1>5 DEF ScriptStep

(* The processes, and the manager that starts one of them. *)
ProcessStep ==
  \/ \E p \in Process : Running(p) \/ (kill(p) /\ UNCHANGED setup)
  \/ restart

LEMMA ProcessIsLocal ==
  ASSUME ProcessStep
  PROVE  [Next]_vars /\ UNCHANGED setup
BY DEF ProcessStep, Running, restart, Next, Commands

LEMMA SetupLocal ==
  ASSUME SInv, [SetupNext]_allvars
  PROVE  IInv'
<1>1. CASE ProcessStep
  BY <1>1, ProcessIsLocal, NextWhole DEF SInv
<1>2. CASE ScriptStep
  BY <1>2, ScriptIsLocal, NextWhole DEF SInv
<1>3. CASE \E k \in Kinds, s \in Server \cup {None} : begin(k, s)
  <2>0. PICK k \in Kinds, s \in Server \cup {None} : begin(k, s)
    BY <1>3
  <2>1. UNCHANGED <<files, session, process, overlapped>> /\ events' \in 0 .. MaxEvents
    <3>1. /\ UNCHANGED <<files, session, process, overlapped>>
          /\ events < MaxEvents
          /\ events' = events + 1
      BY <2>0 DEF begin, Event
    <3>2. events \in 0 .. MaxEvents
      BY Zenon DEF SInv, IInv, TInv, Files
    <3>3. events' \in 0 .. MaxEvents
      BY <3>1, <3>2
    <3>4. QED
      BY <3>1, <3>3, Zenon
  <2>2. Files'
    <3>1. overlapped' \in BOOLEAN
      BY <2>1, Zenon DEF SInv, IInv, TInv, Files
    <3>2. QED
      BY <2>1, <3>1, FilesFrame, Zenon DEF SInv, IInv
  <2>3. Procs' /\ \A q \in Process : PlaceOK(q)'
    BY <2>1 DEF process, SInv, IInv, TInv, Procs, PlaceOK
  <2>4. CInv'
    BY <2>1 DEF process, files, SInv, IInv, CInv, Whole, TmpOK, InStore
  <2>5. QED
    BY <2>2, <2>3, <2>4 DEF IInv, TInv
<1>4. CASE UNCHANGED allvars
  BY <1>4, NextWhole DEF allvars, SInv
<1>5. QED
  BY <1>1, <1>2, <1>3, <1>4 DEF SetupNext, ProcessStep

(* The steps a script may have: only one that was given a server runs enroll *)
(* or set-config.                                                            *)
Allowed(k) ==
  {step \in AnyStep : /\ step \in {"enroll", "set_config", "set_config_if_missing"} => k \in WithServer
                      /\ step = "set_config_if_missing" => k = "pkg"}

LEMMA Words1 ==
  ASSUME NEW S, NEW a \in S
  PROVE  <<a>> \in Seq(S)
OBVIOUS

LEMMA Words2 ==
  ASSUME NEW S, NEW a \in S, NEW b \in S
  PROVE  <<a, b>> \in Seq(S)
OBVIOUS

LEMMA Words3 ==
  ASSUME NEW S, NEW a \in S, NEW b \in S, NEW c \in S
  PROVE  <<a, b, c>> \in Seq(S)
OBVIOUS

LEMMA Words4 ==
  ASSUME NEW S, NEW a \in S, NEW b \in S, NEW c \in S, NEW d \in S
  PROVE  <<a, b, c, d>> \in Seq(S)
OBVIOUS

LEMMA Words6 ==
  ASSUME NEW S, NEW a \in S, NEW b \in S, NEW c \in S, NEW d \in S, NEW e \in S, NEW f \in S
  PROVE  <<a, b, c, d, e, f>> \in Seq(S)
OBVIOUS

LEMMA Words7 ==
  ASSUME NEW S, NEW a \in S, NEW b \in S, NEW c \in S, NEW d \in S, NEW e \in S, NEW f \in S, NEW g \in S
  PROVE  <<a, b, c, d, e, f, g>> \in Seq(S)
OBVIOUS

LEMMA StepsTyped ==
  ASSUME NEW k \in Kinds
  PROVE  k \in AnyKind /\ StepsOf(k) \in Seq(Allowed(k))
<1>0. k \in AnyKind
  BY DEF Kinds, AnyKind, Installer
<1> SUFFICES StepsOf(k) \in Seq(Allowed(k))
  BY <1>0
<1>1. CASE k = "pkg"
  <2>1. StepsOf(k) = <<"bootout", "kill", "set_config_if_missing", "bootout", "bootstrap", "kickstart">>
    BY <1>1 DEF StepsOf
  <2>2. {"bootout", "kill", "set_config_if_missing", "bootstrap", "kickstart"} \subseteq Allowed(k)
    BY <1>1 DEF Allowed, AnyStep, WithServer
  <2>3. <<"bootout", "kill", "set_config_if_missing", "bootout", "bootstrap", "kickstart">> \in Seq(Allowed(k))
    BY <2>2, Words6, Zenon
  <2>4. QED
    BY <2>1, <2>3
<1>2. CASE k = "gui"
  <2>1. StepsOf(k) = <<"sc stop", "remove", "copy", "register", "enroll", "start">>
    BY <1>2 DEF StepsOf
  <2>2. {"sc stop", "remove", "copy", "register", "enroll", "start"} \subseteq Allowed(k)
    BY <1>2 DEF Allowed, AnyStep, WithServer
  <2>3. <<"sc stop", "remove", "copy", "register", "enroll", "start">> \in Seq(Allowed(k))
    BY <2>2, Words6, Zenon
  <2>4. QED
    BY <2>1, <2>3
<1>3. CASE k = "ps1"
  <2>1. StepsOf(k) = <<"sc stop", "wait", "remove", "copy", "set_config", "register", "start">>
    BY <1>3 DEF StepsOf
  <2>2. {"sc stop", "wait", "remove", "copy", "set_config", "register", "start"} \subseteq Allowed(k)
    BY <1>3 DEF Allowed, AnyStep, WithServer
  <2>3. <<"sc stop", "wait", "remove", "copy", "set_config", "register", "start">> \in Seq(Allowed(k))
    BY <2>2, Words7, Zenon
  <2>4. QED
    BY <2>1, <2>3
<1>4. CASE k = "preuninstall"
  <2>1. StepsOf(k) = <<"bootout", "erase">>
    BY <1>4 DEF StepsOf
  <2>2. {"bootout", "erase"} \subseteq Allowed(k)
    BY <1>4 DEF Allowed, AnyStep, WithServer
  <2>3. <<"bootout", "erase">> \in Seq(Allowed(k))
    BY <2>2, Words2, Zenon
  <2>4. QED
    BY <2>1, <2>3
<1>5. CASE k = "uninstall.ps1"
  <2>1. StepsOf(k) = <<"sc stop", "wait", "remove">>
    BY <1>5 DEF StepsOf
  <2>2. {"sc stop", "wait", "remove"} \subseteq Allowed(k)
    BY <1>5 DEF Allowed, AnyStep, WithServer
  <2>3. <<"sc stop", "wait", "remove">> \in Seq(Allowed(k))
    BY <2>2, Words3, Zenon
  <2>4. QED
    BY <2>1, <2>3
<1>6. CASE k = "restart" /\ platform = "posix"
  <2>1. StepsOf(k) = <<"enroll", "kickstart">>
    BY <1>6 DEF StepsOf
  <2>2. {"enroll", "kickstart"} \subseteq Allowed(k)
    BY <1>6 DEF Allowed, AnyStep, WithServer
  <2>3. <<"enroll", "kickstart">> \in Seq(Allowed(k))
    BY <2>2, Words2, Zenon
  <2>4. QED
    BY <2>1, <2>3
<1>7. CASE k = "restart" /\ platform # "posix"
  <2>1. StepsOf(k) = <<"enroll", "sc stop", "wait", "start">>
    BY <1>7 DEF StepsOf
  <2>2. {"enroll", "sc stop", "wait", "start"} \subseteq Allowed(k)
    BY <1>7 DEF Allowed, AnyStep, WithServer
  <2>3. <<"enroll", "sc stop", "wait", "start">> \in Seq(Allowed(k))
    BY <2>2, Words4, Zenon
  <2>4. QED
    BY <2>1, <2>3
<1>8. CASE k = "enroll"
  <2>1. StepsOf(k) = <<"enroll">>
    BY <1>8 DEF StepsOf
  <2>2. {"enroll"} \subseteq Allowed(k)
    BY <1>8 DEF Allowed, AnyStep, WithServer
  <2>3. <<"enroll">> \in Seq(Allowed(k))
    BY <2>2, Words1, Zenon
  <2>4. QED
    BY <2>1, <2>3
<1>9. CASE k = "set_config"
  <2>1. StepsOf(k) = <<"set_config">>
    BY <1>9 DEF StepsOf
  <2>2. {"set_config"} \subseteq Allowed(k)
    BY <1>9 DEF Allowed, AnyStep, WithServer
  <2>3. <<"set_config">> \in Seq(Allowed(k))
    BY <2>2, Words1, Zenon
  <2>4. QED
    BY <2>1, <2>3
<1>10. CASE k = "scan_now"
  <2>1. StepsOf(k) = <<"scan_now">>
    BY <1>10 DEF StepsOf
  <2>2. {"scan_now"} \subseteq Allowed(k)
    BY <1>10 DEF Allowed, AnyStep, WithServer
  <2>3. <<"scan_now">> \in Seq(Allowed(k))
    BY <2>2, Words1, Zenon
  <2>4. QED
    BY <2>1, <2>3
<1>11. CASE k = "uninstall"
  <2>1. StepsOf(k) = <<"uninstall">>
    BY <1>11 DEF StepsOf
  <2>2. {"uninstall"} \subseteq Allowed(k)
    BY <1>11 DEF Allowed, AnyStep, WithServer
  <2>3. <<"uninstall">> \in Seq(Allowed(k))
    BY <2>2, Words1, Zenon
  <2>4. QED
    BY <2>1, <2>3
<1>12. QED
  BY <1>1, <1>2, <1>3, <1>4, <1>5, <1>6, <1>7, <1>8, <1>9, <1>10, <1>11 DEF Kinds

LEMMA SetupTypedKept ==
  ASSUME SInv, [SetupNext]_allvars
  PROVE  SetupTyped'
<1>1. CASE ProcessStep \/ UNCHANGED allvars
  BY <1>1, ProcessIsLocal DEF allvars, setup, SInv, SetupTyped
<1>2. CASE ScriptStep
  <2>1. script' \in Seq(AnyStep)
    <3>1. \E step : At(step)
      BY <1>2 DEF ScriptStep, ask_to_stop, ask_in_vain, wait, force_kill, keep_config, command, command_refused,
                  await, remove, copy, register, start, kickstart, erase_data
    <3>2. Tail(script) \in Seq(AnyStep) /\ [script EXCEPT ![1] = "await"] \in Seq(AnyStep)
      <4>1. script \in Seq(AnyStep) /\ script # <<>> /\ Tail(script) \in Seq(AnyStep)
        BY <3>1, Heads DEF SInv, SetupTyped
      <4>2. "await" \in AnyStep
        BY DEF AnyStep
      <4>3. QED
        BY <4>1, <4>2
    <3>3. script' \in {Tail(script), [script EXCEPT ![1] = "await"], <<>>}
      BY <1>2 DEF ScriptStep, Advance, Abort, ask_to_stop, ask_in_vain, wait, force_kill, keep_config, command,
                  command_refused, await, remove, copy, register, start, kickstart, erase_data
    <3>4. <<>> \in Seq(AnyStep)
      OBVIOUS
    <3>5. QED
      BY <3>2, <3>3, <3>4, Zenon
  <2>2. goal' \in {goal, config.url}
    BY <1>2 DEF ScriptStep, ask_to_stop, ask_in_vain, wait, force_kill, keep_config, command, command_refused,
                await, remove, copy, register, start, kickstart, erase_data
  <2>3. outcome' \in {outcome, "ok"} /\ kind' = kind
    BY <1>2 DEF ScriptStep, Advance, Abort, ask_to_stop, ask_in_vain, wait, force_kill, keep_config, command,
                command_refused, await, remove, copy, register, start, kickstart, erase_data
  <2>4. registered' \in BOOLEAN /\ wanted' \in BOOLEAN /\ ignored' \in BOOLEAN
    <3>1. registered \in BOOLEAN /\ wanted \in BOOLEAN /\ ignored \in BOOLEAN
      BY Zenon DEF SInv, SetupTyped
    <3>2. CASE ask_to_stop \/ ask_in_vain \/ force_kill \/ remove \/ register \/ start
      BY <3>1, <3>2, Zenon DEF ask_to_stop, ask_in_vain, force_kill, remove, register, start
    <3>3. CASE ~(ask_to_stop \/ ask_in_vain \/ force_kill \/ remove \/ register \/ start)
      <4>1. UNCHANGED <<registered, wanted, ignored>>
        BY <1>2, <3>3 DEF ScriptStep, wait, keep_config, command, command_refused, await,
                          copy, kickstart, erase_data
      <4>2. QED
        BY <3>1, <4>1, Zenon
    <3>4. QED
      BY <3>2, <3>3
  <2>5. config.url \in Server \cup {None}
    BY DEF SInv, IInv, TInv, Files, Config
  <2>6. kind' \in AnyKind /\ goal' \in Server \cup {None} /\ outcome' \in {"ok", "failed"}
    BY <2>2, <2>3, <2>5 DEF SInv, SetupTyped
  <2>7. QED
    BY <2>1, <2>4, <2>6 DEF SetupTyped
<1>3. CASE \E k \in Kinds, s \in Server \cup {None} : begin(k, s)
  <2>1. PICK k \in Kinds, s \in Server \cup {None} : begin(k, s)
    BY <1>3
  <2>2. /\ kind' = k /\ script' = StepsOf(k) /\ goal' = s /\ outcome' = "failed"
        /\ UNCHANGED <<registered, wanted>> /\ ignored' = FALSE
    BY <2>1 DEF begin
  <2>3. k \in AnyKind /\ StepsOf(k) \in Seq(AnyStep)
    <3>1. k \in AnyKind /\ StepsOf(k) \in Seq(Allowed(k))
      BY StepsTyped
    <3>2. QED
      BY <3>1 DEF Allowed
  <2>4. registered' \in BOOLEAN /\ wanted' \in BOOLEAN /\ ignored' \in BOOLEAN
    BY <2>2, Zenon DEF SInv, SetupTyped
  <2>5. QED
    BY <2>2, <2>3, <2>4 DEF SetupTyped
<1>4. QED
  BY <1>1, <1>2, <1>3 DEF SetupNext, ProcessStep

(* A command that runs is waited for. *)
LEMMA CommandAwaitedKept ==
  ASSUME SInv, [SetupNext]_allvars
  PROVE  CommandAwaited'
<1> USE DEF Process
<1>1. CASE ProcessStep
  <2>1. UNCHANGED script
    BY <1>1, ProcessIsLocal DEF setup
  <2>2. pc'["cli"] # "off" => pc["cli"] # "off"
    <3>1. CASE \E p \in Process : Running(p)
      <4>1. PICK p \in Process : Running(p)
        BY <3>1
      <4>2. CASE Step(p)
        <5>1. pc[p] # "off"
          BY <4>2 DEF Step, ensure, enroll, enroll_fails, save, write, store, fill, replace, verify, call,
                      refresh, update_access_token, retry, clear, unlink_config
        <5>2. \A q \in Process \ {p} : pc'[q] = pc[q]
          BY <4>2 DEF SInv, IInv, TInv, Procs, Step, ensure, enroll, enroll_fails, save, write, store, fill,
                      replace, verify, call, refresh, update_access_token, retry, clear, unlink_config,
                      Goto, Ends, Saved, Returns, Unauthorized
        <5>3. QED
          BY <5>1, <5>2
      <4>3. CASE p = "service" /\ stopped
        BY <4>3 DEF SInv, IInv, TInv, Procs, stopped, Ends
      <4>4. QED
        BY <4>1, <4>2, <4>3 DEF Running
    <3>2. CASE restart \/ \E p \in Process : kill(p)
      BY <3>2 DEF SInv, IInv, TInv, Procs, restart, run, Launch, Goto, kill, Dies, Ends
    <3>3. QED
      BY <1>1, <3>1, <3>2 DEF ProcessStep
  <2>3. QED
    BY <2>1, <2>2 DEF SInv, CommandAwaited
<1>2. CASE ScriptStep
  <2>1. CASE command
    <3>1. \E step : At(step)
      BY <2>1 DEF command
    <3>2. script' = [script EXCEPT ![1] = "await"]
      BY <2>1 DEF command
    <3>3. script' # <<>> /\ Head(script') = "await"
      BY <3>1, <3>2, Heads DEF SInv, SetupTyped
    <3>4. QED
      BY <3>3 DEF CommandAwaited
  <2>2. CASE ~command
    <3>1. pc["cli"] = "off"
      <4>1. CASE await
        BY <4>1 DEF await
      <4>2. CASE ~await
        <5>1. \E step : step # "await" /\ At(step)
          BY <1>2, <2>2, <4>2 DEF ScriptStep, ask_to_stop, ask_in_vain, wait, force_kill, keep_config, command_refused,
                                  remove, copy, register, start, kickstart, erase_data
        <5>2. QED
          BY <5>1 DEF At, SInv, CommandAwaited
      <4>3. QED
        BY <4>1, <4>2
    <3>2. pc'["cli"] = pc["cli"]
      BY <1>2, <2>2 DEF ScriptStep, ask_to_stop, ask_in_vain, wait, force_kill, keep_config, command_refused, await,
                        remove, copy, register, start, kickstart, erase_data, vars, process, stop, terminate,
                        Dies, Ends, erase, SInv, IInv, TInv, Procs
    <3>3. QED
      BY <3>1, <3>2 DEF CommandAwaited
  <2>3. QED
    BY <2>1, <2>2
<1>3. CASE \E k \in Kinds, s \in Server \cup {None} : begin(k, s)
  BY <1>3 DEF begin, process, SInv, CommandAwaited
<1>4. CASE UNCHANGED allvars
  BY <1>4 DEF allvars, setup, vars, process, SInv, CommandAwaited
<1>5. QED
  BY <1>1, <1>2, <1>3, <1>4 DEF SetupNext, ProcessStep

(* Nothing is a success before its last step. *)
LEMMA UnfinishedKept ==
  ASSUME SInv, [SetupNext]_allvars
  PROVE  UnfinishedIsFailed'
<1>1. CASE ProcessStep \/ UNCHANGED allvars
  BY <1>1, ProcessIsLocal DEF allvars, setup, SInv, UnfinishedIsFailed
<1>2. CASE ScriptStep
  <2>1. script # <<>>
    BY <1>2 DEF ScriptStep, At, ask_to_stop, ask_in_vain, wait, force_kill, keep_config, command, command_refused,
                await, remove, copy, register, start, kickstart, erase_data
  <2>2. Advance \/ Abort \/ outcome' = outcome
    BY <1>2 DEF ScriptStep, ask_to_stop, ask_in_vain, wait, force_kill, keep_config, command, command_refused,
                await, remove, copy, register, start, kickstart, erase_data
  <2>3. QED
    BY <2>1, <2>2 DEF SInv, UnfinishedIsFailed, Advance, Abort
<1>3. CASE \E k \in Kinds, s \in Server \cup {None} : begin(k, s)
  BY <1>3 DEF begin, UnfinishedIsFailed
<1>4. QED
  BY <1>1, <1>2, <1>3 DEF SetupNext, ProcessStep

-------------------------------------------------------------------------------
(* The place in an installer.  While the agent is stopped, only the command *)
(* of the installer runs ...                                                *)
LEMMA OnlyTheCommand ==
  ASSUME SInv, ProcessStep, Stopped
  PROVE  /\ Step("cli") \/ kill("cli")
         /\ pc["cli"] # "off"
<1>1. ~Step("service") /\ ~stopped /\ ~kill("service") /\ ~restart
  BY DEF Stopped, Down, Step, stopped, kill, Dies, restart, ensure, enroll, enroll_fails, save, write,
         store, fill, replace, verify, call, refresh, update_access_token, retry, clear, unlink_config
<1>2. Step("cli") \/ kill("cli")
  BY <1>1 DEF ProcessStep, Running, Process
<1>3. QED
  BY <1>2 DEF Step, kill, Dies, ensure, enroll, enroll_fails, save, write,
         store, fill, replace, verify, call, refresh, update_access_token, retry, clear, unlink_config

(* ... and leaves the service alone.                                        *)
LEMMA StoppedKept ==
  ASSUME SInv, ProcessStep, Stopped
  PROVE  Stopped'
<1>1. Step("cli") \/ kill("cli")
  BY OnlyTheCommand
<1>2. UNCHANGED wanted
  BY ProcessIsLocal DEF setup
<1>3. pc'["service"] = pc["service"]
  BY <1>1 DEF SInv, IInv, TInv, Procs, Process, Step, kill, Dies, Goto, Ends, Saved, Returns, Unauthorized,
         ensure, enroll, enroll_fails, save, write, store, fill, replace, verify, call, refresh,
         update_access_token, retry, clear, unlink_config
<1>4. QED
  BY <1>2, <1>3 DEF Stopped, Down

(* What it leaves config.yaml with is the server it was given.              *)
LEMMA AwaitingKept ==
  ASSUME SInv, ProcessStep, Stopped, NEW t \in {"set_config", "enroll"}, Awaiting(t)
  PROVE  Awaiting(t)'
<1> DEFINE p == "cli"
<1>0. /\ Step(p) \/ kill(p)
      /\ pc[p] # "off" /\ p \in Process
      /\ UNCHANGED goal
  BY OnlyTheCommand, ProcessIsLocal DEF setup, Process
<1>1. /\ task[p] = t /\ mem[p].url = goal
      /\ pc[p] \in {"enroll", "save", "write", "store", "fill", "replace", "verify"}
      /\ pc[p] \notin {"save", "write"} => t = "enroll"
      /\ t = "enroll" /\ pc[p] # "enroll" => ret[p] = "off" /\ have[p].access # 0
      /\ pc[p] = "write" => fd[p] = "config"
      /\ pc[p] \in {"store", "fill", "replace", "verify"} => Points
  BY <1>0 DEF Awaiting
<1>2. Procs
  BY DEF SInv, IInv, TInv
<1> USE DEF Procs
<1>3. CASE kill(p)
  <2>1. pc'[p] = "off" /\ exit' = "failed"
    BY <1>0, <1>2, <1>3 DEF kill, Dies, Ends
  <2>2. QED
    BY <2>1 DEF Awaiting
<1>4. CASE enroll(p)
  <2>1. /\ pc'[p] = "save" /\ task'[p] = task[p] /\ mem'[p] = [url |-> mem[p].url, dev |-> TRUE]
        /\ ret'[p] = IF task[p] = "enroll" THEN "off" ELSE "call"
    BY <1>0, <1>2, <1>4 DEF enroll, Goto
  <2>2. PICK u \in Token : have' = [have EXCEPT ![p] = [access |-> u, refresh |-> u]]
    BY <1>4 DEF enroll
  <2>3. have'[p].access = u /\ u # 0
    BY <1>0, <1>2, <2>2 DEF Token
  <2>4. QED
    BY <1>0, <1>1, <1>4, <2>1, <2>3 DEF Awaiting, enroll
<1>5. CASE enroll_fails(p)
  <2>1. pc'[p] = "off" /\ exit' = "failed"
    BY <1>0, <1>2, <1>5 DEF enroll_fails, Ends
  <2>2. QED
    BY <2>1 DEF Awaiting
<1>6. CASE save(p)
  <2>1. pc'[p] = "write" /\ fd'[p] = "config" /\ UNCHANGED <<mem, task, ret, have>>
    BY <1>0, <1>2, <1>6 DEF save, Goto
  <2>2. QED
    BY <1>0, <1>1, <1>6, <2>1 DEF Awaiting, save
<1>7. CASE write(p)
  <2>1. config'.url \in {goal, None}
    BY <1>1, <1>7 DEF write, Blank
  <2>2. \/ pc'[p] = "off"
        \/ pc'[p] = "store" /\ task[p] # "set_config" /\ UNCHANGED <<mem, task, ret, have>>
    BY <1>0, <1>1, <1>2, <1>7 DEF write, Saved, Ends, Goto
  <2>3. QED
    BY <1>0, <1>1, <1>7, <2>1, <2>2 DEF Awaiting, Points, write
<1>8. CASE store(p)
  <2>1. pc'[p] = "fill" /\ UNCHANGED <<mem, task, ret, have, config>>
    BY <1>0, <1>2, <1>8 DEF store, Goto
  <2>2. QED
    BY <1>0, <1>1, <1>8, <2>1 DEF Awaiting, Points, store
<1>9. CASE fill(p)
  <2>1. pc'[p] \in {"replace", "verify"} /\ UNCHANGED <<mem, task, ret, have, config>>
    BY <1>0, <1>2, <1>9 DEF fill, Goto
  <2>2. QED
    BY <1>0, <1>1, <1>9, <2>1 DEF Awaiting, Points, fill
<1>10. CASE replace(p)
  <2>1. /\ config' = config
        /\ \/ pc'[p] = "verify" /\ UNCHANGED <<mem, task, ret, have>>
           \/ pc'[p] = "off" /\ exit' = "failed"
    BY <1>0, <1>2, <1>10 DEF replace, Goto, Ends
  <2>2. QED
    BY <1>0, <1>1, <1>10, <2>1 DEF Awaiting, Points, replace
<1>11. CASE verify(p)
  <2>1. config' = config /\ pc'[p] = "off"
    BY <1>0, <1>1, <1>2, <1>11 DEF verify, Goto, Ends, files
  <2>2. QED
    BY <1>0, <1>1, <1>11, <2>1 DEF Awaiting, Points, verify
<1>12. QED
  BY <1>0, <1>1, <1>3, <1>4, <1>5, <1>6, <1>7, <1>8, <1>9, <1>10, <1>11
     DEF Step, ensure, call, refresh, update_access_token, retry, clear, unlink_config

(* Once config.yaml and the service agree on a server, they do until a      *)
(* command says otherwise.                                                  *)
LEMMA ServesKept ==
  ASSUME SInv, ProcessStep, pc["cli"] = "off", NEW s, Serves(s)
  PROVE  Serves(s)'
<1> DEFINE p == "service"
<1>1. Procs /\ p \in Process /\ config \in Config
  BY DEF SInv, IInv, TInv, Process, Files
<1> USE DEF Procs
<1>2. CASE restart
  <2>1. mem'[p] = config /\ config' = config /\ config.url # None
    BY <1>1, <1>2 DEF restart, run, Launch, files
  <2>2. QED
    BY <2>1 DEF Serves
<1>3. CASE Step(p)
  <2>1. pc[p] # "off"
    BY <1>3 DEF Step, ensure, enroll, enroll_fails, save, write, store, fill, replace, verify, call, refresh,
                update_access_token, retry, clear, unlink_config
  <2>2. mem[p].url = s /\ config.url \in {s, None}
    BY <2>1 DEF Serves, Down
  <2>3. config'.url \in {s, None}
    BY <1>3, <2>2 DEF Step, ensure, enroll, enroll_fails, save, write, store, fill, replace, verify, call,
                refresh, update_access_token, retry, clear, unlink_config, files, Blank
  <2>4. pc'[p] = "off" \/ mem'[p].url = mem[p].url
    BY <1>1, <1>3 DEF Step, Goto, Ends, Saved, Returns, Unauthorized, ensure, enroll, enroll_fails, save,
                write, store, fill, replace, verify, call, refresh, update_access_token, retry, clear,
                unlink_config
  <2>5. QED
    BY <2>2, <2>3, <2>4 DEF Serves, Down
<1>4. CASE stopped \/ kill(p)
  BY <1>1, <1>4 DEF stopped, kill, Dies, Ends, files, Serves, Down
<1>5. ~Step("cli") /\ ~kill("cli")
  BY DEF Step, kill, Dies, ensure, enroll, enroll_fails, save, write, store, fill, replace, verify, call,
         refresh, update_access_token, retry, clear, unlink_config
<1>6. QED
  BY <1>2, <1>3, <1>4, <1>5 DEF ProcessStep, Running, Process

-------------------------------------------------------------------------------
(* Which action the next step of a script is.                               *)
LEMMA StepAt ==
  ASSUME ScriptStep, NEW step, At(step)
  PROVE  /\ step \in {"sc stop", "bootout"} => ask_to_stop \/ ask_in_vain
         /\ step = "wait" => wait
         /\ step = "kill" => force_kill
         /\ step = "set_config_if_missing" => keep_config \/ command
         /\ step \in {"enroll", "set_config"} => command
         /\ step = "await" => await
         /\ step = "remove" => remove
         /\ step = "copy" => copy
         /\ step = "register" => register
         /\ step \in {"start", "bootstrap"} => start
         /\ step = "kickstart" => kickstart
BY DEF ScriptStep, At, ask_to_stop, ask_in_vain, wait, force_kill, keep_config, command, command_refused, await,
       remove, copy, register, start, kickstart, erase_data

(* A failure the script has gone on from is not forgotten.                  *)
LEMMA IgnoredStays ==
  ASSUME SInv, ScriptStep, ~ignored'
  PROVE  ~ignored
<1>1. CASE ask_in_vain
  BY <1>1, Zenon DEF ask_in_vain
<1>2. CASE force_kill
  BY <1>2, Zenon DEF force_kill
<1>3. CASE remove
  BY <1>3, Zenon DEF remove
<1>4. CASE ~ask_in_vain /\ ~force_kill /\ ~remove
  <2>1. ignored' = ignored
    BY <1>4 DEF ScriptStep, ask_to_stop, wait, keep_config, command, command_refused, await,
                copy, register, start, kickstart, erase_data
  <2>2. QED
    BY <2>1, Zenon
<1>5. QED
  BY <1>1, <1>2, <1>3, <1>4

(* ... and what each does to the place in an installer.                     *)
LEMMA AskEffect ==
  ASSUME ask_to_stop \/ ask_in_vain
  PROVE  script' = Tail(script)
BY DEF ask_to_stop, ask_in_vain, Advance

LEMMA BootoutEffect ==
  ASSUME At("bootout"), ask_to_stop \/ ask_in_vain, ~ignored'
  PROVE  ~wanted' /\ (Stopped => Stopped') /\ (Stopped /\ Points => Points')
<1>1. ask_to_stop
  BY Zenon DEF ask_in_vain
<1>2. ~wanted' /\ goal' = goal
  BY <1>1 DEF ask_to_stop
<1>3. Stopped => UNCHANGED vars
  BY <1>1 DEF ask_to_stop, stop, Stopped, Down
<1>4. QED
  BY <1>2, <1>3 DEF Stopped, Down, Points, vars, process, files

LEMMA WaitEffect ==
  ASSUME SInv, wait, script # <<>>
  PROVE  script' = Tail(script) \/ Done'
BY DEF wait, Advance, Abort, Done, SInv, UnfinishedIsFailed

LEMMA KillEffect ==
  ASSUME SInv, force_kill, ~wanted, ~ignored'
  PROVE  script' = Tail(script) /\ Stopped'
<1>1. script' = Tail(script) /\ ~wanted'
  BY DEF force_kill, Advance
<1>2. (Down /\ UNCHANGED vars) \/ terminate
  BY Zenon DEF force_kill
<1>3. Down'
  BY <1>2 DEF terminate, Dies, Ends, Down, vars, process, SInv, IInv, TInv, Procs, Process
<1>4. QED
  BY <1>1, <1>3 DEF Stopped

LEMMA RemoveEffect ==
  ASSUME remove, ~ignored'
  PROVE  script' = Tail(script) /\ ~wanted'
<1>1. ~wanted'
  BY Zenon DEF remove
<1>2. QED
  BY <1>1 DEF remove, Advance

LEMMA CopyEffect ==
  ASSUME SInv, copy, ~wanted, script # <<>>
  PROVE  \/ script' = Tail(script) /\ Stopped'
         \/ Done'
BY DEF copy, Advance, Abort, Stopped, Down, Done, vars, process, SInv, UnfinishedIsFailed

LEMMA RegisterEffect ==
  ASSUME SInv, register, Stopped, script # <<>>
  PROVE  \/ script' = Tail(script) /\ Stopped' /\ (Points => Points')
         \/ Done'
BY DEF register, Advance, Abort, Stopped, Down, Done, Points, vars, process, files, SInv, UnfinishedIsFailed

LEMMA StartEffect ==
  ASSUME SInv, start, Stopped, Points, script # <<>>
  PROVE  \/ script' = Tail(script) /\ Serves(goal)'
         \/ Done'
<1>1. Serves(goal)'
  BY DEF start, Stopped, Down, Points, Serves, vars, process, files
<1>2. Advance \/ Abort
  BY DEF start
<1>3. QED
  BY <1>1, <1>2 DEF Advance, Abort, Done, SInv, UnfinishedIsFailed

LEMMA KickEffect ==
  ASSUME SInv, kickstart, Serves(goal), script # <<>>
  PROVE  \/ script' = Tail(script) /\ Serves(goal)'
         \/ Done'
<1>1. Serves(goal)'
  BY DEF kickstart, terminate, Dies, Ends, Serves, Down, vars, process, files, SInv, IInv, TInv,
         Procs, Process
<1>2. Advance \/ Abort
  BY DEF kickstart
<1>3. QED
  BY <1>1, <1>2 DEF Advance, Abort, Done, SInv, UnfinishedIsFailed

LEMMA KeepEffect ==
  ASSUME keep_config, Stopped
  PROVE  script' = Tail(script) /\ Stopped' /\ Points'
BY DEF keep_config, Advance, Stopped, Down, Points, vars, process, files

LEMMA AwaitEffect ==
  ASSUME SInv, await, Stopped, NEW t, Awaiting(t), script # <<>>
  PROVE  \/ script' = Tail(script) /\ Stopped' /\ Points'
         \/ Done'
BY DEF await, Advance, Abort, Awaiting, Done, Stopped, Down, Points, vars, process, files, SInv,
       UnfinishedIsFailed

LEMMA LaunchEffect ==
  ASSUME SInv, Stopped, command, NEW step, At(step), step \in {"set_config", "set_config_if_missing", "enroll"}
  PROVE  /\ script' = [script EXCEPT ![1] = "await"]
         /\ Stopped'
         /\ step # "enroll" => Awaiting("set_config")'
         /\ step = "enroll" => Awaiting("enroll")'
<1>1. /\ script' = [script EXCEPT ![1] = "await"]
      /\ UNCHANGED <<goal, wanted>>
  BY DEF command
<1>2. step # "enroll" => set_config(goal)
  BY DEF command, At
<1>3. step = "enroll" => enroll_command(goal)
  BY DEF command, At
<1>4. Procs /\ "cli" \in Process
  BY DEF SInv, IInv, TInv, Process
<1>5. ASSUME set_config(goal) PROVE Stopped' /\ Awaiting("set_config")'
  <2>1. /\ pc' = [pc EXCEPT !["cli"] = "save"] /\ task' = [task EXCEPT !["cli"] = "set_config"]
        /\ mem' = [mem EXCEPT !["cli"] = [url |-> goal, dev |-> config.dev]]
    BY <1>5 DEF set_config, Launch, Goto
  <2>2. pc'["cli"] = "save" /\ task'["cli"] = "set_config" /\ mem'["cli"].url = goal
    BY <1>4, <2>1 DEF Procs
  <2>3. pc'["service"] = pc["service"]
    BY <1>4, <2>1 DEF Procs, Process
  <2>4. QED
    BY <1>1, <2>2, <2>3 DEF Awaiting, Stopped, Down
<1>6. ASSUME enroll_command(goal) PROVE Stopped' /\ Awaiting("enroll")'
  <2>1. /\ pc' = [pc EXCEPT !["cli"] = "enroll"] /\ task' = [task EXCEPT !["cli"] = "enroll"]
        /\ mem' = [mem EXCEPT !["cli"] = [url |-> goal, dev |-> config.dev]]
    BY <1>6 DEF enroll_command, Launch, Goto
  <2>2. pc'["cli"] = "enroll" /\ task'["cli"] = "enroll" /\ mem'["cli"].url = goal
    BY <1>4, <2>1 DEF Procs
  <2>3. pc'["service"] = pc["service"]
    BY <1>4, <2>1 DEF Procs, Process
  <2>4. QED
    BY <1>1, <2>2, <2>3 DEF Awaiting, Stopped, Down
<1>7. QED
  BY <1>1, <1>2, <1>3, <1>5, <1>6

(* The steps of the installers.                                             *)
LEMMA PkgStep ==
  ASSUME SInv, ScriptStep, ~ignored', PkgStage
  PROVE  PkgStage'
<1>1. CASE script = <<"bootout", "kill", "set_config_if_missing", "bootout", "bootstrap", "kickstart">>
  <2>1. /\ At("bootout")
        /\ script # <<>>
        /\ Tail(script) = <<"kill", "set_config_if_missing", "bootout", "bootstrap", "kickstart">>
    <3>1. /\ <<"bootout", "kill", "set_config_if_missing", "bootout", "bootstrap", "kickstart">> # <<>>
          /\ Head(<<"bootout", "kill", "set_config_if_missing", "bootout", "bootstrap", "kickstart">>) = "bootout"
      OBVIOUS
    <3>2. Tail(<<"bootout", "kill", "set_config_if_missing", "bootout", "bootstrap", "kickstart">>)
            = <<"kill", "set_config_if_missing", "bootout", "bootstrap", "kickstart">>
      BY SMTT(60)
    <3>3. script = <<"bootout", "kill", "set_config_if_missing", "bootout", "bootstrap", "kickstart">>
      BY <1>1
    <3>4. QED
      BY <3>1, <3>2, <3>3, Zenon DEF At
  <2>2. ask_to_stop \/ ask_in_vain
    BY <2>1, StepAt
  <2>3. script' = <<"kill", "set_config_if_missing", "bootout", "bootstrap", "kickstart">> /\ ~wanted'
    BY <1>1, <2>1, <2>2, AskEffect, BootoutEffect
  <2>4. QED
    BY <2>3 DEF PkgStage
<1>2. CASE script = <<"kill", "set_config_if_missing", "bootout", "bootstrap", "kickstart">> /\ ~wanted
  <2>1. /\ At("kill") /\ script # <<>>
        /\ Tail(script) = <<"set_config_if_missing", "bootout", "bootstrap", "kickstart">>
    BY <1>2 DEF At
  <2>2. force_kill
    BY <2>1, StepAt
  <2>3. script' = <<"set_config_if_missing", "bootout", "bootstrap", "kickstart">> /\ Stopped'
    BY <1>2, <2>1, <2>2, KillEffect
  <2>4. QED
    BY <2>3 DEF PkgStage
<1>3. CASE script = <<"set_config_if_missing", "bootout", "bootstrap", "kickstart">> /\ Stopped
  <2>1. /\ At("set_config_if_missing") /\ script # <<>>
        /\ Tail(script) = <<"bootout", "bootstrap", "kickstart">>
    BY <1>3 DEF At
  <2>2. [script EXCEPT ![1] = "await"] = <<"await", "bootout", "bootstrap", "kickstart">>
    BY <1>3
  <2>3. CASE command
    <3>1. script' = <<"await", "bootout", "bootstrap", "kickstart">> /\ Stopped' /\ Awaiting("set_config")'
      BY <1>3, <2>1, <2>2, <2>3, LaunchEffect
    <3>2. QED
      BY <3>1 DEF PkgStage
  <2>4. CASE keep_config
    <3>1. script' = <<"bootout", "bootstrap", "kickstart">> /\ Stopped' /\ Points'
      BY <1>3, <2>1, <2>4, KeepEffect
    <3>2. QED
      BY <3>1 DEF PkgStage
  <2>5. QED
    BY <2>1, <2>3, <2>4, StepAt
<1>4. CASE script = <<"await", "bootout", "bootstrap", "kickstart">> /\ Stopped /\ Awaiting("set_config")
  <2>1. /\ At("await") /\ script # <<>>
        /\ Tail(script) = <<"bootout", "bootstrap", "kickstart">>
    BY <1>4 DEF At
  <2>2. await
    BY <2>1, StepAt
  <2>3. (script' = <<"bootout", "bootstrap", "kickstart">> /\ Stopped' /\ Points') \/ Done'
    BY <1>4, <2>1, <2>2, AwaitEffect
  <2>4. QED
    BY <2>3 DEF PkgStage
<1>5. CASE script = <<"bootout", "bootstrap", "kickstart">> /\ Stopped /\ Points
  <2>1. /\ At("bootout") /\ script # <<>>
        /\ Tail(script) = <<"bootstrap", "kickstart">>
    BY <1>5 DEF At
  <2>2. ask_to_stop \/ ask_in_vain
    BY <2>1, StepAt
  <2>3. script' = <<"bootstrap", "kickstart">> /\ Stopped' /\ Points'
    BY <1>5, <2>1, <2>2, AskEffect, BootoutEffect
  <2>4. QED
    BY <2>3 DEF PkgStage
<1>6. CASE script = <<"bootstrap", "kickstart">> /\ Stopped /\ Points
  <2>1. /\ At("bootstrap") /\ script # <<>>
        /\ Tail(script) = <<"kickstart">>
    BY <1>6 DEF At
  <2>2. start
    BY <2>1, StepAt
  <2>3. (script' = <<"kickstart">> /\ Serves(goal)') \/ Done'
    BY <1>6, <2>1, <2>2, StartEffect
  <2>4. QED
    BY <2>3 DEF PkgStage
<1>7. CASE script = <<"kickstart">> /\ Serves(goal)
  <2>1. /\ At("kickstart") /\ script # <<>>
        /\ Tail(script) = <<>>
    BY <1>7 DEF At
  <2>2. kickstart
    BY <2>1, StepAt
  <2>3. (script' = <<>> /\ Serves(goal)') \/ Done'
    BY <1>7, <2>1, <2>2, KickEffect
  <2>4. QED
    BY <2>3 DEF PkgStage, Done
<1>8. CASE Done
  BY <1>8 DEF Done, ScriptStep, At, ask_to_stop, ask_in_vain, wait, force_kill, keep_config, command,
          command_refused, await, remove, copy, register, start, kickstart, erase_data
<1>9. QED
  BY <1>1, <1>2, <1>3, <1>4, <1>5, <1>6, <1>7, <1>8 DEF PkgStage

LEMMA GuiStep ==
  ASSUME SInv, ScriptStep, ~ignored', GuiStage
  PROVE  GuiStage'
<1>1. CASE script = <<"sc stop", "remove", "copy", "register", "enroll", "start">>
  <2>1. /\ At("sc stop")
        /\ script # <<>>
        /\ Tail(script) = <<"remove", "copy", "register", "enroll", "start">>
    <3>1. /\ <<"sc stop", "remove", "copy", "register", "enroll", "start">> # <<>>
          /\ Head(<<"sc stop", "remove", "copy", "register", "enroll", "start">>) = "sc stop"
      OBVIOUS
    <3>2. Tail(<<"sc stop", "remove", "copy", "register", "enroll", "start">>)
            = <<"remove", "copy", "register", "enroll", "start">>
      BY SMTT(60)
    <3>3. script = <<"sc stop", "remove", "copy", "register", "enroll", "start">>
      BY <1>1
    <3>4. QED
      BY <3>1, <3>2, <3>3, Zenon DEF At
  <2>2. ask_to_stop \/ ask_in_vain
    BY <2>1, StepAt
  <2>3. script' = <<"remove", "copy", "register", "enroll", "start">>
    BY <1>1, <2>1, <2>2, AskEffect
  <2>4. QED
    BY <2>3 DEF GuiStage
<1>2. CASE script = <<"remove", "copy", "register", "enroll", "start">>
  <2>1. /\ At("remove") /\ script # <<>>
        /\ Tail(script) = <<"copy", "register", "enroll", "start">>
    BY <1>2 DEF At
  <2>2. remove
    BY <2>1, StepAt
  <2>3. script' = <<"copy", "register", "enroll", "start">> /\ ~wanted'
    BY <1>2, <2>1, <2>2, RemoveEffect
  <2>4. QED
    BY <2>3 DEF GuiStage
<1>3. CASE script = <<"copy", "register", "enroll", "start">> /\ ~wanted
  <2>1. /\ At("copy") /\ script # <<>>
        /\ Tail(script) = <<"register", "enroll", "start">>
    BY <1>3 DEF At
  <2>2. copy
    BY <2>1, StepAt
  <2>3. (script' = <<"register", "enroll", "start">> /\ Stopped') \/ Done'
    BY <1>3, <2>1, <2>2, CopyEffect
  <2>4. QED
    BY <2>3 DEF GuiStage
<1>4. CASE script = <<"register", "enroll", "start">> /\ Stopped
  <2>1. /\ At("register") /\ script # <<>>
        /\ Tail(script) = <<"enroll", "start">>
    BY <1>4 DEF At
  <2>2. register
    BY <2>1, StepAt
  <2>3. (script' = <<"enroll", "start">> /\ Stopped') \/ Done'
    BY <1>4, <2>1, <2>2, RegisterEffect
  <2>4. QED
    BY <2>3 DEF GuiStage
<1>5. CASE script = <<"enroll", "start">> /\ Stopped
  <2>1. /\ At("enroll") /\ script # <<>>
        /\ Tail(script) = <<"start">>
    BY <1>5 DEF At
  <2>2. [script EXCEPT ![1] = "await"] = <<"await", "start">>
    BY <1>5
  <2>3. command
    BY <2>1, StepAt
  <2>4. script' = <<"await", "start">> /\ Stopped' /\ Awaiting("enroll")'
    BY <1>5, <2>1, <2>2, <2>3, LaunchEffect
  <2>5. QED
    BY <2>4 DEF GuiStage
<1>6. CASE script = <<"await", "start">> /\ Stopped /\ Awaiting("enroll")
  <2>1. /\ At("await") /\ script # <<>>
        /\ Tail(script) = <<"start">>
    BY <1>6 DEF At
  <2>2. await
    BY <2>1, StepAt
  <2>3. (script' = <<"start">> /\ Stopped' /\ Points') \/ Done'
    BY <1>6, <2>1, <2>2, AwaitEffect
  <2>4. QED
    BY <2>3 DEF GuiStage
<1>7. CASE script = <<"start">> /\ Stopped /\ Points
  <2>1. /\ At("start") /\ script # <<>>
        /\ Tail(script) = <<>>
    BY <1>7 DEF At
  <2>2. start
    BY <2>1, StepAt
  <2>3. (script' = <<>> /\ Serves(goal)') \/ Done'
    BY <1>7, <2>1, <2>2, StartEffect
  <2>4. QED
    BY <2>3 DEF GuiStage, Done
<1>8. CASE Done
  BY <1>8 DEF Done, ScriptStep, At, ask_to_stop, ask_in_vain, wait, force_kill, keep_config, command,
          command_refused, await, remove, copy, register, start, kickstart, erase_data
<1>9. QED
  BY <1>1, <1>2, <1>3, <1>4, <1>5, <1>6, <1>7, <1>8 DEF GuiStage

LEMMA Ps1Step ==
  ASSUME SInv, ScriptStep, ~ignored', Ps1Stage
  PROVE  Ps1Stage'
<1>1. CASE script = <<"sc stop", "wait", "remove", "copy", "set_config", "register", "start">>
  <2>1. /\ At("sc stop")
        /\ script # <<>>
        /\ Tail(script) = <<"wait", "remove", "copy", "set_config", "register", "start">>
    <3>1. /\ <<"sc stop", "wait", "remove", "copy", "set_config", "register", "start">> # <<>>
          /\ Head(<<"sc stop", "wait", "remove", "copy", "set_config", "register", "start">>) = "sc stop"
      OBVIOUS
    <3>2. Tail(<<"sc stop", "wait", "remove", "copy", "set_config", "register", "start">>)
            = <<"wait", "remove", "copy", "set_config", "register", "start">>
      BY SMTT(60)
    <3>3. script = <<"sc stop", "wait", "remove", "copy", "set_config", "register", "start">>
      BY <1>1
    <3>4. QED
      BY <3>1, <3>2, <3>3, Zenon DEF At
  <2>2. ask_to_stop \/ ask_in_vain
    BY <2>1, StepAt
  <2>3. script' = <<"wait", "remove", "copy", "set_config", "register", "start">>
    BY <1>1, <2>1, <2>2, AskEffect
  <2>4. QED
    BY <2>3 DEF Ps1Stage
<1>2. CASE script = <<"wait", "remove", "copy", "set_config", "register", "start">>
  <2>1. /\ At("wait")
        /\ script # <<>>
        /\ Tail(script) = <<"remove", "copy", "set_config", "register", "start">>
    <3>1. /\ <<"wait", "remove", "copy", "set_config", "register", "start">> # <<>>
          /\ Head(<<"wait", "remove", "copy", "set_config", "register", "start">>) = "wait"
      OBVIOUS
    <3>2. Tail(<<"wait", "remove", "copy", "set_config", "register", "start">>)
            = <<"remove", "copy", "set_config", "register", "start">>
      BY SMTT(60)
    <3>3. script = <<"wait", "remove", "copy", "set_config", "register", "start">>
      BY <1>2
    <3>4. QED
      BY <3>1, <3>2, <3>3, Zenon DEF At
  <2>2. wait
    BY <2>1, StepAt
  <2>3. (script' = <<"remove", "copy", "set_config", "register", "start">>) \/ Done'
    BY <1>2, <2>1, <2>2, WaitEffect
  <2>4. QED
    BY <2>3 DEF Ps1Stage
<1>3. CASE script = <<"remove", "copy", "set_config", "register", "start">>
  <2>1. /\ At("remove") /\ script # <<>>
        /\ Tail(script) = <<"copy", "set_config", "register", "start">>
    BY <1>3 DEF At
  <2>2. remove
    BY <2>1, StepAt
  <2>3. script' = <<"copy", "set_config", "register", "start">> /\ ~wanted'
    BY <1>3, <2>1, <2>2, RemoveEffect
  <2>4. QED
    BY <2>3 DEF Ps1Stage
<1>4. CASE script = <<"copy", "set_config", "register", "start">> /\ ~wanted
  <2>1. /\ At("copy") /\ script # <<>>
        /\ Tail(script) = <<"set_config", "register", "start">>
    BY <1>4 DEF At
  <2>2. copy
    BY <2>1, StepAt
  <2>3. (script' = <<"set_config", "register", "start">> /\ Stopped') \/ Done'
    BY <1>4, <2>1, <2>2, CopyEffect
  <2>4. QED
    BY <2>3 DEF Ps1Stage
<1>5. CASE script = <<"set_config", "register", "start">> /\ Stopped
  <2>1. /\ At("set_config") /\ script # <<>>
        /\ Tail(script) = <<"register", "start">>
    BY <1>5 DEF At
  <2>2. [script EXCEPT ![1] = "await"] = <<"await", "register", "start">>
    BY <1>5
  <2>3. command
    BY <2>1, StepAt
  <2>4. script' = <<"await", "register", "start">> /\ Stopped' /\ Awaiting("set_config")'
    BY <1>5, <2>1, <2>2, <2>3, LaunchEffect
  <2>5. QED
    BY <2>4 DEF Ps1Stage
<1>6. CASE script = <<"await", "register", "start">> /\ Stopped /\ Awaiting("set_config")
  <2>1. /\ At("await") /\ script # <<>>
        /\ Tail(script) = <<"register", "start">>
    BY <1>6 DEF At
  <2>2. await
    BY <2>1, StepAt
  <2>3. (script' = <<"register", "start">> /\ Stopped' /\ Points') \/ Done'
    BY <1>6, <2>1, <2>2, AwaitEffect
  <2>4. QED
    BY <2>3 DEF Ps1Stage
<1>7. CASE script = <<"register", "start">> /\ Stopped /\ Points
  <2>1. /\ At("register") /\ script # <<>>
        /\ Tail(script) = <<"start">>
    BY <1>7 DEF At
  <2>2. register
    BY <2>1, StepAt
  <2>3. (script' = <<"start">> /\ Stopped' /\ Points') \/ Done'
    BY <1>7, <2>1, <2>2, RegisterEffect
  <2>4. QED
    BY <2>3 DEF Ps1Stage
<1>8. CASE script = <<"start">> /\ Stopped /\ Points
  <2>1. /\ At("start") /\ script # <<>>
        /\ Tail(script) = <<>>
    BY <1>8 DEF At
  <2>2. start
    BY <2>1, StepAt
  <2>3. (script' = <<>> /\ Serves(goal)') \/ Done'
    BY <1>8, <2>1, <2>2, StartEffect
  <2>4. QED
    BY <2>3 DEF Ps1Stage, Done
<1>9. CASE Done
  BY <1>9 DEF Done, ScriptStep, At, ask_to_stop, ask_in_vain, wait, force_kill, keep_config, command,
          command_refused, await, remove, copy, register, start, kickstart, erase_data
<1>10. QED
  BY <1>1, <1>2, <1>3, <1>4, <1>5, <1>6, <1>7, <1>8, <1>9 DEF Ps1Stage

LEMMA StagesKept ==
  ASSUME SInv, [SetupNext]_allvars
  PROVE  Stages'
<1>1. CASE ProcessStep
  <2>1. UNCHANGED setup
    BY <1>1, ProcessIsLocal
  <2>2. ~wanted => ~wanted'
    BY <2>1 DEF setup
  <2>3. Stopped => Stopped'
    BY <1>1, StoppedKept
  <2>4. Stopped => script # <<>> /\ Head(script) = "await"
    BY <1>1, OnlyTheCommand DEF SInv, CommandAwaited
  <2>5. \A t \in {"set_config", "enroll"} : Stopped /\ Awaiting(t) => Awaiting(t)'
    BY <1>1, AwaitingKept
  <2>6. Serves(goal) /\ (script = <<>> \/ Head(script) = "kickstart") => Serves(goal)'
    <3>1. script = <<>> \/ Head(script) = "kickstart" => pc["cli"] = "off"
      BY DEF SInv, CommandAwaited
    <3>2. goal' = goal
      BY <2>1 DEF setup
    <3>3. QED
      BY <1>1, <3>1, <3>2, ServesKept
  <2>7. Done => Done'
    BY <2>1, <2>6 DEF Done, setup
  <2>8. PkgStage => PkgStage'
    <3>1. CASE script = <<"bootout", "kill", "set_config_if_missing", "bootout", "bootstrap", "kickstart">>
      BY <2>1, <3>1 DEF PkgStage, setup
    <3>2. CASE script = <<"kill", "set_config_if_missing", "bootout", "bootstrap", "kickstart">> /\ ~wanted
      BY <2>1, <2>2, <3>2 DEF PkgStage, setup
    <3>3. CASE script = <<"await", "bootout", "bootstrap", "kickstart">> /\ Stopped /\ Awaiting("set_config")
      BY <2>1, <2>3, <2>5, <3>3 DEF PkgStage, setup
    <3>4. CASE /\ script \in {<<"set_config_if_missing", "bootout", "bootstrap", "kickstart">>,
                              <<"bootout", "bootstrap", "kickstart">>,
                              <<"bootstrap", "kickstart">>}
               /\ Stopped
      <4>1. Head(script) # "await"
        BY <3>4
      <4>2. QED
        BY <2>4, <3>4, <4>1
    <3>5. CASE script = <<"kickstart">> /\ Serves(goal)
      <4>1. Head(script) = "kickstart"
        BY <3>5
      <4>2. QED
        BY <2>1, <2>6, <3>5, <4>1 DEF PkgStage, setup
    <3>6. QED
      BY <2>7, <3>1, <3>2, <3>3, <3>4, <3>5 DEF PkgStage
  <2>9. GuiStage => GuiStage'
    <3>1. CASE script \in {<<"sc stop", "remove", "copy", "register", "enroll", "start">>,
                          <<"remove", "copy", "register", "enroll", "start">>}
      BY <2>1, <3>1 DEF GuiStage, setup
    <3>2. CASE script = <<"copy", "register", "enroll", "start">> /\ ~wanted
      BY <2>1, <2>2, <3>2 DEF GuiStage, setup
    <3>3. CASE script = <<"await", "start">> /\ Stopped /\ Awaiting("enroll")
      BY <2>1, <2>3, <2>5, <3>3 DEF GuiStage, setup
    <3>4. CASE /\ script \in {<<"register", "enroll", "start">>, <<"enroll", "start">>, <<"start">>}
               /\ Stopped
      <4>1. Head(script) # "await"
        BY <3>4
      <4>2. QED
        BY <2>4, <3>4, <4>1
    <3>5. QED
      BY <2>7, <3>1, <3>2, <3>3, <3>4 DEF GuiStage
  <2>10. Ps1Stage => Ps1Stage'
    <3>1. CASE script \in {<<"sc stop", "wait", "remove", "copy", "set_config", "register", "start">>,
                          <<"wait", "remove", "copy", "set_config", "register", "start">>,
                          <<"remove", "copy", "set_config", "register", "start">>}
      BY <2>1, <3>1 DEF Ps1Stage, setup
    <3>2. CASE script = <<"copy", "set_config", "register", "start">> /\ ~wanted
      BY <2>1, <2>2, <3>2 DEF Ps1Stage, setup
    <3>3. CASE script = <<"await", "register", "start">> /\ Stopped /\ Awaiting("set_config")
      BY <2>1, <2>3, <2>5, <3>3 DEF Ps1Stage, setup
    <3>4. CASE /\ script \in {<<"set_config", "register", "start">>, <<"register", "start">>, <<"start">>}
               /\ Stopped
      <4>1. Head(script) # "await"
        BY <3>4
      <4>2. QED
        BY <2>4, <3>4, <4>1
    <3>5. QED
      BY <2>7, <3>1, <3>2, <3>3, <3>4 DEF Ps1Stage
  <2>11. QED
    BY <2>1, <2>8, <2>9, <2>10 DEF setup, SInv, Stages
<1>2. CASE ScriptStep
  <2>1. kind' = kind
    BY <1>2 DEF ScriptStep, Advance, Abort, ask_to_stop, ask_in_vain, wait, force_kill, keep_config, command, command_refused,
                await, remove, copy, register, start, kickstart, erase_data
  <2>2. QED
    BY <1>2, <2>1, IgnoredStays, PkgStep, GuiStep, Ps1Step DEF SInv, Stages
<1>3. CASE \E k \in Kinds, s \in Server \cup {None} : begin(k, s)
  <2>1. PICK k \in Kinds, s \in Server \cup {None} : begin(k, s)
    BY <1>3
  <2>2. kind' = k /\ script' = StepsOf(k)
    BY <2>1 DEF begin
  <2>3. k = "pkg" => PkgStage'
    BY <2>2 DEF PkgStage, StepsOf
  <2>4. k = "gui" => GuiStage'
    BY <2>2 DEF GuiStage, StepsOf
  <2>5. k = "ps1" => Ps1Stage'
    BY <2>2 DEF Ps1Stage, StepsOf
  <2>6. QED
    BY <2>2, <2>3, <2>4, <2>5 DEF Stages
<1>4. CASE UNCHANGED allvars
  <2>1. /\ kind' = kind /\ script' = script /\ goal' = goal /\ outcome' = outcome /\ wanted' = wanted
        /\ ignored' = ignored /\ config' = config /\ pc' = pc /\ mem' = mem /\ task' = task /\ have' = have /\ ret' = ret
        /\ fd' = fd /\ exit' = exit
    BY <1>4 DEF allvars, setup, vars, process, files
  <2>2. (Stopped <=> Stopped') /\ (Points <=> Points') /\ (Done <=> Done')
    BY <2>1 DEF Stopped, Down, Points, Done, Serves
  <2>3. Awaiting("enroll") <=> Awaiting("enroll")'
    BY <2>1, <2>2 DEF Awaiting
  <2>4. Awaiting("set_config") <=> Awaiting("set_config")'
    BY <2>1, <2>2 DEF Awaiting
  <2>5. (Serves(goal) <=> Serves(goal)')
    BY <2>1 DEF Serves, Down
  <2>6. (PkgStage => PkgStage') /\ (GuiStage => GuiStage') /\ (Ps1Stage => Ps1Stage')
    BY <2>1, <2>2, <2>3, <2>4, <2>5 DEF PkgStage, GuiStage, Ps1Stage
  <2>7. QED
    BY <2>1, <2>6 DEF SInv, Stages
<1>5. QED
  BY <1>1, <1>2, <1>3, <1>4 DEF SetupNext, ProcessStep

(* Who runs a command with a server was given one. *)
LEMMA GoalKept ==
  ASSUME SInv, [SetupNext]_allvars
  PROVE  GoalGiven'
<1>1. CASE ProcessStep \/ UNCHANGED allvars
  BY <1>1, ProcessIsLocal DEF allvars, setup, SInv, GoalGiven
<1>2. CASE ScriptStep
  <2>1. PICK step : At(step)
    BY <1>2 DEF ScriptStep, ask_to_stop, ask_in_vain, wait, force_kill, keep_config, command, command_refused, await,
                remove, copy, register, start, kickstart, erase_data
  <2>2. kind' = kind
    BY <1>2 DEF ScriptStep, Advance, Abort, ask_to_stop, ask_in_vain, wait, force_kill, keep_config, command, command_refused,
                await, remove, copy, register, start, kickstart, erase_data
  <2>3. CASE keep_config
    <3>1. At("set_config_if_missing") /\ script' = Tail(script)
      BY <2>3 DEF keep_config, Advance
    <3>2. \A i \in 1 .. Len(script') : /\ script'[i] = script[i + 1]
                                      /\ 1 \in 1 .. Len(script) /\ i + 1 \in 1 .. Len(script) /\ 1 < i + 1
                                      /\ script[1] = "set_config_if_missing"
      BY <3>1, Heads DEF SInv, SetupTyped
    <3>3. \A i \in 1 .. Len(script') : script'[i] \notin TakesServer
      BY <3>2 DEF SInv, GoalGiven
    <3>4. QED
      BY <3>3 DEF GoalGiven
  <2>4. CASE ~keep_config
    <3>1. goal' = goal
      BY <1>2, <2>4 DEF ScriptStep, ask_to_stop, ask_in_vain, wait, force_kill, command, command_refused, await, remove, copy,
                        register, start, kickstart, erase_data
    <3>2. script' \in {Tail(script), [script EXCEPT ![1] = "await"], <<>>}
      BY <1>2, <2>4 DEF ScriptStep, Advance, Abort, ask_to_stop, ask_in_vain, wait, force_kill, command, command_refused,
                        await, remove, copy, register, start, kickstart, erase_data
    <3>3. CASE script' = Tail(script)
      <4>1. \A i \in 1 .. Len(script') : script'[i] = script[i + 1] /\ i + 1 \in 1 .. Len(script) /\ i \in Nat
        BY <2>1, <3>3, Heads DEF SInv, SetupTyped
      <4>2. \A i, j \in Nat : i < j => i + 1 < j + 1
        OBVIOUS
      <4>3. QED
        BY <3>1, <4>1, <4>2 DEF SInv, GoalGiven
    <3>4. CASE script' = [script EXCEPT ![1] = "await"]
      <4>1. script \in Seq(AnyStep)
        BY DEF SInv, SetupTyped
      <4>2. /\ Len(script') = Len(script)
            /\ \A i \in 1 .. Len(script) : script'[i] \in {script[i], "await"}
        BY <3>4, <4>1
      <4>3. "await" \notin TakesServer
        BY DEF TakesServer
      <4>4. \A i \in 1 .. Len(script') : script'[i] \in TakesServer => goal' \in Server
        BY <3>1, <4>2, <4>3 DEF SInv, GoalGiven
      <4>5. ASSUME NEW i \in 1 .. Len(script'), NEW j \in 1 .. Len(script'),
                   script'[i] = "set_config_if_missing", i < j
            PROVE  script'[j] \notin TakesServer
        BY <4>2, <4>3, <4>5 DEF SInv, GoalGiven
      <4>6. QED
        BY <4>4, <4>5 DEF GoalGiven
    <3>5. CASE script' = <<>>
      BY <3>5 DEF GoalGiven
    <3>6. QED
      BY <3>2, <3>3, <3>4, <3>5
  <2>5. QED
    BY <2>3, <2>4
<1>3. CASE \E k \in Kinds, s \in Server \cup {None} : begin(k, s)
  <2>1. PICK k \in Kinds, s \in Server \cup {None} : begin(k, s)
    BY <1>3
  <2>2. kind' = k /\ script' = StepsOf(k) /\ goal' = s /\ (k \in WithServer => s \in Server)
    BY <2>1 DEF begin
  <2>3. script' \in Seq(Allowed(k))
    BY <2>2, StepsTyped
  <2>4. \A i \in 1 .. Len(script') : script'[i] \in Allowed(k)
    BY <2>3
  <2>5. \A i \in 1 .. Len(script') : script'[i] \in TakesServer => goal' \in Server
    BY <2>2, <2>4 DEF Allowed, TakesServer
  <2>6. ASSUME NEW i \in 1 .. Len(script'), NEW j \in 1 .. Len(script'),
               script'[i] = "set_config_if_missing", i < j
        PROVE  script'[j] \notin TakesServer
    <3>1. k = "pkg"
      BY <2>4, <2>6 DEF Allowed
    <3>2. script' = <<"bootout", "kill", "set_config_if_missing", "bootout", "bootstrap", "kickstart">>
      BY <2>2, <3>1 DEF StepsOf
    <3>3. /\ i \in 1 .. 6 /\ j \in 1 .. 6
          /\ script'[1] # "set_config_if_missing" /\ script'[2] # "set_config_if_missing"
          /\ script'[4] \notin TakesServer /\ script'[5] \notin TakesServer /\ script'[6] \notin TakesServer
      BY <3>2 DEF TakesServer
    <3>4. i \notin {1, 2}
      BY <2>6, <3>3
    <3>5. j \in {4, 5, 6}
      BY <2>6, <3>3, <3>4
    <3>6. QED
      BY <3>3, <3>5
  <2>7. QED
    BY <2>5, <2>6 DEF GoalGiven
<1>4. QED
  BY <1>1, <1>2, <1>3 DEF SetupNext, ProcessStep

-------------------------------------------------------------------------------
LEMMA SetupInv == SetupSpec => []SInv
<1>1. SetupInit => SInv
  <2>1. SUFFICES ASSUME SetupInit PROVE SInv
    OBVIOUS
  <2>2. IInv
    BY <2>1, InitTyped, InitWhole DEF SetupInit, IInv
  <2>3. script = <<>> /\ kind = "none" /\ goal = None /\ outcome = "ok" /\ pc["cli"] = "off"
    BY <2>1 DEF SetupInit, Init, Process
  <2>4. SetupTyped
    <3>1. registered \in BOOLEAN /\ wanted \in BOOLEAN /\ ignored \in BOOLEAN
      <4>1. registered = ("config" \in exists) /\ wanted = registered /\ ignored = FALSE
        BY <2>1, Zenon DEF SetupInit
      <4>2. ("config" \in exists) \in BOOLEAN
        OBVIOUS
      <4>3. registered \in BOOLEAN
        BY <4>1, <4>2, Zenon
      <4>4. QED
        BY <4>1, <4>3, Zenon
    <3>2. kind \in AnyKind /\ goal \in Server \cup {None} /\ outcome \in {"ok", "failed"}
      BY <2>3 DEF AnyKind
    <3>3. script \in Seq(AnyStep)
      BY <2>3
    <3>4. QED
      BY <3>1, <3>2, <3>3, Zenon DEF SetupTyped
  <2>5. CommandAwaited /\ UnfinishedIsFailed /\ GoalGiven
    BY <2>3 DEF CommandAwaited, UnfinishedIsFailed, GoalGiven
  <2>6. Stages
    BY <2>3 DEF Stages
  <2>7. QED
    BY <2>2, <2>4, <2>5, <2>6 DEF SInv
<1>2. SInv /\ [SetupNext]_allvars => SInv'
  BY SetupLocal, SetupTypedKept, CommandAwaitedKept, UnfinishedKept, StagesKept, GoalKept DEF SInv
<1>3. QED
  BY <1>1, <1>2, PTL DEF SetupSpec

(* Scripts keep every variable in its type.                                 *)
THEOREM SetupTypeCorrect == SetupSpec => []SetupTypeOK
<1>1. SInv => SetupTypeOK
  BY TypeFollows DEF SInv, IInv, SetupTyped, SetupTypeOK
<1>2. QED
  BY <1>1, SetupInv, PTL

(* No crash, in whatever script, leaves a credentials.bin that reads as     *)
(* nothing, unless two processes were in store_credentials at once.         *)
THEOREM SetupAtomicStore == SetupSpec => []CredentialsWhole
<1>1. SInv => CredentialsWhole
  BY WholeFollows DEF SInv
<1>2. QED
  BY <1>1, SetupInv, PTL

(* No installer runs a command while an agent it was to replace is alive,   *)
(* unless it ignored that a bootout, a pkill or a removal failed.           *)
THEOREM NoDaemonLeft == SetupSpec => []NoLeftoverDaemon
<1>1. SInv => NoLeftoverDaemon
  <2>1. SUFFICES ASSUME SInv, kind \in Installer, ~ignored, pc["cli"] # "off" PROVE Stopped
    BY DEF NoLeftoverDaemon, Stopped
  <2>2. script # <<>> /\ Head(script) = "await"
    BY <2>1 DEF SInv, CommandAwaited
  <2>3. CASE kind = "pkg"
    <3>1. /\ script # <<"bootout", "kill", "set_config_if_missing", "bootout", "bootstrap", "kickstart">>
          /\ script # <<"kill", "set_config_if_missing", "bootout", "bootstrap", "kickstart">>
      <4>1. /\ Head(<<"bootout", "kill", "set_config_if_missing", "bootout", "bootstrap", "kickstart">>) = "bootout"
            /\ Head(<<"kill", "set_config_if_missing", "bootout", "bootstrap", "kickstart">>) = "kill"
        OBVIOUS
      <4>2. QED
        BY <2>2, <4>1
    <3>2. script # <<"kickstart">>
      BY <2>2
    <3>3. PkgStage /\ ~Done
      BY <2>1, <2>2, <2>3 DEF SInv, Stages, Done
    <3>4. QED
      BY <3>1, <3>2, <3>3, Zenon DEF PkgStage
  <2>4. CASE kind = "gui"
    <3>1. script # <<"sc stop", "remove", "copy", "register", "enroll", "start">>
      <4>1. Head(<<"sc stop", "remove", "copy", "register", "enroll", "start">>) = "sc stop"
        OBVIOUS
      <4>2. QED
        BY <2>2, <4>1
    <3>2. script \notin {<<"remove", "copy", "register", "enroll", "start">>,
                         <<"copy", "register", "enroll", "start">>}
      BY <2>2
    <3>3. GuiStage /\ ~Done
      BY <2>1, <2>2, <2>4 DEF SInv, Stages, Done
    <3>4. QED
      BY <3>1, <3>2, <3>3, Zenon DEF GuiStage
  <2>5. CASE kind = "ps1"
    <3>1. /\ script # <<"sc stop", "wait", "remove", "copy", "set_config", "register", "start">>
          /\ script # <<"wait", "remove", "copy", "set_config", "register", "start">>
      <4>1. /\ Head(<<"sc stop", "wait", "remove", "copy", "set_config", "register", "start">>) = "sc stop"
            /\ Head(<<"wait", "remove", "copy", "set_config", "register", "start">>) = "wait"
        OBVIOUS
      <4>2. QED
        BY <2>2, <4>1
    <3>2. script \notin {<<"remove", "copy", "set_config", "register", "start">>,
                         <<"copy", "set_config", "register", "start">>}
      BY <2>2
    <3>3. Ps1Stage /\ ~Done
      BY <2>1, <2>2, <2>5 DEF SInv, Stages, Done
    <3>4. QED
      BY <3>1, <3>2, <3>3, Zenon DEF Ps1Stage
  <2>6. QED
    BY <2>1, <2>3, <2>4, <2>5 DEF Installer
<1>2. QED
  BY <1>1, SetupInv, PTL

(* An installer that reports success has pointed the agent at its server,   *)
(* with the same exception.                                                 *)
THEOREM InstallersTakeEffect == SetupSpec => []InstallTakesEffect
<1>1. SInv => InstallTakesEffect
  <2>1. SUFFICES ASSUME SInv, kind \in Installer, ~ignored, outcome = "ok" PROVE Serves(goal)
    BY DEF InstallTakesEffect
  <2>2. script = <<>>
    BY <2>1 DEF SInv, UnfinishedIsFailed
  <2>3. CASE kind = "pkg"
    BY <2>1, <2>2, <2>3 DEF SInv, Stages, PkgStage, Done
  <2>4. CASE kind = "gui"
    BY <2>1, <2>2, <2>4 DEF SInv, Stages, GuiStage, Done
  <2>5. CASE kind = "ps1"
    BY <2>1, <2>2, <2>5 DEF SInv, Stages, Ps1Stage, Done
  <2>6. QED
    BY <2>1, <2>3, <2>4, <2>5 DEF Installer
<1>2. QED
  BY <1>1, SetupInv, PTL
===============================================================================
