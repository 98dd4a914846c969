--------------------------- MODULE LocalStore_proofs ---------------------------
(***************************************************************************)
(* Proofs about LocalStore, for any servers, any numbers of tokens and     *)
(* kills.                                                                  *)
(*                                                                         *)
(* What TypeOK says of the places of a process is inductive once it is     *)
(* said of its task: every process but an uninstall has a server_url in    *)
(* memory.  CredentialsWhole needs to know whose the temporary file is:    *)
(* one process's at a time, complete when it is renamed.                   *)
(***************************************************************************)
EXTENDS LocalStore, TLAPS

Files ==
  /\ platform \in {"posix", "windows"}
  /\ exists \subseteq File
  /\ config \in Config /\ creds \in Pair /\ tmp \in Pair
  /\ session \in [Server -> Pair]
  /\ overlapped \in BOOLEAN
  /\ events \in 0 .. MaxEvents

Procs ==
  /\ pc \in [Process -> Place]
  /\ mem \in [Process -> Config]
  /\ have \in [Process -> Pair]
  /\ task \in [Process -> Task]
  /\ ret \in [Process -> {"off", "call", "retry"}]
  /\ fd \in [Process -> File \cup {"none", "gone"}]
  /\ exit \in {"ok", "failed"}
  /\ stopping \in BOOLEAN

PlaceOK(p) ==
  /\ pc[p] = "off" <=> task[p] = "none"
  /\ pc[p] = "unlink" => task[p] = "uninstall"
  /\ task[p] = "uninstall" => pc[p] \in {"clear", "unlink"}
  /\ task[p] \notin {"none", "uninstall"} => mem[p].url # None
  /\ pc[p] \in {"update", "store", "fill", "replace", "verify", "retry"} => have[p].access # 0

TInv == Files /\ Procs /\ \A p \in Process : PlaceOK(p)

(* Who works on credentials.bin.tmp.                                        *)
TmpOK(p) ==
  /\ fd[p] # "creds"
  /\ fd[p] = "tmp" => pc[p] = "fill"
  /\ pc[p] = "fill" => fd[p] = "tmp" \/ "tmp" \notin exists
  /\ pc[p] = "replace" /\ "tmp" \in exists => tmp.access # 0

Whole ==
  /\ "creds" \in exists => creds.access # 0
  /\ ~(InStore("service") /\ InStore("cli"))
  /\ \A p \in Process : TmpOK(p)

CInv == platform = "posix" /\ ~overlapped => Whole

IInv == TInv /\ CInv

USE HomeAssumption, NoneAssumption, MaxTokenAssumption, MaxEventsAssumption

-------------------------------------------------------------------------------
LEMMA TypeFollows == TInv => TypeOK
BY DEF TInv, TypeOK, Files, Procs, PlaceOK

LEMMA BlankTyped == Blank \in Config /\ NoPair \in Pair
BY DEF Blank, Config, NoPair, Pair

LEMMA NewConfig ==
  ASSUME NEW c \in Config, NEW u \in {c.url} \cup Server, NEW b \in BOOLEAN
  PROVE  /\ [url |-> u, dev |-> b] \in Config
         /\ [url |-> u, dev |-> b].url = u
BY DEF Config

LEMMA NewPair ==
  ASSUME NEW a \in Token \cup {0}, NEW r \in Token \cup {0}
  PROVE  /\ [access |-> a, refresh |-> r] \in Pair
         /\ [access |-> a, refresh |-> r].access = a
         /\ [access |-> a, refresh |-> r].refresh = r
BY DEF Pair

LEMMA InitTyped == Init => TInv
<1>1. SUFFICES ASSUME Init PROVE TInv
  OBVIOUS
<1>2. Files
  <2>1. config \in Config
    <3>1. CASE config = Blank
      BY <3>1, BlankTyped
    <3>2. CASE config = [url |-> Home, dev |-> TRUE]
      BY <3>2, NewConfig, BlankTyped
    <3>3. QED
      BY <1>1, <3>1, <3>2 DEF Init
  <2>2. creds \in Pair
    BY <1>1, BlankTyped DEF Init, Pair, Token
  <2>3. session \in [Server -> Pair]
    BY <1>1, <2>2, BlankTyped DEF Init
  <2>4. /\ platform \in {"posix", "windows"}
        /\ exists \subseteq File
        /\ overlapped \in BOOLEAN /\ events \in 0 .. MaxEvents
    <3>1. {} \subseteq File /\ {"config", "creds"} \subseteq File
      BY DEF File
    <3>2. exists \subseteq File
      BY <1>1, <3>1, Zenon DEF Init
    <3>3. platform \in {"posix", "windows"} /\ events \in 0 .. MaxEvents
      BY <1>1 DEF Init
    <3>4. overlapped \in BOOLEAN
      BY <1>1, Zenon DEF Init
    <3>5. QED
      BY <3>2, <3>3, <3>4, Zenon
  <2>6. tmp \in Pair
    BY <1>1, BlankTyped DEF Init
  <2>5. QED
    BY <2>1, <2>2, <2>3, <2>4, <2>6 DEF Files
<1>3. Procs
  BY <1>1, BlankTyped DEF Init, Procs, Place, Task
<1>4. \A p \in Process : PlaceOK(p)
  BY <1>1 DEF Init, PlaceOK, Process
<1>5. QED
  BY <1>2, <1>3, <1>4 DEF TInv

(* A process that is gone. *)
LEMMA EndsTyped ==
  ASSUME TInv, NEW p \in Process, NEW how \in {"ok", "failed"}, Ends(p, how)
  PROVE  Procs' /\ \A q \in Process : PlaceOK(q)'
<1>1. Procs'
  <2>1. /\ pc' \in [Process -> Place] /\ task' \in [Process -> Task]
        /\ mem' \in [Process -> Config] /\ have' \in [Process -> Pair]
    BY BlankTyped DEF TInv, Procs, Ends, Place, Task
  <2>2. /\ ret' \in [Process -> {"off", "call", "retry"}]
        /\ fd' \in [Process -> File \cup {"none", "gone"}]
        /\ exit' \in {"ok", "failed"} /\ stopping' \in BOOLEAN
    BY DEF TInv, Procs, Ends
  <2>3. QED
    BY <2>1, <2>2 DEF Procs
<1>2. ASSUME NEW q \in Process PROVE PlaceOK(q)'
  BY DEF TInv, Procs, PlaceOK, Ends
<1>3. QED
  BY <1>1, <1>2

LEMMA ReturnsTyped ==
  ASSUME TInv, NEW p \in Process, pc[p] \in {"call", "retry"}, Returns(p)
  PROVE  Procs' /\ \A q \in Process : PlaceOK(q)'
<1>1. CASE Ends(p, "ok")
  BY <1>1, EndsTyped
<1>2. CASE p = "service" /\ ~Ends(p, "ok")
  <2>1. Procs'
    BY <1>2, BlankTyped DEF TInv, Procs, Returns, Goto, Place, Task
  <2>2. ASSUME NEW q \in Process PROVE PlaceOK(q)'
    BY <1>2 DEF TInv, Procs, PlaceOK, Returns, Goto
  <2>3. QED
    BY <2>1, <2>2
<1>3. QED
  BY <1>1, <1>2 DEF Returns

LEMMA UnauthorizedTyped ==
  ASSUME TInv, NEW p \in Process, pc[p] \in {"refresh", "retry"}, Unauthorized(p)
  PROVE  Procs' /\ \A q \in Process : PlaceOK(q)'
<1>1. CASE Ends(p, "ok")
  BY <1>1, EndsTyped
<1>2. CASE p = "service" /\ ~Ends(p, "ok")
  <2>1. Procs'
    <3>1. [url |-> mem[p].url, dev |-> FALSE] \in Config
      BY NewConfig DEF TInv, Procs
    <3>2. /\ mem' = [mem EXCEPT ![p] = [url |-> mem[p].url, dev |-> FALSE]]
          /\ have' = [have EXCEPT ![p] = NoPair]
          /\ task' = [task EXCEPT ![p] = "beat"]
          /\ pc' = [pc EXCEPT ![p] = "save"]
          /\ UNCHANGED <<ret, fd, exit, stopping>>
      BY <1>2 DEF Unauthorized, Goto
    <3>3. QED
      BY <3>1, <3>2, BlankTyped DEF TInv, Procs, Place, Task
  <2>2. ASSUME NEW q \in Process PROVE PlaceOK(q)'
    BY <1>2 DEF TInv, Procs, PlaceOK, Unauthorized, Goto, Config
  <2>3. QED
    BY <2>1, <2>2
<1>3. QED
  BY <1>1, <1>2 DEF Unauthorized

(* Steps that leave the files, the sessions and the counter alone. *)
LEMMA FilesFrame ==
  ASSUME TInv, UNCHANGED <<files, session>>, overlapped' \in BOOLEAN, events' \in 0 .. MaxEvents
  PROVE  Files'
<1>1. /\ platform' = platform /\ exists' = exists /\ config' = config
      /\ creds' = creds /\ tmp' = tmp /\ session' = session
  BY DEF files
<1>2. QED
  BY <1>1, Zenon DEF TInv, Files

(* The test whether the machine is enrolled writes nothing. *)
LEMMA EnsureTyped ==
  ASSUME TInv, NEW p \in Process, ensure(p)
  PROVE  TInv'
<1>1. Files'
  <2>1. overlapped' = overlapped /\ events' = events /\ UNCHANGED <<files, session>>
    BY DEF ensure, files
  <2>2. QED
    BY <2>1, FilesFrame, Zenon DEF TInv, Files
<1>2. Procs'
  BY BlankTyped DEF TInv, Procs, ensure, Goto, Place, Task
<1>3. ASSUME NEW q \in Process PROVE PlaceOK(q)'
  BY DEF TInv, Procs, PlaceOK, ensure, Goto
<1>4. QED
  BY <1>1, <1>2, <1>3 DEF TInv

(* An enrollment leaves a pair of fresh tokens in the process's hands. *)
LEMMA EnrollTyped ==
  ASSUME TInv, NEW p \in Process, enroll(p)
  PROVE  TInv'
<1>1. Files'
  <2>1. PICK t \in Token : session' = [session EXCEPT ![mem[p].url] = [access |-> t, refresh |-> t]]
    BY DEF enroll, TInv, Procs
  <2>2. [access |-> t, refresh |-> t] \in Pair
    BY NewPair
  <2>3. session' \in [Server -> Pair]
    BY <2>1, <2>2 DEF TInv, Files
  <2>4. overlapped' = overlapped /\ events' = events /\ UNCHANGED files
    BY DEF enroll
  <2>5. QED
    BY <2>3, <2>4, Zenon DEF TInv, Files, files
<1>2. Procs'
  <2>1. PICK t \in Token : have' = [have EXCEPT ![p] = [access |-> t, refresh |-> t]]
    BY DEF enroll
  <2>2. [access |-> t, refresh |-> t] \in Pair
    BY NewPair
  <2>3. [url |-> mem[p].url, dev |-> TRUE] \in Config
    BY NewConfig DEF TInv, Procs
  <2>4. /\ mem' = [mem EXCEPT ![p] = [url |-> mem[p].url, dev |-> TRUE]]
        /\ ret' = [ret EXCEPT ![p] = IF task[p] = "enroll" THEN "off" ELSE "call"]
        /\ pc' = [pc EXCEPT ![p] = "save"]
        /\ UNCHANGED <<task, fd, exit, stopping>>
    BY DEF enroll, Goto
  <2>5. QED
    BY <2>1, <2>2, <2>3, <2>4 DEF TInv, Procs, Place
<1>3. ASSUME NEW q \in Process PROVE PlaceOK(q)'
  BY DEF TInv, Procs, PlaceOK, enroll, Goto
<1>4. QED
  BY <1>1, <1>2, <1>3 DEF TInv

(* One that fails ends the command, or sends the service back. *)
LEMMA EnrollFailsTyped ==
  ASSUME TInv, NEW p \in Process, enroll_fails(p)
  PROVE  TInv'
<1>1. Files'
  <2>1. session' \in [Server -> Pair]
    BY BlankTyped DEF enroll_fails, TInv, Files
  <2>2. events' \in 0 .. MaxEvents
    BY DEF enroll_fails, Event, TInv, Files
  <2>3. overlapped' = overlapped /\ UNCHANGED files
    BY DEF enroll_fails
  <2>4. QED
    BY <2>1, <2>2, <2>3, Zenon DEF TInv, Files, files
<1>2. Procs'
  <2>1. CASE Ends(p, "failed")
    BY <2>1, EndsTyped
  <2>2. CASE /\ Goto(p, IF task[p] = "boot" THEN "ensure" ELSE "call")
             /\ UNCHANGED <<mem, have, task, ret, fd, exit, stopping>>
    BY <2>2 DEF TInv, Procs, Goto, Place
  <2>3. QED
    BY <2>1, <2>2 DEF enroll_fails
<1>3. ASSUME NEW q \in Process PROVE PlaceOK(q)'
  <2>1. CASE Ends(p, "failed")
    BY <2>1, EndsTyped
  <2>2. CASE /\ Goto(p, IF task[p] = "boot" THEN "ensure" ELSE "call")
             /\ UNCHANGED <<mem, have, task, ret, fd, exit, stopping>>
    BY <2>2 DEF TInv, Procs, PlaceOK, Goto, enroll_fails
  <2>3. QED
    BY <2>1, <2>2 DEF enroll_fails
<1>4. QED
  BY <1>1, <1>2, <1>3 DEF TInv

(* The configuration is truncated, which reads as the defaults. *)
LEMMA SaveTyped ==
  ASSUME TInv, NEW p \in Process, save(p)
  PROVE  TInv'
<1>1. Files'
  <2>1. exists' \subseteq File
    BY DEF save, TInv, Files, File
  <2>2. /\ config' = Blank
        /\ UNCHANGED <<platform, creds, tmp, session, overlapped, events>>
    BY DEF save
  <2>3. QED
    BY <2>1, <2>2, BlankTyped, Zenon DEF TInv, Files
<1>2. Procs'
  BY DEF TInv, Procs, save, Goto, Place, File
<1>3. ASSUME NEW q \in Process PROVE PlaceOK(q)'
  BY DEF TInv, Procs, PlaceOK, save, Goto
<1>4. QED
  BY <1>1, <1>2, <1>3 DEF TInv

(* The text of config.yaml. *)
LEMMA WriteTyped ==
  ASSUME TInv, NEW p \in Process, write(p)
  PROVE  TInv'
<1>1. Files'
  <2>1. config' \in Config
    BY BlankTyped DEF write, TInv, Files, Procs
  <2>2. UNCHANGED <<platform, exists, creds, tmp, session, overlapped, events>>
    BY DEF write
  <2>3. QED
    BY <2>1, <2>2, Zenon DEF TInv, Files
<1>2. Procs'
  <2>1. CASE Ends(p, "ok")
    BY <2>1, EndsTyped DEF write
  <2>2. CASE ~Ends(p, "ok")
    BY <2>2, BlankTyped DEF TInv, Procs, Place, Task, File, write, Goto, Saved
  <2>3. QED
    BY <2>1, <2>2
<1>3. ASSUME NEW q \in Process PROVE PlaceOK(q)'
  <2>1. CASE Ends(p, "ok")
    BY <2>1, EndsTyped DEF write
  <2>2. CASE ~Ends(p, "ok")
    BY <2>2, BlankTyped DEF TInv, Procs, PlaceOK, write, Goto, Saved
  <2>3. QED
    BY <2>1, <2>2
<1>4. QED
  BY <1>1, <1>2, <1>3 DEF TInv

(* The file is opened. *)
LEMMA StoreTyped ==
  ASSUME TInv, NEW p \in Process, store(p)
  PROVE  TInv'
<1>1. Files'
  <2>1. /\ creds' \in Pair /\ tmp' \in Pair
        /\ exists' \subseteq File
    BY BlankTyped DEF store, TInv, Files, File
  <2>2. overlapped' \in BOOLEAN
    BY Zenon DEF store, Overlap
  <2>3. UNCHANGED <<platform, config, session, events>>
    BY DEF store
  <2>4. QED
    BY <2>1, <2>2, <2>3, Zenon DEF TInv, Files
<1>2. Procs'
  <2>1. \E f \in File : fd' = [fd EXCEPT ![p] = f]
    BY DEF store, File
  <2>2. pc' = [pc EXCEPT ![p] = "fill"] /\ UNCHANGED <<mem, have, task, ret, exit, stopping>>
    BY DEF store, Goto
  <2>3. QED
    BY <2>1, <2>2 DEF TInv, Procs, Place
<1>3. ASSUME NEW q \in Process PROVE PlaceOK(q)'
  BY DEF TInv, Procs, PlaceOK, store, Goto
<1>4. QED
  BY <1>1, <1>2, <1>3 DEF TInv

(* The pair is written. *)
LEMMA FillTyped ==
  ASSUME TInv, NEW p \in Process, fill(p)
  PROVE  TInv'
<1>1. Files'
  <2>1. creds' \in Pair /\ tmp' \in Pair
    BY DEF fill, TInv, Files, Procs
  <2>2. UNCHANGED <<platform, exists, config, session, overlapped, events>>
    BY DEF fill
  <2>3. QED
    BY <2>1, <2>2, Zenon DEF TInv, Files
<1>2. Procs'
  BY BlankTyped DEF TInv, Procs, fill, Goto, Place, Task
<1>3. ASSUME NEW q \in Process PROVE PlaceOK(q)'
  BY DEF TInv, Procs, PlaceOK, fill, Goto
<1>4. QED
  BY <1>1, <1>2, <1>3 DEF TInv

(* The file is renamed. *)
LEMMA ReplaceTyped ==
  ASSUME TInv, NEW p \in Process, replace(p)
  PROVE  TInv'
<1>1. Files'
  <2>1. creds' \in Pair /\ tmp' \in Pair
    BY BlankTyped DEF replace, TInv, Files
  <2>2. exists' \subseteq File
    BY DEF replace, TInv, Files, File
  <2>3. UNCHANGED <<platform, config, session, overlapped, events>>
    BY DEF replace
  <2>4. QED
    BY <2>1, <2>2, <2>3, Zenon DEF TInv, Files
<1>2. Procs'
  <2>1. CASE Ends(p, "failed")
    BY <2>1, EndsTyped DEF replace
  <2>2. CASE ~Ends(p, "failed")
    BY <2>2, BlankTyped DEF TInv, Procs, Place, Task, File, replace, Goto
  <2>3. QED
    BY <2>1, <2>2
<1>3. ASSUME NEW q \in Process PROVE PlaceOK(q)'
  <2>1. CASE Ends(p, "failed")
    BY <2>1, EndsTyped DEF replace
  <2>2. CASE ~Ends(p, "failed")
    BY <2>2, BlankTyped DEF TInv, Procs, PlaceOK, replace, Goto
  <2>3. QED
    BY <2>1, <2>2
<1>4. QED
  BY <1>1, <1>2, <1>3 DEF TInv

(* The roundtrip verification. *)
LEMMA VerifyTyped ==
  ASSUME TInv, NEW p \in Process, verify(p)
  PROVE  TInv'
<1>1. Files'
  <2>1. overlapped' = overlapped /\ events' = events /\ UNCHANGED <<files, session>>
    BY DEF verify, files
  <2>2. QED
    BY <2>1, FilesFrame, Zenon DEF TInv, Files
<1>2. Procs'
  <2>1. CASE Ends(p, "failed")
    BY <2>1, EndsTyped DEF verify
  <2>2. CASE Ends(p, "ok")
    BY <2>2, EndsTyped DEF verify
  <2>3. CASE ~Ends(p, "failed") /\ ~Ends(p, "ok")
    BY <2>3, BlankTyped DEF TInv, Procs, Place, Task, File, verify, Goto
  <2>4. QED
    BY <2>1, <2>2, <2>3
<1>3. ASSUME NEW q \in Process PROVE PlaceOK(q)'
  <2>1. CASE Ends(p, "failed")
    BY <2>1, EndsTyped DEF verify
  <2>2. CASE Ends(p, "ok")
    BY <2>2, EndsTyped DEF verify
  <2>3. CASE ~Ends(p, "failed") /\ ~Ends(p, "ok")
    BY <2>3, BlankTyped DEF TInv, Procs, PlaceOK, verify, Goto
  <2>4. QED
    BY <2>1, <2>2, <2>3
<1>4. QED
  BY <1>1, <1>2, <1>3 DEF TInv

(* The request. *)
LEMMA CallTyped ==
  ASSUME TInv, NEW p \in Process, call(p)
  PROVE  TInv'
<1>1. Files'
  <2>1. overlapped' = overlapped /\ events' = events /\ UNCHANGED <<files, session>>
    BY DEF call, files
  <2>2. QED
    BY <2>1, FilesFrame, Zenon DEF TInv, Files
<1>2. Procs'
  <2>1. CASE Returns(p)
    BY <2>1, ReturnsTyped DEF call
  <2>2. CASE ~Returns(p)
    BY <2>2, BlankTyped DEF TInv, Procs, Place, Task, File, call, Goto
  <2>3. QED
    BY <2>1, <2>2
<1>3. ASSUME NEW q \in Process PROVE PlaceOK(q)'
  <2>1. CASE Returns(p)
    BY <2>1, ReturnsTyped DEF call
  <2>2. CASE ~Returns(p)
    BY <2>2, BlankTyped DEF TInv, Procs, PlaceOK, call, Goto
  <2>3. QED
    BY <2>1, <2>2
<1>4. QED
  BY <1>1, <1>2, <1>3 DEF TInv

(* The refresh. *)
LEMMA RefreshTyped ==
  ASSUME TInv, NEW p \in Process, refresh(p)
  PROVE  TInv'
<1>1. Files'
  <2>1. \/ UNCHANGED session
        \/ \E t \in Token :
             session' = [session EXCEPT ![mem[p].url] =
                           [access |-> t, refresh |-> session[mem[p].url].refresh]]
    BY DEF refresh
  <2>2. session' \in [Server -> Pair]
    <3>1. CASE UNCHANGED session
      BY <3>1, Zenon DEF TInv, Files
    <3>2. CASE ~UNCHANGED session
      <4>1. PICK t \in Token :
             session' = [session EXCEPT ![mem[p].url] =
                           [access |-> t, refresh |-> session[mem[p].url].refresh]]
        BY <2>1, <3>2
      <4>2. mem[p].url \in Server
        BY DEF refresh, TInv, Procs, PlaceOK, Config
      <4>3. session[mem[p].url].refresh \in Token \cup {0}
        BY <4>2 DEF TInv, Files, Pair
      <4>4. [access |-> t, refresh |-> session[mem[p].url].refresh] \in Pair
        BY <4>3, NewPair
      <4>5. QED
        BY <4>1, <4>4 DEF TInv, Files
    <3>3. QED
      BY <3>1, <3>2
  <2>3. overlapped' = overlapped /\ events' = events /\ UNCHANGED files
    BY DEF refresh
  <2>4. QED
    BY <2>2, <2>3, Zenon DEF TInv, Files, files
<1>2. Procs'
  <2>1. CASE Unauthorized(p)
    BY <2>1, UnauthorizedTyped DEF refresh
  <2>2. CASE ~Unauthorized(p)
    <3>1. PICK t \in Token : have' = [have EXCEPT ![p] = [access |-> t, refresh |-> 0]]
      BY <2>2 DEF refresh
    <3>2. [access |-> t, refresh |-> 0] \in Pair
      BY NewPair
    <3>3. /\ ret' = [ret EXCEPT ![p] = "retry"] /\ pc' = [pc EXCEPT ![p] = "update"]
          /\ UNCHANGED <<mem, task, fd, exit, stopping>>
      BY <2>2 DEF refresh, Goto
    <3>4. QED
      BY <3>1, <3>2, <3>3 DEF TInv, Procs, Place
  <2>3. QED
    BY <2>1, <2>2
<1>3. ASSUME NEW q \in Process PROVE PlaceOK(q)'
  <2>1. CASE Unauthorized(p)
    BY <2>1, UnauthorizedTyped DEF refresh
  <2>2. CASE ~Unauthorized(p)
    <3>1. PICK t \in Token : have' = [have EXCEPT ![p] = [access |-> t, refresh |-> 0]]
      BY <2>2 DEF refresh
    <3>2. [access |-> t, refresh |-> 0].access # 0
      BY NewPair DEF Token
    <3>3. pc' = [pc EXCEPT ![p] = "update"] /\ UNCHANGED <<mem, task>>
      BY <2>2 DEF refresh, Goto
    <3>4. QED
      BY <3>1, <3>2, <3>3 DEF TInv, Procs, PlaceOK, refresh
  <2>3. QED
    BY <2>1, <2>2
<1>4. QED
  BY <1>1, <1>2, <1>3 DEF TInv

(* The refresh token is kept. *)
LEMMA UpdateAccessTokenTyped ==
  ASSUME TInv, NEW p \in Process, update_access_token(p)
  PROVE  TInv'
<1>1. Files'
  <2>1. overlapped' = overlapped /\ events' = events /\ UNCHANGED <<files, session>>
    BY DEF update_access_token, files
  <2>2. QED
    BY <2>1, FilesFrame, Zenon DEF TInv, Files
<1>2. Procs'
  <2>1. [access |-> have[p].access, refresh |-> creds.refresh] \in Pair
    BY NewPair DEF TInv, Files, Procs, Pair
  <2>2. QED
    BY <2>1 DEF TInv, Procs, update_access_token, Goto, Place
<1>3. ASSUME NEW q \in Process PROVE PlaceOK(q)'
  BY DEF TInv, Procs, PlaceOK, update_access_token, Goto
<1>4. QED
  BY <1>1, <1>2, <1>3 DEF TInv

(* The request once more. *)
LEMMA RetryTyped ==
  ASSUME TInv, NEW p \in Process, retry(p)
  PROVE  TInv'
<1>1. Files'
  <2>1. overlapped' = overlapped /\ events' = events /\ UNCHANGED <<files, session>>
    BY DEF retry, files
  <2>2. QED
    BY <2>1, FilesFrame, Zenon DEF TInv, Files
<1>2. Procs'
  <2>1. CASE Returns(p)
    BY <2>1, ReturnsTyped DEF retry
  <2>2. CASE Unauthorized(p)
    BY <2>2, UnauthorizedTyped DEF retry
  <2>3. CASE ~Returns(p) /\ ~Unauthorized(p)
    BY <2>3, BlankTyped DEF TInv, Procs, Place, Task, File, retry, Goto
  <2>4. QED
    BY <2>1, <2>2, <2>3
<1>3. ASSUME NEW q \in Process PROVE PlaceOK(q)'
  <2>1. CASE Returns(p)
    BY <2>1, ReturnsTyped DEF retry
  <2>2. CASE Unauthorized(p)
    BY <2>2, UnauthorizedTyped DEF retry
  <2>3. CASE ~Returns(p) /\ ~Unauthorized(p)
    BY <2>3, BlankTyped DEF TInv, Procs, PlaceOK, retry, Goto
  <2>4. QED
    BY <2>1, <2>2, <2>3
<1>4. QED
  BY <1>1, <1>2, <1>3 DEF TInv

(* credentials.bin is removed. *)
LEMMA ClearTyped ==
  ASSUME TInv, NEW p \in Process, clear(p)
  PROVE  TInv'
<1>1. Files'
  <2>1. creds' \in Pair
    BY BlankTyped DEF clear, TInv, Files
  <2>2. exists' \subseteq File
    BY DEF clear, Unlink, TInv, Files
  <2>3. UNCHANGED <<platform, config, tmp, session, overlapped, events>>
    BY DEF clear
  <2>4. QED
    BY <2>1, <2>2, <2>3, Zenon DEF TInv, Files
<1>2. Procs'
  <2>1. CASE Ends(p, "failed")
    BY <2>1, EndsTyped DEF clear
  <2>2. CASE ~Ends(p, "failed")
    BY <2>2, BlankTyped DEF TInv, Procs, Place, Task, File, clear, Goto, Unlink
  <2>3. QED
    BY <2>1, <2>2
<1>3. ASSUME NEW q \in Process PROVE PlaceOK(q)'
  <2>1. CASE Ends(p, "failed")
    BY <2>1, EndsTyped DEF clear
  <2>2. CASE ~Ends(p, "failed")
    BY <2>2, BlankTyped DEF TInv, Procs, PlaceOK, clear, Goto, Unlink
  <2>3. QED
    BY <2>1, <2>2
<1>4. QED
  BY <1>1, <1>2, <1>3 DEF TInv

(* config.yaml is removed. *)
LEMMA UnlinkConfigTyped ==
  ASSUME TInv, NEW p \in Process, unlink_config(p)
  PROVE  TInv'
<1>1. Files'
  <2>1. config' \in Config
    BY BlankTyped DEF unlink_config, TInv, Files
  <2>2. exists' \subseteq File
    BY DEF unlink_config, TInv, Files
  <2>3. UNCHANGED <<platform, creds, tmp, session, overlapped, events>>
    BY DEF unlink_config
  <2>4. QED
    BY <2>1, <2>2, <2>3, Zenon DEF TInv, Files
<1>2. Procs'
  <2>1. CASE Ends(p, "failed")
    BY <2>1, EndsTyped DEF unlink_config
  <2>2. CASE ~Ends(p, "failed")
    BY <2>2, BlankTyped DEF TInv, Procs, Place, Task, File, unlink_config, Goto
  <2>3. QED
    BY <2>1, <2>2
<1>3. ASSUME NEW q \in Process PROVE PlaceOK(q)'
  <2>1. CASE Ends(p, "failed")
    BY <2>1, EndsTyped DEF unlink_config
  <2>2. CASE ~Ends(p, "failed")
    BY <2>2, BlankTyped DEF TInv, Procs, PlaceOK, unlink_config, Goto
  <2>3. QED
    BY <2>1, <2>2
<1>4. QED
  BY <1>1, <1>2, <1>3 DEF TInv

(* What is done to the processes from outside. *)
LEMMA LaunchTyped ==
  ASSUME TInv, NEW p \in Process, NEW cfg \in Config,
         NEW what \in Task \ {"none"}, NEW place \in Place \ {"off", "unlink", "update", "store",
                                                              "fill", "replace", "verify", "retry"},
         what = "uninstall" => place = "clear",
         what # "uninstall" => cfg.url # None,
         Launch(p, what, place, cfg)
  PROVE  TInv'
<1>1. Files'
  <2>1. overlapped' = overlapped /\ events' = events /\ UNCHANGED <<files, session>>
    BY DEF Launch
  <2>2. QED
    BY <2>1, FilesFrame, Zenon DEF TInv, Files
<1>2. Procs'
  BY DEF TInv, Procs, Launch, Goto
<1>3. ASSUME NEW q \in Process PROVE PlaceOK(q)'
  BY DEF TInv, Procs, PlaceOK, Launch, Goto, Place, Task
<1>4. QED
  BY <1>1, <1>2, <1>3 DEF TInv

LEMMA CommandsTyped ==
  ASSUME TInv, Commands
  PROVE  TInv'
<1>1. CASE run
  <2>1. config \in Config /\ config.url # None
    BY <1>1 DEF run, TInv, Files
  <2>2. QED
    BY <1>1, <2>1, LaunchTyped DEF run, Process, Task, Place
<1>2. CASE scan_now
  <2>1. config \in Config /\ config.url # None
    BY <1>2 DEF scan_now, TInv, Files
  <2>2. QED
    BY <1>2, <2>1, LaunchTyped DEF scan_now, Process, Task, Place
<1>3. CASE uninstall
  BY <1>3, LaunchTyped, BlankTyped DEF uninstall, Process, Task, Place
<1>4. ASSUME NEW s \in Server, enroll_command(s) \/ set_config(s)
      PROVE  TInv'
  <2> DEFINE cfg == [url |-> s, dev |-> config.dev]
  <2>1. cfg \in Config /\ cfg.url = s /\ s # None
    BY NewConfig DEF TInv, Files, Config
  <2>2. Launch("cli", "enroll", "enroll", cfg) \/ Launch("cli", "set_config", "save", cfg)
    BY <1>4 DEF enroll_command, set_config
  <2> HIDE DEF cfg
  <2>3. CASE Launch("cli", "enroll", "enroll", cfg)
    BY <2>1, <2>3, LaunchTyped DEF Process, Task, Place
  <2>4. CASE Launch("cli", "set_config", "save", cfg)
    BY <2>1, <2>4, LaunchTyped DEF Process, Task, Place
  <2>5. QED
    BY <2>2, <2>3, <2>4
<1>5. QED
  BY <1>1, <1>2, <1>3, <1>4 DEF Commands

LEMMA SignalsTyped ==
  ASSUME TInv, stop \/ stopped
  PROVE  TInv'
<1>1. Files'
  <2>1. overlapped' = overlapped /\ events' = events /\ UNCHANGED <<files, session>>
    BY DEF stop, stopped
  <2>2. QED
    BY <2>1, FilesFrame, Zenon DEF TInv, Files
<1>2. Procs' /\ \A q \in Process : PlaceOK(q)'
  <2>1. CASE stop
    BY <2>1 DEF stop, TInv, Procs, PlaceOK
  <2>2. CASE stopped
    BY <2>2, EndsTyped DEF stopped, Process
  <2>3. QED
    BY <2>1, <2>2
<1>3. QED
  BY <1>1, <1>2 DEF TInv

LEMMA KillsTyped ==
  ASSUME TInv, terminate \/ \E p \in Process : kill(p)
  PROVE  TInv'
<1>1. PICK p \in Process : Dies(p)
  BY DEF terminate, kill, Process
<1>2. Files'
  <2>1. events' \in 0 .. MaxEvents
    BY DEF terminate, kill, Event, TInv, Files
  <2>2. UNCHANGED <<files, session, overlapped>>
    BY <1>1 DEF Dies
  <2>3. QED
    BY <2>1, <2>2, FilesFrame, Zenon DEF TInv, Files
<1>3. Procs' /\ \A q \in Process : PlaceOK(q)'
  BY <1>1, EndsTyped DEF Dies
<1>4. QED
  BY <1>2, <1>3 DEF TInv

LEMMA EraseTyped ==
  ASSUME TInv, erase
  PROVE  TInv'
<1>1. Files'
  <2>1. config' \in Config /\ creds' \in Pair /\ tmp' \in Pair /\ exists' \subseteq File
    BY BlankTyped DEF erase
  <2>2. UNCHANGED <<platform, session, overlapped, events>>
    BY DEF erase
  <2>3. QED
    BY <2>1, <2>2, Zenon DEF TInv, Files
<1>2. Procs'
  BY DEF TInv, Procs, erase
<1>3. \A q \in Process : PlaceOK(q)'
  BY DEF TInv, PlaceOK, erase
<1>4. QED
  BY <1>1, <1>2, <1>3 DEF TInv

LEMMA NextTyped ==
  ASSUME TInv, [Next]_vars
  PROVE  TInv'
<1>1. ASSUME NEW p \in Process, Step(p) PROVE TInv'
  BY <1>1, EnsureTyped, EnrollTyped, EnrollFailsTyped, SaveTyped, WriteTyped, StoreTyped, FillTyped,
     ReplaceTyped, VerifyTyped, CallTyped, RefreshTyped, UpdateAccessTokenTyped, RetryTyped,
     ClearTyped, UnlinkConfigTyped DEF Step
<1>2. CASE Commands
  BY <1>2, CommandsTyped
<1>3. CASE stop \/ stopped
  BY <1>3, SignalsTyped
<1>4. CASE terminate \/ \E p \in Process : kill(p)
  BY <1>4, KillsTyped
<1>5. CASE erase
  BY <1>5, EraseTyped
<1>6. CASE UNCHANGED vars
  BY <1>6 DEF vars, files, process, TInv, Files, Procs, PlaceOK
<1>7. QED
  BY <1>1, <1>2, <1>3, <1>4, <1>5, <1>6 DEF Next

-------------------------------------------------------------------------------
(* A process whose step keeps away from the temporary file.                 *)
Quiet(q) ==
  \/ pc'[q] = pc[q] /\ fd'[q] \in {fd[q], "gone"} /\ (fd[q] = "tmp" => fd'[q] = "tmp")
  \/ /\ pc'[q] \notin {"fill", "replace"}
     /\ fd'[q] \notin {"tmp", "creds"} \/ (fd'[q] = fd[q] /\ pc[q] # "fill")

LEMMA WholeFrame ==
  ASSUME CInv, UNCHANGED <<platform, overlapped>>,
         "creds" \in exists' => "creds" \in exists /\ creds' = creds,
         "tmp" \in exists' => "tmp" \in exists /\ tmp' = tmp,
         \A q \in Process : Quiet(q)
  PROVE  CInv'
<1>1. SUFFICES ASSUME Whole PROVE Whole'
  BY DEF CInv
<1>2. \A q \in Process : InStore(q)' => InStore(q)
  BY DEF Quiet, InStore
<1>3. ASSUME NEW q \in Process PROVE TmpOK(q)'
  BY <1>1 DEF Quiet, TmpOK, Whole
<1>4. QED
  BY <1>1, <1>2, <1>3 DEF Whole, Process

(* The same for one process, which ends or leaves its open file alone.      *)
LEMMA OneQuiet ==
  ASSUME TInv, NEW p \in Process, pc[p] \notin {"fill", "replace"}, NEW place \in Place \ {"fill", "replace"},
         pc' = [pc EXCEPT ![p] = place],
         \/ fd' = [fd EXCEPT ![p] = "none"]
         \/ fd' = [fd EXCEPT ![p] = "config"]
         \/ fd' = fd
  PROVE  \A q \in Process : Quiet(q)
BY DEF TInv, Procs, Quiet

LEMMA EndsQuiet ==
  ASSUME TInv, NEW p \in Process, NEW how, Ends(p, how)
  PROVE  \A q \in Process : Quiet(q)
BY DEF TInv, Procs, Quiet, Ends

(* The steps that do not concern credentials.bin. *)
LEMMA QuietSteps ==
  ASSUME IInv, NEW p \in Process,
         \/ ensure(p) \/ enroll(p) \/ enroll_fails(p) \/ save(p) \/ write(p) \/ verify(p)
         \/ call(p) \/ refresh(p) \/ update_access_token(p) \/ retry(p)
  PROVE  CInv'
<1>1. /\ UNCHANGED <<platform, creds, tmp, overlapped>>
      /\ exists' \subseteq exists \cup {"config"}
  BY DEF files, ensure, enroll, enroll_fails, save, write, verify, call, refresh,
         update_access_token, retry
<1>2. \A q \in Process : Quiet(q)
  <2>1. CASE \E how \in {"ok", "failed"} : Ends(p, how)
    BY <2>1, EndsQuiet DEF IInv
  <2>2. CASE ~ \E how \in {"ok", "failed"} : Ends(p, how)
    <3>1. pc[p] \notin {"fill", "replace"}
      BY DEF ensure, enroll, enroll_fails, save, write, verify, call, refresh, update_access_token, retry
    <3>2. \E place \in Place \ {"fill", "replace"} : pc' = [pc EXCEPT ![p] = place]
      <4>1. CASE ensure(p) \/ enroll(p) \/ enroll_fails(p) \/ save(p)
        BY <2>2, <4>1 DEF ensure, enroll, enroll_fails, save, Goto, Place
      <4>2. CASE write(p) \/ verify(p)
        BY <2>2, <4>2 DEF write, verify, Saved, Goto, Place
      <4>3. CASE call(p) \/ refresh(p) \/ update_access_token(p) \/ retry(p)
        BY <2>2, <4>3 DEF call, refresh, update_access_token, retry, Returns, Unauthorized, Goto, Place
      <4>4. QED
        BY <4>1, <4>2, <4>3
    <3>3. \/ fd' = [fd EXCEPT ![p] = "none"] \/ fd' = [fd EXCEPT ![p] = "config"] \/ fd' = fd
      <4>1. CASE ensure(p) \/ enroll(p) \/ enroll_fails(p) \/ save(p)
        BY <2>2, <4>1 DEF ensure, enroll, enroll_fails, save
      <4>2. CASE write(p) \/ verify(p)
        BY <2>2, <4>2 DEF write, verify, Saved
      <4>3. CASE call(p) \/ refresh(p) \/ update_access_token(p) \/ retry(p)
        BY <2>2, <4>3 DEF call, refresh, update_access_token, retry, Returns, Unauthorized
      <4>4. QED
        BY <4>1, <4>2, <4>3
    <3>4. QED
      BY <3>1, <3>2, <3>3, OneQuiet DEF IInv
  <2>3. QED
    BY <2>1, <2>2
<1>3. QED
  BY <1>1, <1>2, WholeFrame DEF IInv

(* The removals: who had the file open has it no more. *)
LEMMA RemovalSteps ==
  ASSUME IInv, NEW p \in Process, clear(p) \/ unlink_config(p)
  PROVE  CInv'
<1>1. SUFFICES ASSUME platform = "posix" /\ ~overlapped, Whole PROVE Whole'
  BY DEF IInv, CInv, clear, unlink_config
<1>2. /\ UNCHANGED <<platform, tmp, overlapped>>
      /\ "creds" \in exists' => "creds" \in exists /\ creds' = creds
      /\ "tmp" \in exists' => "tmp" \in exists
  BY DEF clear, unlink_config, Unlink
<1>3. \A q \in Process : Quiet(q)
  <2>1. CASE Ends(p, "failed")
    BY <2>1, EndsQuiet DEF IInv
  <2>2. CASE clear(p) /\ ~Ends(p, "failed")
    <3>1. /\ pc[p] = "clear" /\ pc' \in {[pc EXCEPT ![p] = "unlink"], [pc EXCEPT ![p] = "enroll"]}
          /\ fd' = [q \in Process |-> IF fd[q] = "creds" THEN "gone" ELSE fd[q]]
      BY <2>2 DEF clear, Goto, Unlink
    <3>2. QED
      BY <1>1, <3>1 DEF IInv, TInv, Procs, Quiet, Whole, TmpOK
  <2>3. CASE unlink_config(p) /\ ~Ends(p, "failed")
    <3>1. /\ pc[p] = "unlink" /\ pc' = [pc EXCEPT ![p] = "off"]
          /\ fd' = [q \in Process |-> IF fd[q] = "config" THEN "gone" ELSE fd[q]]
      BY <2>3 DEF unlink_config
    <3>2. QED
      BY <1>1, <3>1 DEF IInv, TInv, Procs, Quiet
  <2>4. QED
    BY <2>1, <2>2, <2>3
<1>4. CInv'
  BY <1>2, <1>3, WholeFrame DEF IInv
<1>5. QED
  BY <1>1, <1>2, <1>4 DEF CInv

(* A temporary file is opened, and it is the only one. *)
LEMMA StoreWhole ==
  ASSUME IInv, NEW p \in Process, store(p)
  PROVE  CInv'
<1>1. SUFFICES ASSUME platform = "posix", ~overlapped' PROVE Whole'
  BY DEF CInv, store
<1>2. /\ pc[p] = "store" /\ tmp' = NoPair /\ exists' = exists \cup {"tmp"}
      /\ fd' = [fd EXCEPT ![p] = "tmp"] /\ pc' = [pc EXCEPT ![p] = "fill"] /\ UNCHANGED creds
  BY <1>1 DEF store, Goto
<1>3. ~overlapped /\ \A q \in Process \ {p} : ~InStore(q)
  BY <1>1 DEF store, Overlap
<1>4. Whole
  BY <1>1, <1>3 DEF IInv, CInv
<1>5. "creds" \in exists' => creds'.access # 0
  BY <1>2, <1>4 DEF Whole
<1>6. ~(InStore("service") /\ InStore("cli"))'
  BY <1>2, <1>3 DEF IInv, TInv, Procs, InStore, Process
<1>7. ASSUME NEW q \in Process PROVE TmpOK(q)'
  BY <1>2, <1>3, <1>4 DEF IInv, TInv, Procs, Whole, TmpOK, InStore
<1>8. QED
  BY <1>5, <1>6, <1>7 DEF Whole

(* The pair goes to the temporary file of this process, or to one that was  *)
(* erased.                                                                  *)
LEMMA FillWhole ==
  ASSUME IInv, NEW p \in Process, fill(p)
  PROVE  CInv'
<1>1. SUFFICES ASSUME platform = "posix", ~overlapped, Whole PROVE Whole'
  BY DEF IInv, CInv, fill
<1>2. /\ pc[p] = "fill" /\ fd[p] # "creds" /\ UNCHANGED <<creds, exists>>
      /\ pc' = [pc EXCEPT ![p] = "replace"] /\ fd' = [fd EXCEPT ![p] = "none"]
  BY <1>1 DEF fill, Goto, Whole, TmpOK
<1>3. "tmp" \in exists => tmp' = have[p]
  BY <1>1 DEF fill, Whole, TmpOK
<1>4. have[p].access # 0
  BY <1>2 DEF IInv, TInv, PlaceOK
<1>5. \A q \in Process \ {p} : ~InStore(q)
  BY <1>1, <1>2 DEF Whole, InStore, Process
<1>6. ASSUME NEW q \in Process PROVE TmpOK(q)'
  BY <1>1, <1>2, <1>3, <1>4, <1>5 DEF IInv, TInv, Procs, Whole, TmpOK, InStore
<1>7. ~(InStore("service") /\ InStore("cli"))'
  BY <1>2, <1>5 DEF IInv, TInv, Procs, InStore, Process
<1>8. QED
  BY <1>1, <1>2, <1>6, <1>7 DEF Whole

(* What is renamed is complete. *)
LEMMA ReplaceWhole ==
  ASSUME IInv, NEW p \in Process, replace(p)
  PROVE  CInv'
<1>1. SUFFICES ASSUME platform = "posix", ~overlapped, Whole PROVE Whole'
  BY DEF IInv, CInv, replace
<1>2. pc[p] = "replace" /\ UNCHANGED <<platform, overlapped>>
  BY DEF replace
<1>3. CASE Ends(p, "failed")
  <2>1. UNCHANGED <<exists, creds, tmp>> \/ "tmp" \in exists
    BY <1>3 DEF replace
  <2>2. CASE UNCHANGED <<exists, creds, tmp>>
    <3>1. CInv'
      BY <1>2, <1>3, <2>2, EndsQuiet, WholeFrame DEF IInv
    <3>2. QED
      BY <1>1, <1>2, <3>1 DEF CInv
  <2>3. CASE "tmp" \in exists
    BY <1>2, <1>3, <2>3 DEF replace, Ends, Goto, IInv, TInv, Procs
  <2>4. QED
    BY <2>1, <2>2, <2>3
<1>4. CASE ~Ends(p, "failed")
  <2>1. /\ "tmp" \in exists /\ creds' = tmp
        /\ exists' = (exists \ {"tmp"}) \cup {"creds"}
        /\ pc' = [pc EXCEPT ![p] = "verify"]
    BY <1>4 DEF replace, Goto
  <2>2. \A q \in Process \ {p} : ~InStore(q)
    BY <1>1, <1>2 DEF Whole, InStore, Process
  <2>3. \A q \in Process : fd[q] # "tmp" /\ fd[q] # "creds"
    BY <1>1, <1>2, <2>2 DEF Whole, TmpOK, InStore
  <2>4. fd' = [q \in Process |-> fd[q]]
    BY <1>4, <2>3 DEF replace
  <2>5. tmp.access # 0
    BY <1>1, <1>2, <2>1 DEF Whole, TmpOK
  <2>6. ASSUME NEW q \in Process PROVE TmpOK(q)' /\ ~InStore(q)'
    BY <1>2, <2>1, <2>2, <2>3, <2>4 DEF IInv, TInv, Procs, TmpOK, InStore
  <2>7. QED
    BY <2>1, <2>5, <2>6 DEF Whole, Process
<1>5. QED
  BY <1>3, <1>4

(* What happens to the processes from outside. *)
LEMMA OutsideSteps ==
  ASSUME IInv, Commands \/ stop \/ stopped \/ terminate \/ \E p \in Process : kill(p)
  PROVE  CInv'
<1>1. UNCHANGED <<platform, exists, creds, tmp, overlapped>>
  BY DEF Commands, run, enroll_command, set_config, scan_now, uninstall, Launch, stop, stopped,
         terminate, kill, Dies, files
<1>2. \A q \in Process : Quiet(q)
  <2>1. CASE Commands
    <3>1. PICK p \in Process, what \in Task, place \in {"ensure", "enroll", "save", "clear"} :
            \E cfg : Launch(p, what, place, cfg)
      BY <2>1 DEF Commands, run, enroll_command, set_config, scan_now, uninstall, Process, Task
    <3>2. /\ pc[p] = "off" /\ pc' = [pc EXCEPT ![p] = place] /\ fd' = fd
          /\ place \in Place \ {"fill", "replace"}
      BY <3>1 DEF Launch, Goto, Place
    <3>3. QED
      BY <3>2, OneQuiet DEF IInv
  <2>2. CASE stop
    BY <2>2 DEF stop, Quiet
  <2>3. CASE stopped \/ terminate \/ \E p \in Process : kill(p)
    BY <2>3, EndsQuiet DEF stopped, terminate, kill, Dies, Process, IInv
  <2>4. QED
    BY <2>1, <2>2, <2>3
<1>3. QED
  BY <1>1, <1>2, WholeFrame DEF IInv

(* Nothing is left, and what is open has no name. *)
LEMMA EraseWhole ==
  ASSUME IInv, erase
  PROVE  CInv'
<1>1. SUFFICES ASSUME platform = "posix", ~overlapped, Whole PROVE Whole'
  BY DEF IInv, CInv, erase
<1>2. /\ exists' = {} /\ pc' = pc
      /\ fd' = [q \in Process |-> IF fd[q] \in File THEN "gone" ELSE fd[q]]
  BY DEF erase
<1>3. ASSUME NEW q \in Process PROVE TmpOK(q)'
  BY <1>1, <1>2 DEF TmpOK, Whole, File
<1>4. QED
  BY <1>1, <1>2, <1>3 DEF Whole, InStore

LEMMA NextWhole ==
  ASSUME IInv, [Next]_vars
  PROVE  IInv'
<1>1. TInv'
  BY NextTyped DEF IInv
<1>2. CInv'
  <2>1. ASSUME NEW p \in Process, Step(p) PROVE CInv'
    BY <2>1, QuietSteps, RemovalSteps, StoreWhole, FillWhole, ReplaceWhole DEF Step
  <2>2. CASE Commands \/ stop \/ stopped \/ terminate \/ \E p \in Process : kill(p)
    BY <2>2, OutsideSteps
  <2>3. CASE erase
    BY <2>3, EraseWhole
  <2>4. CASE UNCHANGED vars
    BY <2>4 DEF vars, files, process, IInv, CInv, Whole, TmpOK, InStore
  <2>5. QED
    BY <2>1, <2>2, <2>3, <2>4 DEF Next
<1>3. QED
  BY <1>1, <1>2 DEF IInv

LEMMA InitWhole == Init => IInv
<1>1. ASSUME Init PROVE CInv
  <2>1. "creds" \in exists => creds.access # 0
    BY <1>1 DEF Init
  <2>2. \A q \in Process : TmpOK(q) /\ ~InStore(q)
    BY <1>1 DEF Init, TmpOK, InStore
  <2>3. QED
    BY <2>1, <2>2 DEF CInv, Whole, Process
<1>2. QED
  BY <1>1, InitTyped DEF IInv

LEMMA WholeFollows == IInv => CredentialsWhole
BY DEF IInv, CInv, Whole, CredentialsWhole

-------------------------------------------------------------------------------
(* The files and the processes stay in their domains, and a process that    *)
(* talks to a server, or is about to store a pair, has one: whatever        *)
(* commands run next to the service and wherever either is killed.          *)
THEOREM TypeCorrect == Spec => []TypeOK
<1>1. Init => TInv
  BY InitTyped
<1>2. TInv /\ [Next]_vars => TInv'
  BY NextTyped
<1>3. TInv => TypeOK
  BY TypeFollows
<1>4. QED
  BY <1>1, <1>2, <1>3, PTL DEF Spec

(* No kill between any two system calls leaves a credentials.bin that reads *)
(* as nothing, as long as no two processes store a pair at once.            *)
THEOREM AtomicStore == Spec => []CredentialsWhole
<1>1. Init => IInv
  BY InitWhole
<1>2. IInv /\ [Next]_vars => IInv'
  BY NextWhole
<1>3. IInv => CredentialsWhole
  BY WholeFollows
<1>4. QED
  BY <1>1, <1>2, <1>3, PTL DEF Spec
===============================================================================
