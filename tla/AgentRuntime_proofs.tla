--------------------------- MODULE AgentRuntime_proofs ---------------------------
(***************************************************************************)
(* Proofs about AgentRuntime, for any limit of due() and any bounds.       *)
(*                                                                         *)
(* The invariants of the runs are not inductive by themselves.  What is    *)
(* missing is what the thread knows at each place it can be at: that a row *)
(* about to be deleted was answered for, that a rescan about to be         *)
(* acknowledged was answered for or is queued, that a session about to be  *)
(* forgotten is over.                                                      *)
(***************************************************************************)
EXTENDS AgentRuntime, SequenceTheorems, TLAPS

RowState == {"none", "due", "waiting", "resting", "poisoned"}

(* do_full_scan(source="rescan_command") runs for the command at hand.      *)
RescanInHand ==
  source = "rescan_command" =>
    /\ pc \in {"scan", "upload", "enqueue", "ack", "ack_failed"}
    /\ todo # <<>> /\ Head(todo) = "rescan"

(* What the server said it has: it has it, or it misled the agent.          *)
Answered == accepted \cup misled

(* A row is deleted after the server answered for its scan.                 *)
SentIsAnswered == pc = "mark_sent" => \A s \in Scan : First(s) => s \in Answered

(* A rescan is acknowledged after its scan was answered for, or queued.     *)
AckFollowsScan ==
  pc = "ack" /\ Head(todo) = "rescan" =>
    taken \in Scan /\ (taken \in Answered \/ Held(taken))

(* Credentials are cleared after the server stopped honouring them.         *)
ForgottenIsOver == pc \in {"forget", "clear_credentials"} => honoured # "disk"

(* A scan still in hand, or to come, has no row.                            *)
QueuedOnce == \A s \in Scan : s > taken \/ s \in InHand => ~Held(s)

IInv ==
  /\ TypeOK /\ RescanInHand /\ SentIsAnswered /\ AckFollowsScan /\ ForgottenIsOver
  /\ QueuedOnce
  /\ EveryScanAccountedFor /\ VouchedIsSafe

USE LimitAssumption, MaxScansAssumption, MaxBatchAssumption, MaxUpsetsAssumption,
    PatienceAssumption

-------------------------------------------------------------------------------
(* The answer to a heartbeat is a list of at most MaxBatch commands.        *)
LEMMA AnswersAreLists ==
  ASSUME NEW cmds \in Answers
  PROVE  cmds \in Seq(Kind) /\ Len(cmds) <= MaxBatch
<1>1. cmds \in UNION {[1 .. n -> Kind] : n \in 0 .. MaxBatch}
  BY Zenon DEF Answers
<1>2. PICK n \in 0 .. MaxBatch : cmds \in [1 .. n -> Kind]
  BY <1>1
<1>3. QED
  BY <1>2

(* What is left of it after the command at hand. *)
LEMMA TodoShrinks ==
  ASSUME todo \in Seq(Kind), Len(todo) <= MaxBatch, todo # <<>>
  PROVE  /\ Head(todo) \in Kind
         /\ Tail(todo) \in Seq(Kind) /\ Len(Tail(todo)) <= MaxBatch
BY HeadTailProperties

(* The rows a flush reads are due. *)
LEMMA DueAreDue == Due \subseteq Scan /\ \A s \in Due : outbox[s] = "due"
BY DEF Due

(* A thread that died. *)
LEMMA NoCommands == <<>> \in Seq(Kind) /\ Len(<<>>) <= MaxBatch
OBVIOUS

LEMMA DeadThread ==
  ASSUME TypeOK, NEW how \in {"killed", "crashed"}, NEW place \in Down, Dies(how, place)
  PROVE  /\ pc' \in Down /\ source' = "enrollment" /\ batch' = {} /\ stopping' = FALSE
         /\ todo' = <<>> /\ todo' \in Seq(Kind) /\ Len(todo') <= MaxBatch
         /\ fate' \in [Scan -> {"kept", "killed", "crashed"}]
BY NoCommands DEF Dies, TypeOK

(* A thread in which an exception was raised: gone, or in the except clause *)
(* of the command at hand.                                                  *)
LEMMA RaisedThread ==
  ASSUME TypeOK, RescanInHand, Raise
  PROVE  /\ pc' \in {"down", "ack_failed"}
         /\ source' \in {"enrollment", source} /\ batch' \in {{}, batch}
         /\ stopping' \in BOOLEAN
         /\ todo' \in Seq(Kind) /\ Len(todo') <= MaxBatch
         /\ pc' = "down" => /\ source' = "enrollment" /\ todo' = <<>>
                            /\ batch' = {} /\ stopping' = FALSE
         /\ pc' = "ack_failed" => todo' # <<>> /\ todo' = todo
         /\ fate' \in [Scan -> {"kept", "killed", "crashed"}]
<1>1. CASE Dies("crashed", "down")
  <2>1. "crashed" \in {"killed", "crashed"} /\ "down" \in Down
    BY DEF Down
  <2>2. QED
    BY <1>1, <2>1, DeadThread DEF Dies
<1>2. CASE /\ pc = "ack" \/ (pc \in {"upload", "enqueue"} /\ source = "rescan_command")
           /\ pc' = "ack_failed"
           /\ fate' = [s \in Scan |-> IF s \in InHand THEN "crashed" ELSE fate[s]]
           /\ UNCHANGED <<source, todo, batch, stopping>>
  BY <1>2 DEF TypeOK, RescanInHand, Place, Down
<1>3. QED
  BY <1>1, <1>2 DEF Raise

(* Nothing else of the state can lose its type in a step that raises. *)
LEMMA RaisedTyped ==
  ASSUME TypeOK, RescanInHand, Raise, honoured # "answer", UNCHANGED <<disk, taken>>,
         honoured' \in {honoured, "nobody"},
         accepted' \subseteq Scan, vouched' \subseteq Scan, misled' \subseteq Scan,
         upsets' \in 0 .. MaxUpsets
  PROVE  TypeOK'
<1>1. /\ pc' \in {"down", "ack_failed"}
      /\ source' \in {"enrollment", source} /\ batch' \in {{}, batch}
      /\ stopping' \in BOOLEAN
      /\ todo' \in Seq(Kind) /\ Len(todo') <= MaxBatch
      /\ pc' = "down" => todo' = <<>> /\ batch' = {} /\ stopping' = FALSE
      /\ pc' = "ack_failed" => todo' # <<>>
      /\ fate' \in [Scan -> {"kept", "killed", "crashed"}]
  BY RaisedThread
<1>2. pc' \in Place /\ source' \in {"enrollment", "scheduled", "rescan_command"}
  BY <1>1 DEF TypeOK, Place, Down
<1>3. server_url' \in BOOLEAN /\ device_id' \in BOOLEAN /\ stored' \in BOOLEAN
  BY DEF TypeOK, disk
<1>4. /\ honoured' \in {"disk", "nobody"} /\ (honoured' = "disk" => stored')
  BY Zenon DEF TypeOK, disk
<1>5. batch' \subseteq Scan /\ taken' \in 0 .. MaxScans
      /\ outbox' \in [Scan -> RowState] /\ attempts' \in [Scan -> 0 .. Patience]
  BY <1>1 DEF TypeOK, disk, rows, RowState
<1>6. QED
  BY <1>1, <1>2, <1>3, <1>4, <1>5 DEF TypeOK, Down, RowState

(* What a call leaves of the bounds and of the server's scans.              *)
LEMMA CallTyped ==
  ASSUME TypeOK, NEW r \in Result, Call(r)
  PROVE  upsets' \in 0 .. MaxUpsets
BY DEF TypeOK, Call, Upset

LEMMA UploadTyped ==
  ASSUME TypeOK, NEW r \in Result, NEW s \in Scan, Upload(r, s)
  PROVE  /\ accepted' \subseteq Scan /\ misled' \subseteq Scan
         /\ upsets' \in 0 .. MaxUpsets
BY CallTyped DEF TypeOK, Upload

THEOREM Initially == Init => IInv
<1> SUFFICES ASSUME Init PROVE IInv
  OBVIOUS
<1>1. TypeOK
  <2>1. todo = <<>> /\ todo \in Seq(Kind) /\ Len(todo) <= MaxBatch
    BY NoCommands DEF Init
  <2>2. /\ pc \in Down /\ pc \in Place /\ batch = {}
        /\ outbox \in [Scan -> RowState] /\ attempts \in [Scan -> 0 .. Patience]
        /\ fate \in [Scan -> {"kept", "killed", "crashed"}]
        /\ taken \in 0 .. MaxScans /\ upsets \in 0 .. MaxUpsets
    BY DEF Init, Down, Place, RowState
  <2>3. QED
    BY <2>1, <2>2 DEF Init, TypeOK, Down, RowState
<1>2. RescanInHand /\ SentIsAnswered /\ AckFollowsScan /\ ForgottenIsOver /\ QueuedOnce
  BY DEF Init, RescanInHand, SentIsAnswered, AckFollowsScan, ForgottenIsOver, QueuedOnce, Held
<1>3. EveryScanAccountedFor /\ VouchedIsSafe
  BY DEF Init, EveryScanAccountedFor, VouchedIsSafe, Scan
<1>4. QED
  BY <1>1, <1>2, <1>3 DEF IInv

-------------------------------------------------------------------------------
(* Every step preserves the types.  The places and the rows come from the   *)
(* guard of the step, the rest from IInv.                                   *)
LEMMA TypeStep == IInv /\ [Next]_vars => TypeOK'
<1> SUFFICES ASSUME IInv, [Next]_vars PROVE TypeOK'
  OBVIOUS
<1> TypeOK /\ RescanInHand /\ AckFollowsScan /\ ForgottenIsOver
  BY DEF IInv
<1> USE DEF Down, Place, Goto, disk, server, history
<1>1. CASE start
  BY <1>1 DEF TypeOK, start
<1>2. CASE boot
  BY <1>2, DeadThread DEF TypeOK, boot
<1>3. CASE save_config
  BY <1>3 DEF TypeOK, rows, save_config
<1>4. CASE store_credentials
  BY <1>4 DEF TypeOK, rows, store_credentials, AfterEnroll
<1>5. CASE collect
  <2>1. UNCHANGED <<todo, batch, stopping, fate, disk, server, vouched, misled, upsets>>
    BY <1>5 DEF collect, ScanDone
  <2>2. taken' \in 0 .. MaxScans /\ (pc' = "upload" => taken' > 0)
    BY <1>5 DEF collect, ScanDone, AfterScan, TypeOK
  <2>3. pc' \in {"upload", "loop"} /\ source' \in {source, "scheduled"}
    BY <1>5 DEF collect, ScanDone, AfterScan
  <2>4. pc = "scan"
    BY <1>5 DEF collect
  <2>5. QED
    BY <2>1, <2>2, <2>3, <2>4 DEF TypeOK
<1>6. CASE enqueue
  <2>1. CASE Upset /\ Raise /\ UNCHANGED outbox
    <3>1. UNCHANGED <<disk, taken, server, vouched, misled>> /\ honoured # "answer"
      BY <1>6, <2>1 DEF enqueue, TypeOK
    <3>2. upsets' \in 0 .. MaxUpsets
      BY <2>1 DEF TypeOK, Upset
    <3>3. QED
      BY <2>1, <3>1, <3>2, RaisedTyped DEF TypeOK
  <2>2. CASE outbox' = [outbox EXCEPT ![taken] = "due"] /\ ScanDone /\ UNCHANGED upsets
    BY <1>6, <2>2 DEF enqueue, TypeOK, Scan, ScanDone, AfterScan, RescanInHand
  <2>3. QED
    BY <1>6, <2>1, <2>2 DEF enqueue
<1>7. CASE loop
  BY <1>7, DeadThread DEF TypeOK, loop
<1>8. CASE forget
  BY <1>8 DEF TypeOK, rows, forget
<1>9. CASE clear_credentials
  BY <1>9 DEF TypeOK, rows, clear_credentials, ForgottenIsOver
<1>10. CASE handle_command
  BY <1>10 DEF TypeOK, handle_command
<1>11. CASE schedule \/ no_flush
  BY <1>11 DEF TypeOK, schedule, no_flush
<1>12. CASE flush
  BY <1>12, DueAreDue DEF TypeOK, flush
<1>13. ASSUME NEW s \in Scan, mark_sent(s) PROVE TypeOK'
  BY <1>13 DEF TypeOK, mark_sent, First, NextRow
<1>14. ASSUME NEW s \in Scan, NEW r \in Result, resend(r, s) PROVE TypeOK'
  <2>1. upsets' \in 0 .. MaxUpsets /\ accepted' \subseteq Scan /\ misled' \subseteq Scan
    BY <1>14, UploadTyped DEF resend
  <2>2. CASE r = "exception"
    BY <1>14, <2>1, <2>2, RaisedTyped DEF resend, rows, TypeOK
  <2>3. CASE r # "exception"
    <3>1. outbox' \in [Scan -> RowState] /\ attempts' \in [Scan -> 0 .. Patience]
          /\ \A t \in Scan : t # s => outbox'[t] = outbox[t]
      <4>1. CASE UNCHANGED rows
        BY <4>1 DEF rows, TypeOK, RowState
      <4>2. ASSUME NEW poisoned, mark_failed(s, poisoned)
            PROVE  /\ outbox' \in [Scan -> RowState] /\ attempts' \in [Scan -> 0 .. Patience]
                   /\ \A t \in Scan : t # s => outbox'[t] = outbox[t]
        BY <4>2 DEF mark_failed, TypeOK, RowState
      <4>3. QED
        BY <1>14, <2>3, <4>1, <4>2 DEF resend, Result
    <3>2. \/ pc' = "mark_sent" /\ UNCHANGED <<batch, rows>>
          \/ pc' = "loop" /\ batch' = {}
          \/ NextRow(s)
      BY <1>14, <2>3 DEF resend, Result
    <3>3. UNCHANGED <<source, todo, stopping, fate, server_url, device_id, stored, honoured,
                      taken, vouched>>
      BY <1>14, <2>3 DEF resend, Result, NextRow
    <3>4. /\ pc = "resend" /\ s \in batch /\ honoured # "answer"
          /\ pc' \in {"mark_sent", "resend", "loop"} /\ batch' \subseteq batch
          /\ pc' \in {"mark_sent", "resend"} =>
               batch' # {} /\ \A t \in batch' : outbox'[t] = "due"
      BY <1>14, <3>1, <3>2 DEF rows, resend, TypeOK, First, NextRow
    <3>5. QED
      BY <2>1, <3>1, <3>3, <3>4 DEF TypeOK, RowState
  <2>4. QED
    BY <2>2, <2>3
<1>15. ASSUME NEW r \in Result, enroll(r) PROVE TypeOK'
  <2>1. CASE r = "exception"
    <3>1. /\ Raise /\ honoured # "answer" /\ honoured' \in {honoured, "nobody"}
          /\ UNCHANGED <<disk, accepted, taken, vouched, misled>>
      BY <1>15, <2>1 DEF enroll, TypeOK
    <3>2. upsets' \in 0 .. MaxUpsets
      BY <1>15, <2>1 DEF enroll, TypeOK, Upset
    <3>3. QED
      BY <3>1, <3>2, RaisedTyped DEF TypeOK
  <2>2. CASE r # "exception"
    <3>1. /\ pc' \in {"save_config", "boot", "schedule"}
          /\ UNCHANGED <<source, todo, batch, stopping, fate>>
          /\ UNCHANGED <<disk, accepted, taken, vouched, misled>>
      BY <1>15, <2>2 DEF enroll, AfterEnroll, Result
    <3>2. /\ honoured' \in {"disk", "answer", "nobody"}
          /\ honoured' = "disk" => stored
          /\ honoured' = "answer" => pc' = "save_config"
      BY <1>15, <2>2 DEF enroll, Result, TypeOK
    <3>3. upsets' \in 0 .. MaxUpsets
      BY <1>15, <2>2 DEF enroll, Result, TypeOK, Upset
    <3>4. QED
      BY <3>1, <3>2, <3>3 DEF TypeOK
  <2>3. QED
    BY <2>1, <2>2
<1>16. ASSUME NEW r \in Result, upload(r) PROVE TypeOK'
  <2>1. upsets' \in 0 .. MaxUpsets /\ accepted' \subseteq Scan /\ misled' \subseteq Scan
    <3>1. taken \in Scan
      BY <1>16 DEF upload, TypeOK, Scan
    <3>2. QED
      BY <1>16, <3>1, UploadTyped DEF upload
  <2>2. CASE r = "exception"
    BY <1>16, <2>1, <2>2, RaisedTyped DEF upload, TypeOK
  <2>3. CASE r # "exception"
    BY <1>16, <2>1, <2>3 DEF upload, TypeOK, ScanDone, AfterScan, RescanInHand
  <2>4. QED
    BY <2>2, <2>3
<1>17. ASSUME NEW r \in Result, ack(r) PROVE TypeOK'
  <2>1. upsets' \in 0 .. MaxUpsets
    BY <1>17, CallTyped DEF ack
  <2>2. CASE r = "exception"
    BY <1>17, <2>1, <2>2, RaisedTyped DEF ack, TypeOK, AckFollowsScan
  <2>3. CASE r # "exception"
    BY <1>17, <2>1, <2>3, TodoShrinks DEF ack, TypeOK, AckFollowsScan, NextCommand
  <2>4. QED
    BY <2>2, <2>3
<1>18. ASSUME NEW r \in Result, ack_failed(r) PROVE TypeOK'
  <2>1. upsets' \in 0 .. MaxUpsets
    BY <1>18, CallTyped DEF ack_failed
  <2>2. CASE r = "exception"
    BY <1>18, <2>1, <2>2, RaisedTyped DEF ack_failed, TypeOK
  <2>3. CASE r # "exception"
    BY <1>18, <2>1, <2>3, TodoShrinks DEF ack_failed, TypeOK, NextCommand
  <2>4. QED
    BY <2>2, <2>3
<1>19. ASSUME NEW r \in Result, NEW cmds \in Answers, heartbeat(r, cmds) PROVE TypeOK'
  <2>1. upsets' \in 0 .. MaxUpsets
    BY <1>19, CallTyped DEF heartbeat
  <2>2. CASE r = "exception"
    BY <1>19, <2>1, <2>2, RaisedTyped DEF heartbeat, TypeOK
  <2>3. CASE r # "exception"
    BY <1>19, <2>1, <2>3, AnswersAreLists DEF heartbeat, TypeOK
  <2>4. QED
    BY <2>2, <2>3
<1>20. CASE signal
  BY <1>20 DEF TypeOK, signal, Upset
<1>21. CASE kill
  <2>1. "killed" \in {"killed", "crashed"} /\ "down" \in Down /\ Dies("killed", "down")
    BY <1>21 DEF TypeOK, kill
  <2>2. /\ pc' = "down" /\ source' = "enrollment" /\ batch' = {} /\ stopping' = FALSE
        /\ todo' = <<>> /\ todo' \in Seq(Kind) /\ Len(todo') <= MaxBatch
        /\ fate' \in [Scan -> {"kept", "killed", "crashed"}]
    BY <2>1, DeadThread DEF Dies
  <2>3. /\ server_url' \in BOOLEAN /\ device_id' \in BOOLEAN /\ stored' \in BOOLEAN
        /\ honoured' \in {"disk", "nobody"} /\ (honoured' = "disk" => stored')
    <3>1. server_url' \in BOOLEAN /\ device_id' \in BOOLEAN /\ stored' \in BOOLEAN
      BY <1>21, Zenon DEF TypeOK, kill
    <3>2. honoured' \in {"disk", "nobody"}
      BY <1>21, Zenon DEF TypeOK, kill
    <3>3. honoured' = "disk" => stored'
      BY <1>21, Zenon DEF TypeOK, kill
    <3>4. QED
      BY <3>1, <3>2, <3>3
  <2>4. upsets' \in 0 .. MaxUpsets
    BY <1>21 DEF TypeOK, kill, Upset
  <2>5. QED
    BY <1>21, <2>2, <2>3, <2>4 DEF TypeOK, rows, kill
<1>22. CASE set_config
  BY <1>22 DEF TypeOK, rows, set_config, thread
<1>23. CASE revoke_agent
  <2>1. upsets' \in 0 .. MaxUpsets
    BY <1>23 DEF TypeOK, revoke_agent, Upset
  <2>2. QED
    BY <1>23, <2>1 DEF TypeOK, revoke_agent, thread
<1>24. ASSUME NEW s \in Scan, lapse(s) PROVE TypeOK'
  <2>1. /\ outbox' \in [Scan -> RowState]
        /\ \A t \in Scan : outbox[t] = "due" => outbox'[t] = "due"
    BY <1>24 DEF TypeOK, RowState, lapse
  <2>2. UNCHANGED <<thread, server_url, device_id, stored, attempts, server, history>>
    BY <1>24 DEF lapse
  <2>3. QED
    BY <2>1, <2>2 DEF TypeOK, RowState, thread
<1>25. CASE UNCHANGED vars
  BY <1>25 DEF TypeOK, vars, thread
<1>26. QED
  BY <1>1, <1>2, <1>3, <1>4, <1>5, <1>6, <1>7, <1>8, <1>9, <1>10, <1>11, <1>12, <1>13,
     <1>14, <1>15, <1>16, <1>17, <1>18, <1>19, <1>20, <1>21, <1>22, <1>23, <1>24, <1>25
     DEF Next, Thread, World

-------------------------------------------------------------------------------
(* What the thread knows at each place.                                     *)
LEMMA RescanStep == IInv /\ [Next]_vars => RescanInHand'
<1> SUFFICES ASSUME IInv, [Next]_vars PROVE RescanInHand'
  OBVIOUS
<1> TypeOK /\ RescanInHand
  BY DEF IInv
<1> USE DEF Goto, Down
<1>1. ASSUME Raise PROVE RescanInHand'
  BY <1>1, RaisedThread DEF RescanInHand
<1>2. ASSUME NEW how, NEW place, Dies(how, place) PROVE RescanInHand'
  BY <1>2 DEF Dies, RescanInHand
<1>3. CASE start \/ boot \/ save_config \/ store_credentials \/ loop \/ forget
            \/ clear_credentials \/ schedule \/ flush \/ no_flush
  BY <1>2, <1>3 DEF RescanInHand, start, boot, save_config, store_credentials, loop,
       forget, clear_credentials, schedule, flush, no_flush
<1>4. CASE collect
  BY <1>4 DEF RescanInHand, collect, ScanDone
<1>5. CASE enqueue
  BY <1>1, <1>5 DEF RescanInHand, enqueue, ScanDone, AfterScan
<1>6. CASE handle_command
  BY <1>6 DEF RescanInHand, handle_command
<1>7. ASSUME NEW s \in Scan, mark_sent(s) PROVE RescanInHand'
  BY <1>7 DEF RescanInHand, mark_sent, NextRow
<1>8. ASSUME NEW s \in Scan, NEW r \in Result, resend(r, s) PROVE RescanInHand'
  BY <1>1, <1>8 DEF RescanInHand, resend, NextRow
<1>9. ASSUME NEW r \in Result, enroll(r) PROVE RescanInHand'
  BY <1>1, <1>9 DEF RescanInHand, enroll
<1>10. ASSUME NEW r \in Result, upload(r) PROVE RescanInHand'
  BY <1>1, <1>10 DEF RescanInHand, upload, ScanDone, AfterScan
<1>11. ASSUME NEW r \in Result, ack(r) \/ ack_failed(r) PROVE RescanInHand'
  BY <1>1, <1>11 DEF RescanInHand, ack, ack_failed, NextCommand
<1>12. ASSUME NEW r \in Result, NEW cmds \in Answers, heartbeat(r, cmds)
       PROVE  RescanInHand'
  BY <1>1, <1>12 DEF RescanInHand, heartbeat
<1>13. CASE signal \/ kill \/ set_config \/ revoke_agent
  BY <1>2, <1>13 DEF RescanInHand, signal, kill, set_config, revoke_agent, thread
<1>14. CASE (\E s \in Scan : lapse(s)) \/ UNCHANGED vars
  BY <1>14 DEF RescanInHand, lapse, vars, thread
<1>15. QED
  BY <1>3, <1>4, <1>5, <1>6, <1>7, <1>8, <1>9, <1>10, <1>11, <1>12, <1>13, <1>14
     DEF Next, Thread, World

(* A session the thread is about to forget stays over: only                 *)
(* store_credentials makes the server's pair the one on the disk.           *)
LEMMA ForgottenStep == IInv /\ [Next]_vars => ForgottenIsOver'
<1> SUFFICES ASSUME IInv, [Next]_vars PROVE ForgottenIsOver'
  OBVIOUS
<1> TypeOK /\ RescanInHand /\ ForgottenIsOver
  BY DEF IInv
<1> USE DEF Goto, Down
<1>1. ASSUME Raise PROVE ForgottenIsOver'
  BY <1>1, RaisedThread DEF ForgottenIsOver
<1>2. ASSUME NEW how, NEW place \in Down, Dies(how, place) PROVE ForgottenIsOver'
  BY <1>2 DEF Dies, ForgottenIsOver
<1>3. CASE start \/ boot \/ save_config \/ store_credentials \/ loop \/ forget
            \/ clear_credentials \/ schedule \/ flush \/ no_flush \/ handle_command
  BY <1>2, <1>3 DEF ForgottenIsOver, start, boot, save_config, store_credentials, loop,
       forget, clear_credentials, schedule, flush, no_flush, handle_command, AfterEnroll,
       server
<1>4. CASE collect \/ enqueue
  BY <1>1, <1>4 DEF ForgottenIsOver, collect, enqueue, ScanDone, AfterScan
<1>5. ASSUME NEW s \in Scan, mark_sent(s) PROVE ForgottenIsOver'
  BY <1>5 DEF ForgottenIsOver, mark_sent, NextRow
<1>6. ASSUME NEW s \in Scan, NEW r \in Result, resend(r, s) PROVE ForgottenIsOver'
  BY <1>1, <1>6 DEF ForgottenIsOver, resend, NextRow
<1>7. ASSUME NEW r \in Result, enroll(r) PROVE ForgottenIsOver'
  BY <1>1, <1>7 DEF ForgottenIsOver, enroll, AfterEnroll
<1>8. ASSUME NEW r \in Result, upload(r) PROVE ForgottenIsOver'
  BY <1>1, <1>8 DEF ForgottenIsOver, upload, ScanDone, AfterScan
<1>9. ASSUME NEW r \in Result, ack(r) \/ ack_failed(r) PROVE ForgottenIsOver'
  BY <1>1, <1>9 DEF ForgottenIsOver, ack, ack_failed, NextCommand
<1>10. ASSUME NEW r \in Result, NEW cmds \in Answers, heartbeat(r, cmds)
       PROVE  ForgottenIsOver'
  BY <1>1, <1>10 DEF ForgottenIsOver, heartbeat, Call, server
<1>11. CASE signal \/ kill \/ set_config \/ revoke_agent
  BY <1>2, <1>11 DEF ForgottenIsOver, signal, kill, set_config, revoke_agent, thread, server
<1>12. CASE (\E s \in Scan : lapse(s)) \/ UNCHANGED vars
  BY <1>12 DEF ForgottenIsOver, lapse, vars, thread, server
<1>13. QED
  BY <1>3, <1>4, <1>5, <1>6, <1>7, <1>8, <1>9, <1>10, <1>11, <1>12
     DEF Next, Thread, World

-------------------------------------------------------------------------------
(* Nothing the server stored, or said it stored, is forgotten. *)
LEMMA ServerRemembers ==
  ASSUME TypeOK, [Next]_vars
  PROVE  accepted \subseteq accepted' /\ misled \subseteq misled'
<1> USE DEF server, history, Dies
<1>1. CASE start \/ boot \/ save_config \/ store_credentials \/ loop \/ forget
            \/ clear_credentials \/ schedule \/ flush \/ no_flush \/ handle_command
            \/ collect \/ enqueue
  BY <1>1 DEF start, boot, save_config, store_credentials, loop, forget,
       clear_credentials, schedule, flush, no_flush, handle_command, collect, enqueue
<1>2. ASSUME NEW s \in Scan, mark_sent(s) \/ lapse(s)
      PROVE  accepted \subseteq accepted' /\ misled \subseteq misled'
  BY <1>2 DEF mark_sent, lapse
<1>3. ASSUME NEW s \in Scan, NEW r \in Result, resend(r, s)
      PROVE  accepted \subseteq accepted' /\ misled \subseteq misled'
  BY <1>3 DEF resend, Upload
<1>4. ASSUME NEW r \in Result, upload(r) \/ enroll(r) \/ ack(r) \/ ack_failed(r)
      PROVE  accepted \subseteq accepted' /\ misled \subseteq misled'
  BY <1>4 DEF upload, Upload, enroll, ack, ack_failed
<1>5. ASSUME NEW r \in Result, NEW cmds \in Answers, heartbeat(r, cmds)
      PROVE  accepted \subseteq accepted' /\ misled \subseteq misled'
  BY <1>5 DEF heartbeat
<1>6. CASE signal \/ kill \/ set_config \/ revoke_agent \/ UNCHANGED vars
  BY <1>6 DEF signal, kill, set_config, revoke_agent, vars
<1>7. QED
  BY <1>1, <1>2, <1>3, <1>4, <1>5, <1>6 DEF Next, Thread, World

(* The outbox, step by step: a row is deleted by mark_sent only.            *)
LEMMA RowsStay ==
  ASSUME TypeOK, SentIsAnswered, [Next]_vars, NEW s \in Scan
  PROVE  Held(s) => Held(s)' \/ s \in Answered
<1> USE DEF rows, disk, Held
<1> DEFINE Goal == Held(s) => Held(s)' \/ s \in Answered
<1>1. CASE UNCHANGED outbox
  BY <1>1
<1>2. CASE enqueue
  BY <1>2 DEF enqueue, TypeOK
<1>3. ASSUME NEW t \in Scan, mark_sent(t) PROVE Goal
  BY <1>3 DEF mark_sent, SentIsAnswered, TypeOK
<1>4. ASSUME NEW t \in Scan, lapse(t) PROVE Goal
  BY <1>4 DEF lapse, TypeOK
<1>5. ASSUME NEW t \in Scan, NEW r \in Result, resend(r, t) PROVE Goal
  BY <1>5 DEF resend, mark_failed, TypeOK
<1>6. ASSUME NEW r \in Result, upload(r) \/ enroll(r) \/ ack(r) \/ ack_failed(r)
      PROVE  UNCHANGED outbox
  BY <1>6 DEF upload, enroll, ack, ack_failed
<1>7. ASSUME NEW r \in Result, NEW cmds \in Answers, heartbeat(r, cmds)
      PROVE  UNCHANGED outbox
  BY <1>7 DEF heartbeat
<1>8. CASE start \/ boot \/ save_config \/ store_credentials \/ loop \/ forget
            \/ clear_credentials \/ schedule \/ no_flush \/ handle_command
            \/ collect
  BY <1>1, <1>8 DEF start, boot, save_config, store_credentials, loop, forget,
       clear_credentials, schedule, no_flush, handle_command, collect
<1>9. CASE signal \/ kill \/ set_config \/ revoke_agent \/ UNCHANGED vars
  BY <1>1, <1>9 DEF signal, kill, set_config, revoke_agent, vars
<1>10. CASE flush
  BY <1>10 DEF flush
<1>11. QED
  BY <1>1, <1>2, <1>3, <1>4, <1>5, <1>6, <1>7, <1>8, <1>9, <1>10 DEF Next, Thread, World

(* Rows that are in the outbox wait there for the flush. *)
LEMMA SentStep == IInv /\ [Next]_vars => SentIsAnswered'
<1> SUFFICES ASSUME IInv, [Next]_vars, pc' = "mark_sent"
             PROVE  \A s \in Scan : First(s)' => s \in Answered'
  BY DEF SentIsAnswered
<1> TypeOK /\ RescanInHand /\ SentIsAnswered
  BY DEF IInv
<1>1. Answered \subseteq Answered'
  BY ServerRemembers DEF Answered
<1>2. CASE pc = "mark_sent" /\ batch' = batch
  BY <1>1, <1>2 DEF SentIsAnswered, First
<1> USE DEF Goto, Down
<1>3. ~Raise
  BY RaisedThread
<1>4. ASSUME NEW how, NEW place \in Down PROVE ~Dies(how, place)
  BY <1>4 DEF Dies
<1>5. ASSUME NEW s \in Scan, NEW r \in Result, resend(r, s)
      PROVE  \A t \in Scan : First(t)' => t \in Answered'
  <2>1. s \in Answered' /\ First(s) /\ batch' = batch
    BY <1>3, <1>5 DEF resend, Upload, NextRow, Answered
  <2>2. \A t \in Scan : First(t)' => t = s
    BY <2>1 DEF First, TypeOK, Scan
  <2>3. QED
    BY <2>1, <2>2
<1>6. ASSUME NEW s \in Scan, mark_sent(s) PROVE FALSE
  BY <1>6 DEF mark_sent, NextRow
<1>7. CASE signal \/ set_config \/ revoke_agent \/ UNCHANGED vars \/ \E s \in Scan : lapse(s)
  BY <1>2, <1>7 DEF signal, set_config, revoke_agent, lapse, vars, thread
<1>8. ASSUME NEW r \in Result, upload(r) \/ enroll(r) \/ ack(r) \/ ack_failed(r) PROVE FALSE
  BY <1>3, <1>8 DEF upload, enroll, ack, ack_failed, ScanDone, AfterScan, AfterEnroll,
       NextCommand
<1>9. ASSUME NEW r \in Result, NEW cmds \in Answers, heartbeat(r, cmds) PROVE FALSE
  BY <1>3, <1>9 DEF heartbeat
<1>10. CASE start \/ boot \/ save_config \/ store_credentials \/ loop \/ forget
            \/ clear_credentials \/ schedule \/ flush \/ no_flush \/ handle_command
            \/ collect \/ enqueue \/ kill
  BY <1>3, <1>4, <1>10 DEF start, boot, save_config, store_credentials, loop, forget,
       clear_credentials, schedule, flush, no_flush, handle_command, collect, enqueue,
       kill, ScanDone, AfterScan, AfterEnroll
<1>11. QED
  BY <1>5, <1>6, <1>7, <1>8, <1>9, <1>10 DEF Next, Thread, World

(* A scan leaves the hands of the thread for the server or for the outbox,  *)
(* or goes down with it; what went down stays so.                           *)
LEMMA ScanPassedOn ==
  ASSUME TypeOK, RescanInHand, [Next]_vars, NEW s \in Scan
  PROVE  /\ fate[s] # "kept" => fate'[s] # "kept"
         /\ s \in InHand => s \in Answered' \/ Held(s)' \/ s \in InHand' \/ fate'[s] # "kept"
<1> DEFINE Goal == /\ fate[s] # "kept" => fate'[s] # "kept"
                   /\ s \in InHand => \/ s \in Answered' \/ Held(s)'
                                     \/ s \in InHand' \/ fate'[s] # "kept"
<1>1. ASSUME NEW how \in {"killed", "crashed"}, NEW place, Dies(how, place) PROVE Goal
  BY <1>1 DEF Dies, TypeOK
<1>2. ASSUME Raise PROVE Goal
  BY <1>1, <1>2 DEF Raise, TypeOK
<1> USE DEF Goto
<1>3. CASE pc \notin {"upload", "enqueue"} /\ UNCHANGED fate
  BY <1>3 DEF InHand
<1>4. CASE UNCHANGED <<pc, taken, fate>>
  BY <1>4 DEF InHand
<1>5. ASSUME NEW r \in Result, upload(r) PROVE Goal
  <2>1. CASE r = "exception"
    BY <1>2, <1>5, <2>1 DEF upload
  <2>2. CASE r \in {"ok", "hollow"}
    BY <1>5, <2>2 DEF upload, Upload, ScanDone, InHand, Answered
  <2>3. CASE r \notin {"ok", "hollow", "exception"}
    BY <1>5, <2>3 DEF upload, InHand, Result
  <2>4. QED
    BY <2>1, <2>2, <2>3
<1>6. CASE enqueue
  <2>1. CASE outbox' = [outbox EXCEPT ![taken] = "due"] /\ ScanDone
    BY <1>6, <2>1 DEF enqueue, ScanDone, InHand, Held, TypeOK
  <2>2. QED
    BY <1>2, <1>6, <2>1 DEF enqueue
<1>7. CASE boot \/ loop \/ kill
  BY <1>1, <1>3, <1>7 DEF boot, loop, kill
<1>8. CASE start \/ save_config \/ store_credentials \/ forget \/ clear_credentials
            \/ schedule \/ flush \/ no_flush \/ handle_command \/ collect
  BY <1>3, <1>8 DEF start, save_config, store_credentials, forget, clear_credentials,
       schedule, flush, no_flush, handle_command, collect, ScanDone, Down
<1>9. ASSUME NEW t \in Scan, mark_sent(t) \/ lapse(t) PROVE Goal
  BY <1>3, <1>4, <1>9 DEF mark_sent, lapse, NextRow, thread, history
<1>10. ASSUME NEW t \in Scan, NEW r \in Result, resend(r, t) PROVE Goal
  BY <1>2, <1>3, <1>10 DEF resend, NextRow
<1>11. ASSUME NEW r \in Result, enroll(r) PROVE Goal
  BY <1>2, <1>3, <1>11 DEF enroll
<1>12. ASSUME NEW r \in Result, ack(r) \/ ack_failed(r) PROVE Goal
  BY <1>2, <1>3, <1>12 DEF ack, ack_failed, NextCommand
<1>13. ASSUME NEW r \in Result, NEW cmds \in Answers, heartbeat(r, cmds) PROVE Goal
  BY <1>2, <1>3, <1>13 DEF heartbeat
<1>14. CASE signal \/ set_config \/ revoke_agent \/ UNCHANGED vars
  BY <1>4, <1>14 DEF signal, set_config, revoke_agent, vars, thread, history
<1>15. QED
  BY <1>5, <1>6, <1>7, <1>8, <1>9, <1>10, <1>11, <1>12, <1>13, <1>14
     DEF Next, Thread, World

(* Scans are taken one at a time, by collect, which hands the new one on.   *)
LEMMA Takes ==
  ASSUME [Next]_vars
  PROVE  UNCHANGED taken \/ (taken' = taken + 1 /\ pc' = "upload")
<1> USE DEF history, Goto
<1>1. CASE collect
  BY <1>1 DEF collect
<1>2. CASE start \/ boot \/ save_config \/ store_credentials \/ loop \/ forget
            \/ clear_credentials \/ schedule \/ flush \/ no_flush \/ handle_command
            \/ enqueue
  BY <1>2 DEF start, boot, save_config, store_credentials, loop, forget,
       clear_credentials, schedule, flush, no_flush, handle_command, enqueue
<1>3. ASSUME NEW s \in Scan, mark_sent(s) \/ lapse(s) PROVE UNCHANGED taken
  BY <1>3 DEF mark_sent, lapse
<1>4. ASSUME NEW s \in Scan, NEW r \in Result, resend(r, s) PROVE UNCHANGED taken
  BY <1>4 DEF resend
<1>5. ASSUME NEW r \in Result, upload(r) \/ enroll(r) \/ ack(r) \/ ack_failed(r)
      PROVE  UNCHANGED taken
  BY <1>5 DEF upload, enroll, ack, ack_failed
<1>6. ASSUME NEW r \in Result, NEW cmds \in Answers, heartbeat(r, cmds)
      PROVE  UNCHANGED taken
  BY <1>6 DEF heartbeat
<1>7. CASE signal \/ kill \/ set_config \/ revoke_agent \/ UNCHANGED vars
  BY <1>7 DEF signal, kill, set_config, revoke_agent, vars
<1>8. QED
  BY <1>1, <1>2, <1>3, <1>4, <1>5, <1>6, <1>7 DEF Next, Thread, World

LEMMA AccountStep == IInv /\ [Next]_vars => EveryScanAccountedFor'
<1> SUFFICES ASSUME IInv, [Next]_vars, NEW s \in 1 .. taken'
             PROVE  s \in Answered' \/ Held(s)' \/ s \in InHand' \/ fate'[s] # "kept"
  BY DEF EveryScanAccountedFor, Answered
<1> TypeOK /\ RescanInHand /\ SentIsAnswered /\ TypeOK'
  BY TypeStep DEF IInv
<1>1. taken \in 0 .. MaxScans /\ taken' \in 0 .. MaxScans /\ s \in Scan
  BY DEF TypeOK, Scan
<1>2. CASE s \notin 1 .. taken
  BY <1>1, <1>2, Takes DEF InHand
<1>3. CASE s \in 1 .. taken
  <2>1. s \in Answered \/ Held(s) \/ s \in InHand \/ fate[s] # "kept"
    BY <1>3 DEF IInv, EveryScanAccountedFor, Answered
  <2>2. Answered \subseteq Answered'
    BY ServerRemembers DEF Answered
  <2>3. QED
    BY <1>1, <2>1, <2>2, RowsStay, ScanPassedOn
<1>4. QED
  BY <1>2, <1>3

(* do_full_scan returns to the acknowledgement with its scan answered for   *)
(* or queued, and a refusal by the server is not an acknowledgement.        *)
LEMMA AckStep == IInv /\ [Next]_vars => AckFollowsScan'
<1> SUFFICES ASSUME IInv, [Next]_vars, pc' = "ack", Head(todo') = "rescan"
             PROVE  taken' \in Scan /\ (taken' \in Answered' \/ Held(taken)')
  BY DEF AckFollowsScan
<1> TypeOK /\ RescanInHand /\ SentIsAnswered /\ AckFollowsScan
  BY DEF IInv
<1>1. CASE pc = "ack" /\ UNCHANGED <<todo, taken>>
  <2>1. taken \in Scan /\ (taken \in Answered \/ Held(taken))
    BY <1>1 DEF AckFollowsScan
  <2>2. Answered \subseteq Answered' /\ \A s \in Scan : Held(s) => Held(s)' \/ s \in Answered
    BY ServerRemembers, RowsStay DEF Answered
  <2>3. QED
    BY <1>1, <2>1, <2>2 DEF Held
<1> USE DEF Goto, Down
<1>2. ~Raise
  BY RaisedThread
<1>3. ASSUME NEW how, NEW place \in Down PROVE ~Dies(how, place)
  BY <1>3 DEF Dies
<1>4. ASSUME NEW r \in Result, upload(r)
      PROVE  taken' \in Scan /\ (taken' \in Answered' \/ Held(taken)')
  BY <1>2, <1>4 DEF upload, Upload, ScanDone, AfterScan, TypeOK, RescanInHand, Scan, Result,
       Answered
<1>5. CASE enqueue
  BY <1>2, <1>5 DEF enqueue, ScanDone, AfterScan, TypeOK, Scan, Held
<1>6. CASE collect
  BY <1>6 DEF collect, ScanDone, AfterScan
<1>7. CASE handle_command
  BY <1>7 DEF handle_command
<1>8. CASE start \/ boot \/ save_config \/ store_credentials \/ loop \/ forget
            \/ clear_credentials \/ schedule \/ flush \/ no_flush \/ kill
  BY <1>3, <1>8 DEF start, boot, save_config, store_credentials, loop, forget,
       clear_credentials, schedule, flush, no_flush, kill, AfterEnroll
<1>9. ASSUME NEW s \in Scan, mark_sent(s) PROVE FALSE
  BY <1>9 DEF mark_sent, NextRow
<1>10. ASSUME NEW s \in Scan, NEW r \in Result, resend(r, s) PROVE FALSE
  BY <1>2, <1>10 DEF resend, NextRow
<1>11. ASSUME NEW r \in Result, enroll(r) \/ ack(r) \/ ack_failed(r) PROVE FALSE
  BY <1>2, <1>11 DEF enroll, ack, ack_failed, AfterEnroll, NextCommand
<1>12. ASSUME NEW r \in Result, NEW cmds \in Answers, heartbeat(r, cmds) PROVE FALSE
  BY <1>2, <1>12 DEF heartbeat
<1>13. CASE signal \/ set_config \/ revoke_agent \/ UNCHANGED vars \/ \E s \in Scan : lapse(s)
  BY <1>1, <1>13 DEF signal, set_config, revoke_agent, lapse, vars, thread, history
<1>14. QED
  BY <1>4, <1>5, <1>6, <1>7, <1>8, <1>9, <1>10, <1>11, <1>12, <1>13 DEF Next, Thread, World

(* What was vouched for: nothing but the rescan just acknowledged.          *)
LEMMA Vouches ==
  ASSUME TypeOK, [Next]_vars, NEW s \in vouched', s \notin vouched
  PROVE  pc = "ack" /\ Head(todo) = "rescan" /\ s = taken
<1> USE DEF history
<1>1. CASE start \/ boot \/ save_config \/ store_credentials \/ loop \/ forget
            \/ clear_credentials \/ schedule \/ flush \/ no_flush \/ handle_command
            \/ collect \/ enqueue
  BY <1>1 DEF start, boot, save_config, store_credentials, loop, forget,
       clear_credentials, schedule, flush, no_flush, handle_command, collect, enqueue
<1>2. ASSUME NEW t \in Scan, mark_sent(t) \/ lapse(t) PROVE FALSE
  BY <1>2 DEF mark_sent, lapse
<1>3. ASSUME NEW t \in Scan, NEW r \in Result, resend(r, t) PROVE FALSE
  BY <1>3 DEF resend
<1>4. ASSUME NEW r \in Result, upload(r) \/ enroll(r) \/ ack_failed(r) PROVE FALSE
  BY <1>4 DEF upload, enroll, ack_failed
<1>5. ASSUME NEW r \in Result, ack(r)
      PROVE  pc = "ack" /\ Head(todo) = "rescan" /\ s = taken
  BY <1>5 DEF ack
<1>6. ASSUME NEW r \in Result, NEW cmds \in Answers, heartbeat(r, cmds) PROVE FALSE
  BY <1>6 DEF heartbeat
<1>7. CASE signal \/ kill \/ set_config \/ revoke_agent \/ UNCHANGED vars
  BY <1>7 DEF signal, kill, set_config, revoke_agent, vars
<1>8. QED
  BY <1>1, <1>2, <1>3, <1>4, <1>5, <1>6, <1>7 DEF Next, Thread, World

LEMMA VouchStep == IInv /\ [Next]_vars => VouchedIsSafe'
<1> SUFFICES ASSUME IInv, [Next]_vars, NEW s \in vouched'
             PROVE  s \in Answered' \/ Held(s)'
  BY DEF VouchedIsSafe, Answered
<1> TypeOK /\ SentIsAnswered /\ AckFollowsScan /\ VouchedIsSafe
  BY DEF IInv
<1>1. s \in Answered \/ Held(s)
  BY Vouches DEF VouchedIsSafe, AckFollowsScan, Answered
<1>2. s \in Scan
  BY Vouches DEF TypeOK, AckFollowsScan
<1>3. Answered \subseteq Answered'
  BY ServerRemembers DEF Answered
<1>4. QED
  BY <1>1, <1>2, <1>3, RowsStay

(* A row appears for the scan in hand only, which is passed on with that.   *)
LEMMA RowsAppear ==
  ASSUME TypeOK, RescanInHand, [Next]_vars, NEW s \in Scan, Held(s)', ~Held(s)
  PROVE  s = taken /\ UNCHANGED taken /\ InHand' = {}
<1> USE DEF rows, disk, Held
<1>1. ~UNCHANGED outbox
  OBVIOUS
<1>2. CASE enqueue
  BY <1>1, <1>2 DEF enqueue, TypeOK, ScanDone, AfterScan, InHand
<1>3. ASSUME NEW t \in Scan, mark_sent(t) PROVE FALSE
  BY <1>3 DEF mark_sent, TypeOK
<1>4. ASSUME NEW t \in Scan, lapse(t) PROVE FALSE
  BY <1>4 DEF lapse, TypeOK
<1>5. ASSUME NEW t \in Scan, NEW r \in Result, resend(r, t) PROVE FALSE
  BY <1>5 DEF resend, mark_failed, First, TypeOK
<1>6. ASSUME NEW r \in Result, upload(r) \/ enroll(r) \/ ack(r) \/ ack_failed(r)
      PROVE  FALSE
  BY <1>1, <1>6 DEF upload, enroll, ack, ack_failed
<1>7. ASSUME NEW r \in Result, NEW cmds \in Answers, heartbeat(r, cmds) PROVE FALSE
  BY <1>1, <1>7 DEF heartbeat
<1>8. CASE start \/ boot \/ save_config \/ store_credentials \/ loop \/ forget
            \/ clear_credentials \/ schedule \/ no_flush \/ handle_command
            \/ collect
  BY <1>1, <1>8 DEF start, boot, save_config, store_credentials, loop, forget,
       clear_credentials, schedule, no_flush, handle_command, collect
<1>9. CASE signal \/ kill \/ set_config \/ revoke_agent \/ UNCHANGED vars
  BY <1>1, <1>9 DEF signal, kill, set_config, revoke_agent, vars
<1>10. CASE flush
  BY <1>10 DEF flush, TypeOK
<1>11. QED
  BY <1>2, <1>3, <1>4, <1>5, <1>6, <1>7, <1>8, <1>9, <1>10 DEF Next, Thread, World

(* The hands of the thread: filled by collect, and then only emptied.       *)
LEMMA HandsFill ==
  ASSUME TypeOK, RescanInHand, [Next]_vars
  PROVE  InHand' \subseteq InHand \/ taken' = taken + 1
<1> USE DEF Goto, InHand
<1>1. CASE UNCHANGED <<pc, taken>>
  BY <1>1
<1>2. CASE pc' \notin {"upload", "enqueue"}
  BY <1>2
<1>3. ~Raise \/ pc' \notin {"upload", "enqueue"}
  BY DEF Raise, Dies
<1>4. CASE collect
  BY <1>4 DEF collect, ScanDone, AfterScan
<1>5. ASSUME NEW r \in Result, upload(r) PROVE InHand' \subseteq InHand
  BY <1>2, <1>3, <1>5 DEF upload, ScanDone, AfterScan
<1>6. CASE enqueue
  BY <1>2, <1>3, <1>6 DEF enqueue, ScanDone, AfterScan
<1>7. CASE start \/ boot \/ save_config \/ store_credentials \/ loop \/ forget
            \/ clear_credentials \/ schedule \/ flush \/ no_flush \/ handle_command \/ kill
  BY <1>2, <1>7 DEF start, boot, save_config, store_credentials, loop, forget,
       clear_credentials, schedule, flush, no_flush, handle_command, kill, AfterEnroll, Dies,
       Down
<1>8. ASSUME NEW s \in Scan, mark_sent(s) \/ lapse(s) PROVE InHand' \subseteq InHand
  BY <1>1, <1>2, <1>8 DEF mark_sent, lapse, NextRow, thread, history
<1>9. ASSUME NEW s \in Scan, NEW r \in Result, resend(r, s) PROVE InHand' \subseteq InHand
  BY <1>2, <1>3, <1>9 DEF resend, NextRow
<1>10. ASSUME NEW r \in Result, enroll(r) \/ ack(r) \/ ack_failed(r)
       PROVE  InHand' \subseteq InHand
  BY <1>2, <1>3, <1>10 DEF enroll, ack, ack_failed, NextCommand, AfterEnroll
<1>11. ASSUME NEW r \in Result, NEW cmds \in Answers, heartbeat(r, cmds)
       PROVE  InHand' \subseteq InHand
  BY <1>2, <1>3, <1>11 DEF heartbeat
<1>12. CASE signal \/ set_config \/ revoke_agent \/ UNCHANGED vars
  BY <1>1, <1>12 DEF signal, set_config, revoke_agent, vars, thread, history
<1>13. QED
  BY <1>4, <1>5, <1>6, <1>7, <1>8, <1>9, <1>10, <1>11, <1>12 DEF Next, Thread, World

LEMMA QueueStep == IInv /\ [Next]_vars => QueuedOnce'
<1> SUFFICES ASSUME IInv, [Next]_vars, NEW s \in Scan, s > taken' \/ s \in InHand',
                    Held(s)'
             PROVE  FALSE
  BY DEF QueuedOnce
<1> TypeOK /\ RescanInHand /\ QueuedOnce
  BY DEF IInv
<1>1. taken \in Nat /\ s \in Nat /\ s \in 1 .. MaxScans
  BY DEF TypeOK, Scan
<1>2. s > taken \/ s \in InHand
  BY <1>1, Takes, HandsFill DEF InHand
<1>3. ~Held(s)
  BY <1>2 DEF QueuedOnce
<1>4. s = taken /\ UNCHANGED taken /\ InHand' = {}
  BY <1>3, RowsAppear
<1>5. QED
  BY <1>1, <1>4

(* The invariant is inductive. *)
THEOREM Inductive == Spec => []IInv
<1>1. Init => IInv
  BY Initially
<1>2. IInv /\ [Next]_vars => IInv'
  <2> SUFFICES ASSUME IInv, [Next]_vars PROVE IInv'
    OBVIOUS
  <2> QED
    BY TypeStep, RescanStep, SentStep, AckStep, ForgottenStep, AccountStep, VouchStep,
       QueueStep DEF IInv
<1>3. QED
  BY <1>1, <1>2, PTL DEF Spec

-------------------------------------------------------------------------------
(* The thread and what is on the disk keep to their types, among them what  *)
(* a place of the thread implies: rows in its batch are due, a command is   *)
(* at hand where one is acknowledged, a pair the server honours is stored.  *)
THEOREM TypeCorrect == Spec => []TypeOK
<1>1. IInv => TypeOK
  BY DEF IInv
<1>2. QED
  BY <1>1, Inductive, PTL

(* Every scan that do_full_scan took is on the server, in the outbox, in    *)
(* hand, went down with the thread, or is one the agent was misled about.   *)
THEOREM ScansAccountedFor == Spec => []EveryScanAccountedFor
<1>1. IInv => EveryScanAccountedFor
  BY DEF IInv
<1>2. QED
  BY <1>1, Inductive, PTL

(* A rescan that _handle_command acknowledged with ok: True is not lost by  *)
(* the agent.                                                               *)
THEOREM AcknowledgedIsSafe == Spec => []VouchedIsSafe
<1>1. IInv => VouchedIsSafe
  BY DEF IInv
<1>2. QED
  BY <1>1, Inductive, PTL

(* The DELETE of _flush_outbox follows the server's word that it has the    *)
(* scan, so no kill and no lost answer costs a scan that was queued.        *)
THEOREM NoRowLost == Spec => RowsOutliveDelivery
<1>1. IInv /\ [Next]_vars
        => [\A s \in Scan : Held(s) /\ outbox'[s] = "none" => s \in accepted \cup misled]_vars
  <2> SUFFICES ASSUME IInv, [Next]_vars, NEW s \in Scan, Held(s), outbox'[s] = "none"
               PROVE  s \in accepted \cup misled
    OBVIOUS
  <2> TypeOK /\ SentIsAnswered
    BY DEF IInv
  <2> QED
    BY RowsStay DEF Held, Answered
<1>2. QED
  BY <1>1, Inductive, PTL DEF Spec, RowsOutliveDelivery
-------------------------------------------------------------------------------
(* The agent as a courier.  A step that leaves the scans where they are.    *)
LEMMA ErrandRests ==
  ASSUME UNCHANGED <<taken, accepted, misled, vouched>>,
         Queued' = Queued, Poisoned' = Poisoned, Lost' = Lost, InHand' = InHand
  PROVE  UNCHANGED Errand!vars
BY DEF Errand!vars

LEMMA RowsRest == outbox' = outbox => Queued' = Queued /\ Poisoned' = Poisoned
BY DEF Queued, Poisoned

(* What a place of the thread means for its hands. *)
LEMMA Hands ==
  /\ pc \in {"upload", "enqueue"} => InHand = {taken}
  /\ pc \notin {"upload", "enqueue"} => InHand = {}
  /\ pc' \in {"upload", "enqueue"} => InHand' = {taken'}
  /\ pc' \notin {"upload", "enqueue"} => InHand' = {}
BY DEF InHand

(* The thread goes down, or up to the except clause: a scan in its hands is *)
(* lost, be it with the server or not.                                      *)
LEMMA GoesDown ==
  ASSUME TypeOK, pc' \notin {"upload", "enqueue"},
         NEW how \in {"killed", "crashed"},
         fate' = [s \in Scan |-> IF s \in InHand THEN how ELSE fate[s]],
         UNCHANGED <<outbox, taken, misled, vouched>>,
         accepted' = accepted \/ (InHand # {} /\ accepted' = accepted \cup InHand)
  PROVE  [Errand!Next]_(Errand!vars)
<1>1. InHand' = {} /\ Queued' = Queued /\ Poisoned' = Poisoned
  BY Hands, RowsRest
<1>2. Lost' = Lost \cup InHand
  <2>1. InHand \subseteq Scan
    BY Hands DEF TypeOK, Scan
  <2>2. QED
    BY <2>1 DEF Lost, TypeOK
<1>3. CASE InHand = {}
  BY <1>1, <1>2, <1>3, ErrandRests
<1>4. CASE InHand # {}
  <2>1. InHand = {taken} /\ taken \in Scan
    BY <1>4, Hands DEF TypeOK, Scan
  <2>2. Errand!Lose(taken)
    BY <1>1, <1>2, <2>1 DEF Errand!Lose
  <2>3. QED
    BY <2>1, <2>2 DEF Errand!Next
<1>5. QED
  BY <1>3, <1>4

LEMMA RaisedFate ==
  ASSUME Raise
  PROVE  /\ pc' \notin {"upload", "enqueue"}
         /\ fate' = [s \in Scan |-> IF s \in InHand THEN "crashed" ELSE fate[s]]
BY DEF Raise, Dies

(* An upload of a scan that is in hand, or in the outbox.                   *)
LEMMA UploadOutcome ==
  ASSUME NEW r \in Result, NEW s \in Scan, Upload(r, s)
  PROVE  /\ accepted' = accepted \cup {s} \/ accepted' = accepted
         /\ r = "ok" => accepted' = accepted \cup {s}
         /\ r \in {"hollow", "unauthorized", "4xx"} => accepted' = accepted
         /\ r = "hollow" => misled' = misled \cup {s}
         /\ r # "hollow" => misled' = misled
BY DEF Upload

LEMMA UploadErrand ==
  ASSUME IInv, NEW r \in Result, upload(r)
  PROVE  [Errand!Next]_(Errand!vars)
<1> TypeOK /\ RescanInHand
  BY DEF IInv
<1>1. /\ pc = "upload" /\ taken \in Scan /\ InHand = {taken} /\ Upload(r, taken)
      /\ UNCHANGED <<outbox, taken, vouched>> /\ Queued' = Queued /\ Poisoned' = Poisoned
      /\ taken \notin Queued
  BY RowsRest, Hands DEF upload, TypeOK, Scan, disk, rows, IInv, QueuedOnce, Held, Queued
<1>2. CASE r = "ok"
  <2>1. Lost' = Lost /\ InHand' = {} /\ accepted' = accepted \cup {taken} /\ misled' = misled
    BY <1>1, <1>2, Hands, UploadOutcome DEF upload, ScanDone, AfterScan, Lost
  <2>2. Errand!Deliver(taken)
    BY <1>1, <2>1 DEF Errand!Deliver
  <2>3. QED
    BY <1>1, <2>2 DEF Errand!Next
<1>3. CASE r = "hollow"
  <2>1. Lost' = Lost /\ InHand' = {} /\ accepted' = accepted /\ misled' = misled \cup {taken}
    BY <1>1, <1>3, Hands, UploadOutcome DEF upload, ScanDone, AfterScan, Lost
  <2>2. Errand!Mislead(taken)
    BY <1>1, <2>1 DEF Errand!Mislead
  <2>3. QED
    BY <1>1, <2>2 DEF Errand!Next
<1>4. CASE r \in {"unauthorized", "4xx", "5xx"}
  <2>1. Lost' = Lost /\ InHand' = InHand /\ misled' = misled
    BY <1>1, <1>4, Hands, UploadOutcome DEF upload, Goto, Lost
  <2>2. CASE accepted' = accepted
    BY <1>1, <2>1, <2>2, ErrandRests
  <2>3. CASE accepted' = accepted \cup {taken}
    <3>1. Errand!Deliver(taken)
      BY <1>1, <2>1, <2>3 DEF Errand!Deliver
    <3>2. QED
      BY <1>1, <3>1 DEF Errand!Next
  <2>4. QED
    BY <1>1, <2>2, <2>3, UploadOutcome
<1>5. CASE r = "exception"
  <2>1. Raise
    BY <1>5 DEF upload
  <2>2. accepted' = accepted \/ accepted' = accepted \cup {taken}
    BY <1>1, UploadOutcome
  <2>3. misled' = misled
    BY <1>1, <1>5, UploadOutcome
  <2>4. QED
    BY <1>1, <2>1, <2>2, <2>3, RaisedFate, GoesDown
<1>6. QED
  BY <1>2, <1>3, <1>4, <1>5 DEF Result

LEMMA ResendErrand ==
  ASSUME IInv, NEW s \in Scan, NEW r \in Result, resend(r, s)
  PROVE  [Errand!Next]_(Errand!vars)
<1> TypeOK
  BY DEF IInv
<1>1. /\ pc = "resend" /\ pc' \notin {"upload", "enqueue"} /\ Upload(r, s)
      /\ s \in Queued /\ InHand = {} /\ InHand' = {} /\ UNCHANGED <<taken, vouched>>
  BY RaisedFate, Hands DEF resend, Goto, NextRow, First, Queued, TypeOK
<1>2. Lost' = Lost
  BY <1>1, RaisedFate DEF resend, Goto, NextRow, Lost, TypeOK
<1>3. \/ UNCHANGED outbox
      \/ outbox' = [outbox EXCEPT ![s] = "waiting"]
      \/ outbox' = [outbox EXCEPT ![s] = "resting"]
      \/ outbox' = [outbox EXCEPT ![s] = "poisoned"] /\ r \in {"4xx", "5xx"}
  BY DEF resend, mark_failed, rows
<1>4. CASE outbox' = [outbox EXCEPT ![s] = "poisoned"] /\ r \in {"4xx", "5xx"}
  <2>1. Queued' = Queued \ {s} /\ Poisoned' = Poisoned \cup {s}
    BY <1>4 DEF Queued, Poisoned, TypeOK
  <2>2. misled' = misled /\ accepted' \in {accepted, accepted \cup {s}}
    BY <1>1, <1>4, UploadOutcome
  <2>3. Errand!PutAside(s)
    BY <1>1, <1>2, <2>1, <2>2 DEF Errand!PutAside
  <2>4. QED
    BY <2>3 DEF Errand!Next
<1>5. CASE ~(outbox' = [outbox EXCEPT ![s] = "poisoned"] /\ r \in {"4xx", "5xx"})
  <2>1. Queued' = Queued /\ Poisoned' = Poisoned
    BY <1>1, <1>3, <1>5 DEF Queued, Poisoned, TypeOK
  <2>2. CASE r = "hollow"
    <3>1. Errand!Mislead(s)
      BY <1>1, <1>2, <2>1, <2>2, UploadOutcome DEF Errand!Mislead
    <3>2. QED
      BY <3>1 DEF Errand!Next
  <2>3. CASE r # "hollow" /\ accepted' = accepted
    BY <1>1, <1>2, <2>1, <2>3, UploadOutcome, ErrandRests
  <2>4. CASE r # "hollow" /\ accepted' = accepted \cup {s}
    <3>1. Errand!Deliver(s)
      BY <1>1, <1>2, <2>1, <2>4, UploadOutcome DEF Errand!Deliver
    <3>2. QED
      BY <3>1 DEF Errand!Next
  <2>5. QED
    BY <1>1, <2>2, <2>3, <2>4, UploadOutcome
<1>6. QED
  BY <1>3, <1>4, <1>5

LEMMA EnqueueErrand ==
  ASSUME IInv, enqueue
  PROVE  [Errand!Next]_(Errand!vars)
<1> TypeOK
  BY DEF IInv
<1>1. /\ taken \in Scan /\ InHand = {taken} /\ taken \notin Poisoned
      /\ UNCHANGED <<accepted, taken, vouched, misled>>
  BY Hands DEF enqueue, TypeOK, Scan, server, IInv, QueuedOnce, Held, Poisoned
<1>2. CASE outbox' = [outbox EXCEPT ![taken] = "due"] /\ ScanDone
  <2>1. Lost' = Lost /\ InHand' = {}
    BY <1>2, Hands DEF ScanDone, AfterScan, Lost
  <2>2. Queued' = Queued \cup {taken} /\ Poisoned' = Poisoned
    BY <1>1, <1>2 DEF Queued, Poisoned, TypeOK
  <2>3. Errand!Keep(taken)
    BY <1>1, <2>1, <2>2 DEF Errand!Keep
  <2>4. QED
    BY <1>1, <2>3 DEF Errand!Next
<1>3. CASE Raise /\ UNCHANGED outbox
  BY <1>1, <1>3, RaisedFate, GoesDown
<1>4. QED
  BY <1>2, <1>3 DEF enqueue

LEMMA CollectErrand ==
  ASSUME IInv, collect
  PROVE  [Errand!Next]_(Errand!vars)
<1> TypeOK
  BY DEF IInv
<1>1. /\ InHand = {} /\ UNCHANGED <<outbox, accepted, vouched, misled>>
      /\ Lost' = Lost /\ Queued' = Queued /\ Poisoned' = Poisoned
  BY RowsRest, Hands DEF collect, disk, rows, server, Lost, Goto, ScanDone
<1>2. CASE taken < MaxScans /\ taken' = taken + 1 /\ Goto("upload")
  <2>1. taken' \in Scan /\ InHand' = {taken'}
    BY <1>2, Hands DEF TypeOK, Scan, Goto
  <2>2. Errand!Take
    BY <1>1, <1>2, <2>1 DEF Errand!Take
  <2>3. QED
    BY <2>2 DEF Errand!Next
<1>3. CASE ScanDone /\ UNCHANGED taken
  <2>1. InHand' = {}
    BY <1>3, Hands DEF ScanDone, AfterScan
  <2>2. QED
    BY <1>1, <1>3, <2>1, ErrandRests
<1>4. QED
  BY <1>2, <1>3 DEF collect

(* The DELETE of a row, and the end of its wait.                            *)
LEMMA RowErrand ==
  ASSUME IInv, NEW s \in Scan, mark_sent(s) \/ lapse(s)
  PROVE  [Errand!Next]_(Errand!vars)
<1> TypeOK /\ SentIsAnswered
  BY DEF IInv
<1>1. CASE mark_sent(s)
  <2>1. /\ s \in Answered /\ s \in Queued
        /\ InHand = {} /\ InHand' = {} /\ Lost' = Lost
        /\ UNCHANGED <<accepted, taken, vouched, misled>>
    BY <1>1, Hands DEF mark_sent, SentIsAnswered, First, TypeOK, Queued, NextRow, Lost, server
  <2>2. Queued' = Queued \ {s} /\ Poisoned' = Poisoned
    BY <1>1, <2>1 DEF mark_sent, Queued, Poisoned, TypeOK
  <2>3. Errand!Release(s)
    BY <2>1, <2>2 DEF Errand!Release, Answered
  <2>4. QED
    BY <2>3 DEF Errand!Next
<1>2. CASE lapse(s)
  <2>1. Queued' = Queued /\ Poisoned' = Poisoned
    BY <1>2 DEF lapse, Queued, Poisoned, TypeOK
  <2>2. QED
    BY <1>2, <2>1, ErrandRests DEF lapse, thread, server, history, InHand, Lost
<1>3. QED
  BY <1>1, <1>2

LEMMA AckErrand ==
  ASSUME IInv, NEW r \in Result, ack(r) \/ ack_failed(r)
  PROVE  [Errand!Next]_(Errand!vars)
<1> TypeOK /\ AckFollowsScan
  BY DEF IInv
<1>1. /\ InHand = {} /\ InHand' = {} /\ Queued' = Queued /\ Poisoned' = Poisoned
      /\ UNCHANGED <<accepted, taken, misled>>
  BY RowsRest, RaisedFate, Hands DEF ack, ack_failed, NextCommand, disk, rows, server
<1>2. Lost' = Lost
  BY <1>1, RaisedFate DEF ack, ack_failed, NextCommand, Lost, TypeOK
<1>3. CASE UNCHANGED vouched
  BY <1>1, <1>2, <1>3, ErrandRests
<1>4. CASE ~UNCHANGED vouched
  <2>1. pc = "ack" /\ Head(todo) = "rescan" /\ vouched' = vouched \cup {taken}
    BY <1>4 DEF ack, ack_failed
  <2>2. taken \in Scan /\ taken \in accepted \cup misled \cup Queued \cup Poisoned
    BY <2>1 DEF AckFollowsScan, Held, Queued, Poisoned, TypeOK, Answered
  <2>3. Errand!Sign(taken)
    BY <1>1, <1>2, <2>1, <2>2 DEF Errand!Sign
  <2>4. QED
    BY <2>2, <2>3 DEF Errand!Next
<1>5. QED
  BY <1>3, <1>4

(* The steps that have nothing to do with scans, unless the thread goes     *)
(* down in them.                                                            *)
LEMMA OtherErrand ==
  ASSUME IInv,
         \/ start \/ boot \/ save_config \/ store_credentials \/ loop \/ forget
         \/ clear_credentials \/ handle_command \/ schedule \/ flush \/ no_flush
         \/ signal \/ kill \/ set_config \/ revoke_agent \/ UNCHANGED vars
         \/ \E r \in Result : enroll(r) \/ \E cmds \in Answers : heartbeat(r, cmds)
  PROVE  [Errand!Next]_(Errand!vars)
<1> TypeOK
  BY DEF IInv
<1> USE DEF Goto, rows, disk, server, history, thread
<1>1. CASE start \/ save_config \/ store_credentials \/ forget \/ clear_credentials
            \/ handle_command \/ schedule \/ no_flush \/ signal \/ set_config
            \/ revoke_agent \/ UNCHANGED vars
  <2>1. UNCHANGED <<outbox, accepted, taken, fate, vouched, misled>>
    BY <1>1 DEF start, save_config, store_credentials, forget, clear_credentials,
         handle_command, schedule, no_flush, signal, set_config, revoke_agent, vars
  <2>2. InHand' = InHand
    <3>1. CASE signal \/ set_config \/ revoke_agent \/ UNCHANGED vars
      BY <3>1 DEF signal, set_config, revoke_agent, vars, InHand
    <3>2. CASE start \/ save_config \/ store_credentials \/ forget \/ clear_credentials
                \/ handle_command \/ schedule \/ no_flush
      BY <3>2, Hands DEF start, save_config, store_credentials, forget, clear_credentials,
           handle_command, schedule, no_flush, AfterEnroll, Down
    <3>3. QED
      BY <1>1, <3>1, <3>2
  <2>3. QED
    BY <2>1, <2>2, RowsRest, ErrandRests DEF Lost
<1>2. CASE boot \/ loop
  <2>1. /\ InHand = {} /\ InHand' = {}
        /\ UNCHANGED <<outbox, accepted, taken, vouched, misled>>
    BY <1>2, Hands DEF boot, loop, Dies
  <2>2. Lost' = Lost
    BY <1>2, <2>1 DEF boot, loop, Dies, Lost, TypeOK
  <2>3. QED
    BY <2>1, <2>2, RowsRest, ErrandRests
<1>3. CASE kill
  BY <1>3, GoesDown DEF kill, Dies
<1>4. ASSUME NEW r \in Result, enroll(r) \/ \E cmds \in Answers : heartbeat(r, cmds)
      PROVE  [Errand!Next]_(Errand!vars)
  <2>1. /\ InHand = {} /\ InHand' = {}
        /\ UNCHANGED <<outbox, accepted, taken, vouched, misled>>
    BY <1>4, RaisedFate, Hands DEF enroll, heartbeat, AfterEnroll
  <2>2. Lost' = Lost
    BY <1>4, <2>1, RaisedFate DEF enroll, heartbeat, Lost, TypeOK
  <2>3. QED
    BY <2>1, <2>2, RowsRest, ErrandRests
<1>5. CASE flush
  <2>1. Queued' = Queued /\ Poisoned' = Poisoned
    BY <1>5 DEF flush, Queued, Poisoned, TypeOK
  <2>2. InHand = {} /\ InHand' = {} /\ UNCHANGED <<accepted, taken, fate, vouched, misled>>
    BY <1>5, Hands DEF flush
  <2>3. QED
    BY <2>1, <2>2, ErrandRests DEF Lost
<1>6. QED
  BY <1>1, <1>2, <1>3, <1>4, <1>5

LEMMA ErrandStep == IInv /\ [Next]_vars => [Errand!Next]_(Errand!vars)
<1> SUFFICES ASSUME IInv, [Next]_vars PROVE [Errand!Next]_(Errand!vars)
  OBVIOUS
<1> QED
  BY UploadErrand, ResendErrand, EnqueueErrand, CollectErrand, RowErrand, AckErrand,
     OtherErrand DEF Next, Thread, World

(* For any limit, number of scans and sequence of failures the agent is a   *)
(* courier.                                                                 *)
THEOREM Refinement == Spec => ImplementsCourier
<1>1. Init => Errand!Init
  BY Hands DEF Init, Errand!Init, Queued, Poisoned, Lost, InHand
<1> QED
  BY <1>1, ErrandStep, Inductive, PTL DEF Spec, ImplementsCourier, Errand!Spec

===============================================================================
