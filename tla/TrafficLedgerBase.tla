------------------------- MODULE TrafficLedgerBase --------------------------
(***************************************************************************)
(* The inductive invariant of TrafficLedger, and the steps that preserve   *)
(* its types, the items of a report in progress, the locks, that nothing   *)
(* pending is dropped and that nothing saved is lost.                      *)
(***************************************************************************)
EXTENDS TrafficLedger, TLAPS

Busy == {"queued", "writing", "renamed"}
Holding == {"writing", "renamed"}
Working == {"booting", "running", "stopping", "flushing", "closing"}

\* A report is in progress only in a runner whose run() can be reporting.
CallInv ==
    \A r \in Runner : pc[r] # "idle" => mode[r] \in {"running", "stopping", "flushing"}

\* The lock file is held by every runner at work and by every runner with a
\* blocking task, and the io lock by one blocking task at a time.
LockInv ==
    \A r \in Runner :
        /\ mode[r] \in Working => lock = r
        /\ lock = r => mode[r] \notin {"off", "gone"}
        /\ \A k \in Role : save[r][k] \in Busy => lock = r
        /\ \A k, l \in Role :
              save[r][k] \in Holding /\ save[r][l] \in Holding => k = l
        /\ \A k \in Role : save[r][k] = "renamed" => file.pending = snap[r][k]

\* An applied request has been counted.
AppliedInv ==
    \A r \in Runner :
        /\ pc[r] # "fallback"
        /\ applied[r] => pc[r] \in {"post", "confirm"} /\ batch[r] \subseteq credited

Open == Bytes(secured) \ credited

\* What a save has covered and the panel has not counted is in the buffer of
\* the holder of the lock and in every snapshot on its way to the store.
CoverInv ==
    /\ file.whole /\ Open \subseteq file.pending
    /\ durable.whole /\ Open \subseteq durable.pending
    /\ \A r \in Runner :
          /\ lock = r => Open \subseteq buffer[r]
          /\ \A k \in Role : save[r][k] \in Holding =>
                /\ Open \subseteq snap[r][k]
                /\ Bytes(snap[r][k]) \ credited \subseteq buffer[r]

\* Nothing is reported or stored that was not accounted.
KnownInv ==
    /\ \A r \in Runner : buffer[r] \cup batch[r] \subseteq received
    /\ \A r \in Runner : \A k \in Role : snap[r][k] \subseteq received
    /\ file.pending \cup durable.pending \subseteq received
    /\ \A c \in Chunk : c \notin received => sends[c] = 0

\* A chunk that may be posted again has a repetition paid for.  One the buffer
\* has lost can only return from the store, or from a snapshot on its way
\* there, and then a blocking task is about to replace that.
Paid == {c \in Chunk : sends[c] <= faults}
InFlight(r) == {c \in batch[r] : pc[r] \in {"post", "fallback"}}
Queued(r) == \E k \in Role : save[r][k] = "queued"

HolderPaid(r) ==
    /\ buffer[r] \subseteq Paid \cup InFlight(r)
    /\ \A c \in file.pending :
          \/ c \in Paid \cup buffer[r]
          \/ Queued(r)
          \/ \E k \in Role : save[r][k] \in Holding /\ c \notin snap[r][k]
    /\ \A k \in Role : save[r][k] \in Holding =>
          snap[r][k] \subseteq Paid \cup buffer[r] \/ Queued(r)

PaidInv ==
    /\ lock = NoRunner => file.pending \subseteq Paid
    /\ \A r \in Runner : lock = r => HolderPaid(r)

\* The inductive invariant, whatever the panel client, and what it gains when
\* the client reports the failure of a post.
IInv == TypeOK /\ CallInv /\ AckFitsCounter /\ LockInv /\ KnownInv /\ ResendsPaid /\ PaidInv
HonestInv == IInv /\ AppliedInv /\ PendingUntilCredited /\ CoverInv

-----------------------------------------------------------------------------
(* Types.                                                                  *)

\* Before the first restore_pending the state is well typed.
LEMMA InitType == Init => TypeOK
  BY ConstantsAssumption DEF Init, TypeOK, Mode, Phase, Contents, MaxAttempts

\* A report takes its items from the buffer.
LEMMA BatchPart ==
  ASSUME TypeOK, NEW r \in Runner, BeginReport(r)
  PROVE  batch' \in [Runner -> SUBSET Chunk] /\ batch'[r] \subseteq buffer[r]
  <1> DEFINE items == Items(buffer[r], mode[r] = "flushing")
  <1>1. items \subseteq buffer[r]
    BY Zenon DEF Items
  <1>2. batch' = [batch EXCEPT ![r] = items]
    BY Zenon DEF BeginReport
  <1> HIDE DEF items
  <1> QED
    BY <1>1, <1>2, Zenon DEF TypeOK

\* The flush counts its attempts up to MaxAttempts.
LEMMA AttemptCounts ==
  ASSUME TypeOK, NEW r \in Runner, FlushAttempt(r)
  PROVE  attempt' \in [Runner -> 0..MaxAttempts]
  <1>1. attempt[r] \in 0..3 /\ attempt[r] < 3
    BY Zenon DEF TypeOK, FlushAttempt, MaxAttempts
  <1>2. attempt[r] + 1 \in 0..3
    BY <1>1
  <1>3. attempt' = [attempt EXCEPT ![r] = attempt[r] + 1] /\ attempt \in [Runner -> 0..3]
    BY Zenon DEF TypeOK, FlushAttempt, MaxAttempts
  <1> QED
    BY <1>2, <1>3, Zenon DEF MaxAttempts

\* What the end of a report_data call leaves well typed.
LEMMA EndReportType ==
  ASSUME TypeOK, NEW r \in Runner, NEW buf, EndReport(r, buf)
  PROVE  /\ mode' \in [Runner -> Mode]
         /\ verdict' \in [Runner -> {"none", "clean", "unacknowledged", "timeout"}]
         /\ save' \in [Runner -> [Role -> Phase]]
         /\ pc' \in [Runner -> {"idle", "persist", "post", "fallback", "confirm"}]
         /\ batch' \in [Runner -> SUBSET Chunk]
         /\ applied' \in [Runner -> BOOLEAN]
  <1>1. /\ pc' \in [Runner -> {"idle", "persist", "post", "fallback", "confirm"}]
        /\ batch' \in [Runner -> SUBSET Chunk]
        /\ applied' \in [Runner -> BOOLEAN]
    BY Zenon DEF EndReport, TypeOK
  <1>2. CASE UNCHANGED <<mode, verdict, save>>
    BY <1>1, <1>2, Zenon DEF TypeOK
  <1>3. ASSUME mode' = [mode EXCEPT ![r] = "closing"],
               verdict' = [verdict EXCEPT ![r] = IF buf = {} THEN "clean" ELSE "unacknowledged"],
               Queue(r, "final")
        PROVE  /\ mode' \in [Runner -> Mode]
               /\ verdict' \in [Runner -> {"none", "clean", "unacknowledged", "timeout"}]
               /\ save' \in [Runner -> [Role -> Phase]]
    BY <1>3, Zenon DEF TypeOK, Queue, Mode, Role, Phase
  <1> QED
    BY <1>1, <1>2, <1>3, Zenon DEF EndReport

\* What the end of processes leaves well typed.
LEMMA ProcessEndType ==
  ASSUME TypeOK, NEW gone \in SUBSET Runner, ProcessEnd(gone)
  PROVE  /\ mode' \in [Runner -> Mode]
         /\ inbound' \in [Runner -> {"serving", "drained", "cut"}]
         /\ reporting' \in [Runner -> BOOLEAN]
         /\ pc' \in [Runner -> {"idle", "persist", "post", "fallback", "confirm"}]
         /\ batch' \in [Runner -> SUBSET Chunk]
         /\ attempt' \in [Runner -> 0..MaxAttempts]
         /\ verdict' \in [Runner -> {"none", "clean", "unacknowledged", "timeout"}]
         /\ buffer' \in [Runner -> SUBSET Chunk]
         /\ save' \in [Runner -> [Role -> Phase]]
         /\ snap' \in [Runner -> [Role -> SUBSET Chunk]]
         /\ lock' \in Runner \cup {NoRunner}
         /\ applied' \in [Runner -> BOOLEAN]
         /\ got' \in [Runner -> SUBSET Chunk]
  <1> USE DEF TypeOK, ProcessEnd
  <1>1. mode' \in [Runner -> Mode] /\ inbound' \in [Runner -> {"serving", "drained", "cut"}]
    BY Zenon DEF Mode
  <1>2. reporting' \in [Runner -> BOOLEAN] /\ applied' \in [Runner -> BOOLEAN]
    BY ZenonT(30)
  <1>3. /\ pc' \in [Runner -> {"idle", "persist", "post", "fallback", "confirm"}]
        /\ verdict' \in [Runner -> {"none", "clean", "unacknowledged", "timeout"}]
    BY Zenon
  <1>4. /\ batch' \in [Runner -> SUBSET Chunk]
        /\ buffer' \in [Runner -> SUBSET Chunk]
        /\ got' \in [Runner -> SUBSET Chunk]
    BY Zenon
  <1>5. attempt' \in [Runner -> 0..MaxAttempts]
    BY DEF MaxAttempts
  <1>6. save' \in [Runner -> [Role -> Phase]]
    BY Zenon DEF Phase
  <1>7. snap' \in [Runner -> [Role -> SUBSET Chunk]]
    BY Zenon
  <1>8. lock' \in Runner \cup {NoRunner}
    BY Zenon
  <1> QED
    BY ZenonT(30), <1>1, <1>2, <1>3, <1>4, <1>5, <1>6, <1>7, <1>8

\* Every action keeps the type invariant.
LEMMA TypeStep == TypeOK /\ [Next]_vars => TypeOK'
  <1> SUFFICES ASSUME TypeOK
               PROVE  [Next]_vars => TypeOK'
    BY Zenon
  <1> USE ConstantsAssumption DEF TypeOK, vars, runVars, callVars, saveVars,
          diskVars, panelVars, histVars, Mode, Contents
  <1>1. ASSUME NEW r \in Runner, RestorePending(r) PROVE TypeOK'
    BY <1>1, Zenon DEF RestorePending
  <1>2. ASSUME NEW r \in Runner, RestoreFailed(r) PROVE TypeOK'
    BY <1>2, Zenon DEF RestoreFailed
  <1>3. ASSUME NEW r \in Runner, SpawnTasks(r) PROVE TypeOK'
    BY <1>3, Zenon DEF SpawnTasks
  <1>4. ASSUME NEW r \in Runner, BootFailed(r) PROVE TypeOK'
    BY <1>4, Zenon DEF BootFailed
  <1>5. ASSUME NEW r \in Runner, ReportTick(r) PROVE TypeOK'
    BY <1>5, Zenon DEF ReportTick, BeginReport, Queue, Caller, Items, Role, Phase
  <1>6. ASSUME NEW r \in Runner, FlushAttempt(r) PROVE TypeOK'
    <2>1. attempt' \in [Runner -> 0..MaxAttempts]
      BY ZenonT(30), <1>6, AttemptCounts DEF FlushAttempt
    <2>2. batch' \in [Runner -> SUBSET Chunk]
      BY <1>6, BatchPart, Zenon DEF FlushAttempt
    <2>3. save' \in [Runner -> [Role -> Phase]]
      BY <1>6, Zenon DEF FlushAttempt, BeginReport, Queue, Caller, Role, Phase
    <2>4. pc' \in [Runner -> {"idle", "persist", "post", "fallback", "confirm"}]
      BY <1>6, Zenon DEF FlushAttempt, BeginReport
    <2> QED
      BY <1>6, <2>1, <2>2, <2>3, <2>4, Zenon DEF FlushAttempt, BeginReport
  <1>7. ASSUME NEW r \in Runner, Post(r) PROVE TypeOK'
    BY <1>7 DEF Post
  <1>8. ASSUME NEW r \in Runner, Defer(r) PROVE TypeOK'
    BY <1>8, EndReportType, Zenon DEF Defer
  <1>9. ASSUME NEW r \in Runner, PanelApply(r) PROVE TypeOK'
    BY <1>9, Zenon DEF PanelApply
  <1>10. ASSUME NEW r \in Runner, ReplyOk(r) PROVE TypeOK'
    BY <1>10, Zenon DEF ReplyOk, Confirm, Queue, Caller, Role, Phase, Acknowledge
  <1>11. ASSUME NEW r \in Runner, ReplyErr(r) PROVE TypeOK'
    BY <1>11 DEF ReplyErr, Abandon, Queue, Caller, Role, Phase
  <1>12. ASSUME NEW r \in Runner, FallbackPost(r) PROVE TypeOK'
    BY <1>12 DEF FallbackPost, Abandon
  <1>13. ASSUME NEW r \in Runner, FallbackReply(r) PROVE TypeOK'
    BY <1>13 DEF FallbackReply, Abandon, Confirm, Queue, Caller, Role, Phase, Acknowledge
  <1>14. ASSUME NEW r \in Runner, FinishReport(r) PROVE TypeOK'
    BY <1>14, EndReportType, Zenon DEF FinishReport
  <1>15. ASSUME NEW r \in Runner, Shutdown(r) PROVE TypeOK'
    BY <1>15, Zenon DEF Shutdown
  <1>16. ASSUME NEW r \in Runner, StopReportTask(r) PROVE TypeOK'
    BY <1>16 DEF StopReportTask, Abandon
  <1>17. ASSUME NEW r \in Runner, BeginFlush(r) PROVE TypeOK'
    BY <1>17, Zenon DEF BeginFlush
  <1>18. ASSUME NEW r \in Runner, FlushTimeout(r) PROVE TypeOK'
    BY <1>18 DEF FlushTimeout, Abandon, Queue, Role, Phase
  <1>19. ASSUME NEW r \in Runner, Close(r) PROVE TypeOK'
    BY <1>19, Zenon DEF Close
  <1>20. ASSUME NEW r \in Runner, Exit(r) PROVE TypeOK'
    <2>1. ProcessEnd({r}) /\ {r} \in SUBSET Runner
      BY <1>20, Zenon DEF Exit
    <2> QED
      BY Zenon, <1>20, <2>1, ProcessEndType DEF Exit
  <1>21. ASSUME NEW r \in Runner, Kill(r) PROVE TypeOK'
    <2>1. ProcessEnd({r}) /\ {r} \in SUBSET Runner
      BY <1>21, Zenon DEF Kill, Crash
    <2>2. stray' \in SUBSET (SUBSET Chunk)
      BY <1>21 DEF Kill, Crash
    <2> QED
      BY <1>21, <2>1, <2>2, ProcessEndType, SMTT(30) DEF Kill, Crash
  <1>22. ASSUME NEW r \in Runner, NEW c \in Chunk, OnTraffic(r, c) PROVE TypeOK'
    BY <1>22 DEF OnTraffic
  <1>23. ASSUME NEW r \in Runner, NEW k \in Role, SaveOpen(r, k) PROVE TypeOK'
    BY <1>23, Zenon DEF SaveOpen, Role, Phase
  <1>24. ASSUME NEW r \in Runner, NEW k \in Role, SaveRename(r, k) PROVE TypeOK'
    BY <1>24 DEF SaveRename, Role, Phase
  <1>25. ASSUME NEW r \in Runner, NEW k \in Role, SaveSync(r, k) PROVE TypeOK'
    BY <1>25 DEF SaveSync, Role, Phase
  <1>26. ASSUME NEW r \in Runner, NEW k \in Role, SaveFail(r, k) PROVE TypeOK'
    BY <1>26 DEF SaveFail, Role, Phase
  <1>27. ASSUME NEW r \in Runner, NEW how \in {"drained", "cut"}, StopInbound(r, how) PROVE TypeOK'
    BY <1>27, Zenon DEF StopInbound
  <1>28. ASSUME NEW b \in stray, PanelApplyStray(b) PROVE TypeOK'
    BY <1>28, Zenon DEF PanelApplyStray
  <1>29. CASE PowerLoss
    <2> DEFINE dying == {r \in Runner : Alive(r)}
    <2>1. ProcessEnd(dying) /\ dying \in SUBSET Runner
      BY <1>29, Zenon DEF PowerLoss, Crash
    <2>2. stray' \in SUBSET (SUBSET Chunk)
      BY <1>29 DEF PowerLoss, Crash
    <2> QED
      BY <1>29, <2>1, <2>2, ProcessEndType, SMTT(30) DEF PowerLoss, Crash
  <1>30. CASE UNCHANGED vars
    BY <1>30, Zenon DEF vars
  <1>31. ASSUME NEW r \in Runner, RunnerStep(r) PROVE TypeOK'
    BY ZenonT(30), <1>1, <1>2, <1>3, <1>4, <1>5, <1>6, <1>7, <1>8, <1>9, <1>10, <1>11, <1>12,
        <1>13, <1>14, <1>15, <1>16, <1>17, <1>18, <1>19, <1>20, <1>21, <1>22, <1>23, <1>24,
        <1>25, <1>26, <1>27, <1>31 DEF RunnerStep, FailedPost
  <1> QED
    BY Zenon, <1>28, <1>29, <1>30, <1>31 DEF Next

-----------------------------------------------------------------------------
(* The acknowledgement.                                                    *)

\* Before the first start no report_data is in progress.
LEMMA InitAck == Init => CallInv /\ AckFitsCounter
  BY SMTT(30) DEF Init, CallInv, AckFitsCounter

\* A runner that has not started reports nothing, and the items of a report
\* stay in the buffer until they are acknowledged.
LEMMA AckStep == TypeOK /\ CallInv /\ AckFitsCounter /\ [Next]_vars => (CallInv /\ AckFitsCounter)'
  <1> SUFFICES ASSUME TypeOK, CallInv, AckFitsCounter
               PROVE  [Next]_vars => (CallInv /\ AckFitsCounter)'
    BY Zenon
  <1> USE DEF TypeOK, CallInv, AckFitsCounter, runVars, callVars, saveVars,
          diskVars, panelVars, histVars
  <1>1. ASSUME NEW r \in Runner, RestorePending(r) PROVE (CallInv /\ AckFitsCounter)'
    BY ZenonT(30), <1>1 DEF RestorePending
  <1>2. ASSUME NEW r \in Runner, RestoreFailed(r) PROVE (CallInv /\ AckFitsCounter)'
    BY <1>2, Zenon DEF RestoreFailed
  <1>3. ASSUME NEW r \in Runner, SpawnTasks(r) PROVE (CallInv /\ AckFitsCounter)'
    BY <1>3, Zenon DEF SpawnTasks
  <1>4. ASSUME NEW r \in Runner, BootFailed(r) PROVE (CallInv /\ AckFitsCounter)'
    BY <1>4, Zenon DEF BootFailed
  <1>5. ASSUME NEW r \in Runner, ReportTick(r) PROVE (CallInv /\ AckFitsCounter)'
    BY ZenonT(30), <1>5, BatchPart DEF ReportTick, BeginReport
  <1>6. ASSUME NEW r \in Runner, FlushAttempt(r) PROVE (CallInv /\ AckFitsCounter)'
    BY ZenonT(30), <1>6, BatchPart DEF FlushAttempt, BeginReport
  <1>7. ASSUME NEW r \in Runner, Post(r) PROVE (CallInv /\ AckFitsCounter)'
    BY <1>7, Zenon DEF Post
  <1>8. ASSUME NEW r \in Runner, Defer(r) PROVE (CallInv /\ AckFitsCounter)'
    BY <1>8, Zenon DEF Defer, EndReport
  <1>9. ASSUME NEW r \in Runner, PanelApply(r) PROVE (CallInv /\ AckFitsCounter)'
    BY <1>9, Zenon DEF PanelApply
  <1>10. ASSUME NEW r \in Runner, ReplyOk(r) PROVE (CallInv /\ AckFitsCounter)'
    BY <1>10, Zenon DEF ReplyOk, Confirm
  <1>11. ASSUME NEW r \in Runner, ReplyErr(r) PROVE (CallInv /\ AckFitsCounter)'
    BY <1>11, Zenon DEF ReplyErr
  <1>12. ASSUME NEW r \in Runner, FallbackPost(r) PROVE (CallInv /\ AckFitsCounter)'
    BY <1>12, Zenon DEF FallbackPost
  <1>13. ASSUME NEW r \in Runner, FallbackReply(r) PROVE (CallInv /\ AckFitsCounter)'
    BY <1>13, Zenon DEF FallbackReply, Confirm, Abandon
  <1>14. ASSUME NEW r \in Runner, FinishReport(r) PROVE (CallInv /\ AckFitsCounter)'
    BY <1>14, Zenon DEF FinishReport, EndReport
  <1>15. ASSUME NEW r \in Runner, Shutdown(r) PROVE (CallInv /\ AckFitsCounter)'
    BY <1>15, Zenon DEF Shutdown
  <1>16. ASSUME NEW r \in Runner, StopReportTask(r) PROVE (CallInv /\ AckFitsCounter)'
    BY <1>16, Zenon DEF StopReportTask
  <1>17. ASSUME NEW r \in Runner, BeginFlush(r) PROVE (CallInv /\ AckFitsCounter)'
    BY <1>17, Zenon DEF BeginFlush
  <1>18. ASSUME NEW r \in Runner, FlushTimeout(r) PROVE (CallInv /\ AckFitsCounter)'
    BY <1>18, Zenon DEF FlushTimeout
  <1>19. ASSUME NEW r \in Runner, Close(r) PROVE (CallInv /\ AckFitsCounter)'
    BY <1>19, Zenon DEF Close
  <1>20. ASSUME NEW r \in Runner, Exit(r) PROVE (CallInv /\ AckFitsCounter)'
    BY <1>20, Zenon DEF Exit, ProcessEnd
  <1>21. ASSUME NEW r \in Runner, Kill(r) PROVE (CallInv /\ AckFitsCounter)'
    BY <1>21, Zenon DEF Kill, Crash, ProcessEnd
  <1>22. ASSUME NEW r \in Runner, NEW c \in Chunk, OnTraffic(r,
        c) PROVE (CallInv /\ AckFitsCounter)'
    BY <1>22, Zenon DEF OnTraffic
  <1>23. ASSUME NEW r \in Runner, NEW k \in Role, SaveOpen(r, k) PROVE (CallInv /\ AckFitsCounter)'
    BY <1>23, Zenon DEF SaveOpen
  <1>24. ASSUME NEW r \in Runner, NEW k \in Role, SaveRename(r,
        k) PROVE (CallInv /\ AckFitsCounter)'
    BY <1>24, Zenon DEF SaveRename
  <1>25. ASSUME NEW r \in Runner, NEW k \in Role, SaveSync(r, k) PROVE (CallInv /\ AckFitsCounter)'
    BY <1>25, Zenon DEF SaveSync
  <1>26. ASSUME NEW r \in Runner, NEW k \in Role, SaveFail(r, k) PROVE (CallInv /\ AckFitsCounter)'
    BY <1>26, Zenon DEF SaveFail
  <1>27. ASSUME NEW r \in Runner, NEW how \in {"drained", "cut"}, StopInbound(r,
        how) PROVE (CallInv /\ AckFitsCounter)'
    BY <1>27, Zenon DEF StopInbound
  <1>28. ASSUME NEW b \in stray, PanelApplyStray(b) PROVE (CallInv /\ AckFitsCounter)'
    BY <1>28, Zenon DEF PanelApplyStray
  <1>29. CASE PowerLoss
    BY <1>29, Zenon DEF PowerLoss, Crash, ProcessEnd
  <1>30. CASE UNCHANGED vars
    BY <1>30, Zenon DEF vars
  <1> HIDE DEF TypeOK, CallInv, AckFitsCounter
  <1>31. ASSUME NEW r \in Runner, RunnerStep(r) PROVE (CallInv /\ AckFitsCounter)'
    BY ZenonT(30), <1>1, <1>2, <1>3, <1>4, <1>5, <1>6, <1>7, <1>8, <1>9, <1>10, <1>11, <1>12,
        <1>13, <1>14, <1>15, <1>16, <1>17, <1>18, <1>19, <1>20, <1>21, <1>22, <1>23, <1>24,
        <1>25, <1>26, <1>27, <1>31 DEF RunnerStep, FailedPost
  <1> QED
    BY Zenon, <1>28, <1>29, <1>30, <1>31 DEF Next

\* The acknowledgement removes nothing but the items and empty counters.
LEMMA AcknowledgeRest ==
  ASSUME NEW buf, NEW items
  PROVE  /\ Acknowledge(buf, items) \subseteq buf \ items
         /\ Bytes(buf) \ items \subseteq Acknowledge(buf, items)
  BY Zenon DEF Acknowledge, Bytes, UserBytes

-----------------------------------------------------------------------------
(* The locks.                                                              *)

\* Before the first start nobody holds the lock file and no blocking task of
\* save_pending exists.
LEMMA InitLock == Init => LockInv
  BY SMTT(30), ConstantsAssumption DEF Init, LockInv, Working, Busy, Holding, Role

\* The lock file and the io lock are held as LockInv says.
LEMMA LockStep == TypeOK /\ CallInv /\ LockInv /\ [Next]_vars => LockInv'
  <1> SUFFICES ASSUME TypeOK, CallInv, LockInv
               PROVE  [Next]_vars => LockInv'
    BY Zenon
  <1> USE ConstantsAssumption DEF TypeOK, CallInv, LockInv, vars, runVars, callVars, saveVars,
          diskVars, panelVars, histVars, Working, Busy, Holding, Role
  <1>1. ASSUME NEW r \in Runner, RestorePending(r) PROVE LockInv'
    BY SMTT(30), <1>1 DEF RestorePending
  <1>2. ASSUME NEW r \in Runner, RestoreFailed(r) PROVE LockInv'
    BY SMTT(30), <1>2 DEF RestoreFailed
  <1>3. ASSUME NEW r \in Runner, SpawnTasks(r) PROVE LockInv'
    BY SMTT(30), <1>3 DEF SpawnTasks
  <1>4. ASSUME NEW r \in Runner, BootFailed(r) PROVE LockInv'
    BY SMTT(30), <1>4 DEF BootFailed
  <1>5. ASSUME NEW r \in Runner, ReportTick(r) PROVE LockInv'
    BY SMTT(30), <1>5 DEF ReportTick, BeginReport, Queue, Caller
  <1>6. ASSUME NEW r \in Runner, FlushAttempt(r) PROVE LockInv'
    BY SMTT(30), <1>6 DEF FlushAttempt, BeginReport, Queue, Caller
  <1>7. ASSUME NEW r \in Runner, Post(r) PROVE LockInv'
    BY SMTT(30), <1>7 DEF Post
  <1>8. ASSUME NEW r \in Runner, Defer(r) PROVE LockInv'
    BY SMTT(30), <1>8 DEF Defer, EndReport, Queue, Caller
  <1>9. ASSUME NEW r \in Runner, PanelApply(r) PROVE LockInv'
    BY SMTT(30), <1>9 DEF PanelApply
  <1>10. ASSUME NEW r \in Runner, ReplyOk(r) PROVE LockInv'
    BY SMTT(30), <1>10 DEF ReplyOk, Confirm, Queue, Caller
  <1>11. ASSUME NEW r \in Runner, ReplyErr(r) PROVE LockInv'
    BY SMTT(30), <1>11 DEF ReplyErr, Queue, Caller
  <1>12. ASSUME NEW r \in Runner, FallbackPost(r) PROVE LockInv'
    BY SMTT(30), <1>12 DEF FallbackPost
  <1>13. ASSUME NEW r \in Runner, FallbackReply(r) PROVE LockInv'
    BY SMTT(30), <1>13 DEF FallbackReply, Confirm, Abandon, Queue, Caller
  <1>14. ASSUME NEW r \in Runner, FinishReport(r) PROVE LockInv'
    BY SMTT(30), <1>14 DEF FinishReport, EndReport, Queue, Caller
  <1>15. ASSUME NEW r \in Runner, Shutdown(r) PROVE LockInv'
    BY SMTT(30), <1>15 DEF Shutdown
  <1>16. ASSUME NEW r \in Runner, StopReportTask(r) PROVE LockInv'
    BY SMTT(30), <1>16 DEF StopReportTask
  <1>17. ASSUME NEW r \in Runner, BeginFlush(r) PROVE LockInv'
    BY SMTT(30), <1>17 DEF BeginFlush
  <1>18. ASSUME NEW r \in Runner, FlushTimeout(r) PROVE LockInv'
    BY SMTT(30), <1>18 DEF FlushTimeout, Queue, Caller
  <1>19. ASSUME NEW r \in Runner, Close(r) PROVE LockInv'
    BY SMTT(30), <1>19 DEF Close
  <1>20. ASSUME NEW r \in Runner, Exit(r) PROVE LockInv'
    BY SMTT(30), <1>20 DEF Exit, ProcessEnd, Finished
  <1>21. ASSUME NEW r \in Runner, Kill(r) PROVE LockInv'
    BY SMTT(30), <1>21 DEF Kill, Crash, ProcessEnd
  <1>22. ASSUME NEW r \in Runner, NEW c \in Chunk, OnTraffic(r, c) PROVE LockInv'
    BY SMTT(30), <1>22 DEF OnTraffic
  <1>23. ASSUME NEW r \in Runner, NEW k \in Role, SaveOpen(r, k) PROVE LockInv'
    BY SMTT(30), <1>23 DEF SaveOpen, IoFree
  <1>24. ASSUME NEW r \in Runner, NEW k \in Role, SaveRename(r, k) PROVE LockInv'
    BY SMTT(30), <1>24 DEF SaveRename
  <1>25. ASSUME NEW r \in Runner, NEW k \in Role, SaveSync(r, k) PROVE LockInv'
    BY SMTT(30), <1>25 DEF SaveSync
  <1>26. ASSUME NEW r \in Runner, NEW k \in Role, SaveFail(r, k) PROVE LockInv'
    BY SMTT(30), <1>26 DEF SaveFail, IoFree
  <1>27. ASSUME NEW r \in Runner, NEW how \in {"drained", "cut"}, StopInbound(r, how) PROVE LockInv'
    BY SMTT(30), <1>27 DEF StopInbound
  <1>28. ASSUME NEW b \in stray, PanelApplyStray(b) PROVE LockInv'
    BY SMTT(30), <1>28 DEF PanelApplyStray
  <1>29. CASE PowerLoss
    BY SMTT(30), <1>29 DEF PowerLoss, Crash, ProcessEnd, Alive
  <1>30. CASE UNCHANGED vars
    BY <1>30 DEF vars
  <1> HIDE DEF TypeOK, CallInv, LockInv, Role
  <1>31. ASSUME NEW r \in Runner, RunnerStep(r) PROVE LockInv'
    BY ZenonT(30), <1>1, <1>2, <1>3, <1>4, <1>5, <1>6, <1>7, <1>8, <1>9, <1>10, <1>11, <1>12,
        <1>13, <1>14, <1>15, <1>16, <1>17, <1>18, <1>19, <1>20, <1>21, <1>22, <1>23, <1>24,
        <1>25, <1>26, <1>27, <1>31 DEF RunnerStep, FailedPost
  <1> QED
    BY Zenon, <1>28, <1>29, <1>30, <1>31 DEF Next

-----------------------------------------------------------------------------
(* Nothing pending is dropped.                                             *)
\* Before the first start no traffic was accounted and no request is in flight.
LEMMA InitPending == Init => AppliedInv /\ PendingUntilCredited
  BY Zenon DEF Init, AppliedInv, PendingUntilCredited, Bytes

\* A request the panel has applied is counted, until the next one is sent.
LEMMA AppliedStep == ~FallbackAcks /\ TypeOK /\ AppliedInv /\ [Next]_vars => AppliedInv'
  <1> SUFFICES ASSUME ~FallbackAcks, TypeOK, AppliedInv
               PROVE  [Next]_vars => AppliedInv'
    BY Zenon
  <1> USE DEF TypeOK, AppliedInv, runVars, callVars, saveVars,
          diskVars, panelVars, histVars
  <1>1. ASSUME NEW r \in Runner, RestorePending(r) PROVE AppliedInv'
    BY <1>1, Zenon DEF RestorePending
  <1>2. ASSUME NEW r \in Runner, RestoreFailed(r) PROVE AppliedInv'
    BY <1>2, Zenon DEF RestoreFailed
  <1>3. ASSUME NEW r \in Runner, SpawnTasks(r) PROVE AppliedInv'
    BY <1>3, Zenon DEF SpawnTasks
  <1>4. ASSUME NEW r \in Runner, BootFailed(r) PROVE AppliedInv'
    BY <1>4, Zenon DEF BootFailed
  <1>5. ASSUME NEW r \in Runner, ReportTick(r) PROVE AppliedInv'
    BY <1>5, BatchPart, Zenon DEF ReportTick, BeginReport
  <1>6. ASSUME NEW r \in Runner, FlushAttempt(r) PROVE AppliedInv'
    BY <1>6, Zenon DEF FlushAttempt, BeginReport
  <1>7. ASSUME NEW r \in Runner, Post(r) PROVE AppliedInv'
    BY <1>7, Zenon DEF Post
  <1>8. ASSUME NEW r \in Runner, Defer(r) PROVE AppliedInv'
    BY <1>8, Zenon DEF Defer, EndReport
  <1>9. ASSUME NEW r \in Runner, PanelApply(r) PROVE AppliedInv'
    BY <1>9, Zenon DEF PanelApply
  <1>10. ASSUME NEW r \in Runner, ReplyOk(r) PROVE AppliedInv'
    BY <1>10, Zenon DEF ReplyOk, Confirm
  <1>11. ASSUME NEW r \in Runner, ReplyErr(r) PROVE AppliedInv'
    BY <1>11, Zenon DEF ReplyErr
  <1>12. ASSUME NEW r \in Runner, FallbackPost(r) PROVE AppliedInv'
    BY <1>12, Zenon DEF FallbackPost
  <1>13. ASSUME NEW r \in Runner, FallbackReply(r) PROVE AppliedInv'
    BY <1>13, Zenon DEF FallbackReply, Confirm, Abandon
  <1>14. ASSUME NEW r \in Runner, FinishReport(r) PROVE AppliedInv'
    BY <1>14, Zenon DEF FinishReport, EndReport
  <1>15. ASSUME NEW r \in Runner, Shutdown(r) PROVE AppliedInv'
    BY <1>15, Zenon DEF Shutdown
  <1>16. ASSUME NEW r \in Runner, StopReportTask(r) PROVE AppliedInv'
    BY <1>16, Zenon DEF StopReportTask
  <1>17. ASSUME NEW r \in Runner, BeginFlush(r) PROVE AppliedInv'
    BY <1>17, Zenon DEF BeginFlush
  <1>18. ASSUME NEW r \in Runner, FlushTimeout(r) PROVE AppliedInv'
    BY <1>18, Zenon DEF FlushTimeout
  <1>19. ASSUME NEW r \in Runner, Close(r) PROVE AppliedInv'
    BY <1>19, Zenon DEF Close
  <1>20. ASSUME NEW r \in Runner, Exit(r) PROVE AppliedInv'
    BY <1>20, Zenon DEF Exit, ProcessEnd
  <1>21. ASSUME NEW r \in Runner, Kill(r) PROVE AppliedInv'
    BY <1>21, Zenon DEF Kill, Crash, ProcessEnd
  <1>22. ASSUME NEW r \in Runner, NEW c \in Chunk, OnTraffic(r, c) PROVE AppliedInv'
    BY <1>22, Zenon DEF OnTraffic
  <1>23. ASSUME NEW r \in Runner, NEW k \in Role, SaveOpen(r, k) PROVE AppliedInv'
    BY <1>23, Zenon DEF SaveOpen
  <1>24. ASSUME NEW r \in Runner, NEW k \in Role, SaveRename(r, k) PROVE AppliedInv'
    BY <1>24, Zenon DEF SaveRename
  <1>25. ASSUME NEW r \in Runner, NEW k \in Role, SaveSync(r, k) PROVE AppliedInv'
    BY <1>25, Zenon DEF SaveSync
  <1>26. ASSUME NEW r \in Runner, NEW k \in Role, SaveFail(r, k) PROVE AppliedInv'
    BY <1>26, Zenon DEF SaveFail
  <1>27. ASSUME NEW r \in Runner, NEW how \in {"drained", "cut"}, StopInbound(r,
        how) PROVE AppliedInv'
    BY <1>27, Zenon DEF StopInbound
  <1>28. ASSUME NEW b \in stray, PanelApplyStray(b) PROVE AppliedInv'
    BY <1>28, Zenon DEF PanelApplyStray
  <1>29. CASE PowerLoss
    BY <1>29, Zenon DEF PowerLoss, Crash, ProcessEnd
  <1>30. CASE UNCHANGED vars
    BY Zenon, <1>30 DEF vars
  <1> HIDE DEF TypeOK, AppliedInv
  <1>31. ASSUME NEW r \in Runner, RunnerStep(r) PROVE AppliedInv'
    BY ZenonT(30), <1>1, <1>2, <1>3, <1>4, <1>5, <1>6, <1>7, <1>8, <1>9, <1>10, <1>11, <1>12,
        <1>13, <1>14, <1>15, <1>16, <1>17, <1>18, <1>19, <1>20, <1>21, <1>22, <1>23, <1>24,
        <1>25, <1>26, <1>27, <1>31 DEF RunnerStep, FailedPost
  <1> QED
    BY Zenon, <1>28, <1>29, <1>30, <1>31 DEF Next

\* Pending traffic stays in the buffer until the panel has counted it.
LEMMA PendingStep ==
    TypeOK /\ AppliedInv /\ PendingUntilCredited /\ [Next]_vars => PendingUntilCredited'
  <1> SUFFICES ASSUME TypeOK, AppliedInv, PendingUntilCredited
               PROVE  [Next]_vars => PendingUntilCredited'
    BY Zenon
  <1> USE DEF TypeOK, AppliedInv, PendingUntilCredited, Bytes, runVars, callVars, saveVars,
          diskVars, panelVars, histVars
  <1>1. ASSUME NEW r \in Runner, RestorePending(r) PROVE PendingUntilCredited'
    BY <1>1, Zenon DEF RestorePending
  <1>2. ASSUME NEW r \in Runner, RestoreFailed(r) PROVE PendingUntilCredited'
    BY <1>2, Zenon DEF RestoreFailed
  <1>3. ASSUME NEW r \in Runner, SpawnTasks(r) PROVE PendingUntilCredited'
    BY <1>3, Zenon DEF SpawnTasks
  <1>4. ASSUME NEW r \in Runner, BootFailed(r) PROVE PendingUntilCredited'
    BY <1>4, Zenon DEF BootFailed
  <1>5. ASSUME NEW r \in Runner, ReportTick(r) PROVE PendingUntilCredited'
    BY <1>5, Zenon DEF ReportTick, BeginReport
  <1>6. ASSUME NEW r \in Runner, FlushAttempt(r) PROVE PendingUntilCredited'
    BY <1>6, Zenon DEF FlushAttempt, BeginReport
  <1>7. ASSUME NEW r \in Runner, Post(r) PROVE PendingUntilCredited'
    BY <1>7, Zenon DEF Post
  <1>8. ASSUME NEW r \in Runner, Defer(r) PROVE PendingUntilCredited'
    BY <1>8, Zenon DEF Defer, EndReport
  <1>9. ASSUME NEW r \in Runner, PanelApply(r) PROVE PendingUntilCredited'
    BY <1>9, Zenon DEF PanelApply
  <1>10. ASSUME NEW r \in Runner, ReplyOk(r) PROVE PendingUntilCredited'
    BY <1>10, AcknowledgeRest DEF ReplyOk, Confirm
  <1>11. ASSUME NEW r \in Runner, ReplyErr(r) PROVE PendingUntilCredited'
    BY <1>11, Zenon DEF ReplyErr
  <1>12. ASSUME NEW r \in Runner, FallbackPost(r) PROVE PendingUntilCredited'
    BY <1>12, Zenon DEF FallbackPost
  <1>13. ASSUME NEW r \in Runner, FallbackReply(r) PROVE PendingUntilCredited'
    BY <1>13, Zenon DEF FallbackReply, Confirm, Abandon
  <1>14. ASSUME NEW r \in Runner, FinishReport(r) PROVE PendingUntilCredited'
    BY <1>14, Zenon DEF FinishReport, EndReport
  <1>15. ASSUME NEW r \in Runner, Shutdown(r) PROVE PendingUntilCredited'
    BY <1>15, Zenon DEF Shutdown
  <1>16. ASSUME NEW r \in Runner, StopReportTask(r) PROVE PendingUntilCredited'
    BY <1>16, Zenon DEF StopReportTask
  <1>17. ASSUME NEW r \in Runner, BeginFlush(r) PROVE PendingUntilCredited'
    BY <1>17, Zenon DEF BeginFlush
  <1>18. ASSUME NEW r \in Runner, FlushTimeout(r) PROVE PendingUntilCredited'
    BY <1>18, Zenon DEF FlushTimeout
  <1>19. ASSUME NEW r \in Runner, Close(r) PROVE PendingUntilCredited'
    BY <1>19, Zenon DEF Close
  <1>20. ASSUME NEW r \in Runner, Exit(r) PROVE PendingUntilCredited'
    BY <1>20, Zenon DEF Exit, ProcessEnd
  <1>21. ASSUME NEW r \in Runner, Kill(r) PROVE PendingUntilCredited'
    BY <1>21, Zenon DEF Kill, Crash, ProcessEnd
  <1>22. ASSUME NEW r \in Runner, NEW c \in Chunk, OnTraffic(r, c) PROVE PendingUntilCredited'
    BY <1>22, Zenon DEF OnTraffic
  <1>23. ASSUME NEW r \in Runner, NEW k \in Role, SaveOpen(r, k) PROVE PendingUntilCredited'
    BY <1>23, Zenon DEF SaveOpen
  <1>24. ASSUME NEW r \in Runner, NEW k \in Role, SaveRename(r, k) PROVE PendingUntilCredited'
    BY <1>24, Zenon DEF SaveRename
  <1>25. ASSUME NEW r \in Runner, NEW k \in Role, SaveSync(r, k) PROVE PendingUntilCredited'
    BY <1>25, Zenon DEF SaveSync
  <1>26. ASSUME NEW r \in Runner, NEW k \in Role, SaveFail(r, k) PROVE PendingUntilCredited'
    BY <1>26, Zenon DEF SaveFail
  <1>27. ASSUME NEW r \in Runner, NEW how \in {"drained", "cut"}, StopInbound(r,
        how) PROVE PendingUntilCredited'
    BY <1>27, Zenon DEF StopInbound
  <1>28. ASSUME NEW b \in stray, PanelApplyStray(b) PROVE PendingUntilCredited'
    BY <1>28, Zenon DEF PanelApplyStray
  <1>29. CASE PowerLoss
    BY <1>29, Zenon DEF PowerLoss, Crash, ProcessEnd
  <1>30. CASE UNCHANGED vars
    BY <1>30, Zenon DEF vars
  <1> HIDE DEF TypeOK, AppliedInv, PendingUntilCredited
  <1>31. ASSUME NEW r \in Runner, RunnerStep(r) PROVE PendingUntilCredited'
    BY ZenonT(30), <1>1, <1>2, <1>3, <1>4, <1>5, <1>6, <1>7, <1>8, <1>9, <1>10, <1>11, <1>12,
        <1>13, <1>14, <1>15, <1>16, <1>17, <1>18, <1>19, <1>20, <1>21, <1>22, <1>23, <1>24,
        <1>25, <1>26, <1>27, <1>31 DEF RunnerStep, FailedPost
  <1> QED
    BY Zenon, <1>28, <1>29, <1>30, <1>31 DEF Next

-----------------------------------------------------------------------------
(* Nothing saved is lost.                                                  *)

\* The missing pending store the first restore_pending finds covers everything
\* saved so far, which is nothing.
LEMMA InitCover == Init => CoverInv
  BY DEF Init, CoverInv, Open, Bytes, Role, Holding

\* The end of processes leaves no snapshot and no lock of theirs behind.
LEMMA ProcessEndCover ==
  ASSUME TypeOK, LockInv, CoverInv, NEW gone \in SUBSET Runner, ProcessEnd(gone),
         UNCHANGED <<credited, secured>>, file' \in {file, durable}, durable' \in {file, durable}
  PROVE  CoverInv'
  <1>1. Open' = Open
    BY Zenon DEF Open, Bytes
  <1>2. ASSUME NEW q \in Runner, q \in gone
        PROVE  lock' # q /\ \A k \in Role : save'[q][k] = "none"
    BY <1>2, ConstantsAssumption, Zenon DEF ProcessEnd, TypeOK
  <1>3. ASSUME NEW q \in Runner, q \notin gone
        PROVE  /\ save'[q] = save[q] /\ snap'[q] = snap[q] /\ buffer'[q] = buffer[q]
               /\ lock' = q => lock = q
    BY <1>3, ConstantsAssumption, Zenon DEF ProcessEnd, TypeOK
  <1>4. /\ file'.whole /\ Open' \subseteq file'.pending
        /\ durable'.whole /\ Open' \subseteq durable'.pending
    BY <1>1, Zenon DEF CoverInv
  <1>5. ASSUME NEW q \in Runner
        PROVE  lock' = q => Open' \subseteq buffer'[q]
    BY <1>1, <1>2, <1>3, Zenon DEF CoverInv
  <1>6. ASSUME NEW q \in Runner, NEW k \in Role, save'[q][k] \in Holding
        PROVE  /\ Open' \subseteq snap'[q][k]
               /\ Bytes(snap'[q][k]) \ credited' \subseteq buffer'[q]
    BY Zenon, <1>1, <1>2, <1>3, <1>6 DEF CoverInv, Holding
  <1> QED
    BY <1>4, <1>5, <1>6, Zenon DEF CoverInv, Bytes

\* The store, the buffer and the snapshots cover what was secured.
LEMMA CoverStep ==
    TypeOK /\ CallInv /\ LockInv /\ AppliedInv /\ CoverInv /\ [Next]_vars => CoverInv'
  <1> SUFFICES ASSUME TypeOK, CallInv, LockInv, AppliedInv, CoverInv
               PROVE  [Next]_vars => CoverInv'
    BY Zenon
  <1> USE DEF TypeOK, CallInv, LockInv, AppliedInv, CoverInv, Open, Bytes, runVars,
          callVars, saveVars, diskVars, panelVars, histVars, Working, Busy, Holding, Role, Contents
  <1>1. ASSUME NEW r \in Runner, RestorePending(r) PROVE CoverInv'
    BY <1>1 DEF RestorePending
  <1>2. ASSUME NEW r \in Runner, RestoreFailed(r) PROVE CoverInv'
    BY <1>2, Zenon DEF RestoreFailed
  <1>3. ASSUME NEW r \in Runner, SpawnTasks(r) PROVE CoverInv'
    BY <1>3, Zenon DEF SpawnTasks
  <1>4. ASSUME NEW r \in Runner, BootFailed(r) PROVE CoverInv'
    BY Zenon, <1>4 DEF BootFailed
  <1>5. ASSUME NEW r \in Runner, ReportTick(r) PROVE CoverInv'
    BY SMTT(30), <1>5 DEF ReportTick, BeginReport, Queue, Caller
  <1>6. ASSUME NEW r \in Runner, FlushAttempt(r) PROVE CoverInv'
    BY <1>6 DEF FlushAttempt, BeginReport, Queue, Caller
  <1>7. ASSUME NEW r \in Runner, Post(r) PROVE CoverInv'
    BY Zenon, <1>7 DEF Post
  <1>8. ASSUME NEW r \in Runner, Defer(r) PROVE CoverInv'
    BY <1>8 DEF Defer, EndReport, Queue, Caller
  <1>9. ASSUME NEW r \in Runner, PanelApply(r) PROVE CoverInv'
    BY Zenon, <1>9 DEF PanelApply
  <1>10. ASSUME NEW r \in Runner, ReplyOk(r) PROVE CoverInv'
    BY SMTT(30), <1>10, AcknowledgeRest DEF ReplyOk, Confirm, Queue, Caller
  <1>11. ASSUME NEW r \in Runner, ReplyErr(r) PROVE CoverInv'
    BY SMTT(30), <1>11 DEF ReplyErr, Queue, Caller
  <1>12. ASSUME NEW r \in Runner, FallbackPost(r) PROVE CoverInv'
    BY Zenon, <1>12 DEF FallbackPost
  <1>13. ASSUME NEW r \in Runner, FallbackReply(r) PROVE CoverInv'
    BY Zenon, <1>13 DEF FallbackReply, Confirm, Abandon, Queue, Caller
  <1>14. ASSUME NEW r \in Runner, FinishReport(r) PROVE CoverInv'
    BY <1>14 DEF FinishReport, EndReport, Queue, Caller
  <1>15. ASSUME NEW r \in Runner, Shutdown(r) PROVE CoverInv'
    BY Zenon, <1>15 DEF Shutdown
  <1>16. ASSUME NEW r \in Runner, StopReportTask(r) PROVE CoverInv'
    BY Zenon, <1>16 DEF StopReportTask
  <1>17. ASSUME NEW r \in Runner, BeginFlush(r) PROVE CoverInv'
    BY Zenon, <1>17 DEF BeginFlush
  <1>18. ASSUME NEW r \in Runner, FlushTimeout(r) PROVE CoverInv'
    BY SMTT(30), <1>18 DEF FlushTimeout, Queue, Caller
  <1>19. ASSUME NEW r \in Runner, Close(r) PROVE CoverInv'
    BY Zenon, <1>19 DEF Close
  <1>20. ASSUME NEW r \in Runner, Exit(r) PROVE CoverInv'
    <2>1. ProcessEnd({r}) /\ {r} \in SUBSET Runner /\ UNCHANGED <<diskVars, panelVars, histVars>>
      BY <1>20 DEF Exit
    <2> QED
      BY ZenonT(30), <2>1, ProcessEndCover
  <1>21. ASSUME NEW r \in Runner, Kill(r) PROVE CoverInv'
    <2>1. /\ ProcessEnd({r}) /\ {r} \in SUBSET Runner
          /\ UNCHANGED <<file, durable, credited, secured>>
      BY SMTT(30), <1>21 DEF Kill, Crash
    <2> QED
      BY ZenonT(30), <2>1, ProcessEndCover
  <1>22. ASSUME NEW r \in Runner, NEW c \in Chunk, OnTraffic(r, c) PROVE CoverInv'
    BY SMTT(30), <1>22 DEF OnTraffic
  <1>23. ASSUME NEW r \in Runner, NEW k \in Role, SaveOpen(r, k) PROVE CoverInv'
    BY SMTT(30), <1>23 DEF SaveOpen, IoFree
  <1>24. ASSUME NEW r \in Runner, NEW k \in Role, SaveRename(r, k) PROVE CoverInv'
    BY SMTT(30), <1>24 DEF SaveRename
  <1>25. ASSUME NEW r \in Runner, NEW k \in Role, SaveSync(r, k) PROVE CoverInv'
    BY SMTT(30), <1>25 DEF SaveSync
  <1>26. ASSUME NEW r \in Runner, NEW k \in Role, SaveFail(r, k) PROVE CoverInv'
    BY SMTT(30), <1>26 DEF SaveFail, IoFree
  <1>27. ASSUME NEW r \in Runner, NEW how \in {"drained", "cut"}, StopInbound(r,
        how) PROVE CoverInv'
    BY Zenon, <1>27 DEF StopInbound
  <1>28. ASSUME NEW b \in stray, PanelApplyStray(b) PROVE CoverInv'
    BY Zenon, <1>28 DEF PanelApplyStray
  <1>29. CASE PowerLoss
    <2> DEFINE dying == {r \in Runner : Alive(r)}
    <2>1. /\ ProcessEnd(dying) /\ dying \in SUBSET Runner
          /\ UNCHANGED <<credited, secured>>
          /\ file' \in {file, durable} /\ durable' \in {file, durable}
      BY Zenon, <1>29 DEF PowerLoss, Crash
    <2> HIDE DEF dying, TypeOK, LockInv, CoverInv
    <2> QED
      BY <2>1, ProcessEndCover, Zenon
  <1>30. CASE UNCHANGED vars
    BY <1>30, Zenon DEF vars
  <1> HIDE DEF TypeOK, CallInv, LockInv, AppliedInv, CoverInv, Role
  <1>31. ASSUME NEW r \in Runner, RunnerStep(r) PROVE CoverInv'
    BY ZenonT(30), <1>1, <1>2, <1>3, <1>4, <1>5, <1>6, <1>7, <1>8, <1>9, <1>10, <1>11, <1>12,
        <1>13, <1>14, <1>15, <1>16, <1>17, <1>18, <1>19, <1>20, <1>21, <1>22, <1>23, <1>24,
        <1>25, <1>26, <1>27, <1>31 DEF RunnerStep, FailedPost
  <1> QED
    BY Zenon, <1>28, <1>29, <1>30, <1>31 DEF Next

-----------------------------------------------------------------------------
(* Every repetition is paid for.                                           *)

\* Before the first start nothing was posted, buffered or stored.
LEMMA InitPaid == Init => KnownInv /\ ResendsPaid /\ PaidInv
  BY SMTT(30) DEF Init, KnownInv, PaidInv, HolderPaid, ResendsPaid, Role, Holding, Paid, InFlight,
      Queued

\* Only accounted chunks move through the ledger.
LEMMA KnownStep == TypeOK /\ KnownInv /\ [Next]_vars => KnownInv'
  <1> SUFFICES ASSUME TypeOK, KnownInv
               PROVE  [Next]_vars => KnownInv'
    BY Zenon
  <1> USE DEF TypeOK, KnownInv, runVars, callVars, saveVars, diskVars, panelVars, histVars,
          Contents
  <1>b. ASSUME NEW r \in Runner, BeginReport(r) PROVE KnownInv'
    <2>1. batch'[r] \subseteq buffer[r] /\ \A q \in Runner \ {r} : batch'[q] = batch[q]
      BY ZenonT(30), <1>b, BatchPart DEF BeginReport
    <2>2. UNCHANGED <<buffer, snap, file, durable, received, sends>>
      BY <1>b, Zenon DEF BeginReport
    <2> HIDE DEF TypeOK
    <2> QED
      BY <2>1, <2>2, Zenon
  <1>1. ASSUME NEW r \in Runner, RestorePending(r) PROVE KnownInv'
    BY <1>1, Zenon DEF RestorePending
  <1>2. ASSUME NEW r \in Runner, RestoreFailed(r) PROVE KnownInv'
    BY <1>2, Zenon DEF RestoreFailed
  <1>3. ASSUME NEW r \in Runner, SpawnTasks(r) PROVE KnownInv'
    BY <1>3, Zenon DEF SpawnTasks
  <1>4. ASSUME NEW r \in Runner, BootFailed(r) PROVE KnownInv'
    BY <1>4, Zenon DEF BootFailed
  <1>5. ASSUME NEW r \in Runner, ReportTick(r) PROVE KnownInv'
    BY <1>5, <1>b, Zenon DEF ReportTick
  <1>6. ASSUME NEW r \in Runner, FlushAttempt(r) PROVE KnownInv'
    BY <1>6, <1>b, Zenon DEF FlushAttempt
  <1>7. ASSUME NEW r \in Runner, Post(r) PROVE KnownInv'
    BY <1>7, Zenon DEF Post
  <1>8. ASSUME NEW r \in Runner, Defer(r) PROVE KnownInv'
    BY <1>8, Zenon DEF Defer, EndReport
  <1>9. ASSUME NEW r \in Runner, PanelApply(r) PROVE KnownInv'
    BY <1>9, Zenon DEF PanelApply
  <1>10. ASSUME NEW r \in Runner, ReplyOk(r) PROVE KnownInv'
    BY <1>10, AcknowledgeRest DEF ReplyOk, Confirm
  <1>11. ASSUME NEW r \in Runner, ReplyErr(r) PROVE KnownInv'
    BY <1>11, Zenon DEF ReplyErr
  <1>12. ASSUME NEW r \in Runner, FallbackPost(r) PROVE KnownInv'
    BY <1>12, Zenon DEF FallbackPost
  <1>13. ASSUME NEW r \in Runner, FallbackReply(r) PROVE KnownInv'
    BY <1>13, AcknowledgeRest DEF FallbackReply, Confirm, Abandon
  <1>14. ASSUME NEW r \in Runner, FinishReport(r) PROVE KnownInv'
    BY <1>14, Zenon DEF FinishReport, EndReport
  <1>15. ASSUME NEW r \in Runner, Shutdown(r) PROVE KnownInv'
    BY <1>15, Zenon DEF Shutdown
  <1>16. ASSUME NEW r \in Runner, StopReportTask(r) PROVE KnownInv'
    BY <1>16, Zenon DEF StopReportTask
  <1>17. ASSUME NEW r \in Runner, BeginFlush(r) PROVE KnownInv'
    BY <1>17, Zenon DEF BeginFlush
  <1>18. ASSUME NEW r \in Runner, FlushTimeout(r) PROVE KnownInv'
    BY <1>18, Zenon DEF FlushTimeout
  <1>19. ASSUME NEW r \in Runner, Close(r) PROVE KnownInv'
    BY Zenon, <1>19 DEF Close
  <1>20. ASSUME NEW r \in Runner, Exit(r) PROVE KnownInv'
    BY Zenon, <1>20 DEF Exit, ProcessEnd
  <1>21. ASSUME NEW r \in Runner, Kill(r) PROVE KnownInv'
    BY <1>21, Zenon DEF Kill, Crash, ProcessEnd
  <1>22. ASSUME NEW r \in Runner, NEW c \in Chunk, OnTraffic(r, c) PROVE KnownInv'
    BY <1>22, Zenon DEF OnTraffic
  <1>23. ASSUME NEW r \in Runner, NEW k \in Role, SaveOpen(r, k) PROVE KnownInv'
    BY <1>23, Zenon DEF SaveOpen
  <1>24. ASSUME NEW r \in Runner, NEW k \in Role, SaveRename(r, k) PROVE KnownInv'
    BY <1>24, Zenon DEF SaveRename
  <1>25. ASSUME NEW r \in Runner, NEW k \in Role, SaveSync(r, k) PROVE KnownInv'
    BY <1>25, Zenon DEF SaveSync
  <1>26. ASSUME NEW r \in Runner, NEW k \in Role, SaveFail(r, k) PROVE KnownInv'
    BY <1>26, Zenon DEF SaveFail
  <1>27. ASSUME NEW r \in Runner, NEW how \in {"drained", "cut"}, StopInbound(r,
        how) PROVE KnownInv'
    BY <1>27, Zenon DEF StopInbound
  <1>28. ASSUME NEW b \in stray, PanelApplyStray(b) PROVE KnownInv'
    BY Zenon, <1>28 DEF PanelApplyStray
  <1>29. CASE PowerLoss
    BY <1>29, Zenon DEF PowerLoss, Crash, ProcessEnd
  <1>30. CASE UNCHANGED vars
    BY <1>30, Zenon DEF vars
  <1> HIDE DEF TypeOK, KnownInv
  <1>31. ASSUME NEW r \in Runner, RunnerStep(r) PROVE KnownInv'
    BY ZenonT(30), <1>1, <1>2, <1>3, <1>4, <1>5, <1>6, <1>7, <1>8, <1>9, <1>10, <1>11, <1>12,
        <1>13, <1>14, <1>15, <1>16, <1>17, <1>18, <1>19, <1>20, <1>21, <1>22, <1>23, <1>24,
        <1>25, <1>26, <1>27, <1>31 DEF RunnerStep, FailedPost
  <1> QED
    BY Zenon, <1>28, <1>29, <1>30, <1>31 DEF Next

\* The bound of the repetitions moves with the faults.
LEMMA PaidQuiet ==
  ASSUME TypeOK, ResendsPaid, UNCHANGED <<sends, faults>>
  PROVE  Paid' = Paid /\ ResendsPaid'
  BY Zenon DEF Paid, ResendsPaid

\* A fault pays for one more repetition of everything.
LEMMA PaidByFault ==
  ASSUME TypeOK, TypeOK', ResendsPaid, sends' = sends, faults' = faults + 1
  PROVE  ResendsPaid' /\ PaidInv'
  <1>1. Paid' = Chunk /\ ResendsPaid'
    <2>1. ASSUME NEW c \in Chunk PROVE sends'[c] <= faults'
      BY DEF TypeOK, ResendsPaid
    <2> QED
      BY <2>1 DEF TypeOK, Paid, ResendsPaid
  <1> QED
    BY <1>1 DEF PaidInv, HolderPaid, TypeOK, Contents

\* A step that touches neither the buffers nor the saves changes nothing.
LEMMA PaidFrame ==
  ASSUME TypeOK, ResendsPaid, PaidInv,
         UNCHANGED <<pc, batch, save, snap, file, buffer, lock, sends, faults>>
  PROVE  ResendsPaid' /\ PaidInv'
  BY PaidQuiet, Zenon DEF PaidInv, HolderPaid, Queued, InFlight

\* While a runner holds the lock only its own buffer, saves and store count.
LEMMA PaidHolder ==
  ASSUME NEW r \in Runner, lock' = r, HolderPaid(r)' PROVE PaidInv'
  BY ConstantsAssumption, Zenon DEF PaidInv

\* A step that leaves the saves alone and does not add to the chunks in the
\* buffer that have to be paid for.
LEMMA PaidBuffer ==
  ASSUME NEW r \in Runner, HolderPaid(r), save' = save, snap' = snap, file' = file,
         buffer[r] \subseteq buffer'[r], Paid \subseteq Paid' \cup buffer'[r],
         buffer'[r] \subseteq Paid' \cup InFlight(r)'
  PROVE  HolderPaid(r)'
  BY Zenon DEF HolderPaid, Queued

\* The callers of save_pending.
LEMMA RoleFacts == "final" \in Role /\ \A q : Caller(q) \in Role
  BY Zenon DEF Role, Caller

\* What the holder of the lock has is paid for.
LEMMA HolderOwns == ASSUME PaidInv PROVE \A q \in Runner : lock = q => HolderPaid(q)
  BY Zenon DEF PaidInv

\* A runner in report_data holds the lock file.
LEMMA ReporterHolds ==
  ASSUME IInv, NEW r \in Runner, pc[r] # "idle" PROVE lock = r /\ HolderPaid(r)
  BY Zenon DEF IInv, CallInv, LockInv, PaidInv, Working

\* So does a runner with a blocking task of save_pending.
LEMMA SaverHolds ==
  ASSUME IInv, NEW r \in Runner, NEW k \in Role, save[r][k] \in Busy
  PROVE  lock = r /\ HolderPaid(r)
  BY Zenon DEF IInv, LockInv, PaidInv

\* Once a save is queued only the buffer counts.
LEMMA PaidQueued ==
  ASSUME NEW r \in Runner, lock' = r, Queued(r)', buffer'[r] \subseteq Paid' PROVE PaidInv'
  <1>1. HolderPaid(r)'
    BY Zenon DEF HolderPaid
  <1> QED
    BY <1>1, PaidHolder, Zenon

\* An acknowledged report leaves nothing in the buffer that has to be paid for.
LEMMA PaidConfirm ==
  ASSUME IInv, NEW r \in Runner, pc[r] # "idle", Confirm(r), faults' = faults
  PROVE  (ResendsPaid /\ PaidInv)'
  <1>0. TypeOK /\ ResendsPaid
    BY Zenon DEF IInv
  <1>1. lock = r /\ HolderPaid(r)
    BY ReporterHolds, Zenon
  <1>2. Paid' = Paid /\ ResendsPaid' /\ lock' = lock
    BY <1>0, PaidQuiet, Zenon DEF Confirm
  <1>3. Queued(r)'
    <2>1. save' = [save EXCEPT ![r][Caller(r)] = "queued"] /\ Caller(r) \in Role
      BY RoleFacts, Zenon DEF Confirm, Queue
    <2>2. save \in [Runner -> [Role -> Phase]]
      BY <1>0, Zenon DEF TypeOK
    <2>3. save'[r][Caller(r)] = "queued"
      BY <2>1, <2>2, Zenon
    <2> QED
      BY <2>1, <2>3, Zenon DEF Queued
  <1>4. buffer[r] \subseteq Paid \cup batch[r]
    BY <1>1, Zenon DEF HolderPaid, InFlight
  <1>5. buffer'[r] = Acknowledge(buffer[r], batch[r])
    BY <1>0, Zenon DEF Confirm, TypeOK
  <1>6. buffer'[r] \subseteq Paid'
    BY SMTT(30), <1>2, <1>4, <1>5, AcknowledgeRest
  <1> QED
    BY <1>1, <1>2, <1>3, <1>6, PaidQueued, Zenon

\* The beginning of a report only chooses items and queues a save.
LEMMA PaidBegin ==
  ASSUME IInv, NEW r \in Runner, mode[r] \in Working, BeginReport(r)
  PROVE  (ResendsPaid /\ PaidInv)'
  <1>0. TypeOK /\ ResendsPaid
    BY Zenon DEF IInv
  <1>1. lock = r /\ HolderPaid(r)
    BY HolderOwns, Zenon DEF IInv, LockInv
  <1>2. Paid' = Paid /\ ResendsPaid' /\ lock' = lock /\ buffer' = buffer
    BY <1>0, PaidQuiet, Zenon DEF BeginReport, histVars
  <1>3. Queued(r)'
    <2>1. save' = [save EXCEPT ![r][Caller(r)] = "queued"] /\ Caller(r) \in Role
      BY RoleFacts, Zenon DEF BeginReport, Queue
    <2>2. save \in [Runner -> [Role -> Phase]]
      BY <1>0, Zenon DEF TypeOK
    <2>3. save'[r][Caller(r)] = "queued"
      BY <2>1, <2>2, Zenon
    <2> QED
      BY <2>1, <2>3, Zenon DEF Queued
  <1>4. buffer[r] \subseteq Paid
    BY <1>1, Zenon DEF HolderPaid, InFlight, BeginReport
  <1> QED
    BY <1>1, <1>2, <1>3, <1>4, PaidQueued, Zenon
=============================================================================
