-------------------------- MODULE AccountingProofs --------------------------
(***************************************************************************)
(* Theorems about the accounting of traffic, for every number of runners,  *)
(* chunks, faults, buckets and rates.  TrafficLedger: its invariants (the  *)
(* steps that pay for a repetition come first), what a shutdown says, and  *)
(* the refinement of AtLeastOnce.  RateLimiter: a bucket that is settled   *)
(* only when it is looked at lets no more pass than its rate.              *)
(***************************************************************************)
EXTENDS TrafficLedgerBase, RateLimiter

-----------------------------------------------------------------------------
(* Every repetition of a post is paid for by a fault.                      *)

\* restore_pending takes over a store whose chunks are all paid for.
LEMMA PaidByRestorePending ==
  ASSUME IInv, NEW r \in Runner, RestorePending(r)
  PROVE  (ResendsPaid /\ PaidInv)'
  <1>0. TypeOK /\ ResendsPaid /\ file.pending \subseteq Paid
    BY Zenon DEF IInv, PaidInv, RestorePending
  <1>1. Paid' = Paid /\ ResendsPaid' /\ lock' = r /\ UNCHANGED <<save, snap, file>>
    BY <1>0, PaidQuiet, Zenon DEF RestorePending, saveVars, diskVars, histVars
  <1>2. buffer'[r] = file.pending
    BY <1>0, Zenon DEF RestorePending, TypeOK
  <1>3. \A k \in Role : save[r][k] \notin Holding
    BY ConstantsAssumption, Zenon DEF IInv, LockInv, RestorePending, Busy, Holding
  <1>4. HolderPaid(r)'
    BY <1>0, <1>1, <1>2, <1>3, Zenon DEF HolderPaid
  <1> QED
    BY <1>1, <1>4, PaidHolder, Zenon

\* A tick of the report task only chooses items and queues a save.
LEMMA PaidByReportTick ==
  ASSUME IInv, NEW r \in Runner, ReportTick(r)
  PROVE  (ResendsPaid /\ PaidInv)'
  BY PaidBegin, Zenon DEF ReportTick, Working

\* So does an attempt of the flush.
LEMMA PaidByFlushAttempt ==
  ASSUME IInv, NEW r \in Runner, FlushAttempt(r)
  PROVE  (ResendsPaid /\ PaidInv)'
  BY PaidBegin, Zenon DEF FlushAttempt, Working

\* A report posts chunks of the buffer, which are paid for.
LEMMA PaidByPost ==
  ASSUME IInv, NEW r \in Runner, Post(r)
  PROVE  (ResendsPaid /\ PaidInv)'
  <1>0. TypeOK /\ ResendsPaid /\ AckFitsCounter
    BY Zenon DEF IInv
  <1>1. lock = r /\ batch[r] \subseteq buffer[r]
    BY Zenon, <1>0, ReporterHolds DEF Post, AckFitsCounter
  <1>2. HolderPaid(r) /\ InFlight(r) = {}
    BY ReporterHolds, Zenon DEF Post, InFlight
  <1>3. batch[r] \subseteq Paid
    BY <1>1, <1>2, Zenon DEF HolderPaid
  <1>4. ResendsPaid' /\ Paid \ batch[r] \subseteq Paid'
    <2>1. ASSUME NEW c \in Chunk
          PROVE  sends'[c] <= 1 + faults' /\ (c \notin batch[r] => sends'[c] = sends[c])
      BY <1>0, <1>3 DEF Post, ResendsPaid, Paid, TypeOK, histVars
    <2> QED
      BY <1>0, <2>1, Zenon DEF Post, ResendsPaid, Paid, TypeOK
  <1>5. UNCHANGED <<batch, save, snap, file, buffer, lock>> /\ InFlight(r)' = batch[r]
    BY <1>0, Zenon DEF Post, InFlight, TypeOK, saveVars, diskVars
  <1>6. buffer'[r] \subseteq Paid' \cup InFlight(r)'
    BY <1>2, <1>4, <1>5, Zenon DEF HolderPaid
  <1>7. HolderPaid(r)'
    BY <1>1, <1>2, <1>4, <1>5, <1>6, PaidBuffer, Zenon
  <1> QED
    BY <1>1, <1>4, <1>5, <1>7, PaidHolder, Zenon

\* A deferred report leaves its chunks paid for.
LEMMA PaidByDefer ==
  ASSUME IInv, NEW r \in Runner, Defer(r)
  PROVE  (ResendsPaid /\ PaidInv)'
  <1>0. TypeOK /\ ResendsPaid
    BY Zenon DEF IInv
  <1>1. Paid' = Paid /\ ResendsPaid' /\ lock = r
    BY <1>0, PaidQuiet, ReporterHolds, Zenon DEF Defer, histVars
  <1>2. UNCHANGED <<buffer, snap, file, lock>> /\ InFlight(r) = {}
    BY Zenon DEF Defer, InFlight, diskVars
  <1>3. HolderPaid(r) /\ buffer[r] \subseteq Paid
    BY <1>2, ReporterHolds, Zenon DEF HolderPaid, Defer
  <1>4. CASE UNCHANGED <<mode, verdict, save>>
    BY <1>1, <1>2, <1>3, <1>4, PaidBuffer, PaidHolder, Zenon
  <1>5. CASE Queue(r, "final")
    <2>1. Queued(r)'
      BY <1>0, <1>5, RoleFacts DEF Queue, Queued, TypeOK
    <2>2. HolderPaid(r)'
      BY Zenon, <1>1, <1>2, <1>3, <2>1 DEF HolderPaid
    <2> QED
      BY <1>1, <1>2, <2>2, PaidHolder, Zenon
  <1> QED
    BY <1>4, <1>5, Zenon DEF Defer, EndReport

\* What the panel acknowledged leaves the buffer, and a queued save will
\* replace the store.
LEMMA PaidByReplyOk ==
  ASSUME IInv, NEW r \in Runner, ReplyOk(r)
  PROVE  (ResendsPaid /\ PaidInv)'
  BY PaidConfirm, Zenon DEF ReplyOk

\* The second post of PPanelClient is paid for by the failure of the first.
LEMMA PaidByFallbackPost ==
  ASSUME IInv, NEW r \in Runner, FallbackPost(r)
  PROVE  (ResendsPaid /\ PaidInv)'
  <1>0. TypeOK /\ ResendsPaid /\ AckFitsCounter /\ PaidInv
    BY Zenon DEF IInv
  <1>1. lock = r /\ batch[r] \subseteq buffer[r]
    BY <1>0, ReporterHolds, Zenon DEF FallbackPost, AckFitsCounter
  <1>2. ResendsPaid' /\ Chunk \ batch[r] \subseteq Paid'
    <2>1. ASSUME NEW c \in Chunk
          PROVE  sends'[c] <= 1 + faults' /\ (c \notin batch[r] => sends'[c] <= faults')
      BY <1>0 DEF FallbackPost, ResendsPaid, TypeOK
    <2> QED
      BY <1>0, <2>1, Zenon DEF FallbackPost, ResendsPaid, Paid, TypeOK
  <1>3. batch' = batch /\ pc'[r] = "fallback"
    BY <1>0, Zenon DEF FallbackPost, TypeOK
  <1>4. UNCHANGED <<save, snap, file, buffer, lock>>
    BY Zenon DEF FallbackPost, saveVars, diskVars
  <1>5. buffer[r] \cup file.pending \subseteq Chunk /\ \A k \in Role : snap[r][k] \subseteq Chunk
    BY <1>0 DEF TypeOK, Contents
  <1>6. HolderPaid(r)'
    BY Zenon, <1>1, <1>2, <1>3, <1>4, <1>5 DEF HolderPaid, InFlight
  <1> QED
    BY <1>1, <1>2, <1>4, <1>6, PaidHolder, Zenon

\* The answer to the second post is taken like any other.
LEMMA PaidByFallbackReply ==
  ASSUME IInv, NEW r \in Runner, FallbackReply(r)
  PROVE  (ResendsPaid /\ PaidInv)'
  BY PaidConfirm, Zenon DEF FallbackReply

\* The end of report_data changes at most the queue of saves.
LEMMA PaidByFinishReport ==
  ASSUME IInv, NEW r \in Runner, FinishReport(r)
  PROVE  (ResendsPaid /\ PaidInv)'
  <1>0. TypeOK /\ ResendsPaid
    BY Zenon DEF IInv
  <1>1. Paid' = Paid /\ ResendsPaid' /\ lock = r
    BY <1>0, PaidQuiet, ReporterHolds, Zenon DEF FinishReport, histVars
  <1>2. UNCHANGED <<buffer, snap, file, lock>> /\ InFlight(r) = {}
    BY Zenon DEF FinishReport, InFlight, diskVars
  <1>3. HolderPaid(r) /\ buffer[r] \subseteq Paid
    BY <1>2, ReporterHolds, Zenon DEF HolderPaid, FinishReport
  <1>4. CASE UNCHANGED <<mode, verdict, save>>
    BY <1>1, <1>2, <1>3, <1>4, PaidBuffer, PaidHolder, Zenon
  <1>5. CASE Queue(r, "final")
    <2>1. Queued(r)'
      BY <1>0, <1>5, RoleFacts DEF Queue, Queued, TypeOK
    <2>2. HolderPaid(r)'
      BY Zenon, <1>1, <1>2, <1>3, <2>1 DEF HolderPaid
    <2> QED
      BY <1>1, <1>2, <2>2, PaidHolder, Zenon
  <1> QED
    BY ZenonT(30), <1>4, <1>5 DEF FinishReport, EndReport

\* A report task that stops between two requests leaves its chunks paid for.
LEMMA PaidByStopReportTask ==
  ASSUME IInv, NEW r \in Runner, StopReportTask(r), pc[r] \notin {"post", "fallback"}
  PROVE  (ResendsPaid /\ PaidInv)'
  <1>0. TypeOK /\ ResendsPaid
    BY Zenon DEF IInv
  <1>a. lock = r /\ HolderPaid(r)
    BY Zenon, HolderOwns DEF IInv, LockInv, Working, StopReportTask
  <1>1. Paid' = Paid /\ ResendsPaid'
    BY Zenon, <1>0, PaidQuiet DEF StopReportTask
  <1>2. UNCHANGED <<buffer, save, snap, file, lock>> /\ InFlight(r) = {}
    BY Zenon DEF StopReportTask, InFlight, saveVars, diskVars
  <1>3. HolderPaid(r) /\ buffer[r] \subseteq Paid
    BY <1>a, <1>2, Zenon DEF HolderPaid
  <1>4. HolderPaid(r)'
    BY <1>1, <1>2, <1>3, PaidBuffer, Zenon
  <1> QED
    BY <1>a, <1>1, <1>2, <1>4, PaidHolder, Zenon

\* So does a flush that is cut off between two requests.
LEMMA PaidByFlushTimeout ==
  ASSUME IInv, NEW r \in Runner, FlushTimeout(r), pc[r] \notin {"post", "fallback"}
  PROVE  (ResendsPaid /\ PaidInv)'
  <1>0. TypeOK /\ ResendsPaid
    BY Zenon DEF IInv
  <1>a. lock = r /\ HolderPaid(r)
    BY HolderOwns, Zenon DEF IInv, LockInv, Working, FlushTimeout
  <1>1. Paid' = Paid /\ ResendsPaid'
    BY <1>0, PaidQuiet, Zenon DEF FlushTimeout
  <1>2. UNCHANGED <<buffer, snap, file, lock>> /\ InFlight(r) = {}
    BY Zenon DEF FlushTimeout, InFlight, diskVars
  <1>3. Queued(r)'
    BY SMTT(30), <1>0, RoleFacts DEF FlushTimeout, Queue, Queued, TypeOK
  <1>4. HolderPaid(r)'
    BY <1>a, <1>1, <1>2, <1>3, Zenon DEF HolderPaid
  <1> QED
    BY Zenon, <1>a, <1>1, <1>2, <1>4, PaidHolder

-----------------------------------------------------------------------------
(* The remaining steps that the repetitions depend on.                     *)

\* A process that ends by itself leaves a store that is paid for.
LEMMA PaidByExit ==
  ASSUME IInv, NEW r \in Runner, Exit(r)
  PROVE  (ResendsPaid /\ PaidInv)'
  <1>0. TypeOK /\ CallInv /\ ResendsPaid /\ PaidInv
    BY Zenon DEF IInv
  <1>1. Paid' = Paid /\ ResendsPaid' /\ file' = file
    BY <1>0, PaidQuiet, Zenon DEF Exit, diskVars, panelVars, histVars
  <1>l. lock' = IF lock \in {r} THEN NoRunner ELSE lock
    BY Zenon DEF Exit, ProcessEnd
  <1>2. CASE lock = r
    <2>1. \A k \in Role : save[r][k] # "queued" /\ save[r][k] \notin Holding
      BY Zenon DEF Exit, Finished, Holding
    <2>2. pc[r] = "idle"
      BY Zenon, <1>0 DEF Exit, CallInv
    <2>3. lock' = NoRunner
      BY <1>2, <1>l, Zenon
    <2>4. file.pending \subseteq Paid
      BY Zenon, <1>0, <1>2, <2>1, <2>2, HolderOwns DEF HolderPaid, InFlight, Queued
    <2> QED
      BY <1>1, <2>3, <2>4, ConstantsAssumption, Zenon DEF PaidInv
  <1>3. CASE lock # r
    <2>1. lock' = lock
      BY <1>3, <1>l, Zenon
    <2>2. ASSUME NEW q \in Runner, lock = q PROVE HolderPaid(q)'
      <3>1. /\ pc'[q] = pc[q] /\ batch'[q] = batch[q] /\ save'[q] = save[q]
            /\ snap'[q] = snap[q] /\ buffer'[q] = buffer[q]
        BY Zenon, <1>0, <1>3, <2>2 DEF Exit, ProcessEnd, TypeOK
      <3>2. (Queued(q) <=> Queued(q)') /\ InFlight(q)' = InFlight(q)
        BY <3>1, Zenon DEF Queued, InFlight
      <3> QED
        BY Zenon, <1>0, <1>1, <2>2, <3>1, <3>2, HolderOwns DEF HolderPaid
    <2> QED
      BY Zenon, <1>0, <1>1, <1>3, <2>1, <2>2 DEF PaidInv
  <1> QED
    BY <1>2, <1>3, Zenon

\* on_traffic accounts a chunk that was never posted.
LEMMA PaidByOnTraffic ==
  ASSUME IInv, NEW r \in Runner, NEW c \in Chunk, OnTraffic(r, c)
  PROVE  (ResendsPaid /\ PaidInv)'
  <1>0. TypeOK /\ ResendsPaid
    BY Zenon DEF IInv
  <1>1. lock = r /\ c \in Paid
    <2>1. lock = r /\ sends[c] = 0
      BY Zenon DEF OnTraffic, IInv, KnownInv, LockInv, Working
    <2> QED
      BY SMTT(30), <1>0, <2>1 DEF Paid, TypeOK
  <1>2. Paid' = Paid /\ ResendsPaid' /\ UNCHANGED <<pc, batch, save, snap, file, lock>>
    BY <1>0, PaidQuiet, Zenon DEF OnTraffic, callVars, saveVars, diskVars
  <1>3. buffer'[r] = buffer[r] \cup {c} /\ InFlight(r)' = InFlight(r)
    BY Zenon, <1>0 DEF OnTraffic, InFlight, TypeOK, callVars
  <1>4. HolderPaid(r) /\ buffer[r] \subseteq Paid \cup InFlight(r)
    BY <1>1, HolderOwns, Zenon DEF IInv, HolderPaid
  <1>5. HolderPaid(r)'
    BY Zenon, <1>1, <1>2, <1>3, <1>4, PaidBuffer
  <1> QED
    BY <1>1, <1>2, <1>5, PaidHolder, Zenon

\* A snapshot holds what the buffer holds.
LEMMA PaidBySaveOpen ==
  ASSUME IInv, NEW r \in Runner, NEW k \in Role, SaveOpen(r, k)
  PROVE  (ResendsPaid /\ PaidInv)'
  <1>0. TypeOK /\ ResendsPaid
    BY Zenon DEF IInv
  <1>1. Paid' = Paid /\ ResendsPaid' /\ UNCHANGED <<pc, batch, file, buffer, lock>>
    BY <1>0, PaidQuiet, Zenon DEF SaveOpen, callVars, diskVars, histVars
  <1>2. lock = r /\ HolderPaid(r)
    BY SaverHolds, Zenon DEF SaveOpen, Busy
  <1>3. save'[r][k] \in Holding /\ snap'[r][k] = buffer[r]
    BY <1>0, Zenon DEF SaveOpen, Holding, TypeOK
  <1>4. \A l \in Role : save'[r][l] \in Holding => l = k
    BY <1>0, Zenon DEF SaveOpen, IoFree, Holding, TypeOK
  <1>5. InFlight(r)' = InFlight(r)
    BY Zenon, <1>1 DEF InFlight
  <1>6. HolderPaid(r)'
    BY Zenon, <1>1, <1>2, <1>3, <1>4, <1>5 DEF HolderPaid
  <1> QED
    BY <1>1, <1>2, <1>6, PaidHolder, Zenon

\* The store becomes the snapshot.
LEMMA PaidBySaveRename ==
  ASSUME IInv, NEW r \in Runner, NEW k \in Role, SaveRename(r, k)
  PROVE  (ResendsPaid /\ PaidInv)'
  <1>0. TypeOK /\ ResendsPaid
    BY Zenon DEF IInv
  <1>1. Paid' = Paid /\ ResendsPaid' /\ UNCHANGED <<pc, batch, snap, buffer, lock>>
    BY <1>0, PaidQuiet, Zenon DEF SaveRename, callVars, histVars
  <1>2. lock = r /\ HolderPaid(r) /\ file'.pending = snap[r][k]
    BY Zenon, SaverHolds DEF SaveRename, Busy
  <1>3. \A l \in Role :
           /\ save[r][l] = "queued" => save'[r][l] = "queued"
           /\ save'[r][l] \in Holding => save[r][l] \in Holding
    BY Zenon, <1>0 DEF SaveRename, Holding, TypeOK
  <1>4. save[r][k] \in Holding /\ save'[r][k] \in Holding
    BY Zenon, <1>0 DEF SaveRename, Holding, TypeOK
  <1>5. (Queued(r) => Queued(r)') /\ InFlight(r)' = InFlight(r)
    BY Zenon, <1>1, <1>3 DEF Queued, InFlight
  <1>6. snap[r][k] \subseteq Paid \cup buffer[r] \/ Queued(r)
    BY <1>2, <1>4, Zenon DEF HolderPaid
  <1>7. HolderPaid(r)'
    <2>1. buffer'[r] \subseteq Paid' \cup InFlight(r)'
      BY <1>1, <1>2, <1>5, Zenon DEF HolderPaid
    <2>2. \A c \in file'.pending : c \in Paid' \cup buffer'[r] \/ Queued(r)'
      BY <1>1, <1>2, <1>5, <1>6, Zenon
    <2>3. \A l \in Role : save'[r][l] \in Holding =>
             snap'[r][l] \subseteq Paid' \cup buffer'[r] \/ Queued(r)'
      BY <1>1, <1>2, <1>3, <1>5, Zenon DEF HolderPaid
    <2> QED
      BY Zenon, <2>1, <2>2, <2>3 DEF HolderPaid
  <1> QED
    BY <1>1, <1>2, <1>7, PaidHolder, Zenon

\* The end of a save leaves the store with its snapshot.
LEMMA PaidBySaveSync ==
  ASSUME IInv, NEW r \in Runner, NEW k \in Role, SaveSync(r, k)
  PROVE  (ResendsPaid /\ PaidInv)'
  <1>0. TypeOK /\ ResendsPaid /\ LockInv
    BY Zenon DEF IInv
  <1>1. Paid' = Paid /\ ResendsPaid' /\ UNCHANGED <<pc, batch, file, buffer, lock>>
    BY <1>0, PaidQuiet, Zenon DEF SaveSync, callVars
  <1>2. lock = r /\ HolderPaid(r) /\ file.pending = snap[r][k]
    BY <1>0, SaverHolds, Zenon DEF SaveSync, Busy, LockInv
  <1>3. \A l \in Role : save[r][l] \in Holding => l = k
    BY Zenon, <1>0 DEF SaveSync, LockInv, Holding
  <1>4. \A l \in Role :
           /\ save[r][l] = "queued" => save'[r][l] = "queued"
           /\ save'[r][l] \notin Holding
    BY <1>0, <1>3, Zenon DEF SaveSync, Holding, TypeOK
  <1>5. (Queued(r) => Queued(r)') /\ InFlight(r)' = InFlight(r)
    BY Zenon, <1>1, <1>4 DEF Queued, InFlight
  <1>6. HolderPaid(r)'
    <2>1. buffer'[r] \subseteq Paid' \cup InFlight(r)'
      BY <1>1, <1>2, <1>5, Zenon DEF HolderPaid
    <2>2. ASSUME NEW c \in file'.pending PROVE c \in Paid' \cup buffer'[r] \/ Queued(r)'
      <3>1. \/ c \in Paid \cup buffer[r]
            \/ Queued(r)
            \/ \E l \in Role : save[r][l] \in Holding /\ c \notin snap[r][l]
        BY <1>1, <1>2, Zenon DEF HolderPaid
      <3> QED
        BY <3>1, <1>1, <1>2, <1>3, <1>5, Zenon
    <2> QED
      BY <2>1, <2>2, <1>4, Zenon DEF HolderPaid
  <1> QED
    BY <1>1, <1>2, <1>6, PaidHolder, Zenon

\* Every way back into a report has been paid for.
LEMMA PaidStep == IInv /\ [Next]_vars => (ResendsPaid /\ PaidInv)'
  <1> SUFFICES ASSUME IInv, [Next]_vars
               PROVE  (ResendsPaid /\ PaidInv)'
    BY Zenon
  <1> DEFINE Goal == ResendsPaid /\ PaidInv
  <1>i. TypeOK /\ ResendsPaid /\ PaidInv
    BY Zenon DEF IInv
  <1>n. TypeOK'
    BY <1>i, TypeStep, Zenon
  <1> USE DEF runVars, callVars, saveVars, diskVars, panelVars, histVars
  <1>1. ASSUME NEW r \in Runner, RestorePending(r) PROVE Goal'
    BY <1>1, PaidByRestorePending, Zenon
  <1>2. ASSUME NEW r \in Runner, RestoreFailed(r) PROVE Goal'
    BY <1>2, <1>i, PaidFrame, Zenon DEF RestoreFailed
  <1>3. ASSUME NEW r \in Runner, SpawnTasks(r) PROVE Goal'
    BY <1>3, <1>i, PaidFrame, Zenon DEF SpawnTasks
  <1>4. ASSUME NEW r \in Runner, BootFailed(r) PROVE Goal'
    BY Zenon, <1>4, <1>i, PaidFrame DEF BootFailed
  <1>5. ASSUME NEW r \in Runner, ReportTick(r) PROVE Goal'
    BY <1>5, PaidByReportTick, Zenon
  <1>6. ASSUME NEW r \in Runner, FlushAttempt(r) PROVE Goal'
    BY <1>6, PaidByFlushAttempt, Zenon
  <1>7. ASSUME NEW r \in Runner, Post(r) PROVE Goal'
    BY <1>7, PaidByPost, Zenon
  <1>8. ASSUME NEW r \in Runner, Defer(r) PROVE Goal'
    BY <1>8, PaidByDefer, Zenon
  <1>9. ASSUME NEW r \in Runner, PanelApply(r) PROVE Goal'
    BY <1>9, <1>i, PaidFrame, Zenon DEF PanelApply
  <1>10. ASSUME NEW r \in Runner, ReplyOk(r) PROVE Goal'
    BY <1>10, PaidByReplyOk, Zenon
  <1>11. ASSUME NEW r \in Runner, ReplyErr(r) PROVE Goal'
    BY <1>11, <1>i, <1>n, PaidByFault, Zenon DEF ReplyErr
  <1>12. ASSUME NEW r \in Runner, FallbackPost(r) PROVE Goal'
    BY <1>12, PaidByFallbackPost, Zenon
  <1>13. ASSUME NEW r \in Runner, FallbackReply(r) PROVE Goal'
    BY <1>13, PaidByFallbackReply, Zenon
  <1>14. ASSUME NEW r \in Runner, FinishReport(r) PROVE Goal'
    BY <1>14, PaidByFinishReport, Zenon
  <1>15. ASSUME NEW r \in Runner, Shutdown(r) PROVE Goal'
    BY <1>15, <1>i, PaidFrame, Zenon DEF Shutdown
  <1>16. ASSUME NEW r \in Runner, StopReportTask(r) PROVE Goal'
    <2>1. CASE pc[r] \in {"post", "fallback"}
      BY <1>16, <2>1, <1>i, <1>n, PaidByFault, Zenon DEF StopReportTask
    <2>2. CASE pc[r] \notin {"post", "fallback"}
      BY Zenon, <1>16, <2>2, PaidByStopReportTask
    <2> QED
      BY Zenon, <2>1, <2>2
  <1>17. ASSUME NEW r \in Runner, BeginFlush(r) PROVE Goal'
    BY <1>17, <1>i, PaidFrame, Zenon DEF BeginFlush
  <1>18. ASSUME NEW r \in Runner, FlushTimeout(r) PROVE Goal'
    <2>1. CASE pc[r] \in {"post", "fallback"}
      BY Zenon, <1>18, <2>1, <1>i, <1>n, PaidByFault DEF FlushTimeout
    <2>2. CASE pc[r] \notin {"post", "fallback"}
      BY Zenon, <1>18, <2>2, PaidByFlushTimeout
    <2> QED
      BY Zenon, <2>1, <2>2
  <1>19. ASSUME NEW r \in Runner, Close(r) PROVE Goal'
    BY Zenon, <1>19, <1>i, PaidFrame DEF Close
  <1>20. ASSUME NEW r \in Runner, Exit(r) PROVE Goal'
    BY <1>20, PaidByExit, Zenon
  <1>21. ASSUME NEW r \in Runner, Kill(r) PROVE Goal'
    BY <1>21, <1>i, <1>n, PaidByFault, Zenon DEF Kill, Crash, ProcessEnd
  <1>22. ASSUME NEW r \in Runner, NEW c \in Chunk, OnTraffic(r, c) PROVE Goal'
    BY <1>22, PaidByOnTraffic, Zenon
  <1>23. ASSUME NEW r \in Runner, NEW k \in Role, SaveOpen(r, k) PROVE Goal'
    BY <1>23, PaidBySaveOpen, Zenon
  <1>24. ASSUME NEW r \in Runner, NEW k \in Role, SaveRename(r, k) PROVE Goal'
    BY <1>24, PaidBySaveRename, Zenon
  <1>25. ASSUME NEW r \in Runner, NEW k \in Role, SaveSync(r, k) PROVE Goal'
    BY <1>25, PaidBySaveSync, Zenon
  <1>26. ASSUME NEW r \in Runner, NEW k \in Role, SaveFail(r, k) PROVE Goal'
    BY <1>26, <1>i, <1>n, PaidByFault, Zenon DEF SaveFail
  <1>27. ASSUME NEW r \in Runner, NEW how \in {"drained", "cut"}, StopInbound(r, how) PROVE Goal'
    BY <1>27, <1>i, PaidFrame, Zenon DEF StopInbound
  <1>28. ASSUME NEW b \in stray, PanelApplyStray(b) PROVE Goal'
    BY Zenon, <1>28, <1>i, PaidFrame DEF PanelApplyStray
  <1>29. CASE PowerLoss
    <2>1. sends' = sends /\ faults' = faults + 1
      BY Zenon, <1>29 DEF PowerLoss, Crash
    <2> QED
      BY <2>1, <1>i, <1>n, PaidByFault, Zenon
  <1>30. CASE UNCHANGED vars
    BY <1>30, <1>i, PaidFrame, Zenon DEF vars
  <1>31. ASSUME NEW r \in Runner, RunnerStep(r) PROVE Goal'
    BY ZenonT(30), <1>1, <1>2, <1>3, <1>4, <1>5, <1>6, <1>7, <1>8, <1>9, <1>10, <1>11, <1>12,
        <1>13, <1>14, <1>15, <1>16, <1>17, <1>18, <1>19, <1>20, <1>21, <1>22, <1>23, <1>24,
        <1>25, <1>26, <1>27, <1>31 DEF RunnerStep, FailedPost
  <1> QED
    BY Zenon, <1>28, <1>29, <1>30, <1>31 DEF Next

-----------------------------------------------------------------------------
(* Theorems.                                                               *)

\* IInv is inductive.
LEMMA Inductive == Spec => []IInv
  <1>1. Init => IInv
    BY InitType, InitAck, InitLock, InitPaid, Zenon DEF IInv
  <1>2. IInv /\ [Next]_vars => IInv'
    BY TypeStep, AckStep, LockStep, KnownStep, PaidStep, Zenon DEF IInv
  <1> QED
    BY <1>1, <1>2, PTL DEF Spec

\* No runner has started: nothing is held, posted or covered.
LEMMA HonestInit == Init => HonestInv
  BY InitType, InitAck, InitLock, InitPaid, InitPending, InitCover, Zenon DEF IInv, HonestInv

\* HonestInv is preserved when report_traffic returns Ok only for a post the
\* panel has answered with success.
LEMMA HonestStep == ASSUME ~FallbackAcks PROVE HonestInv /\ [Next]_vars => HonestInv'
  <1> SUFFICES ASSUME HonestInv, [Next]_vars
               PROVE  HonestInv'
    BY Zenon
  <1>1. IInv'
    BY TypeStep, AckStep, LockStep, KnownStep, PaidStep, Zenon DEF IInv, HonestInv
  <1>2. (AppliedInv /\ PendingUntilCredited /\ CoverInv)'
    BY AppliedStep, PendingStep, CoverStep, Zenon DEF IInv, HonestInv
  <1> QED
    BY <1>1, <1>2, Zenon DEF HonestInv

\* HonestInv holds in every state of a ledger with such a panel client.
LEMMA HonestInductive == ASSUME ~FallbackAcks PROVE Spec => []HonestInv
  BY HonestInit, HonestStep, PTL DEF Spec

\* The state of the runners, of the store and of the panel stays well typed,
\* for any number of process lives, on_traffic calls and faults.
THEOREM TypeCorrect == Spec => []TypeOK
  <1>1. IInv => TypeOK
    BY Zenon DEF IInv
  <1> QED
    BY Inductive, <1>1, PTL

\* The subtraction of an acknowledged batch in report_data never underflows a
\* user's counter, whichever panel client is used.
THEOREM AckNeverUnderflows == Spec => []AckFitsCounter
  <1>1. IInv => AckFitsCounter
    BY Zenon DEF IInv
  <1> QED
    BY Inductive, <1>1, PTL

\* report_data posts a chunk at most once more than the failed replies,
\* aborted reports, failed saves and crashes there have been.
THEOREM RepetitionsBounded == Spec => []ResendsPaid
  <1>1. IInv => ResendsPaid
    BY Zenon DEF IInv
  <1> QED
    BY Inductive, <1>1, PTL

\* With a panel client that reports its failures, report_data drops no traffic
\* from the buffer before the panel has counted it.
THEOREM PendingKept == ASSUME ~FallbackAcks PROVE Spec => []PendingUntilCredited
  <1>1. HonestInv => PendingUntilCredited
    BY Zenon DEF HonestInv
  <1> QED
    BY HonestInductive, <1>1, PTL

\* With such a client, traffic covered by a save_pending that returned Ok is in
\* the store after every crash and power loss, until the panel has counted it.
THEOREM StoreKeeps == ASSUME ~FallbackAcks PROVE Spec => []SecuredSurvives
  <1>1. HonestInv => SecuredSurvives
    BY Zenon DEF HonestInv, CoverInv, Open, SecuredSurvives
  <1> QED
    BY HonestInductive, <1>1, PTL

-----------------------------------------------------------------------------
(* What a shutdown says.                                                   *)

\* The verdict and the final save belong to the end of run(), when a drained
\* inbound adds nothing any more: the buffer then stays as the flush left it,
\* and a final save that is under way or done covers it.
StopInv ==
    \A r \in Runner :
        /\ verdict[r] # "none" \/ save[r]["final"] # "none" => mode[r] \in {"closing", "done"}
        /\ verdict[r] = "clean" /\ inbound[r] = "drained" => buffer[r] = {}
        /\ verdict[r] = "unacknowledged" => buffer[r] # {}
        /\ inbound[r] = "drained" /\ save[r]["final"] \in Holding => buffer[r] \subseteq snap[r]["final"]
        /\ inbound[r] = "drained" /\ save[r]["final"] = "ok" => buffer[r] \subseteq secured

\* The flush and the final save leave what StopInv says (EndReport, SaveOpen,
\* SaveSync), and nothing in run() touches it afterwards.
LEMMA StopStep == TypeOK /\ CallInv /\ StopInv /\ [Next]_vars => StopInv'
  <1> SUFFICES ASSUME TypeOK, CallInv, StopInv
               PROVE  [Next]_vars => StopInv'
    BY Zenon
  <1> USE DEF TypeOK, CallInv, StopInv, Holding, Role, runVars, callVars, saveVars, diskVars,
          panelVars, histVars
  <1>c. ASSUME NEW r \in Runner, pc[r] # "idle", Confirm(r) PROVE StopInv'
    <2>1. UNCHANGED <<verdict, mode, inbound, snap, secured>>
      BY <1>c, Zenon DEF Confirm
    <2>2. verdict[r] = "none" /\ save[r]["final"] = "none"
      BY <1>c, Zenon
    <2>3. save'[r]["final"] = "none" /\ \A q \in Runner \ {r} : save'[q] = save[q] /\ buffer'[q] = buffer[q]
      BY <1>c, <2>2 DEF Confirm, Queue, Caller
    <2> QED
      BY <2>1, <2>2, <2>3, SMTT(30)
  <1>d. ASSUME NEW r \in Runner, pc[r] # "idle", EndReport(r, buffer[r]),
               UNCHANGED <<inbound, snap, secured, buffer>>
        PROVE  StopInv'
    <2>1. \A q \in Runner \ {r} : /\ save'[q] = save[q] /\ mode'[q] = mode[q]
                                 /\ verdict'[q] = verdict[q]
      BY <1>d DEF EndReport, Queue
    <2>2. verdict[r] = "none" /\ save[r]["final"] = "none"
      BY <1>d, Zenon
    <2>3. \/ /\ mode'[r] = "closing" /\ save'[r]["final"] = "queued"
             /\ verdict'[r] = IF buffer[r] = {} THEN "clean" ELSE "unacknowledged"
          \/ verdict'[r] = "none" /\ save'[r]["final"] = "none" /\ mode'[r] = mode[r]
      <3>1. CASE mode[r] = "flushing" /\ (buffer[r] = {} \/ attempt[r] = MaxAttempts)
        <4>1. /\ mode' = [mode EXCEPT ![r] = "closing"]
              /\ verdict' = [verdict EXCEPT ![r] = IF buffer[r] = {} THEN "clean" ELSE "unacknowledged"]
              /\ save' = [save EXCEPT ![r]["final"] = "queued"]
          BY <1>d, <3>1, Zenon DEF EndReport, Queue
        <4> QED
          BY <4>1
      <3>2. CASE ~(mode[r] = "flushing" /\ (buffer[r] = {} \/ attempt[r] = MaxAttempts))
        BY <1>d, <3>2, <2>2, Zenon DEF EndReport
      <3> QED
        BY <3>1, <3>2, Zenon
    <2>5. inbound' = inbound /\ snap' = snap /\ secured' = secured /\ buffer' = buffer
      BY <1>d, Zenon
    <2>6. CASE verdict'[r] = "none" /\ save'[r]["final"] = "none" /\ mode'[r] = mode[r]
      BY <2>1, <2>5, <2>6, SMTT(30)
    <2>7. CASE /\ mode'[r] = "closing" /\ save'[r]["final"] = "queued"
               /\ verdict'[r] = IF buffer[r] = {} THEN "clean" ELSE "unacknowledged"
      BY <2>1, <2>5, <2>7, SMTT(30)
    <2> QED
      BY <2>3, <2>6, <2>7, Zenon
  <1>1. ASSUME NEW r \in Runner, RestorePending(r) PROVE StopInv'
    BY <1>1 DEF RestorePending
  <1>2. ASSUME NEW r \in Runner, RestoreFailed(r) PROVE StopInv'
    BY <1>2, Zenon DEF RestoreFailed
  <1>3. ASSUME NEW r \in Runner, SpawnTasks(r) PROVE StopInv'
    BY <1>3, ZenonT(30) DEF SpawnTasks
  <1>4. ASSUME NEW r \in Runner, BootFailed(r) PROVE StopInv'
    BY <1>4, Zenon DEF BootFailed
  <1>5. ASSUME NEW r \in Runner, ReportTick(r) PROVE StopInv'
    BY <1>5 DEF ReportTick, BeginReport, Queue, Caller
  <1>6. ASSUME NEW r \in Runner, FlushAttempt(r) PROVE StopInv'
    BY <1>6 DEF FlushAttempt, BeginReport, Queue, Caller
  <1>7. ASSUME NEW r \in Runner, Post(r) PROVE StopInv'
    BY <1>7, Zenon DEF Post
  <1>8. ASSUME NEW r \in Runner, Defer(r) PROVE StopInv'
    BY <1>8, <1>d, Zenon DEF Defer
  <1>9. ASSUME NEW r \in Runner, PanelApply(r) PROVE StopInv'
    BY <1>9, Zenon DEF PanelApply
  <1>10. ASSUME NEW r \in Runner, ReplyOk(r) PROVE StopInv'
    BY <1>c, <1>10, Zenon DEF ReplyOk
  <1>11. ASSUME NEW r \in Runner, ReplyErr(r) PROVE StopInv'
    BY <1>11 DEF ReplyErr, Queue, Caller
  <1>12. ASSUME NEW r \in Runner, FallbackPost(r) PROVE StopInv'
    BY <1>12, Zenon DEF FallbackPost
  <1>13. ASSUME NEW r \in Runner, FallbackReply(r) PROVE StopInv'
    BY <1>c, <1>13, Zenon DEF FallbackReply
  <1>14. ASSUME NEW r \in Runner, FinishReport(r) PROVE StopInv'
    BY <1>14, <1>d, Zenon DEF FinishReport
  <1>15. ASSUME NEW r \in Runner, Shutdown(r) PROVE StopInv'
    BY <1>15, Zenon DEF Shutdown
  <1>16. ASSUME NEW r \in Runner, StopReportTask(r) PROVE StopInv'
    BY <1>16, Zenon DEF StopReportTask
  <1>17. ASSUME NEW r \in Runner, BeginFlush(r) PROVE StopInv'
    BY <1>17, Zenon DEF BeginFlush
  <1>18. ASSUME NEW r \in Runner, FlushTimeout(r) PROVE StopInv'
    BY <1>18 DEF FlushTimeout, Queue, Caller
  <1>19. ASSUME NEW r \in Runner, Close(r) PROVE StopInv'
    BY <1>19, Zenon DEF Close
  <1>20. ASSUME NEW r \in Runner, Exit(r) PROVE StopInv'
    BY <1>20, Zenon DEF Exit, ProcessEnd
  <1>21. ASSUME NEW r \in Runner, Kill(r) PROVE StopInv'
    BY <1>21, Zenon DEF Kill, Crash, ProcessEnd
  <1>22. ASSUME NEW r \in Runner, NEW c \in Chunk, OnTraffic(r, c) PROVE StopInv'
    BY <1>22 DEF OnTraffic
  <1>23. ASSUME NEW r \in Runner, NEW k \in Role, SaveOpen(r, k) PROVE StopInv'
    BY <1>23 DEF SaveOpen
  <1>24. ASSUME NEW r \in Runner, NEW k \in Role, SaveRename(r, k) PROVE StopInv'
    BY <1>24 DEF SaveRename
  <1>25. ASSUME NEW r \in Runner, NEW k \in Role, SaveSync(r, k) PROVE StopInv'
    BY <1>25 DEF SaveSync
  <1>26. ASSUME NEW r \in Runner, NEW k \in Role, SaveFail(r, k) PROVE StopInv'
    BY <1>26 DEF SaveFail
  <1>27. ASSUME NEW r \in Runner, NEW how \in {"drained", "cut"}, StopInbound(r, how) PROVE StopInv'
    BY <1>27, Zenon DEF StopInbound
  <1>28. ASSUME NEW b \in stray, PanelApplyStray(b) PROVE StopInv'
    BY <1>28, Zenon DEF PanelApplyStray
  <1>29. CASE PowerLoss
    BY <1>29, Zenon DEF PowerLoss, Crash, ProcessEnd
  <1>30. CASE UNCHANGED vars
    BY <1>30, Zenon DEF vars
  <1> HIDE DEF TypeOK, CallInv, StopInv, Role
  <1>31. ASSUME NEW r \in Runner, RunnerStep(r) PROVE StopInv'
    BY ZenonT(30), <1>1, <1>2, <1>3, <1>4, <1>5, <1>6, <1>7, <1>8, <1>9, <1>10, <1>11, <1>12,
        <1>13, <1>14, <1>15, <1>16, <1>17, <1>18, <1>19, <1>20, <1>21, <1>22, <1>23, <1>24,
        <1>25, <1>26, <1>27, <1>31 DEF RunnerStep, FailedPost
  <1> QED
    BY Zenon, <1>28, <1>29, <1>30, <1>31 DEF Next

\* Before the first start there is no verdict and no final save.
LEMMA StopInductive == ASSUME ~FallbackAcks PROVE Spec => [](HonestInv /\ StopInv)
  <1>1. Init => HonestInv /\ StopInv
    BY HonestInit DEF Init, StopInv, Holding, Role
  <1>2. HonestInv /\ StopInv /\ [Next]_vars => HonestInv' /\ StopInv'
    BY HonestStep, StopStep, Zenon DEF HonestInv, IInv
  <1> QED
    BY <1>1, <1>2, PTL DEF Spec

\* With a panel client that reports its failures, a shutdown that drained the
\* inbound has secured all its traffic when its final save_pending returned Ok,
\* and had it counted when it logged no error; chunks without bytes included.
THEOREM QuietStopKeepsAll ==
  ASSUME ~FallbackAcks
  PROVE  Spec => [](CleanStopKeepsAll /\ SilentStopMeansCredited)
  <1>1. HonestInv /\ StopInv => CleanStopKeepsAll /\ SilentStopMeansCredited
    BY Zenon DEF HonestInv, PendingUntilCredited, StopInv, CleanStopKeepsAll,
        SilentStopMeansCredited, Bytes
  <1> QED
    BY StopInductive, <1>1, PTL

\* What the end of run() logs about the traffic is true.  The error of a flush
\* that used up its attempts means pending bytes only where every call of
\* on_traffic carries bytes: an entry with (0, 0) keeps the buffer from being
\* empty and is never an item.
THEOREM StopTellsTheTruth ==
  ASSUME ~FallbackAcks, Empty = {}
  PROVE  Spec => []StopVerdict
  <1>1. StopInv => VerdictMeansPending
    BY Zenon DEF StopInv, VerdictMeansPending, Bytes
  <1> QED
    BY StopInductive, QuietStopKeepsAll, <1>1, PTL DEF StopVerdict

-----------------------------------------------------------------------------
(* Refinement of AtLeastOnce.                                              *)

\* A runner that has not restored holds nothing, and what the store of the
\* holder of the lock contains is in its buffer until the panel has counted it.
HeldInv ==
    \A r \in Runner :
        /\ mode[r] = "off" => buffer[r] = {}
        /\ lock = r => Bytes(file.pending) \ credited \subseteq buffer[r]

\* restore_pending reads the whole store, a snapshot on its way to the store has
\* nothing the buffer lacks and only counted traffic is subtracted from it.
LEMMA HeldStep ==
    TypeOK /\ LockInv /\ AppliedInv /\ CoverInv /\ HeldInv /\ [Next]_vars => HeldInv'
  <1> SUFFICES ASSUME TypeOK, LockInv, AppliedInv, CoverInv, HeldInv
               PROVE  [Next]_vars => HeldInv'
    BY Zenon
  <1> USE ConstantsAssumption DEF TypeOK, LockInv, AppliedInv, CoverInv, HeldInv, Holding, Busy, Bytes, Contents,
          vars, runVars, callVars, saveVars, diskVars, panelVars, histVars, Working
  <1>1. ASSUME NEW r \in Runner, RestorePending(r) PROVE HeldInv'
    BY <1>1, SMTT(30) DEF RestorePending
  <1>2. ASSUME NEW r \in Runner, RestoreFailed(r) PROVE HeldInv'
    BY <1>2 DEF RestoreFailed
  <1>3. ASSUME NEW r \in Runner, SpawnTasks(r) PROVE HeldInv'
    BY <1>3 DEF SpawnTasks
  <1>4. ASSUME NEW r \in Runner, BootFailed(r) PROVE HeldInv'
    BY <1>4 DEF BootFailed
  <1>5. ASSUME NEW r \in Runner, ReportTick(r) PROVE HeldInv'
    BY <1>5, Zenon DEF ReportTick, BeginReport
  <1>6. ASSUME NEW r \in Runner, FlushAttempt(r) PROVE HeldInv'
    BY <1>6, Zenon DEF FlushAttempt, BeginReport
  <1>7. ASSUME NEW r \in Runner, Post(r) PROVE HeldInv'
    BY <1>7, Zenon DEF Post
  <1>8. ASSUME NEW r \in Runner, Defer(r) PROVE HeldInv'
    BY <1>8 DEF Defer, EndReport
  <1>9. ASSUME NEW r \in Runner, PanelApply(r) PROVE HeldInv'
    BY <1>9, Zenon DEF PanelApply
  <1>10. ASSUME NEW r \in Runner, ReplyOk(r) PROVE HeldInv'
    BY <1>10, AcknowledgeRest DEF ReplyOk, Confirm
  <1>11. ASSUME NEW r \in Runner, ReplyErr(r) PROVE HeldInv'
    BY <1>11, Zenon DEF ReplyErr
  <1>12. ASSUME NEW r \in Runner, FallbackPost(r) PROVE HeldInv'
    BY <1>12, Zenon DEF FallbackPost
  <1>13. ASSUME NEW r \in Runner, FallbackReply(r) PROVE HeldInv'
    BY <1>13, Zenon DEF FallbackReply, Confirm, Abandon
  <1>14. ASSUME NEW r \in Runner, FinishReport(r) PROVE HeldInv'
    BY <1>14 DEF FinishReport, EndReport
  <1>15. ASSUME NEW r \in Runner, Shutdown(r) PROVE HeldInv'
    BY <1>15 DEF Shutdown
  <1>16. ASSUME NEW r \in Runner, StopReportTask(r) PROVE HeldInv'
    BY <1>16, Zenon DEF StopReportTask
  <1>17. ASSUME NEW r \in Runner, BeginFlush(r) PROVE HeldInv'
    BY <1>17, SMTT(30) DEF BeginFlush
  <1>18. ASSUME NEW r \in Runner, FlushTimeout(r) PROVE HeldInv'
    BY <1>18, SMTT(30) DEF FlushTimeout
  <1>19. ASSUME NEW r \in Runner, Close(r) PROVE HeldInv'
    BY <1>19, SMTT(30) DEF Close
  <1>20. ASSUME NEW r \in Runner, Exit(r) PROVE HeldInv'
    BY <1>20, SMTT(30) DEF Exit, ProcessEnd
  <1>21. ASSUME NEW r \in Runner, Kill(r) PROVE HeldInv'
    BY <1>21, SMTT(30) DEF Kill, Crash, ProcessEnd
  <1>22. ASSUME NEW r \in Runner, NEW c \in Chunk, OnTraffic(r, c) PROVE HeldInv'
    BY <1>22 DEF OnTraffic
  <1>23. ASSUME NEW r \in Runner, NEW k \in Role, SaveOpen(r, k) PROVE HeldInv'
    BY <1>23, Zenon DEF SaveOpen
  <1>24. ASSUME NEW r \in Runner, NEW k \in Role, SaveRename(r, k) PROVE HeldInv'
    BY <1>24 DEF SaveRename
  <1>25. ASSUME NEW r \in Runner, NEW k \in Role, SaveSync(r, k) PROVE HeldInv'
    BY <1>25, Zenon DEF SaveSync
  <1>26. ASSUME NEW r \in Runner, NEW k \in Role, SaveFail(r, k) PROVE HeldInv'
    BY <1>26, Zenon DEF SaveFail
  <1>27. ASSUME NEW r \in Runner, NEW how \in {"drained", "cut"}, StopInbound(r, how) PROVE HeldInv'
    BY <1>27, Zenon DEF StopInbound
  <1>28. ASSUME NEW b \in stray, PanelApplyStray(b) PROVE HeldInv'
    BY <1>28, Zenon DEF PanelApplyStray
  <1>29. CASE PowerLoss
    <2> DEFINE dying == {r \in Runner : Alive(r)}
    <2>1. ProcessEnd(dying)
      BY <1>29, Zenon DEF PowerLoss, Crash
    <2>2. \A r \in Runner : lock' # r
      BY <2>1 DEF ProcessEnd, Alive
    <2>3. \A r \in Runner : mode'[r] = "off" => mode[r] = "off" /\ buffer'[r] = buffer[r]
      BY <2>1, Zenon DEF ProcessEnd
    <2> QED
      BY <2>2, <2>3, ZenonT(30)
  <1>30. CASE UNCHANGED vars
    BY <1>30, Zenon DEF vars
  <1> HIDE DEF TypeOK, LockInv, AppliedInv, CoverInv, HeldInv
  <1>31. ASSUME NEW r \in Runner, RunnerStep(r) PROVE HeldInv'
    BY ZenonT(30), <1>1, <1>2, <1>3, <1>4, <1>5, <1>6, <1>7, <1>8, <1>9, <1>10, <1>11, <1>12,
        <1>13, <1>14, <1>15, <1>16, <1>17, <1>18, <1>19, <1>20, <1>21, <1>22, <1>23, <1>24,
        <1>25, <1>26, <1>27, <1>31 DEF RunnerStep, FailedPost
  <1> QED
    BY Zenon, <1>28, <1>29, <1>30, <1>31 DEF Next

\* The panel counts only traffic the node has accounted, in flight or given up.
CountedInv ==
    credited \subseteq received /\ \A b \in stray : b \subseteq received

\* A request carries items of the buffer, and so does one that is given up.
LEMMA CountedStep ==
    TypeOK /\ KnownInv /\ CountedInv /\ [Next]_vars => CountedInv'
  <1> SUFFICES ASSUME TypeOK, KnownInv, CountedInv
               PROVE  [Next]_vars => CountedInv'
    BY Zenon
  <1> USE DEF TypeOK, KnownInv, CountedInv,
          runVars, callVars, saveVars, diskVars, panelVars, histVars
  <1>1. ASSUME NEW r \in Runner, RestorePending(r) PROVE CountedInv'
    BY <1>1, Zenon DEF RestorePending
  <1>2. ASSUME NEW r \in Runner, RestoreFailed(r) PROVE CountedInv'
    BY <1>2, Zenon DEF RestoreFailed
  <1>3. ASSUME NEW r \in Runner, SpawnTasks(r) PROVE CountedInv'
    BY <1>3, Zenon DEF SpawnTasks
  <1>4. ASSUME NEW r \in Runner, BootFailed(r) PROVE CountedInv'
    BY <1>4, Zenon DEF BootFailed
  <1>5. ASSUME NEW r \in Runner, ReportTick(r) PROVE CountedInv'
    BY <1>5, Zenon DEF ReportTick, BeginReport
  <1>6. ASSUME NEW r \in Runner, FlushAttempt(r) PROVE CountedInv'
    BY <1>6, Zenon DEF FlushAttempt, BeginReport
  <1>7. ASSUME NEW r \in Runner, Post(r) PROVE CountedInv'
    BY <1>7, Zenon DEF Post
  <1>8. ASSUME NEW r \in Runner, Defer(r) PROVE CountedInv'
    BY <1>8, Zenon DEF Defer, EndReport
  <1>9. ASSUME NEW r \in Runner, PanelApply(r) PROVE CountedInv'
    BY <1>9, Zenon DEF PanelApply
  <1>10. ASSUME NEW r \in Runner, ReplyOk(r) PROVE CountedInv'
    BY <1>10, ZenonT(30) DEF ReplyOk, Confirm
  <1>11. ASSUME NEW r \in Runner, ReplyErr(r) PROVE CountedInv'
    BY <1>11, SMTT(30) DEF ReplyErr, Abandon
  <1>12. ASSUME NEW r \in Runner, FallbackPost(r) PROVE CountedInv'
    BY <1>12, SMTT(30) DEF FallbackPost, Abandon
  <1>13. ASSUME NEW r \in Runner, FallbackReply(r) PROVE CountedInv'
    BY <1>13 DEF FallbackReply, Confirm, Abandon
  <1>14. ASSUME NEW r \in Runner, FinishReport(r) PROVE CountedInv'
    BY <1>14, Zenon DEF FinishReport, EndReport
  <1>15. ASSUME NEW r \in Runner, Shutdown(r) PROVE CountedInv'
    BY <1>15, Zenon DEF Shutdown
  <1>16. ASSUME NEW r \in Runner, StopReportTask(r) PROVE CountedInv'
    BY <1>16 DEF StopReportTask, Abandon
  <1>17. ASSUME NEW r \in Runner, BeginFlush(r) PROVE CountedInv'
    BY <1>17, Zenon DEF BeginFlush
  <1>18. ASSUME NEW r \in Runner, FlushTimeout(r) PROVE CountedInv'
    BY <1>18 DEF FlushTimeout, Abandon
  <1>19. ASSUME NEW r \in Runner, Close(r) PROVE CountedInv'
    BY <1>19, Zenon DEF Close
  <1>20. ASSUME NEW r \in Runner, Exit(r) PROVE CountedInv'
    BY <1>20, Zenon DEF Exit, ProcessEnd
  <1>21. ASSUME NEW r \in Runner, Kill(r) PROVE CountedInv'
    BY <1>21 DEF Kill, Crash, ProcessEnd
  <1>22. ASSUME NEW r \in Runner, NEW c \in Chunk, OnTraffic(r, c) PROVE CountedInv'
    BY <1>22, Zenon DEF OnTraffic
  <1>23. ASSUME NEW r \in Runner, NEW k \in Role, SaveOpen(r, k) PROVE CountedInv'
    BY <1>23, Zenon DEF SaveOpen
  <1>24. ASSUME NEW r \in Runner, NEW k \in Role, SaveRename(r, k) PROVE CountedInv'
    BY <1>24, Zenon DEF SaveRename
  <1>25. ASSUME NEW r \in Runner, NEW k \in Role, SaveSync(r, k) PROVE CountedInv'
    BY <1>25, Zenon DEF SaveSync
  <1>26. ASSUME NEW r \in Runner, NEW k \in Role, SaveFail(r, k) PROVE CountedInv'
    BY <1>26, Zenon DEF SaveFail
  <1>27. ASSUME NEW r \in Runner, NEW how \in {"drained", "cut"}, StopInbound(r,
        how) PROVE CountedInv'
    BY <1>27, Zenon DEF StopInbound
  <1>28. ASSUME NEW b \in stray, PanelApplyStray(b) PROVE CountedInv'
    BY <1>28, Zenon DEF PanelApplyStray
  <1>29. CASE PowerLoss
    BY <1>29 DEF PowerLoss, Crash, ProcessEnd
  <1>30. CASE UNCHANGED vars
    BY <1>30, Zenon DEF vars
  <1> HIDE DEF TypeOK, KnownInv, CountedInv
  <1>31. ASSUME NEW r \in Runner, RunnerStep(r) PROVE CountedInv'
    BY ZenonT(30), <1>1, <1>2, <1>3, <1>4, <1>5, <1>6, <1>7, <1>8, <1>9, <1>10, <1>11, <1>12,
        <1>13, <1>14, <1>15, <1>16, <1>17, <1>18, <1>19, <1>20, <1>21, <1>22, <1>23, <1>24,
        <1>25, <1>26, <1>27, <1>31 DEF RunnerStep, FailedPost
  <1> QED
    BY Zenon, <1>28, <1>29, <1>30, <1>31 DEF Next


\* What Held contains: the bytes of the store and of every traffic_buffer.
LEMMA HeldMembers ==
    \A x : x \in Held <=> x \in Bytes(file.pending) \/ \E r \in Runner : x \in Bytes(buffer[r])
  BY Zenon DEF Held

\* A step that leaves the store, the buffers and the panel's and the node's
\* counts alone is a step of AtLeastOnce that settles nothing: report_data
\* between its awaits, the shutdown of run() and faults that lose nothing.
LEMMA PromiseFrame ==
  ASSUME UNCHANGED <<received, secured, credited, file, buffer>>
  PROVE  Promise!Next
  <1>1. Held' = Held
    BY Zenon DEF Held
  <1> QED
    BY <1>1, Zenon DEF Promise!Next, Promise!Settle

\* The end of processes is an outage: what a save covered and the panel has not
\* counted is in the store that the next restore_pending reads.
LEMMA PromiseOutage ==
  ASSUME TypeOK, KnownInv, CoverInv', UNCHANGED <<received, secured, credited>>, Epoch' # Epoch,
         file' \in {file, durable}, \A r \in Runner : buffer'[r] \subseteq buffer[r]
  PROVE  Promise!Next
  <1>1. \A x : x \in Held' <=> x \in Bytes(file'.pending) \/ \E r \in Runner : x \in Bytes(buffer'[r])
    BY Zenon DEF Held
  <1>2. Held' \subseteq Bytes(received)
    BY <1>1, Zenon DEF KnownInv, Bytes
  <1>3. Bytes(secured) \ Bytes(credited) \subseteq Held'
    BY <1>1, Zenon DEF CoverInv, Open, Bytes
  <1> QED
    BY <1>2, <1>3, Zenon DEF Promise!Next, Promise!Outage, Bytes

\* Traffic is let go only after the panel has counted it.
LEMMA PromiseSettle ==
  ASSUME UNCHANGED <<received, secured, credited>>,
         Held \ credited \subseteq Held', Held' \ credited \subseteq Held
  PROVE  Promise!Next
  <1>1. Held \subseteq Held \ Empty /\ Held' \subseteq Held' \ Empty
    BY Zenon DEF Held, Bytes
  <1> QED
    BY <1>1, Zenon DEF Promise!Next, Promise!Settle, Bytes

\* Every step of the ledger is a step of AtLeastOnce under the mapping of
\* TrafficLedger.
LEMMA PromiseStep ==
    TypeOK /\ LockInv /\ KnownInv /\ AppliedInv /\ CoverInv /\ HeldInv /\ CountedInv /\ CoverInv' /\ [Next]_vars
    => [Promise!Next]_(Promise!vars)
  <1> SUFFICES ASSUME TypeOK, LockInv, KnownInv, AppliedInv, CoverInv, HeldInv, CountedInv, CoverInv'
               PROVE  [Next]_vars => [Promise!Next]_(Promise!vars)
    BY Zenon
  <1> USE DEF runVars, callVars, saveVars, diskVars, panelVars, histVars
  <1>h. \A x : x \in Held <=> x \in Bytes(file.pending) \/ \E r \in Runner : x \in Bytes(buffer[r])
    BY HeldMembers, Zenon
  <1>n. \A x : x \in Held' <=> x \in Bytes(file'.pending) \/ \E r \in Runner : x \in Bytes(buffer'[r])
    BY Zenon DEF Held
  <1>1. ASSUME NEW r \in Runner, RestorePending(r) PROVE Promise!Next
    <2>1. buffer[r] = {} /\ file' = file /\ buffer'[r] = file.pending
      BY <1>1, Zenon DEF RestorePending, TypeOK, HeldInv
    <2>2. \A q \in Runner \ {r} : buffer'[q] = buffer[q]
      BY <1>1, Zenon DEF RestorePending, TypeOK
    <2>3. Held \subseteq Held'
      <3> SUFFICES ASSUME NEW x \in Held PROVE x \in Held'
        BY Zenon
      <3>1. CASE x \in Bytes(file.pending)
        BY <3>1, <2>1, <1>n, Zenon
      <3>2. ASSUME NEW q \in Runner, x \in Bytes(buffer[q]) PROVE x \in Held'
        BY <3>2, <2>1, <2>2, <1>n, Zenon DEF Bytes
      <3> QED
        BY <3>1, <3>2, <1>h, Zenon
    <2>4. Held' \subseteq Held
      <3> SUFFICES ASSUME NEW x \in Held' PROVE x \in Held
        BY Zenon
      <3>1. CASE x \in Bytes(file'.pending)
        BY <3>1, <2>1, <1>h, Zenon
      <3>2. ASSUME NEW q \in Runner, x \in Bytes(buffer'[q]) PROVE x \in Held
        BY <3>2, <2>1, <2>2, <1>h, Zenon DEF Bytes
      <3> QED
        BY <3>1, <3>2, <1>n, Zenon
    <2> QED
      BY <1>1, <2>3, <2>4, PromiseSettle, Zenon DEF RestorePending
  <1>2. ASSUME NEW r \in Runner, NEW c \in Chunk, OnTraffic(r, c) PROVE [Promise!Next]_(Promise!vars)
    <2>1. buffer'[r] = buffer[r] \cup {c} /\ \A q \in Runner \ {r} : buffer'[q] = buffer[q]
      BY <1>2, Zenon DEF OnTraffic, TypeOK
    <2>2. file' = file /\ received' = received \cup {c} /\ c \notin received
          /\ UNCHANGED <<secured, credited, mode, faults>>
      BY <1>2, Zenon DEF OnTraffic
    <2>3. Epoch' = Epoch
      BY <2>2, Zenon DEF Epoch
    <2>4. CASE c \in Empty
      <3>1. \A q \in Runner : Bytes(buffer'[q]) = Bytes(buffer[q])
        BY <2>1, <2>4, Zenon DEF Bytes
      <3>2. Held' = Held
        BY <3>1, <2>2, <1>h, <1>n, Zenon
      <3>3. Bytes(received)' = Bytes(received)
        BY <2>2, <2>4, Zenon DEF Bytes
      <3> QED
        BY <3>2, <3>3, <2>2, <2>3, Zenon DEF Promise!vars, Bytes
    <2>5. CASE c \notin Empty
      <3>1. Held' = Held \cup {c}
        BY <2>1, <2>2, <2>5, <1>h, <1>n, Zenon DEF Bytes
      <3>2. Bytes(received)' = Bytes(received) \cup {c} /\ c \in Bytes(Chunk) \ Bytes(received)
        BY <2>2, <2>5, Zenon DEF Bytes
      <3> QED
        BY <3>1, <3>2, <2>2, <2>3, Zenon DEF Promise!Next, Promise!Account, Bytes
    <2> QED
      BY <2>4, <2>5, Zenon
  <1>3. ASSUME NEW b, b \subseteq received, credited' = credited \cup b,
               UNCHANGED <<received, secured, file, buffer, mode, faults>>, credited \subseteq received
        PROVE  Promise!Next
    <2>1. Held' = Held
      BY <1>3, Zenon DEF Held
    <2>2. Epoch' = Epoch
      BY <1>3, Zenon DEF Epoch
    <2> QED
      BY <1>3, <2>1, <2>2, Zenon DEF Promise!Next, Promise!Count, Bytes
  <1>4. ASSUME NEW r \in Runner, ReplyOk(r) PROVE Promise!Next
    <2>1. buffer'[r] = Acknowledge(buffer[r], batch[r]) /\ \A q \in Runner \ {r} : buffer'[q] = buffer[q]
      BY <1>4, Zenon DEF ReplyOk, Confirm, TypeOK
    <2>2. batch[r] \subseteq credited
      BY <1>4, Zenon DEF ReplyOk, AppliedInv
    <2>3. buffer'[r] \subseteq buffer[r] /\ Bytes(buffer[r]) \ credited \subseteq buffer'[r]
      BY <2>1, <2>2, AcknowledgeRest
    <2>4. UNCHANGED <<received, secured, credited, file>>
      BY <1>4, Zenon DEF ReplyOk, Confirm
    <2>5. Held' \subseteq Held /\ Held \ credited \subseteq Held'
      BY <2>1, <2>3, <2>4, <1>h, <1>n, Zenon DEF Bytes
    <2> QED
      BY <2>4, <2>5, PromiseSettle, Zenon
  <1>5. ASSUME NEW r \in Runner, NEW k \in Role, SaveRename(r, k) PROVE Promise!Next
    <2>1. lock = r /\ save[r][k] \in Holding /\ file'.pending = snap[r][k]
      BY <1>5, Zenon DEF SaveRename, LockInv, Busy, Holding
    <2>2. Bytes(file.pending) \ credited \subseteq buffer[r] /\ Bytes(snap[r][k]) \ credited \subseteq buffer[r]
      BY <2>1, Zenon DEF HeldInv, CoverInv
    <2>3. UNCHANGED <<received, secured, credited, buffer>>
      BY <1>5, Zenon DEF SaveRename
    <2>4. Held \ credited \subseteq Held' /\ Held' \ credited \subseteq Held
      BY <2>1, <2>2, <2>3, <1>h, <1>n, Zenon DEF Bytes
    <2> QED
      BY <2>3, <2>4, PromiseSettle, Zenon
  <1>6. ASSUME NEW r \in Runner, NEW k \in Role, SaveSync(r, k) PROVE Promise!Next
    <2>1. snap[r][k] = file.pending /\ secured' = secured \cup snap[r][k]
      BY <1>6, Zenon DEF SaveSync, LockInv
    <2>2. UNCHANGED <<received, credited, file, buffer, mode, faults>>
      BY <1>6, Zenon DEF SaveSync
    <2>3. Held' = Held /\ Epoch' = Epoch
      BY <2>2, Zenon DEF Held, Epoch
    <2>4. Bytes(file.pending) \subseteq Held
      BY <1>h, Zenon
    <2> QED
      BY <2>1, <2>2, <2>3, <2>4, Zenon DEF Promise!Next, Promise!Save, Bytes
  <1>7. ASSUME NEW r \in Runner, Exit(r) PROVE Promise!Next
    <2>1. mode[r] = "done" /\ mode'[r] = "gone"
      BY <1>7, Zenon DEF Exit, ProcessEnd, TypeOK
    <2>2. Epoch' # Epoch
      BY <2>1, Zenon DEF Epoch
    <2>3. \A q \in Runner : buffer'[q] \subseteq buffer[q]
      BY <1>7, Zenon DEF Exit, ProcessEnd
    <2> QED
      BY <1>7, <2>2, <2>3, PromiseOutage, Zenon DEF Exit
  <1>8. ASSUME NEW r \in Runner, Kill(r) PROVE Promise!Next
    <2>1. faults' = faults + 1 /\ UNCHANGED <<received, secured, credited, file>>
      BY <1>8, Zenon DEF Kill, Crash
    <2>2. Epoch' # Epoch
      BY <2>1 DEF Epoch, TypeOK
    <2>3. \A q \in Runner : buffer'[q] \subseteq buffer[q]
      BY <1>8, Zenon DEF Kill, Crash, ProcessEnd
    <2> QED
      BY <2>1, <2>2, <2>3, PromiseOutage, Zenon
  <1>9. CASE PowerLoss
    <2>1. faults' = faults + 1 /\ UNCHANGED <<received, secured, credited>> /\ file' \in {file, durable}
      BY <1>9, Zenon DEF PowerLoss, Crash
    <2>2. Epoch' # Epoch
      BY <2>1 DEF Epoch, TypeOK
    <2>3. \A q \in Runner : buffer'[q] \subseteq buffer[q]
      BY <1>9, Zenon DEF PowerLoss, Crash, ProcessEnd
    <2> QED
      BY <2>1, <2>2, <2>3, PromiseOutage, Zenon
  <1>10. ASSUME NEW r \in Runner,
                \/ RestoreFailed(r) \/ SpawnTasks(r) \/ BootFailed(r)
                \/ Shutdown(r) \/ BeginFlush(r) \/ Close(r)
                \/ \E how \in {"drained", "cut"} : StopInbound(r, how)
         PROVE  Promise!Next
    BY <1>10, PromiseFrame, Zenon
       DEF RestoreFailed, SpawnTasks, BootFailed, Shutdown, BeginFlush, Close, StopInbound
  <1>11. ASSUME NEW r \in Runner,
                \/ ReportTick(r) \/ FlushAttempt(r) \/ Post(r) \/ Defer(r) \/ ReplyErr(r)
                \/ FallbackPost(r) \/ FinishReport(r) \/ StopReportTask(r) \/ FlushTimeout(r)
         PROVE  Promise!Next
    BY <1>11, PromiseFrame, Zenon
       DEF ReportTick, FlushAttempt, BeginReport, Post, Defer, ReplyErr, FallbackPost, FinishReport,
           StopReportTask, FlushTimeout
  <1>12. ASSUME NEW r \in Runner, NEW k \in Role, SaveOpen(r, k) \/ SaveFail(r, k)
         PROVE  Promise!Next
    BY <1>12, PromiseFrame, Zenon DEF SaveOpen, SaveFail
  <1>13. ASSUME NEW r \in Runner, PanelApply(r) PROVE Promise!Next
    BY <1>13, <1>3, Zenon DEF PanelApply, KnownInv, CountedInv
  <1>14. ASSUME NEW b \in stray, PanelApplyStray(b) PROVE Promise!Next
    BY <1>14, <1>3, Zenon DEF PanelApplyStray, CountedInv
  <1>15. ASSUME NEW r \in Runner PROVE ~FallbackReply(r)
    BY Zenon DEF FallbackReply, AppliedInv
  <1>16. CASE UNCHANGED vars
    BY <1>16, Zenon DEF vars, Promise!vars, Held, Epoch
  <1> QED
    BY <1>1, <1>2, <1>4, <1>5, <1>6, <1>7, <1>8, <1>9, <1>10, <1>11, <1>12, <1>13, <1>14, <1>15,
        <1>16, ZenonT(30)
       DEF Next, RunnerStep, FailedPost

\* The refinement: with a panel client that reports a failed post as failed,
\* the billing path implements AtLeastOnce for every set of runners, chunks and
\* users, every threshold and any number of faults.
THEOREM LedgerKeepsPromise ==
  ASSUME ~FallbackAcks
  PROVE  Spec => KeepsPromise
  <1>1. Init => HonestInv /\ HeldInv /\ CountedInv /\ Promise!Init
    BY HonestInit DEF Init, HeldInv, CountedInv, Promise!Init, Held, Bytes
  <1>2. HonestInv /\ HeldInv /\ CountedInv /\ [Next]_vars => HonestInv' /\ HeldInv' /\ CountedInv'
    BY HonestStep, HeldStep, CountedStep, Zenon DEF HonestInv, IInv
  <1>3. HonestInv /\ HonestInv' /\ HeldInv /\ CountedInv /\ [Next]_vars => [Promise!Next]_(Promise!vars)
    BY PromiseStep, Zenon DEF HonestInv, IInv
  <1> QED
    BY <1>1, <1>2, <1>3, PTL DEF Spec, KeepsPromise, Promise!Spec

-----------------------------------------------------------------------------
(* RateLimiter: a bucket that is settled only when it is looked at.        *)

Amounts == UNION {0..n : n \in Sizes}
RateInv == RateTypeOK /\ LazyIsEager /\ NoStaleSleep

\* Capacities and amounts are numbers, a bucket is not empty, and MaxAge fills it.
LEMMA RateFacts ==
  /\ \A r \in Rates : r \in Nat /\ Capacity(r) \in Nat /\ Capacity(r) >= 1
  /\ \A r \in Rates : r > 0 => Capacity(r) <= MaxAge * r
  /\ 0 \in Amounts /\ \A n \in Sizes : n \in Amounts
  /\ \A n \in Amounts : n \in Nat /\ \A m \in 0..n : m \in Amounts
  /\ MaxAge \in Nat /\ MaxSets \in Nat /\ MaxCalls \in Nat
  <1>1. \A r \in Rates : r \in Nat /\ Capacity(r) \in Nat /\ Capacity(r) >= 1
    BY RateAssumption DEF Capacity, MaxOf
  <1>2. ASSUME NEW r \in Rates, r > 0 PROVE Capacity(r) <= MaxAge * r
    <2>1. MaxAge * r >= Capacity(r) /\ MaxAge \in Nat /\ r \in Nat
      BY <1>2, RateAssumption
    <2>2. MaxAge * r \in Nat
      BY <2>1
    <2> QED
      BY <2>1, <2>2, <1>1, Zenon
  <1>3. 0 \in Amounts /\ \A n \in Sizes : n \in Amounts
    <2>1. \A n \in Sizes : 0 \in 0..n /\ n \in 0..n
      BY RateAssumption
    <2>2. \E n \in Sizes : TRUE
      BY RateAssumption, Zenon
    <2> QED
      BY <2>1, <2>2, Zenon DEF Amounts
  <1>4. ASSUME NEW n \in Amounts PROVE n \in Nat /\ \A m \in 0..n : m \in Amounts
    <2>1. PICK k \in Sizes : n \in 0..k
      BY <1>4, Zenon DEF Amounts
    <2>2. k \in Nat
      BY RateAssumption, Zenon
    <2>3. \A m \in 0..n : m \in 0..k
      BY <2>1, <2>2
    <2> QED
      BY <2>1, <2>2, <2>3 DEF Amounts
  <1> QED
    BY <1>1, <1>2, <1>3, <1>4, RateAssumption, Zenon

\* More to wait for is not a shorter wait.
LEMMA LongerWait ==
  ASSUME NEW r \in Nat, r > 0, NEW a \in Nat, NEW b \in Nat, a <= b
  PROVE  CeilDiv(a, r) \in Nat /\ CeilDiv(a, r) <= CeilDiv(b, r)
  <1> DEFINE x == a + r - 1
             y == b + r - 1
             p == x \div r
             q == y \div r
  <1>1. x \in Nat /\ y \in Nat /\ x <= y
    OBVIOUS
  <1>2. p \in Nat /\ q \in Nat
    BY <1>1
  <1>3. x % r \in 0..(r - 1) /\ y % r \in 0..(r - 1)
    BY <1>1
  <1>4. x = r * p + (x % r)
    BY <1>1
  <1>5. y = r * q + (y % r)
    BY <1>1
  <1> DEFINE u == x % r
             v == y % r
  <1>6. u \in 0..(r - 1) /\ v \in 0..(r - 1) /\ x = r * p + u /\ y = r * q + v
    BY <1>3, <1>4, <1>5, Zenon
  <1> HIDE DEF p, q, u, v, x, y
  <1>7. p <= q
    <2> SUFFICES ASSUME p >= q + 1 PROVE FALSE
      BY <1>2
    <2>1. p - q - 1 \in Nat
      BY <1>2
    <2>2. r * (p - q - 1) >= 0 /\ r * (p - q - 1) = r * p - r * q - r
      BY <1>2, <2>1
    <2>3. r * p \in Int /\ r * q \in Int
      BY <1>2
    <2> QED
      BY <1>1, <1>6, <2>2, <2>3
  <1> QED
    BY <1>2, <1>7, Zenon DEF CeilDiv, p, q, x, y

\* What replenish() finds is what the bucket is worth.
LEMMA Settled ==
  ASSUME RateInv, rate > 0
  PROVE  Replenish(age) = fair /\ fair \in 0..Capacity(rate)
  <1>1. /\ rate \in Nat /\ age \in Nat /\ Capacity(rate) \in Nat /\ tokens \in 0..Capacity(rate)
        /\ MinOf(tokens + age * rate, Capacity(rate)) = fair
    BY RateFacts DEF RateInv, RateTypeOK, LazyIsEager
  <1>2. age * rate \in Nat
    BY <1>1
  <1> QED
    BY <1>1, <1>2 DEF Replenish, MinOf

\* A bucket that has just been settled is worth what it holds.
LEMMA Settles ==
  ASSUME age' = 0, rate' \in Rates, tokens' \in 0..Capacity(rate'), rate' > 0 => fair' = tokens'
  PROVE  LazyIsEager'
  <1>1. rate' \in Nat /\ Capacity(rate') \in Nat
    BY RateFacts, Zenon
  <1>2. \A a, x, y, c \in Nat : a = 0 /\ x <= c => MinOf(x + a * y, c) = x
    <2>1. \A a, y \in Nat : a = 0 => a * y = 0
      OBVIOUS
    <2> QED
      BY <2>1 DEF MinOf
  <1>3. MinOf(tokens' + age' * rate', Capacity(rate')) = tokens'
    <2>1. age' \in Nat /\ tokens' \in Nat /\ tokens' <= Capacity(rate')
      BY <1>1
    <2> QED
      BY ONLY <1>1, <1>2, <2>1, age' = 0, Zenon
  <1>4. LazyIsEager' = (rate' > 0 => MinOf(tokens' + age' * rate', Capacity(rate')) = fair')
    BY Zenon DEF LazyIsEager, Capacity
  <1> QED
    BY <1>3, <1>4, Zenon

\* set_user_limit settles the bucket at the old rate.
LEMMA LimitSet ==
  ASSUME RateInv, NEW r \in Rates, SetUserLimit(r)
  PROVE  RateInv'
  <1>0. /\ rate \in Rates /\ rate \in Nat /\ r \in Nat /\ Capacity(rate) \in Nat /\ Capacity(r) \in Nat
        /\ MaxSets \in Nat /\ MaxAge \in Nat /\ sets \in 0..MaxSets
    BY RateFacts, Zenon DEF RateInv, RateTypeOK
  <1>1. /\ rate' = r /\ age' = 0 /\ notifying' = TRUE /\ sets < MaxSets /\ sets' = sets + 1
        /\ UNCHANGED <<at, remaining, sleep, notified, calls>>
    BY Zenon DEF SetUserLimit, tasks
  <1>2. tokens' \in 0..Capacity(r) /\ (r > 0 => fair' = tokens')
    <2>1. CASE r > 0 /\ rate > 0
      <3>1. Replenish(age) = fair /\ fair \in 0..Capacity(rate)
        BY <2>1, Settled, Zenon
      <3>2. tokens' = MinOf(fair, Capacity(r)) /\ fair' = MinOf(fair, Capacity(r))
        BY <2>1, <3>1, <1>0 DEF SetUserLimit
      <3> QED
        BY <3>1, <3>2, <1>0 DEF MinOf
    <2>2. CASE r > 0 /\ rate = 0
      BY <2>2, <1>0 DEF SetUserLimit
    <2>3. CASE r = 0
      BY <2>3, <1>0 DEF SetUserLimit
    <2> QED
      BY <2>1, <2>2, <2>3, <1>0
  <1>3. RateTypeOK'
    BY <1>0, <1>1, <1>2 DEF RateInv, RateTypeOK, Capacity
  <1>4. LazyIsEager'
    BY <1>1, <1>2, Settles, Zenon
  <1>5. NoStaleSleep'
    BY <1>1, Zenon DEF NoStaleSleep
  <1> QED
    BY <1>3, <1>4, <1>5, Zenon DEF RateInv

\* The tokens taken from a bucket are taken from what it is worth.
LEMMA Taken ==
  ASSUME RateInv, rate > 0, NEW n \in Nat, n <= fair,
         tokens' = Replenish(age) - n, fair' = fair - n, age' = 0, UNCHANGED rate
  PROVE  LazyIsEager' /\ tokens' \in 0..Capacity(rate) /\ age' \in 0..MaxAge
  <1>1. Replenish(age) = fair /\ fair \in 0..Capacity(rate) /\ Capacity(rate) \in Nat /\ rate \in Rates
        /\ MaxAge \in Nat
    BY Settled, RateFacts, Zenon DEF RateInv, RateTypeOK
  <1>2. tokens' \in 0..Capacity(rate) /\ fair' = tokens'
    BY <1>1
  <1> QED
    BY <1>1, <1>2, Settles

\* The steps of the tasks.
LEMMA TaskWorks ==
  ASSUME RateInv, NEW t \in Task, TaskStep(t) \/ Cancel(t) \/ \E n \in Sizes : Throttle(t, n)
  PROVE  RateInv'
  <1>0. /\ rate \in Rates /\ tokens \in 0..Capacity(rate) /\ age \in 0..MaxAge
        /\ at \in [Task -> {"idle", "loop", "check", "sleep"}] /\ remaining \in [Task -> Amounts]
        /\ sleep \in [Task -> Nat] /\ notified \in [Task -> BOOLEAN] /\ notifying \in BOOLEAN
        /\ sets \in 0..MaxSets /\ calls \in 0..MaxCalls
    BY Zenon DEF RateInv, RateTypeOK, Amounts
  <1>1. rate \in Nat /\ Capacity(rate) \in Nat /\ Capacity(rate) >= 1 /\ MaxCalls \in Nat /\ 0 \in Amounts
    BY <1>0, RateFacts, Zenon
  \* A step that leaves the bucket alone and puts no task to sleep.
  <1>a. ASSUME UNCHANGED <<rate, tokens, age, notifying, sets, fair>>, calls' \in 0..MaxCalls,
               at' \in [Task -> {"idle", "loop", "check", "sleep"}], remaining' \in [Task -> Amounts],
               sleep' \in [Task -> Nat], notified' \in [Task -> BOOLEAN],
               \A u \in Task : at'[u] = "sleep" =>
                   at[u] = "sleep" /\ sleep'[u] = sleep[u] /\ notified'[u] = notified[u]
        PROVE  RateInv'
    <2>1. RateTypeOK'
      BY <1>0, <1>a, Zenon DEF RateTypeOK, Amounts, Capacity
    <2>2. LazyIsEager'
      BY <1>a, Zenon DEF RateInv, LazyIsEager, Capacity
    <2>3. NoStaleSleep'
      BY <1>a, Zenon DEF RateInv, NoStaleSleep, Capacity
    <2> QED
      BY <2>1, <2>2, <2>3, Zenon DEF RateInv
  <1>2. ASSUME NEW n \in Sizes, Throttle(t, n) PROVE RateInv'
    <2>1. n \in Amounts
      BY RateFacts, Zenon
    <2> QED
      BY <2>1, <1>0, <1>1, <1>2, <1>a DEF Throttle, bucket
  <1>3. CASE Enable(t)
    BY <1>0, <1>3, <1>a, Zenon DEF Enable, bucket
  <1>4. CASE Unlimited(t)
    BY <1>0, <1>1, <1>4, <1>a, Zenon DEF Unlimited, bucket
  <1>5. CASE Wake(t)
    BY <1>0, <1>5, <1>a, Zenon DEF Wake, bucket
  <1>6. CASE Cancel(t)
    BY <1>0, <1>1, <1>6, <1>a, Zenon DEF Cancel, bucket
  <1>7. remaining[t] \in Nat /\ Amount(t) \in Nat /\ Amount(t) <= remaining[t] /\ Amount(t) <= Capacity(rate)
        /\ remaining[t] - Amount(t) \in Amounts
    <2>1. remaining[t] \in Amounts
      BY <1>0, Zenon
    <2>2. remaining[t] \in Nat /\ \A m \in 0..remaining[t] : m \in Amounts
      BY <2>1, RateFacts, Zenon
    <2>3. Amount(t) \in Nat /\ Amount(t) <= remaining[t] /\ Amount(t) <= Capacity(rate)
      BY <2>2, <1>1 DEF Amount, MinOf
    <2>4. remaining[t] - Amount(t) \in 0..remaining[t]
      BY <2>2, <2>3
    <2> QED
      BY <2>2, <2>3, <2>4, Zenon
  <1>8. CASE Consume(t)
    <2>1. rate > 0 /\ Replenish(age) = fair /\ fair \in 0..Capacity(rate)
      BY <1>8, Settled, Zenon DEF Consume
    <2> DEFINE n == Amount(t)
    <2>2. n \in Nat /\ n <= fair /\ tokens' = Replenish(age) - n /\ fair' = fair - n /\ age' = 0
          /\ UNCHANGED rate
      BY <1>7, <1>8, <2>1, Zenon DEF Consume
    <2> HIDE DEF n
    <2>3. LazyIsEager' /\ tokens' \in 0..Capacity(rate) /\ age' \in 0..MaxAge
      BY <2>1, <2>2, Taken, Zenon
    <2>4. /\ at' \in [Task -> {"idle", "loop", "check", "sleep"}] /\ remaining' \in [Task -> Amounts]
          /\ notified' \in [Task -> BOOLEAN] /\ UNCHANGED <<rate, sleep, notifying, sets, calls>>
          /\ \A u \in Task : at'[u] = "sleep" => at[u] = "sleep" /\ notified'[u] = notified[u]
      BY <1>0, <1>7, <1>8, Zenon DEF Consume
    <2>5. RateTypeOK'
      BY <2>3, <2>4, <1>0, Zenon DEF RateTypeOK, Amounts, Capacity
    <2>6. NoStaleSleep'
      BY <2>4, Zenon DEF RateInv, NoStaleSleep, Capacity
    <2> QED
      BY <2>3, <2>5, <2>6, Zenon DEF RateInv
  <1>9. CASE Wait(t)
    <2>1. rate > 0 /\ Replenish(age) = fair /\ fair \in 0..Capacity(rate)
      BY <1>9, Settled, Zenon DEF Wait
    <2> DEFINE a == Amount(t) - fair
               d == CeilDiv(a, rate)
    <2>2. a \in Nat /\ a <= Capacity(rate)
      BY <2>1, <1>1, <1>7, <1>9 DEF Wait
    <2>3. sleep' = [sleep EXCEPT ![t] = d]
      BY <2>1, <1>9, Zenon DEF Wait
    <2> HIDE DEF a
    <2>4. d \in Nat /\ d <= CeilDiv(Capacity(rate), rate)
      BY <2>1, <2>2, <1>1, LongerWait, Zenon
    <2> HIDE DEF d
    <2>5. /\ tokens' = Replenish(age) - 0 /\ fair' = fair - 0 /\ age' = 0 /\ UNCHANGED rate /\ 0 <= fair
      BY <2>1, <1>1, <1>9 DEF Wait
    <2>6. LazyIsEager' /\ tokens' \in 0..Capacity(rate) /\ age' \in 0..MaxAge
      BY <2>1, <2>5, Taken, Zenon
    <2>7. /\ at' = [at EXCEPT ![t] = "sleep"] /\ UNCHANGED <<rate, remaining, notified, notifying, sets, calls>>
      BY <1>9, Zenon DEF Wait
    <2>8. RateTypeOK'
      BY <2>3, <2>4, <2>6, <2>7, <1>0, Zenon DEF RateTypeOK, Amounts, Capacity
    <2>9. NoStaleSleep'
      <3> SUFFICES ASSUME NEW u \in Task, at'[u] = "sleep", ~notified[u], ~notifying
                   PROVE  rate > 0 /\ sleep'[u] <= CeilDiv(Capacity(rate), rate)
        BY <2>7, Zenon DEF NoStaleSleep, Capacity
      <3>1. CASE u = t
        BY <3>1, <2>1, <2>3, <2>4, <1>0, Zenon
      <3>2. CASE u # t
        BY <3>2, <2>3, <2>7, <1>0, Zenon DEF RateInv, NoStaleSleep
      <3> QED
        BY <3>1, <3>2, Zenon
    <2> QED
      BY <2>6, <2>8, <2>9, Zenon DEF RateInv
  <1> QED
    BY <1>2, <1>3, <1>4, <1>5, <1>6, <1>8, <1>9, Zenon DEF TaskStep

\* The bucket settled only when it is looked at is worth what one replenished at
\* every tick would hold, through changes of the limit, failed attempts, allow and
\* prune_idle, and no task of throttle() sleeps through a change of the limit or
\* longer than the present limit asks for: in every reachable state, for any
\* tasks, rates and sizes.
THEOREM ThrottleSoundHolds == RateSpec => []ThrottleSound
  <1>1. RateInit => RateInv
    <2> SUFFICES ASSUME RateInit PROVE RateInv
      BY Zenon
    <2>1. 0 \in Rates /\ Capacity(0) \in Nat /\ 0 \in Amounts /\ MaxAge \in Nat /\ MaxSets \in Nat
          /\ MaxCalls \in Nat
      BY RateFacts, RateAssumption, Zenon
    <2>2. RateTypeOK
      <3>1. /\ remaining \in [Task -> Amounts] /\ at \in [Task -> {"idle", "loop", "check", "sleep"}]
            /\ sleep \in [Task -> Nat] /\ notified \in [Task -> BOOLEAN]
        BY <2>1, Zenon DEF RateInit
      <3>2. /\ rate \in Rates /\ tokens \in 0..Capacity(rate) /\ age \in 0..MaxAge
            /\ sets \in 0..MaxSets /\ calls \in 0..MaxCalls
        BY <2>1 DEF RateInit
      <3>3. notifying \in BOOLEAN
        BY Zenon DEF RateInit
      <3> QED
        BY <3>1, <3>2, <3>3, Zenon DEF RateTypeOK, Amounts
    <2>3. LazyIsEager /\ NoStaleSleep
      BY DEF RateInit, LazyIsEager, NoStaleSleep
    <2> QED
      BY <2>2, <2>3, Zenon DEF RateInv
  <1>2. RateInv /\ [RateNext]_rateVars => RateInv'
    <2> SUFFICES ASSUME RateInv, [RateNext]_rateVars PROVE RateInv'
      BY Zenon
    <2>0. /\ rate \in Rates /\ tokens \in 0..Capacity(rate) /\ age \in 0..MaxAge
          /\ calls \in 0..MaxCalls /\ sleep \in [Task -> Nat] /\ notified \in [Task -> BOOLEAN]
      BY Zenon DEF RateInv, RateTypeOK
    <2>a. rate \in Nat /\ Capacity(rate) \in Nat /\ MaxCalls \in Nat /\ MaxAge \in Nat
      BY <2>0, RateFacts, Zenon
    <2>1. CASE UNCHANGED rateVars
      BY <2>1, Zenon DEF rateVars, RateInv, RateTypeOK, LazyIsEager, NoStaleSleep, Capacity
    <2>2. ASSUME NEW r \in Rates, SetUserLimit(r) PROVE RateInv'
      BY <2>2, LimitSet, Zenon
    <2>3. CASE NotifyWaiters
      <3>1. /\ UNCHANGED <<rate, tokens, age, at, remaining, sleep, sets, calls, fair>>
            /\ notified' = [t \in Task |-> notified[t] \/ at[t] \in {"check", "sleep"}]
            /\ notifying' = FALSE
        BY <2>3, Zenon DEF NotifyWaiters, bucket
      <3>2. RateTypeOK'
        BY <3>1, Zenon DEF RateInv, RateTypeOK, Capacity
      <3>3. LazyIsEager'
        BY <3>1, Zenon DEF RateInv, LazyIsEager, Capacity
      <3>4. NoStaleSleep'
        BY <3>1, Zenon DEF NoStaleSleep
      <3> QED
        BY <3>2, <3>3, <3>4, Zenon DEF RateInv
    <2>4. ASSUME NEW t \in Task, TaskStep(t) \/ Cancel(t) \/ \E n \in Sizes : Throttle(t, n)
          PROVE  RateInv'
      BY <2>4, TaskWorks, Zenon
    \* allow and prune_idle
    <2>5. ASSUME NEW n \in Nat, rate > 0, n <= fair, tokens' = Replenish(age) - n, fair' = fair - n,
                 age' = 0, calls' \in 0..MaxCalls,
                 UNCHANGED <<rate, at, remaining, sleep, notified, notifying, sets>>
          PROVE  RateInv'
      <3>1. LazyIsEager' /\ tokens' \in 0..Capacity(rate) /\ age' \in 0..MaxAge
        BY <2>5, Taken, Zenon
      <3>2. RateTypeOK'
        BY <3>1, <2>5, Zenon DEF RateInv, RateTypeOK, Capacity
      <3>3. NoStaleSleep'
        BY <2>5, Zenon DEF RateInv, NoStaleSleep, Capacity
      <3> QED
        BY <3>1, <3>2, <3>3, Zenon DEF RateInv
    <2>6. ASSUME NEW n \in Sizes, Allow(n) PROVE RateInv'
      <3>1. rate > 0 /\ Replenish(age) = fair /\ fair \in Nat /\ n \in Nat
        BY <2>6, <2>a, Settled, RateAssumption DEF Allow
      <3> DEFINE m == IF fair >= n THEN n ELSE 0
      <3>2. m \in Nat /\ m <= fair /\ tokens' = Replenish(age) - m /\ fair' = fair - m
        BY <2>6, <3>1 DEF Allow
      <3>3. /\ age' = 0 /\ calls' \in 0..MaxCalls
            /\ UNCHANGED <<rate, at, remaining, sleep, notified, notifying, sets>>
        BY <2>6, <2>0, <2>a DEF Allow, tasks
      <3> HIDE DEF m
      <3> QED
        BY <3>1, <3>2, <3>3, <2>5, Zenon
    <2>7. CASE PruneIdle
      <3>1. rate > 0 /\ Replenish(age) = fair /\ fair \in Nat
        BY <2>7, <2>a, Settled DEF PruneIdle
      <3>2. 0 \in Nat /\ 0 <= fair /\ tokens' = Replenish(age) - 0 /\ fair' = fair - 0
        BY <2>7, <3>1 DEF PruneIdle
      <3>3. /\ age' = 0 /\ calls' \in 0..MaxCalls
            /\ UNCHANGED <<rate, at, remaining, sleep, notified, notifying, sets>>
        BY <2>7, <2>0, Zenon DEF PruneIdle, tasks
      <3> QED
        BY <3>1, <3>2, <3>3, <2>5, Zenon
    <2>8. CASE Tick
      <3>1. /\ age' = IF rate > 0 THEN MinOf(age + 1, MaxAge) ELSE 0
            /\ fair' = IF rate > 0 THEN MinOf(fair + rate, Capacity(rate)) ELSE 0
            /\ sleep' = [t \in Task |-> MaxOf(sleep[t] - 1, 0)]
            /\ UNCHANGED <<rate, tokens, at, remaining, notified, notifying, sets, calls>>
        BY <2>8, Zenon DEF Tick
      <3>2. age' \in 0..MaxAge
        BY <3>1, <2>0, <2>a DEF MinOf
      <3>3. sleep' \in [Task -> Nat] /\ \A t \in Task : sleep'[t] <= sleep[t]
        BY <3>1, <2>0 DEF MaxOf
      <3>4. RateTypeOK'
        BY <3>1, <3>2, <3>3, Zenon DEF RateInv, RateTypeOK, Capacity
      <3>5. LazyIsEager'
        <4> SUFFICES ASSUME rate > 0 PROVE MinOf(tokens + age' * rate, Capacity(rate)) = fair'
          BY <3>1, Zenon DEF LazyIsEager, Capacity
        <4> DEFINE w == age * rate
        <4>1. w \in Nat /\ MinOf(tokens + w, Capacity(rate)) = fair
          BY <2>0, <2>a DEF RateInv, LazyIsEager
        <4>2. CASE age < MaxAge
          <5>1. age' = age + 1
            BY <4>2, <3>1, <2>0, <2>a DEF MinOf
          <5>2. age' * rate = w + rate
            BY <5>1, <2>0, <2>a
          <5> HIDE DEF w
          <5> QED
            BY <5>2, <4>1, <3>1, <2>0, <2>a DEF MinOf
        <4>3. CASE age = MaxAge
          <5>1. age' = age
            BY <4>3, <3>1, <2>0, <2>a DEF MinOf
          <5>2. Capacity(rate) <= w /\ age' * rate = w
            BY <5>1, <4>3, <2>0, RateFacts, Zenon
          <5> HIDE DEF w
          <5> QED
            BY <5>2, <4>1, <3>1, <2>0, <2>a DEF MinOf
        <4> QED
          BY <4>2, <4>3, <2>0, <2>a
      <3>6. NoStaleSleep'
        <4> SUFFICES ASSUME NEW u \in Task, at[u] = "sleep", ~notified[u], ~notifying
                     PROVE  rate > 0 /\ sleep'[u] <= CeilDiv(Capacity(rate), rate)
          BY <3>1, Zenon DEF NoStaleSleep, Capacity
        <4>1. rate > 0 /\ sleep[u] <= CeilDiv(Capacity(rate), rate)
          BY Zenon DEF RateInv, NoStaleSleep
        <4>2. CeilDiv(Capacity(rate), rate) \in Nat
          BY <4>1, <2>a, LongerWait
        <4> QED
          BY <4>1, <4>2, <3>3, <2>0
      <3> QED
        BY <3>4, <3>5, <3>6, Zenon DEF RateInv
    <2> QED
      BY <2>1, <2>2, <2>3, <2>4, <2>6, <2>7, <2>8, Zenon DEF RateNext
  <1>3. RateInv => ThrottleSound
    BY Zenon DEF RateInv, ThrottleSound
  <1> QED
    BY <1>1, <1>2, <1>3, PTL DEF RateSpec

=============================================================================
