--------------------------- MODULE TrafficLedger ---------------------------
(***************************************************************************)
(* The billing path of one node: NodeRunner in src/proxy/node.rs and the   *)
(* report_traffic call of its panel client.                                *)
(*                                                                         *)
(* Bytes are abstracted to chunks.  A chunk is what one call of on_traffic *)
(* accounts to one user; the counter (u, d) of a user in traffic_buffer is *)
(* the set of that user's chunks in the buffer, so `-=` of a reported item *)
(* is set difference as long as the item is part of the counter, which is  *)
(* the invariant AckFitsCounter.  A chunk of Empty carries no bytes (a     *)
(* zero-length datagram calls on_traffic too).                             *)
(*                                                                         *)
(* A runner is one life of the NodeRunner of the node: the runners share   *)
(* the pending store on disk, a restart is a new runner, and two of them   *)
(* may overlap (a new process started while the old one drains).           *)
(***************************************************************************)
EXTENDS Naturals, FiniteSets

CONSTANTS
    Runner,        \* lives of the node's NodeRunner
    NoRunner,      \* nobody holds the lock of the pending store
    Chunk,         \* calls of on_traffic
    User,
    UserOf,        \* the user a chunk is accounted to
    Empty,         \* the chunks that carry no bytes
    MinTraffic,    \* submit_traffic_min_traffic, in chunks
    MaxFaults,     \* bound on crashes, failed replies and failed saves
    FallbackAcks   \* TRUE: the panel client is PPanelClient

ASSUME ConstantsAssumption ==
    /\ NoRunner \notin Runner
    /\ UserOf \in [Chunk -> User]
    /\ Empty \subseteq Chunk
    /\ MinTraffic \in Nat
    /\ MaxFaults \in Nat
    /\ FallbackAcks \in BOOLEAN

VARIABLES
    mode,       \* where run() of the runner is
    inbound,    \* the inbound: serving, drained, or cut (aborted, its connections still dying)
    reporting,  \* report_task exists
    pc,         \* where the report_data in progress is
    batch,      \* `items` of that call
    attempt,    \* attempts of the final flush made so far
    verdict,    \* what the end of the flush logs
    buffer,     \* traffic_buffer
    save,       \* phase of the blocking task of save_pending, per caller
    snap,       \* `pending` of that task
    file,       \* the pending store, as the running system sees it
    durable,    \* the pending store, as a power loss leaves it
    lock,       \* holder of the lock file
    applied,    \* the panel has applied the request in flight
    stray,      \* abandoned requests the panel may still apply
    credited,   \* chunks the panel has counted at least once
    got,        \* history: chunks the runner accounted or restored
    received,   \* history: chunks accounted by any runner
    secured,    \* history: chunks covered by a save that returned Ok
    sends,      \* history: requests a chunk was part of
    faults      \* history: crashes, failed replies, aborted reports, failed saves

runVars   == <<mode, inbound, reporting, attempt, verdict>>
callVars  == <<pc, batch, applied>>
saveVars  == <<save, snap>>
diskVars  == <<file, durable>>
panelVars == <<stray, credited>>
histVars  == <<received, secured, sends, faults>>
vars == <<runVars, callVars, saveVars, diskVars, panelVars, histVars, buffer, got, lock>>

Mode == {"off", "booting", "running", "stopping", "flushing", "closing", "done", "gone"}
Phase == {"none", "queued", "writing", "renamed", "ok", "err"}
Role == {"report", "flush", "final"}
Contents == [whole : BOOLEAN, pending : SUBSET Chunk]

MaxAttempts == 3

Bytes(S) == S \ Empty

(***************************************************************************)
(* The items report_data takes from the buffer: all of a user's counter    *)
(* when it is not zero and either the call is forced or it has reached the *)
(* threshold.                                                              *)
(***************************************************************************)
UserBytes(buf, u) == {c \in Bytes(buf) : UserOf[c] = u}

\* Variant with a defect: a counter has to exceed the threshold.
ItemsAboveThreshold(buf, force) ==
    {c \in buf :
        LET total == Cardinality(UserBytes(buf, UserOf[c]))
        IN total > 0 /\ (force \/ total > MinTraffic)}

Items(buf, force) ==
    {c \in buf :
        LET total == Cardinality(UserBytes(buf, UserOf[c]))
        IN total > 0 /\ (force \/ total >= MinTraffic)}

(***************************************************************************)
(* The acknowledgement: the items are subtracted, and the entry of a user  *)
(* of the items that is left with (0, 0) is removed.                       *)
(***************************************************************************)
\* Variant with a defect: the items are not subtracted.
AcknowledgeKeeps(buf, items) == buf

Acknowledge(buf, items) ==
    LET left == buf \ items
    IN {c \in left :
           \/ UserBytes(left, UserOf[c]) # {}
           \/ \A i \in items : UserOf[i] # UserOf[c]}

Init ==
    /\ mode = [r \in Runner |-> "off"]
    /\ inbound = [r \in Runner |-> "drained"]
    /\ reporting = [r \in Runner |-> FALSE]
    /\ pc = [r \in Runner |-> "idle"]
    /\ batch = [r \in Runner |-> {}]
    /\ attempt = [r \in Runner |-> 0]
    /\ verdict = [r \in Runner |-> "none"]
    /\ buffer = [r \in Runner |-> {}]
    /\ save = [r \in Runner |-> [k \in Role |-> "none"]]
    /\ snap = [r \in Runner |-> [k \in Role |-> {}]]
    /\ file = [whole |-> TRUE, pending |-> {}]
    /\ durable = [whole |-> TRUE, pending |-> {}]
    /\ lock = NoRunner
    /\ applied = [r \in Runner |-> FALSE]
    /\ stray = {}
    /\ credited = {}
    /\ got = [r \in Runner |-> {}]
    /\ received = {}
    /\ secured = {}
    /\ sends = [c \in Chunk |-> 0]
    /\ faults = 0

-----------------------------------------------------------------------------
(* run(): start-up.                                                        *)

\* restore_pending takes the lock file and reads the store.  A missing store
\* is an empty one.
RestorePending(r) ==
    /\ mode[r] = "off"
    /\ lock = NoRunner
    /\ file.whole
    /\ lock' = r
    /\ buffer' = [buffer EXCEPT ![r] = file.pending]
    /\ got' = [got EXCEPT ![r] = file.pending]
    /\ mode' = [mode EXCEPT ![r] = "booting"]
    /\ UNCHANGED <<inbound, reporting, attempt, verdict, callVars, saveVars, diskVars, panelVars, histVars>>

\* The lock is taken, the store is unreadable or any of the calls fails: the
\* node is not started.
RestoreFailed(r) ==
    /\ mode[r] = "off"
    /\ mode' = [mode EXCEPT ![r] = "done"]
    /\ UNCHANGED <<inbound, reporting, attempt, verdict, callVars, saveVars, diskVars, panelVars, histVars, buffer, got, lock>>

\* The node info is fetched and valid: the tasks are spawned.
SpawnTasks(r) ==
    /\ mode[r] = "booting"
    /\ mode' = [mode EXCEPT ![r] = "running"]
    /\ inbound' = [inbound EXCEPT ![r] = "serving"]
    /\ reporting' = [reporting EXCEPT ![r] = TRUE]
    /\ UNCHANGED <<attempt, verdict, callVars, saveVars, diskVars, panelVars, histVars, buffer, got, lock>>

\* get_node_info or prepare_node_info fails: run() returns.
BootFailed(r) ==
    /\ mode[r] = "booting"
    /\ mode' = [mode EXCEPT ![r] = "done"]
    /\ UNCHANGED <<inbound, reporting, attempt, verdict, callVars, saveVars, diskVars, panelVars, histVars, buffer, got, lock>>

\* Variant with a defect: a callback that finds report_data at work gives up.
OnTrafficTryLock(r, c) ==
    /\ mode[r] \in {"running", "stopping", "flushing", "closing"}
    /\ inbound[r] # "drained"
    /\ c \notin received
    /\ received' = received \cup {c}
    /\ buffer' = [buffer EXCEPT ![r] = IF pc[r] = "idle" THEN @ \cup {c} ELSE @]
    /\ got' = [got EXCEPT ![r] = IF pc[r] = "idle" THEN @ \cup {c} ELSE @]
    /\ UNCHANGED <<runVars, callVars, saveVars, diskVars, panelVars, secured, sends, faults, lock>>

\* The on_traffic callback.  An inbound that was aborted instead of drained
\* leaves connection tasks behind, whose guards report while the flush runs.
OnTraffic(r, c) ==
    /\ mode[r] \in {"running", "stopping", "flushing", "closing"}
    /\ inbound[r] # "drained"
    /\ c \notin received
    /\ received' = received \cup {c}
    /\ buffer' = [buffer EXCEPT ![r] = @ \cup {c}]
    /\ got' = [got EXCEPT ![r] = @ \cup {c}]
    /\ UNCHANGED <<runVars, callVars, saveVars, diskVars, panelVars, secured, sends, faults, lock>>

-----------------------------------------------------------------------------
(* report_data(force), called by report_task and by the flush of run().    *)

Caller(r) == IF mode[r] = "flushing" THEN "flush" ELSE "report"

\* spawn_blocking of save_pending, the lock file being held.
Queue(r, k) == save' = [save EXCEPT ![r][k] = "queued"]

Finished(r, k) == save[r][k] \in {"ok", "err"}

\* Variant with a defect: the verdict looks at what the last attempt took.
EndReportByBatch(r, buf) ==
    /\ pc' = [pc EXCEPT ![r] = "idle"]
    /\ batch' = [batch EXCEPT ![r] = {}]
    /\ applied' = [applied EXCEPT ![r] = FALSE]
    /\ IF mode[r] = "flushing" /\ (buf = {} \/ attempt[r] = MaxAttempts)
       THEN /\ mode' = [mode EXCEPT ![r] = "closing"]
            /\ verdict' = [verdict EXCEPT ![r] = IF batch[r] = {} THEN "clean" ELSE "unacknowledged"]
            /\ Queue(r, "final")
       ELSE UNCHANGED <<mode, verdict, save>>

\* The end of a report_data call that leaves `buf` in the buffer.  The flush
\* stops when the buffer is empty or the attempts are used up, logs its
\* verdict and runs the final save_pending.
EndReport(r, buf) ==
    /\ pc' = [pc EXCEPT ![r] = "idle"]
    /\ batch' = [batch EXCEPT ![r] = {}]
    /\ applied' = [applied EXCEPT ![r] = FALSE]
    /\ IF mode[r] = "flushing" /\ (buf = {} \/ attempt[r] = MaxAttempts)
       THEN /\ mode' = [mode EXCEPT ![r] = "closing"]
            /\ verdict' = [verdict EXCEPT ![r] = IF buf = {} THEN "clean" ELSE "unacknowledged"]
            /\ Queue(r, "final")
       ELSE UNCHANGED <<mode, verdict, save>>

\* Variant with a defect: the items are taken out of the buffer at once.
BeginReportDraining(r) ==
    LET items == Items(buffer[r], mode[r] = "flushing")
    IN /\ pc[r] = "idle"
       /\ batch' = [batch EXCEPT ![r] = items]
       /\ buffer' = [buffer EXCEPT ![r] = @ \ items]
       /\ pc' = [pc EXCEPT ![r] = IF items = {} THEN "confirm" ELSE "persist"]
       /\ Queue(r, Caller(r))
       /\ UNCHANGED <<mode, inbound, reporting, verdict, applied, snap, diskVars, panelVars, histVars, got, lock>>

\* The part of report_data before its first await.
BeginReport(r) ==
    LET items == Items(buffer[r], mode[r] = "flushing")
    IN /\ pc[r] = "idle"
       /\ batch' = [batch EXCEPT ![r] = items]
       /\ pc' = [pc EXCEPT ![r] = IF items = {} THEN "confirm" ELSE "persist"]
       /\ Queue(r, Caller(r))
       /\ UNCHANGED <<mode, inbound, reporting, verdict, applied, snap, diskVars, panelVars, histVars, buffer, got, lock>>

\* A tick of report_task.  When the shutdown signal and the tick are both
\* ready, select! may still take the tick.
ReportTick(r) ==
    /\ mode[r] \in {"running", "stopping"}
    /\ reporting[r]
    /\ BeginReport(r)
    /\ UNCHANGED attempt

\* An attempt of the final flush.
FlushAttempt(r) ==
    /\ mode[r] = "flushing"
    /\ attempt[r] < MaxAttempts
    /\ attempt' = [attempt EXCEPT ![r] = @ + 1]
    /\ BeginReport(r)

\* The batch is on disk: it is posted to the panel.
Post(r) ==
    /\ pc[r] = "persist"
    /\ save[r][Caller(r)] = "ok"
    /\ pc' = [pc EXCEPT ![r] = "post"]
    /\ sends' = [c \in Chunk |-> IF c \in batch[r] THEN sends[c] + 1 ELSE sends[c]]
    /\ UNCHANGED <<runVars, batch, applied, saveVars, diskVars, panelVars, received, secured, faults, buffer, got, lock>>

\* "Traffic batch not persisted; report deferred".
Defer(r) ==
    /\ pc[r] = "persist"
    /\ save[r][Caller(r)] = "err"
    /\ EndReport(r, buffer[r])
    /\ UNCHANGED <<inbound, reporting, attempt, snap, diskVars, panelVars, histVars, buffer, got, lock>>

\* The panel applies the request in flight.
PanelApply(r) ==
    /\ pc[r] \in {"post", "fallback"}
    /\ ~applied[r]
    /\ applied' = [applied EXCEPT ![r] = TRUE]
    /\ credited' = credited \cup batch[r]
    /\ UNCHANGED <<runVars, pc, batch, saveVars, diskVars, stray, histVars, buffer, got, lock>>

\* The panel applies a request its client has given up.
PanelApplyStray(b) ==
    /\ stray' = stray \ {b}
    /\ credited' = credited \cup b
    /\ UNCHANGED <<runVars, callVars, saveVars, diskVars, histVars, buffer, got, lock>>

\* report_traffic returned Ok: subtract the items and persist the rest.
Confirm(r) ==
    /\ buffer' = [buffer EXCEPT ![r] = Acknowledge(@, batch[r])]
    /\ pc' = [pc EXCEPT ![r] = "confirm"]
    /\ Queue(r, Caller(r))
    /\ UNCHANGED <<runVars, batch, snap, diskVars, credited, received, secured, sends, got, lock>>

\* The request is given up: a request not applied yet may be applied later.
Abandon(r) ==
    stray' = IF pc[r] \in {"post", "fallback"} /\ ~applied[r] THEN stray \cup {batch[r]} ELSE stray

ReplyOk(r) ==
    /\ pc[r] = "post"
    /\ applied[r]
    /\ Confirm(r)
    /\ UNCHANGED <<applied, stray, faults>>

\* Variant with a defect: a failed report is acknowledged like a good one.
ReplyErrAcknowledges(r) ==
    /\ ~FallbackAcks
    /\ pc[r] = "post"
    /\ faults < MaxFaults
    /\ faults' = faults + 1
    /\ Abandon(r)
    /\ Confirm(r)
    /\ UNCHANGED applied

\* Transport error, timeout or error status.  "Traffic report failed, pending
\* traffic retained".
ReplyErr(r) ==
    /\ ~FallbackAcks
    /\ pc[r] = "post"
    /\ faults < MaxFaults
    /\ faults' = faults + 1
    /\ Abandon(r)
    /\ pc' = [pc EXCEPT ![r] = "confirm"]
    /\ Queue(r, Caller(r))
    /\ UNCHANGED <<runVars, batch, applied, snap, diskVars, credited, received, secured, sends, buffer, got, lock>>

\* PPanelClient posts to its fallback URL when the first post failed ...
FallbackPost(r) ==
    /\ FallbackAcks
    /\ pc[r] = "post"
    /\ faults < MaxFaults
    /\ faults' = faults + 1
    /\ Abandon(r)
    /\ pc' = [pc EXCEPT ![r] = "fallback"]
    /\ applied' = [applied EXCEPT ![r] = FALSE]
    /\ sends' = [c \in Chunk |-> IF c \in batch[r] THEN sends[c] + 1 ELSE sends[c]]
    /\ UNCHANGED <<runVars, batch, saveVars, diskVars, credited, received, secured, buffer, got, lock>>

\* ... and returns Ok whatever comes of it.
FallbackReply(r) ==
    /\ pc[r] = "fallback"
    /\ Abandon(r)
    /\ Confirm(r)
    /\ UNCHANGED <<applied, faults>>

\* What the panel client makes of a failed post.
FailedPost(r) == IF FallbackAcks THEN FallbackPost(r) \/ FallbackReply(r) ELSE ReplyErr(r)

\* The second save_pending ended, either way; the online-device and status
\* reports that follow do not touch the ledger.
FinishReport(r) ==
    /\ pc[r] = "confirm"
    /\ Finished(r, Caller(r))
    /\ EndReport(r, buffer[r])
    /\ UNCHANGED <<inbound, reporting, attempt, snap, diskVars, panelVars, histVars, buffer, got, lock>>

-----------------------------------------------------------------------------
(* The blocking task of save_pending.                                      *)

\* traffic_io_lock is free.
IoFree(r) == \A k \in Role : save[r][k] \notin {"writing", "renamed"}

\* Variant with a defect: the blocking tasks of one runner do not exclude
\* each other.
SaveOpenNoIoLock(r, k) ==
    /\ save[r][k] = "queued"
    /\ save' = [save EXCEPT ![r][k] = "writing"]
    /\ snap' = [snap EXCEPT ![r][k] = buffer[r]]
    /\ UNCHANGED <<runVars, callVars, diskVars, panelVars, histVars, buffer, got, lock>>

\* Take the io lock, copy the buffer and start on the temporary file.
SaveOpen(r, k) ==
    /\ save[r][k] = "queued"
    /\ IoFree(r)
    /\ save' = [save EXCEPT ![r][k] = "writing"]
    /\ snap' = [snap EXCEPT ![r][k] = buffer[r]]
    /\ UNCHANGED <<runVars, callVars, diskVars, panelVars, histVars, buffer, got, lock>>

\* The temporary file is complete and synced: it is renamed over the store.
SaveRename(r, k) ==
    /\ save[r][k] = "writing"
    /\ save' = [save EXCEPT ![r][k] = "renamed"]
    /\ file' = [whole |-> TRUE, pending |-> snap[r][k]]
    /\ UNCHANGED <<runVars, callVars, snap, durable, panelVars, histVars, buffer, got, lock>>

\* sync_all of the directory; save_pending returns Ok.
SaveSync(r, k) ==
    /\ save[r][k] = "renamed"
    /\ save' = [save EXCEPT ![r][k] = "ok"]
    /\ snap' = [snap EXCEPT ![r][k] = {}]
    /\ durable' = file
    /\ secured' = secured \cup snap[r][k]
    /\ UNCHANGED <<runVars, callVars, file, panelVars, received, sends, faults, buffer, got, lock>>

\* Any of the file operations fails.
SaveFail(r, k) ==
    /\ \/ save[r][k] = "queued" /\ IoFree(r)
       \/ save[r][k] \in {"writing", "renamed"}
    /\ faults < MaxFaults
    /\ faults' = faults + 1
    /\ save' = [save EXCEPT ![r][k] = "err"]
    /\ snap' = [snap EXCEPT ![r][k] = {}]
    /\ UNCHANGED <<runVars, callVars, diskVars, panelVars, received, secured, sends, buffer, got, lock>>

-----------------------------------------------------------------------------
(* run(): shutdown.                                                        *)

\* The shutdown broadcast.
Shutdown(r) ==
    /\ mode[r] = "running"
    /\ mode' = [mode EXCEPT ![r] = "stopping"]
    /\ UNCHANGED <<inbound, reporting, attempt, verdict, callVars, saveVars, diskVars, panelVars, histVars, buffer, got, lock>>

\* report_task leaves its loop, or is aborted at the 20 second deadline.  An
\* aborted save_pending leaves its blocking task running.
StopReportTask(r) ==
    /\ mode[r] = "stopping"
    /\ reporting[r]
    /\ faults' = IF pc[r] \in {"post", "fallback"} THEN faults + 1 ELSE faults
    /\ Abandon(r)
    /\ reporting' = [reporting EXCEPT ![r] = FALSE]
    /\ pc' = [pc EXCEPT ![r] = "idle"]
    /\ batch' = [batch EXCEPT ![r] = {}]
    /\ applied' = [applied EXCEPT ![r] = FALSE]
    /\ UNCHANGED <<mode, inbound, attempt, verdict, saveVars, diskVars, credited, received, secured, sends, buffer, got, lock>>

\* The inbound task ends by itself, every connection joined (how = "drained"),
\* or a deadline aborts it (how = "cut").
StopInbound(r, how) ==
    /\ mode[r] = "stopping"
    /\ inbound[r] = "serving"
    /\ inbound' = [inbound EXCEPT ![r] = how]
    /\ UNCHANGED <<mode, reporting, attempt, verdict, callVars, saveVars, diskVars, panelVars, histVars, buffer, got, lock>>

BeginFlush(r) ==
    /\ mode[r] = "stopping"
    /\ ~reporting[r]
    /\ inbound[r] # "serving"
    /\ mode' = [mode EXCEPT ![r] = "flushing"]
    /\ UNCHANGED <<inbound, reporting, attempt, verdict, callVars, saveVars, diskVars, panelVars, histVars, buffer, got, lock>>

\* The flush is cut off after 35 seconds.
FlushTimeout(r) ==
    /\ mode[r] = "flushing"
    /\ faults' = IF pc[r] \in {"post", "fallback"} THEN faults + 1 ELSE faults
    /\ Abandon(r)
    /\ mode' = [mode EXCEPT ![r] = "closing"]
    /\ verdict' = [verdict EXCEPT ![r] = "timeout"]
    /\ pc' = [pc EXCEPT ![r] = "idle"]
    /\ batch' = [batch EXCEPT ![r] = {}]
    /\ applied' = [applied EXCEPT ![r] = FALSE]
    /\ Queue(r, "final")
    /\ UNCHANGED <<inbound, reporting, attempt, snap, diskVars, credited, received, secured, sends, buffer, got, lock>>

\* Variant with a defect: run() waits for a final save that succeeds.
CloseWhenSaved(r) ==
    /\ mode[r] = "closing"
    /\ save[r]["final"] = "ok"
    /\ mode' = [mode EXCEPT ![r] = "done"]
    /\ UNCHANGED <<inbound, reporting, attempt, verdict, callVars, saveVars, diskVars, panelVars, histVars, buffer, got, lock>>

\* The final save_pending returned and run() returns.
Close(r) ==
    /\ mode[r] = "closing"
    /\ Finished(r, "final")
    /\ mode' = [mode EXCEPT ![r] = "done"]
    /\ UNCHANGED <<inbound, reporting, attempt, verdict, callVars, saveVars, diskVars, panelVars, histVars, buffer, got, lock>>

-----------------------------------------------------------------------------
(* The end of a process.                                                   *)

\* The processes of the runners of `gone` end, and their memory, their
\* blocking tasks and their locks with them.
ProcessEnd(gone) ==
    LET Reset(f, v) == [r \in Runner |-> IF r \in gone THEN v ELSE f[r]]
    IN /\ mode' = Reset(mode, "gone")
       /\ inbound' = Reset(inbound, "drained")
       /\ reporting' = Reset(reporting, FALSE)
       /\ attempt' = Reset(attempt, 0)
       /\ verdict' = Reset(verdict, "none")
       /\ pc' = Reset(pc, "idle")
       /\ batch' = Reset(batch, {})
       /\ applied' = Reset(applied, FALSE)
       /\ buffer' = Reset(buffer, {})
       /\ got' = Reset(got, {})
       /\ save' = Reset(save, [k \in Role |-> "none"])
       /\ snap' = Reset(snap, [k \in Role |-> {}])
       /\ lock' = IF lock \in gone THEN NoRunner ELSE lock

\* run() has returned; the last clone of traffic_file_lock goes with the last
\* blocking task.
Exit(r) ==
    /\ mode[r] = "done"
    /\ \A k \in Role : save[r][k] = "none" \/ Finished(r, k)
    /\ ProcessEnd({r})
    /\ UNCHANGED <<diskVars, panelVars, histVars>>

\* The processes of the runners of `dying` are killed.
Crash(dying) ==
    /\ faults < MaxFaults
    /\ faults' = faults + 1
    /\ ProcessEnd(dying)
    /\ stray' = stray \cup
          {batch[r] : r \in {d \in dying : pc[d] \in {"post", "fallback"} /\ ~applied[d]}}
    /\ UNCHANGED <<credited, received, secured, sends>>

Alive(r) == mode[r] \notin {"off", "gone"}

\* The process is killed.
Kill(r) ==
    /\ Alive(r)
    /\ Crash({r})
    /\ UNCHANGED <<file, durable>>

\* Power is lost: a rename whose directory was not synced may be undone.
PowerLoss ==
    /\ Crash({r \in Runner : Alive(r)})
    /\ file' \in {file, durable}
    /\ durable' = file'

-----------------------------------------------------------------------------
RunnerStep(r) ==
    \/ RestorePending(r) \/ RestoreFailed(r) \/ SpawnTasks(r) \/ BootFailed(r)
    \/ \E c \in Chunk : OnTraffic(r, c)
    \/ ReportTick(r) \/ FlushAttempt(r)
    \/ Post(r) \/ Defer(r) \/ PanelApply(r) \/ ReplyOk(r) \/ FailedPost(r) \/ FinishReport(r)
    \/ \E k \in Role :
          SaveOpen(r, k) \/ SaveRename(r, k) \/ SaveSync(r, k) \/ SaveFail(r, k)
    \/ Shutdown(r) \/ StopReportTask(r)
    \/ \E how \in {"drained", "cut"} : StopInbound(r, how)
    \/ BeginFlush(r) \/ FlushTimeout(r) \/ Close(r) \/ Exit(r) \/ Kill(r)

Next ==
    \/ \E r \in Runner : RunnerStep(r)
    \/ \E b \in stray : PanelApplyStray(b)
    \/ PowerLoss

Spec == Init /\ [][Next]_vars

-----------------------------------------------------------------------------
(* Fairness.  Tasks are polled, blocking tasks run, and every wait of the  *)
(* shutdown has a deadline.  The panel answers: a request that is not      *)
(* failed is applied and acknowledged.                                     *)

\* report_data goes on, and so does the task that calls it.
Reports(r) ==
    \/ ReportTick(r) \/ Post(r) \/ Defer(r) \/ FinishReport(r)
    \/ PanelApply(r) \/ ReplyOk(r) \/ FailedPost(r)

\* save_pending goes on, and run() after the shutdown.
SavesAndStops(r) ==
    /\ \A k \in Role : WF_vars(SaveOpen(r, k) \/ SaveRename(r, k) \/ SaveSync(r, k))
    /\ WF_vars(StopReportTask(r))
    /\ WF_vars(\E how \in {"drained", "cut"} : StopInbound(r, how))
    /\ WF_vars(BeginFlush(r) \/ FlushTimeout(r) \/ Close(r))

-----------------------------------------------------------------------------
(* Safety.                                                                 *)

\* The type invariant of the ledger.
TypeOK ==
    /\ mode \in [Runner -> Mode]
    /\ inbound \in [Runner -> {"serving", "drained", "cut"}]
    /\ reporting \in [Runner -> BOOLEAN]
    /\ pc \in [Runner -> {"idle", "persist", "post", "fallback", "confirm"}]
    /\ batch \in [Runner -> SUBSET Chunk]
    /\ attempt \in [Runner -> 0..MaxAttempts]
    /\ verdict \in [Runner -> {"none", "clean", "unacknowledged", "timeout"}]
    /\ buffer \in [Runner -> SUBSET Chunk]
    /\ save \in [Runner -> [Role -> Phase]]
    /\ snap \in [Runner -> [Role -> SUBSET Chunk]]
    /\ file \in Contents
    /\ durable \in Contents
    /\ lock \in Runner \cup {NoRunner}
    /\ applied \in [Runner -> BOOLEAN]
    /\ stray \in SUBSET (SUBSET Chunk)
    /\ credited \in SUBSET Chunk
    /\ got \in [Runner -> SUBSET Chunk]
    /\ received \in SUBSET Chunk
    /\ secured \in SUBSET Chunk
    /\ sends \in [Chunk -> Nat]
    /\ faults \in Nat

\* While report_data waits for a save or for the panel, the items it will
\* subtract are still part of the counters: `pending.0 -= item.u` of the
\* acknowledgement never underflows a u64, whatever on_traffic, a deadline or
\* a restart did in between.
AckFitsCounter ==
    \A r \in Runner :
        pc[r] \in {"persist", "post", "fallback"} => batch[r] \subseteq buffer[r]

\* Traffic stays in the buffer of the process that accounted or restored it
\* until the panel has counted it: a failed report keeps its data pending.
PendingUntilCredited ==
    \A r \in Runner :
        Bytes(got[r]) \ credited \subseteq buffer[r]

\* Traffic covered by a save_pending that returned Ok survives every crash:
\* the store can always be parsed and it still holds all of that traffic the
\* panel has not counted, with and without the last unsynced rename.
SecuredSurvives ==
    \A f \in {file, durable} :
        f.whole /\ Bytes(secured) \ credited \subseteq f.pending

\* Billing is at least once, and every repetition is paid for: a chunk is
\* posted again only after a failed reply, an aborted report, a failed save
\* or a crash, and each of these repeats it at most once.
ResendsPaid ==
    \A c \in Chunk : sends[c] <= 1 + faults

\* A shutdown that drained the inbound and whose final save returned Ok leaves
\* nothing behind in memory only.
CleanStopKeepsAll ==
    \A r \in Runner :
        mode[r] = "done" /\ inbound[r] = "drained" /\ save[r]["final"] = "ok"
        => Bytes(got[r]) \subseteq credited \cup secured

\* The error "Shutdown ended with unacknowledged pending traffic", when it is
\* not the timeout's, is logged only if bytes are pending.
VerdictMeansPending ==
    \A r \in Runner :
        verdict[r] = "unacknowledged" /\ mode[r] # "gone" => Bytes(buffer[r]) # {}

\* A shutdown that drained the inbound and logged no error had all its traffic
\* counted by the panel.
SilentStopMeansCredited ==
    \A r \in Runner :
        verdict[r] = "clean" /\ inbound[r] = "drained" => Bytes(got[r]) \subseteq credited

\* What a shutdown says of the traffic is true: a drained and saved one leaves
\* nothing in memory only, its error means that bytes are pending and its
\* silence that all of them were counted.
StopVerdict == CleanStopKeepsAll /\ VerdictMeansPending /\ SilentStopMeansCredited

-----------------------------------------------------------------------------
(* Liveness.                                                               *)

\* A runner told to stop does return, or its process ends: the abort of the
\* report task, the deadline of the inbound, the bounded flush and the final
\* save all come to an end.
ShutdownReturns ==
    \A r \in Runner : []<>(mode[r] \notin {"stopping", "flushing", "closing"})

\* Pending traffic of a runner that keeps running is counted by the panel in
\* the end, however many of the (finitely many) reports and saves fail.
PendingIsCredited ==
    \A r \in Runner : \A c \in Bytes(Chunk) :
        mode[r] = "running" /\ c \in buffer[r] ~> c \in credited \/ mode[r] # "running"

-----------------------------------------------------------------------------
(* What the ledger promises: AtLeastOnce, where the traffic in hand is     *)
(* what the store or the memory of a process holds.                        *)

Held == Bytes(file.pending) \cup UNION {Bytes(buffer[r]) : r \in Runner}
Epoch == <<{r \in Runner : mode[r] = "gone"}, faults>>

Promise == INSTANCE AtLeastOnce WITH
    Traffic <- Bytes(Chunk),
    accounted <- Bytes(received),
    held <- Held,
    saved <- Bytes(secured),
    counted <- Bytes(credited),
    epoch <- Epoch

\* Every step of the ledger is a step of AtLeastOnce: only the end of a
\* process or a fault loses traffic, and never traffic a successful save had
\* covered and the panel had not counted.
KeepsPromise == Promise!Spec
=============================================================================
