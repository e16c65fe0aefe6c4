------------------------------ MODULE ProxyMux ------------------------------
(***************************************************************************)
(* The multiplexers of VLESS and of the Shadowsocks plugins, over the loop *)
(* and the writer of MuxSession.                                           *)
(***************************************************************************)
EXTENDS MuxSession

-----------------------------------------------------------------------------
(* src/protocol/vless/mux.rs: reader and writer in one select; the stream  *)
(* tasks are detached and share one TrafficGuard, which reports when its   *)
(* last holder drops it.                                                   *)

\* New: an address that does not parse or a blocked target is answered with
\* End; otherwise the payload is counted and a task spawned.  An id in use is
\* simply taken over, and its old task loses its channel.
VlessNew(i) ==
    \/ Handled(1) /\ UNCHANGED <<table, task, stats>>
    \/ \E t \in Tasks, d \in 0..1 :
         /\ Handled(0) /\ Spawn(t, i, "dial", d)
         /\ stats' = [stats EXCEPT ![t].owed = d, ![t].excess = d]

\* Variant with a defect: data for a stream counts when its task has written it.
VlessKeepUncounted(i) ==
    IF table[i].st = "active"
    THEN Pushing(table[i].t) /\ UNCHANGED <<table, task>>
    ELSE Handled(1) /\ UNCHANGED <<table, task, stats>>

\* Keep: data is counted, then pushed, or lost when the task is over (the entry
\* stays until the client's End); an unknown id is answered with End.
VlessKeep(i) ==
    IF table[i].st = "dead"
    THEN /\ Handled(0) /\ stats' = [stats EXCEPT ![table[i].t].unpaid = TRUE]
         /\ UNCHANGED <<table, task>>
    ELSE IF table[i].st = "active"
    THEN /\ LET t == table[i].t IN
              /\ LoopSet([loop EXCEPT !.pc = "push", !.t = t])
              /\ stats' = IF task[t].up
                          THEN [stats EXCEPT ![t].owed = @ + 1, ![t].excess = @ + 1]
                          ELSE stats
         /\ UNCHANGED <<table, task>>
    ELSE Handled(1) /\ UNCHANGED <<table, task, stats>>

VlessFrame ==
    /\ Reading
    /\ \/ \E i \in Ids : VlessNew(i) \/ VlessKeep(i)
       \/ \E i \in Ids : /\ Handled(0) /\ table' = [table EXCEPT ![i] = NoEntry]
                         /\ UNCHANGED <<task, stats>>
       \/ Handled(1) /\ UNCHANGED <<table, task, stats>>
    /\ UNCHANGED <<kind, outq, writer>>

\* The reader ends, or the writer fails: both are dropped with what they hold,
\* and so are the senders of the table.
VlessEnd ==
    /\ loop.pc = "ending" \/ (writer = "write" /\ loop.pc # "over")
    /\ LoopSet([LoopInit EXCEPT !.pc = "over"])
    /\ table' = [i \in Ids |-> NoEntry] /\ writer' = "gone" /\ outq' = 0
    /\ UNCHANGED <<kind, task, stats>>

\* The dial, which may fail; the first payload is then the first to be written.
VlessDial(t) ==
    /\ Free(t, "dial")
    /\ Stage(t, "relay", 0) \/ Stage(t, "quit", 1)
    /\ UNCHANGED <<kind, loop, table, outq, writer, stats>>

\* The two halves run in a select: the first to end drops the other.
VlessUp(t) ==
    /\ Free(t, "relay")
    /\ \/ /\ task[t].q > 0 /\ task' = [task EXCEPT ![t].q = @ - 1]
          /\ Wrote(t, 1, 0)
       \/ /\ UpEnd(t)
          /\ task' = [task EXCEPT ![t].pc = "quit", ![t].up = FALSE, ![t].todo = 1]
    /\ UNCHANGED <<kind, loop, table, outq, writer>>
VlessDown(t) ==
    /\ Free(t, "relay")
    /\ \/ writer # "gone" /\ Send /\ UNCHANGED <<task, stats>>
       \/ /\ task' = [task EXCEPT ![t].pc = "quit", ![t].up = FALSE, ![t].todo = 1]
          /\ UNCHANGED <<outq, stats>>
    /\ UNCHANGED <<kind, loop, table, writer>>

\* The task is over; the last holder of the guard reports.
VlessDone(t) ==
    /\ Free(t, "quit") /\ Over(t) /\ stats' = [stats EXCEPT ![t] = Paid(t, FALSE)]
    /\ table' = [i \in Ids |-> IF table[i].t = t THEN [table[i] EXCEPT !.st = "dead"] ELSE table[i]]
    /\ UNCHANGED <<kind, loop, outq, writer>>
VlessReport ==
    /\ loop.pc = "over" /\ \A t \in Tasks : ~Live(t)
    /\ stats' = [t \in Tasks |-> [stats[t] EXCEPT !.unpaid = FALSE]]
    /\ UNCHANGED <<kind, loop, table, task, outq, writer>>

\* A UDP stream and a TCP stream go through the same stages.
VlessWork(t) == VlessDial(t) \/ VlessUp(t) \/ VlessDown(t)
                \/ VlessDone(t) \/ TaskReply(t)
VlessMuxNext ==
    /\ kind = "vless"
    /\ \/ VlessFrame \/ VlessEnd \/ VlessReport
       \/ LoopReply \/ LoopPush \/ LoopEof \/ WriterTake \/ WriterDone
       \/ \E t \in Tasks : VlessWork(t)

-----------------------------------------------------------------------------
(* src/protocol/shadowsocks/mux.rs: smux v1 and the VMess mux of the       *)
(* plugins.  Every stream is a task of a JoinSet that bridges its frames   *)
(* to a handler; the session ends by cancelling the tasks and joining them *)
(* all.                                                                    *)

\* New on an id in use, or past the limit, ends the session.
SsNew(i) ==
    IF Cardinality(Entries) >= MaxStreams \/ table[i].st # "none"
    THEN LoopSet([loop EXCEPT !.pc = "ending"]) /\ UNCHANGED <<table, task, stats>>
    ELSE \E t \in Tasks :
           /\ Spawn(t, i, "relay", 0)
           /\ \/ Handled(0) /\ UNCHANGED stats
              \/ /\ LoopSet([loop EXCEPT !.pc = "push", !.t = t])
                 /\ stats' = [stats EXCEPT ![t].owed = 1]

\* Data: pushed while the stream takes input, ignored once the client has
\* ended it, answered with End when the id is unknown.
SsData(i) ==
    /\ \/ table[i].st = "active" /\ Pushing(table[i].t)
       \/ table[i].st = "closed" /\ Handled(0) /\ UNCHANGED stats
       \/ table[i].st = "none" /\ Handled(1) /\ UNCHANGED stats
    /\ UNCHANGED <<table, task>>

\* Variant with a defect: the entry goes with the client's End, not with the task.
SsEndForgets(i, reset) ==
    /\ table[i].st # "none" /\ Handled(0)
    /\ table' = [table EXCEPT ![i] = NoEntry]
    /\ UNCHANGED <<task, stats>>

\* End: the stream's input is closed; with the error option it is cancelled.
SsEnd(i, reset) ==
    /\ table[i].st # "none" /\ Handled(0)
    /\ table' = [table EXCEPT ![i].st = "closed"]
    /\ task' = [task EXCEPT ![table[i].t].stop = @ \/ reset]
    /\ UNCHANGED stats

\* A frame, the keepalive tick, or (60 s without a frame) the idle timeout.
SsFrame ==
    /\ Reading
    /\ \/ \E i \in Ids : SsNew(i) \/ SsData(i) \/ \E reset \in BOOLEAN : SsEnd(i, reset)
       \/ Handled(1) /\ UNCHANGED <<table, task, stats>>
    /\ UNCHANGED <<kind, outq, writer>>

\* A stream that takes no data for 60 s ends the session.
SsStall ==
    /\ loop.pc = "push" /\ LoopSet([loop EXCEPT !.pc = "ending", !.t = None])
    /\ UNCHANGED <<kind, table, task, outq, writer, stats>>

\* join_next: only now is the entry removed.
SsJoin(t) ==
    /\ Reading /\ task[t].pc = "ended" /\ \E i \in Ids : table[i].t = t
    /\ table' = [i \in Ids |-> IF table[i].t = t THEN NoEntry ELSE table[i]]
    /\ UNCHANGED <<kind, loop, task, outq, writer, stats>>

\* The token, a failed write, or the end of receive: the writer is dropped,
\* every task cancelled, and all of them joined.
SsStop ==
    /\ loop.pc \in {"read", "push", "ending"}
    /\ LoopSet([loop EXCEPT !.pc = "join", !.todo = 0, !.t = None, !.cancel = TRUE])
    /\ writer' = "gone" /\ outq' = 0
    /\ UNCHANGED <<kind, table, task, stats>>
SsOver ==
    /\ loop.pc = "join" /\ \A t \in Tasks : ~Live(t)
    /\ LoopSet([loop EXCEPT !.pc = "over"])
    /\ UNCHANGED <<kind, table, task, outq, writer, stats>>

\* The bridge: client data to the handler, the handler's output to frames.
\* When the handler returns, what it has written is still sent.
SsUp(t) ==
    /\ task[t].pc = "relay" /\ task[t].up
    /\ \/ /\ task[t].q > 0 /\ task' = [task EXCEPT ![t].q = @ - 1] /\ Wrote(t, 1, 1)
       \/ UpEnd(t) /\ task' = [task EXCEPT ![t].up = FALSE]
    /\ UNCHANGED <<kind, loop, table, outq, writer>>
SsDown(t) ==
    /\ Free(t, "relay") /\ writer # "gone" /\ Send
    /\ UNCHANGED <<kind, loop, table, task, writer, stats>>
SsHandled(t) ==
    /\ Free(t, "relay")
    /\ task' = [task EXCEPT ![t].pc = "quit", ![t].up = FALSE,
                            ![t].todo = 1]
    /\ UNCHANGED <<kind, loop, table, outq, writer, stats>>
SsDone(t) ==
    /\ Free(t, "quit") /\ Over(t)
    /\ stats' = [stats EXCEPT ![t] = NoStats]
    /\ UNCHANGED <<kind, loop, table, outq, writer>>

\* Cancelled: the bridge and its handler are dropped, also while the last
\* frame waits for room.
SsCancelled(t) ==
    /\ Live(t) /\ (task[t].stop \/ loop.cancel) /\ Over(t)
    /\ stats' = [stats EXCEPT ![t] = NoStats]
    /\ UNCHANGED <<kind, loop, table, outq, writer>>

SsWork(t) == SsUp(t) \/ SsDown(t) \/ SsHandled(t) \/ SsDone(t) \/ SsCancelled(t)
             \/ TaskReply(t) \/ SsJoin(t)
SsMuxNext ==
    /\ kind = "ss"
    /\ \/ SsFrame \/ SsStall \/ SsStop \/ SsOver \/ LoopReply \/ LoopPush \/ LoopEof
       \/ WriterTake \/ WriterDone
       \/ \E t \in Tasks : SsWork(t)
=============================================================================
