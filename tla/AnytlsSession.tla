---------------------------- MODULE AnytlsSession ---------------------------
(* src/protocol/anytls/{session,stream,uot}.rs: handle_anytls_session, its   *)
(* writer task, and the TCP and UDP-over-TCP stream workers.                 *)
EXTENDS MuxSession

\* SESSION_IDLE_TIMEOUT in ms, and what the tick computes as the time since
\* the last activity: the age of an Instant taken just now, minus the age,
\* when it was taken, of the Instant of the last activity.
IdleTimeout == 30000
SinceActivity == 0 - 0

\* Every five seconds the tick wins the select against the read of a header:
\* the session ends if it has been idle for too long.  A read_exact dropped
\* inside a header takes the bytes it had read with it; the frames that follow
\* are then read out of step, so any frame may follow any other here, and a
\* chunk counts as sent when the loop reads it.
AnytlsTick ==
    /\ Reading
    /\ IF Entries = {} /\ SinceActivity > IdleTimeout
       THEN LoopSet([loop EXCEPT !.pc = "ending"])
       ELSE UNCHANGED loop
    /\ UNCHANGED <<kind, table, task, outq, writer, stats>>

\* The inbound cancels the session; the loop sees it at its next select.
AnytlsStop ==
    /\ loop.pc \in {"read", "push"} /\ ~loop.cancel /\ LoopSet([loop EXCEPT !.cancel = TRUE])
    /\ UNCHANGED <<kind, table, task, outq, writer, stats>>

\* Replies: an update when the padding schemes differ, settings for version 2.
\* A client sends them once.
AnytlsSettings ==
    /\ loop.version = 0
    /\ \E v \in 1..2, n \in 0..1 :
         LoopSet([loop EXCEPT !.version = v, !.todo = n + v - 1])
    /\ UNCHANGED <<table, task, stats>>

AnytlsSyn(i) ==
    /\ IF loop.version = 0 \/ i <= loop.last
       THEN /\ LoopSet([loop EXCEPT !.pc = "ending", !.todo = 1])
            /\ UNCHANGED table
       ELSE LET full == Cardinality(Entries) >= MaxStreams IN
            /\ LoopSet([loop EXCEPT !.last = i, !.todo = IF full THEN 1 ELSE 0])
            /\ table' = IF full THEN table ELSE [table EXCEPT ![i].st = "waiting"]
    /\ UNCHANGED <<task, stats>>

\* The first PSH of a stream names the target, and what follows is payload;
\* later ones are data; those of an unknown stream are ignored.
AnytlsPsh(i) ==
    \/ /\ table[i].st = "waiting" /\ Handled(0)
       /\ \E t \in Tasks, d \in 0..1, pc \in {"head", "dial"} :
            /\ Spawn(t, i, pc, d)
            /\ stats' = [stats EXCEPT ![t].owed = d]
    \/ /\ table[i].st = "waiting"
       /\ Handled(loop.version)
       /\ table' = [table EXCEPT ![i] = NoEntry] /\ UNCHANGED <<task, stats>>
    \/ table[i].st = "active" /\ Pushing(table[i].t) /\ UNCHANGED <<table, task>>
    \/ table[i].st = "none" /\ Handled(0) /\ UNCHANGED <<table, task, stats>>

AnytlsFin(i) ==
    /\ Handled(0) /\ table' = [table EXCEPT ![i] = NoEntry] /\ UNCHANGED <<task, stats>>

AnytlsFrame ==
    /\ Reading
    /\ \/ AnytlsSettings
       \/ \E i \in Ids : AnytlsSyn(i) \/ AnytlsPsh(i) \/ AnytlsFin(i)
       \/ Handled(1) /\ UNCHANGED <<table, task, stats>>
    /\ UNCHANGED <<kind, outq, writer>>

\* The loop is left: the token is cancelled and every worker aborted where it
\* stands, its totals unreported; then the writer is joined.
AnytlsEnd ==
    /\ \/ loop.pc = "ending" /\ loop.todo = 0
       \/ Reading /\ loop.cancel
    /\ LoopSet([loop EXCEPT !.pc = "join", !.cancel = TRUE])
    /\ task' = [t \in Tasks |-> IF Live(t) THEN [NoTask EXCEPT !.pc = "ended"] ELSE task[t]]
    /\ stats' = [t \in Tasks |-> IF Live(t) THEN Paid(t, FALSE) ELSE stats[t]]
    /\ table' = [i \in Ids |-> NoEntry]
    /\ UNCHANGED <<kind, outq, writer>>
AnytlsJoin ==
    /\ loop.pc = "join" /\ writer = "gone" /\ LoopSet([loop EXCEPT !.pc = "over"])
    /\ UNCHANGED <<kind, table, task, outq, writer, stats>>

\* Variant with a defect: the writer does not watch the token.
AnytlsWriterDeaf ==
    /\ writer = "write" /\ writer' = "gone" /\ outq' = 0
    /\ UNCHANGED <<kind, loop, table, task, stats>>

\* The writer fails, or finds the token cancelled between two frames.
AnytlsWriterStop ==
    /\ writer = "write" \/ (writer = "idle" /\ loop.cancel)
    /\ writer' = "gone" /\ outq' = 0
    /\ UNCHANGED <<kind, loop, table, task, stats>>

-----------------------------------------------------------------------------
\* SYNACK is for clients of version 2.
Ack == loop.version - 1

\* UDP over TCP: more chunks are needed before the address is complete.
UotHead(t) ==
    /\ Free(t, "head")
    /\ \/ Stage(t, "dial", 0) /\ UNCHANGED stats
       \/ /\ task[t].q > 0 /\ task' = [task EXCEPT ![t].q = @ - 1]
          /\ Wrote(t, 1, 1)
       \/ /\ loop.cancel \/ (task[t].q = 0 /\ Closed(t))
          /\ Stage(t, "quit", 0) /\ UNCHANGED stats
    /\ UNCHANGED <<kind, loop, table, outq, writer>>

\* Audit, route, dial.
AnytlsDial(t) ==
    /\ Free(t, "dial")
    /\ \/ task' = [task EXCEPT ![t].pc = "relay", ![t].todo = Ack, ![t].down = TRUE]
       \/ Stage(t, "quit", Ack + 1)
    /\ UNCHANGED <<kind, loop, table, outq, writer, stats>>

\* Variant with a defect: the worker stops at the end of the channel, whatever is in it.
AnytlsUpHasty(t) ==
    /\ Free(t, "relay") /\ task[t].up /\ Closed(t)
    /\ task' = [task EXCEPT ![t].up = FALSE, ![t].q = 0]
    /\ stats' = [stats EXCEPT ![t].clean = (loop.pc # "over")]
    /\ UNCHANGED <<kind, loop, table, outq, writer>>

\* Upstream (after SYNACK), the payload that came with the address first: a
\* chunk is written, or the write fails and stops both halves; the
\* token, or the end of the channel, ends this half.
AnytlsUp(t) ==
    /\ task[t].pc = "relay" /\ task[t].up /\ (task[t].todo = 0 \/ ~task[t].down)
    /\ \/ /\ task[t].q > 0 /\ task' = [task EXCEPT ![t].q = @ - 1] /\ Wrote(t, 1, 1)
       \/ /\ task[t].q > 0 /\ task' = [task EXCEPT ![t].up = FALSE, ![t].stop = TRUE]
          /\ UNCHANGED stats
       \/ /\ loop.cancel \/ task[t].stop
          /\ task' = [task EXCEPT ![t].up = FALSE] /\ UNCHANGED stats
       \/ UpEnd(t) /\ task' = [task EXCEPT ![t].up = FALSE]
    /\ UNCHANGED <<kind, loop, table, outq, writer>>

\* Downstream: a chunk is queued and counted; a writer that is gone stops both
\* halves; the end of the target (for UDP also an empty datagram) or the token
\* ends this half, which then sends FIN.
AnytlsDown(t) ==
    /\ Free(t, "relay") /\ task[t].down
    /\ \/ writer # "gone" /\ Send /\ UNCHANGED <<task, stats>>
       \/ /\ writer = "gone" /\ UNCHANGED <<outq, stats>>
          /\ task' = [task EXCEPT ![t].down = FALSE, ![t].stop = TRUE, ![t].todo = 1]
       \/ /\ task' = [task EXCEPT ![t].down = FALSE, ![t].todo = 1]
          /\ UNCHANGED <<outq, stats>>
    /\ UNCHANGED <<kind, loop, table, writer>>

\* Both halves are over: the traffic is reported, the entry removed.
AnytlsDone(t) ==
    /\ Free(t, "quit") \/ (Free(t, "relay") /\ ~task[t].up /\ ~task[t].down)
    /\ Over(t)
    /\ table' = [i \in Ids |-> IF table[i].t = t THEN NoEntry ELSE table[i]]
    /\ stats' = [stats EXCEPT ![t] = Paid(t, TRUE)]
    /\ UNCHANGED <<kind, loop, outq, writer>>

\* The stages of a worker; once it has its address the UDP-over-TCP worker
\* goes through the same ones.
AnytlsWork(t) == UotHead(t) \/ AnytlsDial(t) \/ AnytlsUp(t)
                 \/ AnytlsDown(t) \/ AnytlsDone(t) \/ TaskReply(t)

AnytlsSessionNext ==
    /\ kind = "anytls"
    /\ \/ AnytlsTick \/ AnytlsStop \/ AnytlsFrame \/ AnytlsEnd \/ AnytlsJoin
       \/ LoopReply \/ LoopPush \/ LoopEof
       \/ AnytlsWriterStop \/ WriterTake \/ WriterDone
       \/ \E t \in Tasks : AnytlsWork(t)
=============================================================================
