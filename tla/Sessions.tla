------------------------------ MODULE Sessions ------------------------------
(***************************************************************************)
(* The multiplexed sessions: a session is of one kind, chosen initially.    *)
(***************************************************************************)
EXTENDS AnytlsSession, ProxyMux

SessionsInit == Init /\ kind \in {"anytls", "vless", "ss"}
SessionsNext == AnytlsSessionNext \/ VlessMuxNext \/ SsMuxNext

\* The loop and the tasks are scheduled; the client goes on reading, or its
\* connection fails; targets take what is written to them (Shadowsocks does
\* not need that: it has a deadline).  Clients send, and targets answer, as
\* they please.  A waiting send is served in its turn (the semaphore of an mpsc
\* channel is a queue), hence the strong fairness of the sends.
Fairness ==
    /\ SF_vars(LoopReply) /\ WF_vars(LoopPush)
    /\ WF_vars(WriterTake) /\ WF_vars(WriterDone)
    /\ WF_vars(kind = "anytls" /\ AnytlsEnd) /\ WF_vars(kind = "anytls" /\ AnytlsJoin)
    /\ WF_vars(kind = "anytls" /\ AnytlsWriterStop)
    /\ WF_vars(kind = "anytls" /\ AnytlsTick)
    /\ WF_vars(kind = "vless" /\ VlessEnd) /\ WF_vars(kind = "vless" /\ VlessReport)
    /\ WF_vars(kind = "ss" /\ SsStall) /\ WF_vars(kind = "ss" /\ SsOver)
    /\ WF_vars(kind = "ss" /\ loop.pc = "ending" /\ SsStop)
    /\ \A t \in Tasks :
         /\ SF_vars(TaskReply(t))
         /\ WF_vars(kind = "anytls" /\ UotHead(t)) /\ WF_vars(kind = "anytls" /\ AnytlsDial(t))
         /\ WF_vars(kind = "anytls" /\ AnytlsUp(t))
         /\ WF_vars(kind = "anytls" /\ AnytlsDone(t))
         /\ WF_vars(kind = "vless" /\ VlessDial(t))
         /\ WF_vars(kind = "vless" /\ VlessUp(t)) /\ WF_vars(kind = "vless" /\ VlessDone(t))
         /\ WF_vars(kind = "ss" /\ SsCancelled(t))
SessionsSpec == SessionsInit /\ [][SessionsNext]_vars /\ Fairness

-----------------------------------------------------------------------------
\* The loop, the writer and the tasks have the expected shape and the channels
\* their bounds.
TypeOK ==
    /\ loop.pc \in {"read", "push", "ending", "join", "over"}
    /\ writer \in {"idle", "write", "gone"} /\ outq \in 0..OutCap
    /\ \A t \in Tasks : task[t].q \in 0..StreamCap /\ stats[t].owed \in Nat

\* The table never holds more streams than the limit; a stream in it that has
\* a task has a live one (Shadowsocks: one that is still to be joined, so that
\* its tasks are bounded as well).
TableBounded ==
    /\ Cardinality(Entries) <= IF kind = "vless" THEN Cardinality(Ids) ELSE MaxStreams
    /\ kind = "anytls" => \A i \in Ids : table[i].st = "active" => Live(table[i].t)
    /\ kind = "ss" => Cardinality({t \in Tasks : Live(t)}) <= MaxStreams \/ loop.cancel

\* When the client ends a stream and its task finishes the upstream in order,
\* every chunk the client sent before has been written to the target, whatever
\* was queued when the end arrived.
EndDrains ==
    \A t \in Tasks : stats[t].clean => stats[t].owed = 0

\* Traffic: AnyTLS counts exactly what it delivered, VLESS what it took in
\* charge; a task that ends by itself has reported all it counted, and only the
\* end of an AnyTLS session, which aborts its workers, loses a count.
TrafficCounted ==
    \A t \in Tasks :
        /\ kind = "anytls" => stats[t].excess = 0
        /\ kind = "vless" => stats[t].excess = stats[t].owed
        /\ kind = "anytls" /\ stats[t].unpaid => loop.cancel

\* The streams of a session stay within its limit, what was queued outlives
\* their end and what they relayed is counted.
StreamsKept == TypeOK /\ TableBounded /\ EndDrains /\ TrafficCounted

\* A receive loop that waits for room in a channel gets on: nobody waits for
\* it in a circle.
LoopGoesOn ==
    []<>(Reading \/ loop.pc = "over")

\* A session that ends comes to its end: tasks gone, VLESS traffic reported.
SessionCloses ==
    []<>(loop.pc \in {"ending", "join", "over"} =>
            /\ loop.pc = "over"
            /\ \A t \in Tasks : ~Live(t) /\ (kind = "vless" => ~stats[t].unpaid))

\* An AnyTLS session that is left with no stream and a silent client is closed
\* by the idle timeout.
IdleSessionCloses ==
    [](kind = "anytls" => <>(Entries # {} \/ loop.pc # "read"))
=============================================================================
