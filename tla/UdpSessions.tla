---------------------------- MODULE UdpSessions -----------------------------
(***************************************************************************)
(* What the UDP relays with a session per target share: a table from        *)
(* targets to the queue of a worker, workers that own an outbound socket,   *)
(* and the channel that carries answers back.  Trojan and SOCKS5 keep one   *)
(* table per association, Shadowsocks one per inbound.                      *)
(*                                                                          *)
(* Abstractions: a datagram is a unit; the sockets may answer or fail       *)
(* either way; the throttle is part of the send it precedes.                *)
(***************************************************************************)
EXTENDS Naturals, FiniteSets

CONSTANTS
    Targets,        \* targets a client may name
    Workers,        \* worker slots, numbered
    MaxSessions,    \* 1024 for Trojan, 4096 for Shadowsocks; SOCKS5 has none
    QueueCap,       \* requests a worker's channel holds (128 or 256)
    AnswerCap,      \* answers the shared channel holds (256)
    Packets,        \* datagrams the client, and the targets, send in a run
    Nobody          \* no worker, no target

ASSUME UdpAssumption ==
    /\ IsFiniteSet(Targets) /\ IsFiniteSet(Workers)
    /\ Nobody \notin Targets \cup Workers
    /\ MaxSessions \in Nat

VARIABLES
    udp,        \* the kind, "none" when this part is not exercised
    assoc,      \* "open", "closing" (token cancelled) or "closed"
    reader,     \* the loop that reads the client's datagrams
    entry,      \* the session table
    worker,     \* the workers
    answers,    \* datagrams in the shared answer channel
    tally,      \* the totals Trojan keeps, and the ones it reports at the end
    feed,       \* datagrams the client and the targets may still send
    listed      \* the client's user is in the user list

udpVars == <<udp, assoc, reader, entry, worker, answers, tally, feed, listed>>

NoWorker == [st |-> "free", key |-> Nobody, q |-> 0, cancel |-> FALSE]

UdpInit(k) ==
    /\ udp = k /\ assoc = "open"
    /\ reader = [pc |-> "read", key |-> Nobody]
    /\ entry = [k2 \in Targets |-> Nobody]
    /\ worker = [w \in Workers |-> NoWorker]
    /\ answers = 0
    /\ tally = [seen |-> 0, given |-> 0, total |-> <<0, 0>>]
    /\ feed = [client |-> Packets, target |-> Packets]
    /\ listed = TRUE

Alive == {w \in Workers : worker[w].st \notin {"free", "ended"}}
Sessions == {k \in Targets : entry[k] # Nobody}
\* Sender::is_closed: the worker dropped its receiver.
IsClosed(k) == entry[k] # Nobody /\ worker[entry[k]].st = "ended"
Reading(pc) == assoc = "open" /\ reader.pc = pc
Takes == feed' = [feed EXCEPT !.client = @ - 1]
Put(w, r) == worker' = [worker EXCEPT ![w] = r]
\* The slots are interchangeable: the lowest free one is used.
Free(w) == worker[w].st = "free" /\ \A v \in Workers : v < w => worker[v].st # "free"

\* The slots whose entries are dropped are free again once their worker ended.
Cleared(gone) ==
    [w \in Workers |-> IF w \in gone /\ worker[w].st = "ended" THEN NoWorker ELSE worker[w]]

\* A new worker for k; the entry of a worker that ended is replaced.
Enlist(w, k, st, q) ==
    /\ worker' = [Cleared({entry[k]}) EXCEPT
                     ![w] = [NoWorker EXCEPT !.st = st, !.key = k, !.q = q]]
    /\ entry' = [entry EXCEPT ![k] = w]

\* try_send: a full queue drops the datagram.
TrySend(w) ==
    Put(w, [worker[w] EXCEPT !.q = IF @ < QueueCap THEN @ + 1 ELSE @])

\* The worker takes a request and sends it; SOCKS5 and Shadowsocks report it
\* there and then, and outlive a failed send.
Request(w) ==
    /\ worker[w].st = "wait" /\ worker[w].q > 0
    /\ Put(w, [worker[w] EXCEPT !.q = @ - 1])
    /\ UNCHANGED <<udp, assoc, reader, entry, answers, tally, feed, listed>>

\* A datagram from the target.
Answer(w) ==
    /\ worker[w].st = "wait" /\ feed.target > 0
    /\ Put(w, [worker[w] EXCEPT !.st = "reply"])
    /\ feed' = [feed EXCEPT !.target = @ - 1]
    /\ UNCHANGED <<udp, assoc, reader, entry, answers, tally, listed>>

\* The answer enters the shared channel once it has room.
Push(w) ==
    /\ worker[w].st = "reply" /\ assoc = "open" /\ answers < AnswerCap
    /\ Put(w, [worker[w] EXCEPT !.st = "wait"])
    /\ answers' = answers + 1
    /\ UNCHANGED <<udp, assoc, reader, entry, tally, feed, listed>>

\* The worker returns; its entry, if it still has one, is a closed sender.
End(w, stages) ==
    /\ worker[w].st \in stages
    /\ Put(w, IF w \in {entry[k] : k \in Targets}
              THEN [NoWorker EXCEPT !.st = "ended", !.key = worker[w].key] ELSE NoWorker)
    /\ UNCHANGED <<udp, assoc, reader, entry, answers, tally, feed, listed>>

-----------------------------------------------------------------------------
\* handle_trojan_udp: a read task and a write task raced by select!, with a
\* detached worker per target.

\* The association is over: the table and the answer channel are dropped.
\* The total of the task that lost the race, or of both when the handler is
\* aborted, is dropped with it.
TrojanOver(up, down) ==
    /\ assoc' = "closed" /\ answers' = 0
    /\ tally' = [tally EXCEPT !.total = <<up, down>>]
    /\ entry' = [k \in Targets |-> Nobody]
    /\ worker' = [w \in Workers |->
                     IF worker[w].st = "ended" THEN NoWorker ELSE [worker[w] EXCEPT !.cancel = TRUE]]
    /\ UNCHANGED <<udp, reader, feed, listed>>

\* Variant with a defect: the limit is not enforced.
TrojanUnlimited == FALSE
\* 1024 sessions that are all in use.
TrojanFull == Cardinality({k \in Sessions : ~IsClosed(k)}) >= MaxSessions

\* One framed datagram: to its session, or, for a new target, to the dial.  A
\* full table is swept of closed senders first.
TrojanPacket(k) ==
    /\ Reading("read") /\ feed.client > 0 /\ Takes
    /\ IF entry[k] # Nobody /\ ~IsClosed(k)
       THEN /\ TrySend(entry[k])
            /\ tally' = [tally EXCEPT !.seen = @ + 1]
            /\ UNCHANGED <<reader, entry>>
       ELSE LET gone == IF Cardinality(Sessions) >= MaxSessions
                        THEN {s \in Sessions : IsClosed(s)} ELSE {}
            IN  /\ entry' = [s \in Targets |-> IF s \in gone THEN Nobody ELSE entry[s]]
                /\ worker' = Cleared({entry[s] : s \in gone})
                /\ reader' = IF TrojanFull THEN reader ELSE [pc |-> "dial", key |-> k]
                /\ UNCHANGED tally
    /\ UNCHANGED <<udp, assoc, answers, listed>>

\* match_outbound and dial_udp_outbound, awaited by the read task; a failed
\* dial drops the datagram, a new session replaces a closed one.
TrojanDial ==
    /\ Reading("dial") /\ reader' = [pc |-> "read", key |-> Nobody]
    /\ \/ \E w \in Workers :
            /\ Free(w) /\ Enlist(w, reader.key, "wait", 1)
            /\ tally' = [tally EXCEPT !.seen = @ + 1]
       \/ UNCHANGED <<worker, entry, tally>>
    /\ UNCHANGED <<udp, assoc, answers, feed, listed>>

\* The read task breaks: end of stream, 60 s without a datagram, a bad frame.
TrojanReadEnds == Reading("read") /\ TrojanOver(tally.seen, 0)

\* The write task delivers an answer, or fails and wins the race.
TrojanWrite ==
    /\ assoc = "open" /\ answers > 0
    /\ \/ /\ answers' = answers - 1
          /\ tally' = [tally EXCEPT !.given = @ + 1]
          /\ UNCHANGED <<udp, assoc, reader, entry, worker, feed, listed>>
       \/ TrojanOver(0, tally.given)

TrojanAbort == assoc = "open" /\ TrojanOver(0, 0)

\* Variant with a defect: a worker waits for its target only.
TrojanEndDeaf(w) == assoc = "open" /\ End(w, {"wait"})
\* The worker ends on its token or the drop of its sender, on a socket error or
\* 60 s without an answer, and when nobody takes its answer any more.
TrojanEnd(w) == End(w, IF assoc = "open" THEN {"wait"} ELSE {"wait", "reply"})

TrojanUdpNext ==
    /\ udp = "trojan"
    /\ \/ \E k \in Targets : TrojanPacket(k)
       \/ TrojanDial \/ TrojanReadEnds \/ TrojanWrite \/ TrojanAbort
       \/ \E w \in Workers :
            Request(w) \/ Answer(w) \/ Push(w) \/ TrojanEnd(w)

-----------------------------------------------------------------------------
\* handle_socks5_udp_associate: the association lives as long as its TCP
\* stream; a task reads the UDP socket and owns the workers, another
\* returns the answers.

\* The reading task joins a worker that ended and removes its entry, unless
\* the entry is another worker's.  The select is biased: this comes before the
\* next datagram.
SocksReap(w) ==
    /\ Reading("read") /\ worker[w].st = "ended"
    /\ Put(w, NoWorker)
    /\ entry' = [k \in Targets |-> IF entry[k] = w THEN Nobody ELSE entry[k]]
    /\ UNCHANGED <<udp, assoc, reader, answers, tally, feed, listed>>

\* A datagram from the client's address (the first one pins the port), with a
\* target the audit lets pass.
SocksPacket(k) ==
    /\ Reading("read") /\ feed.client > 0 /\ Takes
    /\ \A w \in Workers : worker[w].st # "ended"
    /\ reader' = [pc |-> IF entry[k] = Nobody THEN "dial" ELSE "push", key |-> k]
    /\ UNCHANGED <<udp, assoc, entry, worker, answers, tally, listed>>

\* The dial, awaited by the reading task.
SocksDial ==
    /\ Reading("dial")
    /\ \/ /\ \E w \in Workers : Free(w) /\ Enlist(w, reader.key, "wait", 0)
          /\ reader' = [reader EXCEPT !.pc = "push"]
       \/ /\ reader' = [pc |-> "read", key |-> Nobody]
          /\ UNCHANGED <<worker, entry>>
    /\ UNCHANGED <<udp, assoc, answers, tally, feed, listed>>

\* tx.send waits for room; a worker that ended in the meantime loses it.
SocksPush ==
    /\ Reading("push") /\ reader' = [pc |-> "read", key |-> Nobody]
    /\ LET w == entry[reader.key] IN
         IF worker[w].st = "ended" THEN UNCHANGED worker
         ELSE worker[w].q < QueueCap /\ TrySend(w)
    /\ UNCHANGED <<udp, assoc, entry, answers, tally, feed, listed>>

\* The returning task: an answer is reported when send_to succeeded.
SocksReturn ==
    /\ assoc = "open" /\ answers > 0 /\ answers' = answers - 1
    /\ UNCHANGED <<udp, assoc, reader, entry, worker, tally, feed, listed>>

\* The TCP stream ends, or udp_timeout passes without activity: the tasks are
\* cancelled, aborted and joined, and the workers dropped with their JoinSet.
SocksClose ==
    /\ assoc = "open" /\ assoc' = "closed" /\ answers' = 0
    /\ entry' = [k \in Targets |-> Nobody]
    /\ worker' = [w \in Workers |-> NoWorker]
    /\ UNCHANGED <<udp, reader, tally, feed, listed>>

SocksUdpNext ==
    /\ udp = "socks"
    /\ \/ \E k \in Targets : SocksPacket(k)
       \/ SocksDial \/ SocksPush \/ SocksReturn \/ SocksClose
       \/ \E w \in Workers :
            SocksReap(w) \/ Request(w) \/ Answer(w) \/ Push(w) \/ End(w, {"wait"})

-----------------------------------------------------------------------------
\* run_udp of Shadowsocks, whose workers are the UdpSession of src/conn:
\* one loop for the whole inbound, a sweep every second, a user list that
\* changes under it.

\* A datagram whose key is a listed user's: a closed session is forgotten, a
\* live one gets the payload, a full table drops it, and otherwise a worker is
\* spawned with the payload in its queue.
SsPacket(k) ==
    /\ Reading("read") /\ feed.client > 0 /\ Takes
    /\ IF ~listed THEN UNCHANGED <<worker, entry>>
       ELSE IF entry[k] # Nobody /\ ~IsClosed(k)
       THEN TrySend(entry[k]) /\ UNCHANGED entry
       ELSE IF Cardinality(Sessions \ {k}) >= MaxSessions
       THEN /\ entry' = [entry EXCEPT ![k] = Nobody]
            /\ worker' = Cleared({entry[k]})
       ELSE \E w \in Workers : Free(w) /\ Enlist(w, k, "dial", 1)
    /\ UNCHANGED <<udp, assoc, reader, answers, tally, listed>>

\* The sweep: the sessions of users no longer listed are cancelled and, like
\* the closed ones, forgotten.
SsSweep ==
    /\ assoc = "open"
    /\ LET gone == {k \in Sessions : ~listed \/ IsClosed(k)}
       IN  /\ entry' = [k \in Targets |-> IF k \in gone THEN Nobody ELSE entry[k]]
           /\ worker' = [w \in Workers |->
                 IF w \in {entry[k] : k \in gone}
                 THEN IF worker[w].st = "ended" THEN NoWorker ELSE [worker[w] EXCEPT !.cancel = TRUE]
                 ELSE worker[w]]
    /\ UNCHANGED <<udp, assoc, reader, answers, tally, feed, listed>>

\* UdpSession::connect: audit, device and connection limits, dial (10 s).
SsConnect(w) ==
    /\ worker[w].st = "dial"
    /\ Put(w, [worker[w] EXCEPT !.st = "wait"])
    /\ UNCHANGED <<udp, assoc, reader, entry, answers, tally, feed, listed>>

\* The answer is encoded and sent to the client's current address; the relay
\* hears of it by a oneshot and reports it then.  A failed send drops the
\* oneshot and the relay goes on.
SsReply(w) ==
    /\ worker[w].st = "reply"
    /\ Put(w, [worker[w] EXCEPT !.st = "wait"])
    /\ UNCHANGED <<udp, assoc, reader, entry, answers, tally, feed, listed>>

\* The token is selected on at every stage.
SsCancelled(w) == worker[w].cancel /\ worker[w].st \in {"dial", "wait", "reply"}

\* The end of a worker: its token at any stage, the idle timer while it waits
\* or answers, a refused or failed connect.
SsEnd(w) == End(w, {"dial", "wait", "reply"})

\* update_users removes the user, or lists it again.
SsUsers ==
    /\ assoc = "open" /\ listed' = ~listed
    /\ UNCHANGED <<udp, assoc, reader, entry, worker, answers, tally, feed>>

\* The inbound stops: every session is cancelled (the tokens are children of
\* its own), then joined.
SsStop ==
    /\ assoc = "open" /\ assoc' = "closing"
    /\ worker' = [w \in Workers |-> [worker[w] EXCEPT !.cancel = worker[w].st # "free"]]
    /\ UNCHANGED <<udp, reader, entry, answers, tally, feed, listed>>

SsDrained ==
    /\ assoc = "closing" /\ Alive = {} /\ assoc' = "closed"
    /\ UNCHANGED <<udp, reader, entry, worker, answers, tally, feed, listed>>

SsUdpNext ==
    /\ udp = "ss"
    /\ \/ \E k \in Targets : SsPacket(k)
       \/ SsSweep \/ SsUsers \/ SsStop \/ SsDrained
       \/ \E w \in Workers :
            SsConnect(w) \/ Request(w) \/ Answer(w) \/ SsReply(w)
            \/ SsEnd(w)
=============================================================================
