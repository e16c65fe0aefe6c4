------------------------------- MODULE QuicUdp ------------------------------
(***************************************************************************)
(* UDP over one QUIC connection: a table from association ids to channels,  *)
(* and a task per association with an outbound worker of its own (the       *)
(* UdpSession of src/conn; Hysteria 1 has a socket and a receiver task      *)
(* instead).  The connection is authenticated.                              *)
(*                                                                          *)
(*   hy1    a stream opens the association and gets the next id; one task   *)
(*          reads the datagrams of all of them and waits for room           *)
(*   hy2    the datagram task opens an association for an unknown id and    *)
(*          drops what does not fit; one loop per association forwards      *)
(*          requests and answers                                            *)
(*   tuic   a task per packet; requests and answers of an association have  *)
(*          a task each; the client may dissociate an id                    *)
(*                                                                          *)
(* One target per association.  A channel is the number of datagrams in it. *)
(***************************************************************************)
EXTENDS Naturals, FiniteSets

CONSTANTS
    Ids,            \* association ids, numbered
    Slots,          \* association tasks
    TableCap,       \* 2048 (Hysteria 2), 1024 (Hysteria 1)
    ChanCap,        \* 256, of every channel
    Answers,        \* datagrams the targets send in a run
    NoSlot

ASSUME QudpAssumption == Ids \subseteq Nat /\ NoSlot \notin Slots

VARIABLES
    udpq,       \* the protocol, "none" when this part is not exercised
    alive,      \* the connection's token is not cancelled
    table,      \* udp_sessions: id -> the slot whose receiver it feeds
    slot,       \* the associations
    post,       \* Hysteria 1's datagram task: the slot it waits for
    nextId,     \* Hysteria 1's counter
    supply      \* datagrams still to come from the targets

qudpVars == <<udpq, alive, table, slot, post, nextId, supply>>

FreeSlot == [st |-> "free", id |-> 0, q |-> 0, wq |-> 0, w |-> "none", resp |-> 0, left |-> FALSE]

QudpInit(k) ==
    /\ udpq = k /\ alive = TRUE /\ post = NoSlot /\ nextId = 1
    /\ table = [i \in Ids |-> NoSlot]
    /\ slot = [a \in Slots |-> FreeSlot]
    /\ supply = Answers

Known == {i \in Ids : table[i] # NoSlot}
Running == {"run", "dial", "blocked"}
Live(a) == slot[a].st \in Running \union {"closing"}
\* Sender::is_closed: the association's function has returned.
Shut(i) == table[i] # NoSlot /\ ~Live(table[i])
Set(a, r) == slot' = [slot EXCEPT ![a] = r]
Spare(a) == slot[a].st = "free" /\ \A b \in Slots : b < a => slot[b].st # "free"
Started(i, n) == [FreeSlot EXCEPT !.st = "run", !.id = i, !.q = n]

----------------------------------------------------------------------------
(* The table.                                                               *)

\* Hysteria 1: the cap is looked at and an id taken under the lock, the socket
\* is bound without it, the entry made afterwards.
Hy1Open(a) ==
    /\ alive /\ Spare(a) /\ nextId \in Ids /\ Cardinality(Known) < TableCap
    /\ Set(a, [FreeSlot EXCEPT !.st = "bind", !.id = nextId])
    /\ nextId' = nextId + 1
    /\ UNCHANGED <<udpq, alive, table, post, supply>>
Hy1Bound(a) ==
    /\ slot[a].st = "bind"
    /\ \/ Set(a, Started(slot[a].id, 0)) /\ table' = [table EXCEPT ![slot[a].id] = a]
       \/ Set(a, FreeSlot) /\ UNCHANGED table
    /\ UNCHANGED <<udpq, alive, post, nextId, supply>>

\* Hysteria 1: the datagram task waits for room in the channel of the id; an
\* unknown id is dropped.
Hy1Packet(i) ==
    /\ alive /\ post = NoSlot
    /\ post' = table[i]
    /\ UNCHANGED <<udpq, alive, table, slot, nextId, supply>>
Hy1Posted ==
    /\ post # NoSlot /\ post' = NoSlot
    /\ \/ Live(post) /\ slot[post].q < ChanCap /\ Set(post, [slot[post] EXCEPT !.q = @ + 1])
       \/ ~Live(post) /\ UNCHANGED slot
    /\ UNCHANGED <<udpq, alive, table, nextId, supply>>

\* Hysteria 2: a known id's datagram is tried on its channel; for an unknown
\* one the closed channels are forgotten if the table is full, and a full
\* table drops it.
Hy2Packet(i) ==
    /\ alive
    /\ IF table[i] # NoSlot
       THEN /\ slot' = IF Live(table[i]) /\ slot[table[i]].q < ChanCap
                       THEN [slot EXCEPT ![table[i]].q = @ + 1] ELSE slot
            /\ UNCHANGED table
       ELSE LET kept == IF Cardinality(Known) >= TableCap
                        THEN [j \in Ids |-> IF Shut(j) THEN NoSlot ELSE table[j]] ELSE table
            IN  IF Cardinality({j \in Ids : kept[j] # NoSlot}) >= TableCap
                THEN table' = kept /\ UNCHANGED slot
                ELSE \E a \in Slots : Spare(a) /\ Set(a, Started(i, 1)) /\ table' = [kept EXCEPT ![i] = a]
    /\ UNCHANGED <<udpq, alive, post, nextId, supply>>

\* TUIC: an open channel is waited for; otherwise an association is started
\* and replaces the entry.
TuicPacket(i) ==
    /\ alive
    /\ IF table[i] # NoSlot /\ ~Shut(i)
       THEN /\ slot[table[i]].q < ChanCap
            /\ Set(table[i], [slot[table[i]] EXCEPT !.q = @ + 1]) /\ UNCHANGED table
       ELSE \E a \in Slots : Spare(a) /\ Set(a, Started(i, 1)) /\ table' = [table EXCEPT ![i] = a]
    /\ UNCHANGED <<udpq, alive, post, nextId, supply>>
TuicDissociate(i) ==
    /\ alive /\ table[i] # NoSlot
    /\ table' = [table EXCEPT ![i] = NoSlot]
    /\ slot' = [slot EXCEPT ![table[i]].left = Live(table[i])]
    /\ UNCHANGED <<udpq, alive, post, nextId, supply>>

----------------------------------------------------------------------------
(* An association.                                                          *)

\* The loop takes a packet: the target is audited, routed and dialled if there
\* is no worker, then the packet enters the worker's channel or waits for room.
\* Hysteria 1 sends it itself.
TakePacket(a) ==
    /\ slot[a].st = "run" /\ slot[a].q > 0
    /\ Set(a, [slot[a] EXCEPT !.q = @ - 1,
           !.st = IF udpq = "hy1" THEN "run" ELSE IF slot[a].w = "none" THEN "dial" ELSE "blocked"])
    /\ UNCHANGED <<udpq, alive, table, post, nextId, supply>>
Dialled(a) ==
    /\ slot[a].st = "dial"
    /\ \/ Set(a, [slot[a] EXCEPT !.st = "blocked", !.w = "wait"])
       \/ Set(a, [slot[a] EXCEPT !.st = "run"])
    /\ UNCHANGED <<udpq, alive, table, post, nextId, supply>>
Forward(a) ==
    /\ slot[a].st = "blocked"
    /\ \/ slot[a].w # "none" /\ slot[a].wq < ChanCap
          /\ Set(a, [slot[a] EXCEPT !.st = "run", !.wq = @ + 1])
       \/ slot[a].w = "none" /\ Set(a, [slot[a] EXCEPT !.st = "run"])
    /\ UNCHANGED <<udpq, alive, table, post, nextId, supply>>

\* The worker: a request is sent; an answer is throttled, put in the answer
\* channel, and the worker then waits to hear that it was delivered.
WorkerSends(a) ==
    /\ slot[a].w = "wait" /\ slot[a].wq > 0
    /\ Set(a, [slot[a] EXCEPT !.wq = @ - 1])
    /\ UNCHANGED <<udpq, alive, table, post, nextId, supply>>
WorkerHears(a) ==
    /\ slot[a].w = "wait" /\ supply > 0
    /\ supply' = supply - 1
    /\ Set(a, [slot[a] EXCEPT !.w = "throttle"])
    /\ UNCHANGED <<udpq, alive, table, post, nextId>>
WorkerPushes(a) ==
    /\ slot[a].w = "throttle" /\ slot[a].resp < ChanCap
    /\ Set(a, [slot[a] EXCEPT !.w = "ack", !.resp = @ + 1])
    /\ UNCHANGED <<udpq, alive, table, post, nextId, supply>>

\* Variant with a defect: one loop forwards requests and answers, as in Hysteria 2.
AnswersInLoop(a) == slot[a].st = "run"
\* Who forwards the answers: in Hysteria 2 the loop itself, when it waits for
\* nothing else; in TUIC a task of its own.
Answering(a) == IF udpq = "hy2" THEN slot[a].st = "run" ELSE slot[a].st \in Running
\* The answer is fragmented and sent, or lost; either way the worker hears.
Deliver(a) ==
    /\ Answering(a) /\ slot[a].resp > 0
    /\ Set(a, [slot[a] EXCEPT !.resp = @ - 1, !.w = IF @ = "ack" THEN "wait" ELSE @])
    /\ UNCHANGED <<udpq, alive, table, post, nextId, supply>>
\* The worker's idle timer, or an error of its socket.
WorkerEnds(a) ==
    /\ slot[a].w # "none" /\ slot[a].st \in Running
    /\ Set(a, [slot[a] EXCEPT !.w = "none", !.wq = 0])
    /\ UNCHANGED <<udpq, alive, table, post, nextId, supply>>

\* The loop ends: the token, its idle timer (also while it waits for the
\* worker), or a channel nobody can send to any more.
LoopEnds(a) ==
    /\ slot[a].st \in Running
    /\ Set(a, [slot[a] EXCEPT !.st = "closing"])
    /\ UNCHANGED <<udpq, alive, table, post, nextId, supply>>
LoopStops(a) == (~alive \/ (slot[a].left /\ slot[a].q = 0)) /\ LoopEnds(a)
LoopIdles(a) == slot[a].st = "blocked" /\ LoopEnds(a)

\* The workers are cancelled and joined, the function returns.
Returned(a) ==
    /\ slot[a].st = "closing"
    /\ Set(a, [FreeSlot EXCEPT !.st = "ended", !.id = slot[a].id, !.left = slot[a].left])
    /\ UNCHANGED <<udpq, alive, table, post, nextId, supply>>
\* Variant with a defect: TUIC removes its id whoever holds it now.
ForgetBlindly(a) ==
    /\ slot[a].st = "ended" /\ Set(a, FreeSlot)
    /\ table' = [table EXCEPT ![slot[a].id] = NoSlot]
    /\ UNCHANGED <<udpq, alive, post, nextId, supply>>
\* The task removes its id from the table; TUIC only if the channel there is
\* closed.
Forget(a) ==
    /\ slot[a].st = "ended" /\ Set(a, FreeSlot)
    /\ table' = IF udpq = "tuic" /\ ~Shut(slot[a].id) THEN table
                ELSE [table EXCEPT ![slot[a].id] = NoSlot]
    /\ UNCHANGED <<udpq, alive, post, nextId, supply>>

Cancel ==
    /\ alive /\ alive' = FALSE
    /\ UNCHANGED <<udpq, table, slot, post, nextId, supply>>

QuicUdpNext ==
    \/ udpq = "hy1" /\ ((\E a \in Slots : Hy1Open(a) \/ Hy1Bound(a)) \/ Hy1Posted \/ \E i \in Ids : Hy1Packet(i))
    \/ udpq = "hy2" /\ \E i \in Ids : Hy2Packet(i)
    \/ udpq = "tuic" /\ \E i \in Ids : TuicPacket(i) \/ TuicDissociate(i)
    \/ \E a \in Slots :
         \/ TakePacket(a) \/ Dialled(a) \/ Forward(a)
         \/ WorkerSends(a) \/ WorkerHears(a) \/ WorkerPushes(a) \/ WorkerEnds(a)
         \/ Deliver(a) \/ LoopEnds(a) \/ Returned(a) \/ Forget(a)
    \/ udpq # "none" /\ Cancel

\* Tasks that can run are run.  The idle timer of a loop that waits runs down;
\* it is assumed only for Hysteria 2, which needs it.
QuicUdpFairness ==
    /\ WF_qudpVars(Hy1Posted)
    /\ \A a \in Slots :
         /\ WF_qudpVars(TakePacket(a) \/ Forward(a) \/ Dialled(a) \/ Hy1Bound(a) \/ Returned(a) \/ Forget(a))
         /\ WF_qudpVars(WorkerSends(a) \/ WorkerPushes(a))
         /\ WF_qudpVars(Deliver(a))
         /\ WF_qudpVars(LoopStops(a) \/ (udpq = "hy2" /\ LoopIdles(a)))
==============================================================================
