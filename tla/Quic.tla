--------------------------------- MODULE Quic --------------------------------
(***************************************************************************)
(* The QUIC inbounds: a connection with its streams, or the UDP             *)
(* associations of one, chosen initially.                                   *)
(***************************************************************************)
EXTENDS QuicSession, QuicUdp

vars == <<quicVars, qudpVars>>
QuicInit ==
    \/ (\E k \in Quics : QuicSessionInit(k)) /\ QudpInit("none")
    \/ QuicSessionInit("none") /\ (\E k \in {"hy1", "hy2", "tuic"} : QudpInit(k))
QuicNext == \/ QuicSessionNext /\ UNCHANGED qudpVars
            \/ QuicUdpNext /\ UNCHANGED quicVars
QuicSpec == QuicInit /\ [][QuicNext]_vars /\ QuicSessionFairness /\ QuicUdpFairness
-----------------------------------------------------------------------------
\* A stream dials or relays only for a user whose credential was known and
\* whose device was admitted on this connection, and never for more streams
\* than the user's limit, however the credential, the waiting streams, a second
\* credential and the timers interleave.
QuicServes ==
    /\ \A s \in Streams :
          stream[s].st \in Holding \union {"target"} => stream[s].user \in passed
    /\ \A u \in QuicUsers : Guards(u) <= MaxStreams

\* No wake-up is lost: once the connection is authenticated and the waiters
\* have been notified, no stream that waits for it sleeps on.
WaitersWoken ==
    main = "serve" /\ auth.ok /\ auth.pc # "notify" =>
        \A s \in Streams : stream[s].st = "parked" => stream[s].woken

\* A closed connection's task ends, then every stream of it, whichever stage it
\* was in; an inbound that stops is stopped.
QuicEnds ==
    /\ []<>(link = "closed" => main = "done" \/ quic = "none")
    /\ []<>(main = "done" => \A s \in Streams : stream[s].st = "free")
    /\ []<>(node # "stopping")

\* A client that never authenticates does not keep its connection (Hysteria 2
\* has no such deadline).
SilentLeave ==
    []<>(quic \in {"hysteria", "tuic4", "tuic5"} => auth.ok \/ link = "closed")

\* A running association the client has not dissociated is the one its id
\* leads to: the end of an earlier association with that id takes nothing from
\* it.  (Hysteria 2 has a window for it when its table is full.)
SessionKept ==
    udpq \in {"hy1", "tuic"} =>
        \A a \in Slots : slot[a].st \in Running /\ ~slot[a].left => table[slot[a].id] = a

\* A loop that waits for room in a worker's channel goes on, although the
\* worker may be waiting for the delivery of an answer: in TUIC because another
\* task delivers it, in Hysteria 2 only by the idle timer.  Hysteria 1's
\* datagram task is not held up for ever either, and when the connection is
\* cancelled every association ends.
UdpFlows ==
    /\ \A a \in Slots : []<>(slot[a].st # "blocked")
    /\ []<>(post = NoSlot)
    /\ []<>(~alive => \A a \in Slots : slot[a].st = "free")

\* Streams serve only who was authenticated and admitted, no wake-up is lost
\* and no association is taken from its id.
QuicSound == QuicServes /\ WaitersWoken /\ SessionKept

\* Connections, streams and associations that should end do, silent clients
\* leave, and no loop waits for ever on a worker that waits for it.
QuicGoesOn == QuicEnds /\ SilentLeave /\ UdpFlows
==============================================================================
