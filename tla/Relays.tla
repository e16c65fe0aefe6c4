-------------------------------- MODULE Relays -------------------------------
(***************************************************************************)
(* The relays together: a TCP or point-to-point relay, or a UDP relay with  *)
(* a session per target, chosen initially.                                  *)
(***************************************************************************)
EXTENDS Relay, UdpSessions

vars == <<relayVars, udpVars>>

RelaysInit ==
    \/ (\E k \in Relays : RelayInit(k)) /\ UdpInit("none")
    \/ (\E k \in {"trojan", "socks", "ss"} : UdpInit(k)) /\ RelayInit("none")

RelaysNext ==
    \/ RelayNext /\ UNCHANGED udpVars
    \/ (TrojanUdpNext \/ SocksUdpNext \/ SsUdpNext) /\ UNCHANGED relayVars

\* A worker whose token is cancelled, or whose association is gone, is polled;
\* the sweep ticks; the draining inbound is scheduled.
UdpFairness ==
    /\ \A w \in Workers :
         /\ WF_udpVars(udp = "trojan" /\ assoc = "closed" /\ TrojanEnd(w))
         /\ WF_udpVars(udp = "ss" /\ SsCancelled(w) /\ SsEnd(w))
    /\ WF_udpVars(udp = "ss" /\ SsSweep)
    /\ WF_udpVars(udp = "ss" /\ SsDrained)

\* What the relays may do, and what the scheduler makes them do.
RelaysSafety == RelaysInit /\ [][RelaysNext]_vars
RelaysSpec == RelaysSafety /\ RelayFairness /\ UdpFairness
-----------------------------------------------------------------------------
\* A client cannot have more live sessions than the table's limit, whatever the
\* order of ends, sweeps and new targets: a Trojan association 1024, a
\* Shadowsocks inbound 4096.  A datagram never starts a second session beside
\* a live one for the same target, and a session the table no longer knows is
\* on its way out.
SessionsBounded ==
    LET live == {w \in Alive : ~worker[w].cancel}
    IN  /\ udp \in {"trojan", "ss"} => Cardinality(live) <= MaxSessions
        /\ \A v, w \in live : worker[v].key = worker[w].key => v = w
        /\ \A w \in live : entry[worker[w].key] = w

\* When the association is over, or the inbound stops, or the user is removed
\* for good, no session of it stays.
SessionsLeave ==
    /\ []<>(udp = "trojan" /\ assoc = "closed" => Alive = {})
    /\ []<>(udp = "ss" => assoc # "closing")
    /\ udp = "ss" /\ <>[]~listed => <>[](Alive = {})

\* What is relayed is reported, a half-close does not cut the other direction
\* and the sessions of a client are bounded and distinct.
RelaysSound == RelayPaid /\ HalfCloseDelivers /\ SessionsBounded

\* A relay whose peers have gone quiet ends, and so do the sessions of an
\* association, an inbound or a user that has gone.
RelaysEnd == QuietRelayEnds /\ SessionsLeave
==============================================================================
