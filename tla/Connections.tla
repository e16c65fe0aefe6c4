----------------------------- MODULE Connections ----------------------------
(***************************************************************************)
(* The TCP inbounds together: an inbound speaks one protocol, chosen        *)
(* initially, and its tasks, its user list and its shutdown interleave.     *)
(***************************************************************************)
EXTENDS UserProxies, Shadowsocks

Protocols == Families \cup {"trojan", "vmess", "vless", "ssr", "http", "socks", "naive", "anytls"}

ConnectionsInit == Init /\ proto \in Protocols

\* drain_connections, or the five-second grace of AnyTLS: all but Shadowsocks
\* bound the wait for their tasks.
AbortDrain == proto \notin Families /\ DrainTimeout

ConnectionsNext ==
    \/ TrojanNext \/ VmessNext \/ VlessNext \/ SsNext \/ SsrNext
    \/ HttpNext \/ SocksNext \/ NaiveNext \/ AnytlsNext
    \/ UserUpdate \/ Stop \/ Drained \/ AbortDrain

\* The deadlines of each protocol.
Expire(c) ==
    \/ proto = "trojan" /\ TrojanExpire(c)
    \/ proto = "vmess" /\ VmessExpire(c)
    \/ proto = "vless" /\ VlessExpire(c)
    \/ proto \in Families /\ SsExpire(c)
    \/ proto = "ssr" /\ SsrExpire(c)
    \/ proto = "http" /\ HttpExpire(c)
    \/ proto = "socks" /\ SocksExpire(c)
    \/ proto = "anytls" /\ AnytlsExpire(c)

\* Timers fire, the token wakes those who select on it, a task that waits for
\* nobody outside the process goes on, and the draining inbound is scheduled.
\* Nothing is assumed of clients or of targets.
Fairness ==
    /\ \A c \in Conns :
         /\ WF_vars(Expire(c))
         /\ WF_vars(proto \in Families /\ SsCancel(c))
         /\ WF_vars(proto \in Families /\ SsAdmit(c))
         /\ WF_vars(proto \in Families /\ Sniff(c, "dial"))
    /\ WF_vars(Drained) /\ WF_vars(AbortDrain)

\* What the inbounds may do, and what the scheduler makes them do.
ConnectionsSafety == ConnectionsInit /\ [][ConnectionsNext]_vars
ConnectionsSpec == ConnectionsSafety /\ Fairness

-----------------------------------------------------------------------------
\* The slots hold tasks of the expected shape.
TypeOK ==
    /\ proto \in Protocols /\ inbound \in {"running", "draining", "stopped"}
    /\ users \in Lists /\ suspects \subseteq Clients
    /\ cache \in [Clients -> Users \cup {None}]
    /\ \A c \in Conns :
         /\ conn[c].user \in Users \cup {None} /\ conn[c].cred \in Users \cup {None}
         /\ conn[c].host \in Hosts \cup {None} /\ conn[c].guard \in BOOLEAN
         /\ conn[c].parent \in Conns \cup {None}

\* The stages at which the task has reached, or may reach, a target.
Serving == {"dial", "relay", "udp", "session", "mux"}

\* A task that dials or relays does so for an authenticated, admitted user who
\* holds a connection guard, and what it relays to is not blocked by the
\* audit, whichever of the sniffed and the requested name was dialled.  The
\* node without a cipher knows no users.
ServesAdmitted ==
    \A c \in Conns : conn[c].pc \in Serving =>
        /\ conn[c].guard
        /\ proto # "ssnone" => conn[c].user # None
        /\ conn[c].pc = "relay" => conn[c].host \notin Blocked

\* The user a task serves owns the credential it was shown and was in the user
\* list at some moment of the authentication; nobody who was listed during the
\* whole of it is turned away.  The per-address cache of the last user, the
\* snapshots and the lookups after an await never change that.
AuthenticatesOwners ==
    \A c \in Conns :
        /\ conn[c].user # None => conn[c].user = conn[c].cred /\ conn[c].known
        /\ ~conn[c].wronged

\* No user holds more guards than the limit: each is released with its task,
\* however the task ends.
GuardsWithinLimit == \A u \in Users : Held(u) <= MaxConn

\* Only its owner is served under a credential, admitted, within the limits
\* and to targets that are not blocked.
AdmittedOnly == TypeOK /\ ServesAdmitted /\ AuthenticatesOwners /\ GuardsWithinLimit

\* When start returns, no task of the inbound is left but the HTTP/2 streams
\* the Naive inbound has detached; no stream outlives its connection.
StoppedIsQuiet ==
    /\ inbound = "stopped" =>
         \A c \in Conns : conn[c].pc = "closed" \/ (proto = "naive" /\ conn[c].detached)
    /\ \A c \in Conns : conn[c].parent # None => conn[conn[c].parent].pc = "streams"

\* A stopping inbound comes to its end, unless a Shadowsocks client sits in
\* the WebSocket probe, the one read that neither a deadline nor the token
\* interrupts.
StopCompletes ==
    []<>(inbound # "draining" \/ \E c \in Conns : conn[c].pc = "probe")

\* A client that stays silent does not keep a task for ever once its stream is
\* being authenticated (Naive sets no deadline at all).
SilentClientsLeave ==
    \A c \in Conns :
        []<>(proto = "naive" \/ conn[c].pc \notin {"handshake", "scan"})
=============================================================================
