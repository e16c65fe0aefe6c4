---------------------------- MODULE Shadowsocks -----------------------------
(* src/protocol/shadowsocks/server.rs.  Unlike the others this inbound gives *)
(* its tasks a cancellation token and, when it stops, cancels it and joins   *)
(* every task with no deadline.  proto tells the cipher family:              *)
(* "ss" (AEAD, found by trial), "ss2022" and "ssnone" (no cipher).           *)
EXTENDS Connection

Families == {"ss", "ss2022", "ssnone"}

\* TCP and QUIC streams alike get a task, a child of the token and a place in
\* the JoinSet.
SsAccept(c) == Accept(c, "accept")

\* PROXY header and transport, together under 15 s and the token.  The decoy
\* of a fallback, a multiplexed transport and the WebSocket probe differ.
SsTransport(c) ==
    /\ At(c, {"accept"})
    /\ \/ Become(c, [Greeting(conn[c]) EXCEPT !.list = users])
       \/ \E pc \in {"fallback", "streams", "probe"} : Move(c, pc)
    /\ Only(c)

\* handle_stream of a stream of HTTP/2 or of a mux.
SsStream(c, d) ==
    Stream(c, d, [Greeting([Idle EXCEPT !.parent = c]) EXCEPT !.list = users])

\* Fourteen bytes decide whether a mux follows; this read is under neither
\* the timeout nor the token.
SsProbe(c) ==
    /\ At(c, {"probe"})
    /\ \/ Move(c, "streams")
       \/ Become(c, [Greeting(conn[c]) EXCEPT !.list = users])
    /\ Only(c)

\* The handshake failed: bad header, unknown key, replayed salt, I/O error.
SsRefuse(c) ==
    /\ At(c, {"handshake", "scan"}) /\ Close(c) /\ Suspect(c)
    /\ KeepInbound /\ UNCHANGED cache

\* After the handshake future: forget the failures, cache the user.
SsFound(c, u, k, h) ==
    /\ Become(c, [Recognised(c, u, k, "device") EXCEPT !.host = h])
    /\ Forgive(c)
    /\ cache' = [cache EXCEPT ![conn[c].ip] = u]

\* No cipher: whoever is first in the snapshot, or the default user.  Users
\* whose keys agree are left out of the index, and without a cipher all do.
SsNone(c) ==
    /\ proto = "ssnone" /\ At(c, {"handshake"})
    /\ \E h \in Hosts :
         IF Cardinality(conn[c].list) # 1
         THEN SsFound(c, None, None, h)
         ELSE \E u \in conn[c].list : SsFound(c, u, u, h)
    /\ KeepInbound

\* 2022: the identity header names the user in the snapshot.
Ss2022(c) ==
    /\ proto = "ss2022" /\ At(c, {"handshake"})
    /\ \E k \in Users, h \in Hosts :
         IF k \in conn[c].list
         THEN SsFound(c, k, k, h)
         ELSE Become(c, Turned(c, k)) /\ Suspect(c) /\ UNCHANGED cache
    /\ KeepInbound

\* AEAD: the cached user of the address first, then the rest of the snapshot.
SsFastPath(c) ==
    /\ proto = "ss" /\ At(c, {"handshake"})
    /\ \E k \in Users : LET u == cache[conn[c].ip] IN
         IF u \in conn[c].list /\ u = k
         THEN \E h \in Hosts : SsFound(c, u, k, h)
         ELSE /\ Become(c, [conn[c] EXCEPT !.pc = "scan", !.cred = k, !.skip = u])
              /\ KeepRecords
    /\ KeepInbound
SsScan(c) ==
    /\ At(c, {"scan"})
    /\ LET k == conn[c].cred IN
         IF k \in conn[c].list /\ k # conn[c].skip
         THEN \E h \in Hosts : SsFound(c, k, k, h)
         ELSE Become(c, Turned(c, k)) /\ Suspect(c) /\ UNCHANGED cache
    /\ KeepInbound

SsAdmit(c) == Admit(c, "device", "sniff")

\* sniff_and_detect_stream may also refuse the first payload.
SsDetect(c) == At(c, {"sniff"}) /\ Close(c) /\ Only(c)

\* Sniff, audit, route, dial under 10 s and the token, relay under the token.
SsForward(c) == Sniff(c, "dial") \/ Dial(c, "relay")

SsExpire(c) == Fail(c, {"accept", "handshake", "scan", "dial"})

\* Variant with a defect: the relay does not select on the token.
SsCancelNoRelay(c) ==
    /\ inbound = "draining"
    /\ Fail(c, {"accept", "fallback", "streams", "handshake", "scan", "dial"})

\* The token is cancelled: every await that selects on it returns.
SsCancel(c) ==
    /\ inbound = "draining"
    /\ Fail(c, {"accept", "fallback", "streams", "handshake", "scan", "dial", "relay"})

SsStep(c) ==
    \/ SsAccept(c) \/ SsTransport(c) \/ SsProbe(c)
    \/ \E d \in Conns : SsStream(c, d)
    \/ SsRefuse(c) \/ SsNone(c) \/ Ss2022(c) \/ SsFastPath(c) \/ SsScan(c)
    \/ SsAdmit(c) \/ SsDetect(c) \/ SsForward(c)
    \/ SsExpire(c) \/ SsCancel(c)
    \/ Fail(c, {"accept", "fallback", "streams", "relay"})
SsNext == proto \in Families /\ \E c \in Conns : SsStep(c)

-----------------------------------------------------------------------------
\* src/protocol/shadowsocksr/mod.rs: PROXY header under 15 s, then
\* SsrSettings::authenticate on a snapshot of the users under 15 s, with a
\* store of the connection identities already seen.

SsrAccept(c) == Accept(c, "proxy")
SsrProxy(c) ==
    /\ At(c, {"proxy"})
    /\ Become(c, [Greeting(conn[c]) EXCEPT !.list = users])
    /\ Only(c)

\* The user named in the header is in the snapshot, the frame verifies, the
\* time is near and the identity is new.
SsrAuth(c) ==
    /\ At(c, {"handshake"})
    /\ \E k \in Users :
         IF k \in conn[c].list
         THEN Become(c, Recognised(c, k, k, "device")) /\ Forgive(c)
         ELSE Become(c, Turned(c, k)) /\ Suspect(c)
    /\ KeepInbound /\ UNCHANGED cache

\* Any other end of authenticate is a failure of the client: a bad frame, a
\* replay, a full replay store, a read error and the timeout alike.
SsrRefuse(c) ==
    /\ At(c, {"handshake"}) /\ Close(c) /\ Suspect(c)
    /\ KeepInbound /\ UNCHANGED cache

SsrAdmit(c) == Admit(c, "device", "request")

\* The target is read with no deadline left.
SsrRequest(c) ==
    /\ At(c, {"request"})
    /\ \/ Close(c)
       \/ \E h \in Hosts : Become(c, [conn[c] EXCEPT !.pc = "sniff", !.host = h])
    /\ Only(c)

SsrForward(c) == Sniff(c, "dial") \/ Dial(c, "relay")

SsrExpire(c) == Fail(c, {"proxy"}) \/ SsrRefuse(c)

SsrStep(c) ==
    \/ SsrAccept(c) \/ SsrProxy(c) \/ SsrAuth(c) \/ SsrAdmit(c) \/ SsrRequest(c)
    \/ SsrForward(c) \/ SsrExpire(c) \/ Fail(c, {"relay"})
SsrNext == proto = "ssr" /\ \E c \in Conns : SsrStep(c)
=============================================================================
