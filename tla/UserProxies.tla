---------------------------- MODULE UserProxies -----------------------------
(* The protocols that know a user by the hash of a password (Trojan,         *)
(* AnyTLS), by a UUID (VMess, VLESS), or by a name and a password in a       *)
(* request that is plain HTTP or SOCKS (HTTP, SOCKS5, Naive).                *)
EXTENDS Connection

-----------------------------------------------------------------------------
\* src/protocol/trojan/server.rs: PROXY header, security, transport, then
\* the Trojan header under one deadline, then a TCP or a UDP relay.

\* The accept loop; a PROXY header is read only when it is configured.
TrojanAccept(c) == Accept(c, "proxy") \/ Accept(c, "secure")

\* Nothing bounds the read of the PROXY header.
TrojanProxy(c) == At(c, {"proxy"}) /\ Move(c, "secure") /\ Only(c)

\* The TLS or REALITY handshake completes; a REALITY fallback ends the task.
TrojanSecure(c) ==
    /\ At(c, {"secure"})
    /\ \/ Move(c, "transport")
       \/ Close(c)
    /\ Only(c)

\* apply_transport hands one stream to the handler, or serve_grpc and serve_h2
\* go on to accept streams.
TrojanTransport(c) ==
    /\ At(c, {"transport"})
    /\ \/ Become(c, Greeting(conn[c]))
       \/ Move(c, "streams")
    /\ Only(c)

TrojanStream(c, d) == Stream(c, d, Greeting([Idle EXCEPT !.parent = c]))

\* 56 hex digits and CRLF have arrived: look the hash up in the current list.
TrojanAuth(c) ==
    /\ At(c, {"handshake"})
    /\ \E k \in Users :
         IF k \in users
         THEN Become(c, Recognised(c, k, k, "device")) /\ Forgive(c)
         ELSE Become(c, Turned(c, k)) /\ Suspect(c)
    /\ KeepInbound /\ UNCHANGED cache

\* Device check and guard, then command, address and port.
TrojanAdmit(c) == Admit(c, "device", "request")
TrojanRequest(c) ==
    /\ At(c, {"request"})
    /\ \E h \in Hosts, pc \in {"sniff", "bind"} :
         Become(c, [conn[c] EXCEPT !.pc = pc, !.host = h])
    /\ Only(c)

\* The first target of a UDP association is audited and routed, nothing is
\* dialled until its first packet.
TrojanAssociate(c) ==
    /\ At(c, {"bind"})
    /\ IF conn[c].host \in Blocked THEN Close(c) ELSE Move(c, "udp")
    /\ Only(c)

\* TCP: sniff, audit, route, dial with no deadline, relay.
TrojanForward(c) == Sniff(c, "dial") \/ Dial(c, "relay")

\* Fifteen seconds for the security handshake; fifteen more for everything
\* from the hash to the port.
TrojanExpire(c) == Fail(c, {"secure", "handshake", "device", "request"})

TrojanStep(c) ==
    \/ TrojanAccept(c) \/ TrojanProxy(c) \/ TrojanSecure(c) \/ TrojanTransport(c)
    \/ \E d \in Conns : TrojanStream(c, d)
    \/ TrojanAuth(c) \/ TrojanAdmit(c) \/ TrojanRequest(c) \/ TrojanAssociate(c)
    \/ TrojanForward(c) \/ TrojanExpire(c)
    \/ Fail(c, {"proxy", "transport", "streams", "relay", "udp"})
TrojanNext == proto = "trojan" /\ \E c \in Conns : TrojanStep(c)

-----------------------------------------------------------------------------
\* src/protocol/anytls/mod.rs: PROXY header, TLS, password hash, admission
\* and padding under one 15 s timeout, then a session (AnytlsSession models
\* it) whose token the stopping inbound cancels.

AnytlsAccept(c) == Accept(c, "proxy")
AnytlsProxy(c) == At(c, {"proxy"}) /\ Move(c, "secure") /\ Only(c)
AnytlsSecure(c) == At(c, {"secure"}) /\ Become(c, Greeting(conn[c])) /\ Only(c)
AnytlsAuth(c) ==
    /\ At(c, {"handshake"})
    /\ \E k \in Users :
         IF k \in users
         THEN Become(c, Recognised(c, k, k, "device")) /\ Forgive(c)
         ELSE Become(c, Turned(c, k)) /\ Suspect(c)
    /\ KeepInbound /\ UNCHANGED cache
AnytlsAdmit(c) == Admit(c, "device", "padding")
AnytlsPadding(c) == At(c, {"padding"}) /\ Move(c, "session") /\ Only(c)
AnytlsExpire(c) == Fail(c, {"proxy", "secure", "handshake", "device", "padding"})
AnytlsCancel(c) == inbound = "draining" /\ Fail(c, {"session"})

AnytlsStep(c) ==
    \/ AnytlsAccept(c) \/ AnytlsProxy(c) \/ AnytlsSecure(c) \/ AnytlsAuth(c)
    \/ AnytlsAdmit(c) \/ AnytlsPadding(c) \/ AnytlsExpire(c) \/ AnytlsCancel(c)
    \/ Fail(c, {"session"})
AnytlsNext == proto = "anytls" /\ \E c \in Conns : AnytlsStep(c)

-----------------------------------------------------------------------------
\* src/protocol/vmess/server.rs: the whole handshake, the dial included, is
\* under one 15 s timeout.  The user is found by trial: first the user the
\* address authenticated as before, then, behind a semaphore, all the others.

VmessAccept(c) == Accept(c, "proxy")

\* PROXY header, then TLS (bounded by accept_with_timeout), then transport.
VmessProxy(c) == At(c, {"proxy"}) /\ Move(c, "secure") /\ Only(c)
VmessSecure(c) == At(c, {"secure"}) /\ Move(c, "transport") /\ Only(c)
VmessTransport(c) ==
    /\ At(c, {"transport"})
    /\ \/ Become(c, Greeting(conn[c]))
       \/ Move(c, "streams")
    /\ Only(c)
VmessStream(c, d) == Stream(c, d, Greeting([Idle EXCEPT !.parent = c]))

\* A node that still asks for the MD5 header refuses everybody.
VmessForceMd5(c) ==
    /\ At(c, {"handshake"}) /\ Close(c) /\ Suspect(c)
    /\ KeepInbound /\ UNCHANGED cache

VmessFound(c, u, k) ==
    /\ Become(c, Recognised(c, u, k, "device")) /\ Forgive(c)
    /\ cache' = [cache EXCEPT ![conn[c].ip] = u]

\* Variant with a defect: the cached user is not checked against the auth id.
VmessFastPathTrusts(c) ==
    /\ At(c, {"handshake"})
    /\ \E k \in Users : LET u == cache[conn[c].ip] IN
         IF u \in users
         THEN VmessFound(c, u, k)
         ELSE /\ Become(c, [conn[c] EXCEPT !.pc = "scan", !.cred = k, !.skip = u])
              /\ KeepRecords
    /\ KeepInbound

\* The auth id is read; the user cached for the address is tried first.
VmessFastPath(c) ==
    /\ At(c, {"handshake"})
    /\ \E k \in Users : LET u == cache[conn[c].ip] IN
         IF u \in users /\ u = k
         THEN VmessFound(c, u, k)
         ELSE /\ Become(c, [conn[c] EXCEPT !.pc = "scan", !.cred = k, !.skip = u])
              /\ KeepRecords
    /\ KeepInbound

\* With a permit of the semaphore, every user but the cached one is tried
\* against the list as it is now.
VmessScan(c) ==
    /\ At(c, {"scan"})
    /\ LET k == conn[c].cred IN
         IF k \in users /\ k # conn[c].skip
         THEN VmessFound(c, k, k)
         ELSE Become(c, Turned(c, k)) /\ Suspect(c) /\ UNCHANGED cache
    /\ KeepInbound

VmessAdmit(c) == Admit(c, "device", "request")

\* Length and header are decrypted, the response header is written, then the
\* audit; the mux command and a malformed header end the task.
VmessRequest(c) ==
    /\ At(c, {"request"})
    /\ \E h \in Hosts :
         IF h \in Blocked
         THEN Close(c)
         ELSE Become(c, [conn[c] EXCEPT !.pc = "dial", !.host = h])
    /\ Only(c)

\* Both dials are inside the timeout; then the chunk ciphers are set up.
VmessDial(c) == Dial(c, "relay")

VmessExpire(c) == Fail(c, {"secure", "handshake", "scan", "device", "request", "dial"})

VmessStep(c) ==
    \/ VmessAccept(c) \/ VmessProxy(c) \/ VmessSecure(c) \/ VmessTransport(c)
    \/ \E d \in Conns : VmessStream(c, d)
    \/ VmessForceMd5(c) \/ VmessFastPath(c) \/ VmessScan(c) \/ VmessAdmit(c)
    \/ VmessRequest(c) \/ VmessDial(c)
    \/ VmessExpire(c)
    \/ Fail(c, {"proxy", "transport", "streams", "relay"})
VmessNext == proto = "vmess" /\ \E c \in Conns : VmessStep(c)

-----------------------------------------------------------------------------
\* src/protocol/vless/mod.rs: the VLESS handshake (encryption, header, user,
\* admission, flow checks, response) under 15 s, then one of four relays.

VlessAccept(c) == Accept(c, "proxy")
VlessProxy(c) == At(c, {"proxy"}) /\ Move(c, "secure") /\ Only(c)

\* TLS has its own deadline; REALITY has none here and may fall back, which
\* ends the task.
VlessSecure(c) ==
    /\ At(c, {"secure"})
    /\ \/ Move(c, "transport")
       \/ Close(c)
    /\ Only(c)
VlessTransport(c) ==
    /\ At(c, {"transport"})
    /\ \/ Become(c, Greeting(conn[c]))
       \/ Move(c, "streams")
    /\ Only(c)
VlessStream(c, d) == Stream(c, d, Greeting([Idle EXCEPT !.parent = c]))

\* The header carries the user, the command and the target at once.
VlessAuth(c) ==
    /\ At(c, {"handshake"})
    /\ \E k \in Users, h \in Hosts :
         IF k \in users
         THEN /\ Become(c, [Recognised(c, k, k, "device") EXCEPT !.host = h])
              /\ Forgive(c)
         ELSE Become(c, Turned(c, k)) /\ Suspect(c)
    /\ KeepInbound /\ UNCHANGED cache
VlessAdmit(c) == Admit(c, "device", "request")

\* The requested flow must be the user's, Vision needs raw TCP under TLS or
\* REALITY and no UDP, the reverse command is refused; then the response
\* header is written and the command chooses the relay.
VlessRequest(c) ==
    /\ At(c, {"request"})
    /\ \/ Close(c)
       \/ \E pc \in {"sniff", "vision", "bind", "mux"} : Move(c, pc)
    /\ Only(c)

\* Vision without sniff_redirect: audit the requested host, then dial while
\* the first bytes are read.  With it: read, sniff, audit, dial.
VlessVision(c) ==
    /\ At(c, {"vision"})
    /\ \/ Audit(c, conn[c].host, conn[c].host, "dial")
       \/ \E m \in Hosts : Audit(c, conn[c].host, m, "dial")
    /\ Only(c)

\* UDP: audit, then dial_udp_outbound.
VlessBind(c) ==
    /\ At(c, {"bind"})
    /\ Audit(c, conn[c].host, conn[c].host, "dial")
    /\ Only(c)

\* Plain TCP: sniff, audit, route, dial with no deadline, relay.
VlessStandard(c) == Sniff(c, "dial") \/ Dial(c, "relay")

VlessExpire(c) == Fail(c, {"handshake", "device", "request"})

VlessStep(c) ==
    \/ VlessAccept(c) \/ VlessProxy(c) \/ VlessSecure(c) \/ VlessTransport(c)
    \/ \E d \in Conns : VlessStream(c, d)
    \/ VlessAuth(c) \/ VlessAdmit(c) \/ VlessRequest(c) \/ VlessVision(c) \/ VlessBind(c)
    \/ VlessStandard(c)
    \/ VlessExpire(c)
    \/ Fail(c, {"proxy", "secure", "transport", "streams", "vision", "relay", "mux"})
VlessNext == proto = "vless" /\ \E c \in Conns : VlessStep(c)
-----------------------------------------------------------------------------
\* src/protocol/http: an HTTP proxy.  Neither a PROXY header nor the defence
\* manager is used; TLS and the request header have a deadline each.

HttpAccept(c) == Accept(c, "secure")
HttpSecure(c) ==
    /\ At(c, {"secure"}) /\ Become(c, Greeting(conn[c])) /\ Only(c)

\* verify_basic_auth looks the pair up in the current map.
HttpVerify(k) == k \in users

\* The header is complete: the pair names a user of the current map.  A header
\* too large, malformed or cut short ends the task.
HttpAuth(c) ==
    /\ At(c, {"handshake"})
    /\ \/ Close(c)
       \/ \E k \in Users, h \in Hosts :
            IF HttpVerify(k)
            THEN Become(c, [Recognised(c, k, k, "device") EXCEPT !.host = h])
            ELSE Become(c, Turned(c, k))
    /\ Only(c)
HttpAdmit(c) == Admit(c, "device", "sniff")

\* CONNECT and the forwarded methods share relay(): both the requested and the
\* sniffed name are audited; other methods get a 400.
HttpRelay(c) ==
    /\ At(c, {"sniff"})
    /\ IF conn[c].host \in Blocked
       THEN Close(c)
       ELSE Close(c) \/ \E m \in Hosts : Audit(c, conn[c].host, m, "dial")
    /\ Only(c)

HttpExpire(c) == Fail(c, {"secure", "handshake"})

HttpStep(c) ==
    \/ HttpAccept(c) \/ HttpSecure(c) \/ HttpAuth(c) \/ HttpAdmit(c)
    \/ HttpRelay(c) \/ Dial(c, "relay") \/ HttpExpire(c) \/ Fail(c, {"relay"})
HttpNext == proto = "http" /\ \E c \in Conns : HttpStep(c)

-----------------------------------------------------------------------------
\* src/protocol/socks: everything up to the request is one future under a
\* 15 s timeout; then CONNECT or UDP ASSOCIATE.

SocksAccept(c) == Accept(c, "proxy")
SocksProxy(c) == At(c, {"proxy"}) /\ Become(c, Greeting(conn[c])) /\ Only(c)

\* Methods: with no users at all, or without USER/PASS, the client is refused
\* before it can name a user.
SocksMethods(c) ==
    /\ At(c, {"handshake"})
    /\ IF users = {} THEN Close(c) ELSE Close(c) \/ Move(c, "scan")
    /\ Only(c)

\* RFC 1929: the name and password are checked against the list of that
\* moment; a failure is not recorded, a success clears the record.
SocksAuth(c) ==
    /\ At(c, {"scan"})
    /\ \E k \in Users :
         IF k \in users
         THEN Become(c, Recognised(c, k, k, "device")) /\ Forgive(c)
         ELSE Become(c, Turned(c, k)) /\ UNCHANGED suspects
    /\ KeepInbound /\ UNCHANGED cache
SocksAdmit(c) == Admit(c, "device", "request")

\* CONNECT is audited and dialled.
SocksConnect(c) == \E h \in Hosts : Audit(c, h, h, "dial")

\* CONNECT is told from ASSOCIATE, which opens a socket and leaves
\* the audit to each datagram; other commands end the task.
SocksRequest(c) ==
    /\ At(c, {"request"})
    /\ \/ Close(c)
       \/ Move(c, "udp")
       \/ SocksConnect(c)
    /\ Only(c)

\* Variant with a defect: the timeout covers the greeting, not the password.
SocksExpireEarly(c) == Fail(c, {"proxy", "handshake", "device", "request"})

SocksExpire(c) == Fail(c, {"proxy", "handshake", "scan", "device", "request"})

SocksStep(c) ==
    \/ SocksAccept(c) \/ SocksProxy(c) \/ SocksMethods(c) \/ SocksAuth(c)
    \/ SocksAdmit(c) \/ SocksRequest(c) \/ Dial(c, "relay")
    \/ SocksExpire(c) \/ Fail(c, {"udp", "relay"})
SocksNext == proto = "socks" /\ \E c \in Conns : SocksStep(c)

-----------------------------------------------------------------------------
\* src/protocol/naive/server.rs: HTTP/1.1 or HTTP/2 CONNECT with camouflage.
\* No stage has a deadline, and the streams of an HTTP/2 connection are
\* spawned detached: neither the end of the connection nor the drain of the
\* inbound ends them.

NaiveAccept(c) == Accept(c, "proxy")
NaiveProxy(c) == At(c, {"proxy"}) /\ Move(c, "secure") /\ Only(c)

\* TLS must have negotiated h2; then four bytes tell HTTP/2 from HTTP/1.
NaiveSecure(c) ==
    /\ At(c, {"secure"})
    /\ \/ Move(c, "peek")
       \/ Close(c)
    /\ Only(c)
NaivePeek(c) ==
    /\ At(c, {"peek"})
    /\ \/ Become(c, Greeting(conn[c]))
       \/ Move(c, "streams")
    /\ Only(c)
NaiveStream(c, d) == Stream(c, d, Greeting([Idle EXCEPT !.detached = TRUE]))

\* GET and HEAD get the camouflage page, other methods a 405; CONNECT names
\* user and target.  Only a success reaches the defence manager.
NaiveConnect(c) ==
    /\ At(c, {"handshake"})
    /\ \/ Close(c) /\ UNCHANGED suspects
       \/ \E k \in Users, h \in Hosts :
            IF k \in users
            THEN /\ Become(c, [Recognised(c, k, k, "device") EXCEPT !.host = h])
                 /\ Forgive(c)
            ELSE Become(c, Turned(c, k)) /\ UNCHANGED suspects
    /\ KeepInbound /\ UNCHANGED cache
NaiveAdmit(c) == Admit(c, "device", "audit")
NaiveAudit(c) ==
    /\ At(c, {"audit"})
    /\ Audit(c, conn[c].host, conn[c].host, "dial")
    /\ Only(c)

\* The same steps for the one request of an HTTP/1 connection and for a stream
\* of an HTTP/2 connection.
NaiveRequest(c) == NaiveConnect(c) \/ NaiveAdmit(c) \/ NaiveAudit(c) \/ Dial(c, "relay")
NaiveH1(c) == ~conn[c].detached /\ NaiveRequest(c)
NaiveH2(c) == conn[c].detached /\ NaiveRequest(c)

NaiveStep(c) ==
    \/ NaiveAccept(c) \/ NaiveProxy(c) \/ NaiveSecure(c) \/ NaivePeek(c)
    \/ \E d \in Conns : NaiveStream(c, d)
    \/ NaiveH1(c) \/ NaiveH2(c)
    \/ Fail(c, {"proxy", "peek", "streams", "relay"})
NaiveNext == proto = "naive" /\ \E c \in Conns : NaiveStep(c)
=============================================================================
