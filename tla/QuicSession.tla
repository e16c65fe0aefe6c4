----------------------------- MODULE QuicSession ----------------------------
(***************************************************************************)
(* One client connection of the QUIC inbounds: Hysteria 1, Hysteria 2 and   *)
(* TUIC 4 and 5.  A connection authenticates once, over a stream of its     *)
(* own, while other streams may already be waiting for the outcome.         *)
(*                                                                          *)
(*   hysteria   the first stream is the credential, under a 10 s deadline;  *)
(*              nothing else is accepted before it                          *)
(*   hysteria2  the accept loop reads the start of every stream itself;     *)
(*              streams wait 10 s for the authentication                    *)
(*   tuic       every stream is a task; a timer closes the connection if    *)
(*              no credential came                                          *)
(*                                                                          *)
(* A Notify wakes the waiters registered when notify_waiters runs and no    *)
(* later one, so registering, testing the flag and parking are steps of     *)
(* their own, and so are the three writes of the authenticating task.       *)
(***************************************************************************)
EXTENDS Naturals, FiniteSets

CONSTANTS
    QuicUsers,      \* users a client may hold a credential of
    Streams,        \* streams of the connection
    MaxStreams,     \* the connection limit of a user
    Nil             \* no user

ASSUME QuicAssumption ==
    /\ IsFiniteSet(Streams) /\ Nil \notin QuicUsers
    /\ MaxStreams \in Nat \ {0}

VARIABLES
    quic,       \* the protocol, "none" when this part is not exercised
    node,       \* the inbound: "up", "stopping", "stopped"
    link,       \* the QUIC connection: "open" or "closed"
    main,       \* the connection's task: "hello", "serve", "drain", "done"
    token,      \* conn_cancel / cancel is cancelled
    auth,       \* authenticated_user, auth_ok, and the authenticating task
    timer,      \* TUIC's authentication timer
    passed,     \* users whose credential and device were accepted
    stream      \* the request streams

quicVars == <<quic, node, link, main, token, auth, timer, passed, stream>>

Quics == {"hysteria", "hysteria2", "tuic4", "tuic5"}
Closed == [st |-> "free", user |-> Nil, woken |-> FALSE]

QuicSessionInit(k) ==
    /\ quic = k /\ node = "up" /\ link = "open" /\ token = FALSE
    /\ main = IF k = "hysteria" THEN "hello" ELSE "serve"
    /\ auth = [user |-> Nil, ok |-> FALSE, pc |-> "idle", cand |-> Nil]
    /\ timer = IF k \in {"tuic4", "tuic5"} THEN "armed" ELSE "off"
    /\ passed = {}
    /\ stream = [s \in Streams |-> Closed]

Holding == {"dial", "relay"}
\* Streams counted against u: one guard per stream, or Hysteria 1's single
\* guard for as long as its connection's task runs.
Guards(u) ==
    IF quic = "hysteria" THEN IF auth.user = u /\ main \in {"serve", "drain"} THEN 1 ELSE 0
    ELSE Cardinality({s \in Streams : stream[s].st \in Holding /\ stream[s].user = u})
Goes(s, st) == stream' = [stream EXCEPT ![s].st = st]
Frees(s) == stream' = [stream EXCEPT ![s] = Closed]
\* Hysteria 2's accept loop is busy with the first bytes of a stream, or with
\* a credential.
Occupied ==
    quic = "hysteria2" /\ (auth.pc # "idle" \/ \E s \in Streams : stream[s].st = "header")
Serving == main = "serve" /\ link = "open" /\ ~Occupied

----------------------------------------------------------------------------
(* The credential.  It is looked up in the user map, which changes under    *)
(* the connection, so a credential may be known or not.                     *)

Checks(u) == auth' = [auth EXCEPT !.pc = "device", !.cand = u]
Presents(u) ==
    /\ auth.pc = "idle" /\ link = "open" /\ auth.user # u
    /\ UNCHANGED <<quic, node, main, token, timer, passed, stream>>

\* The control stream's header: version, rates, credential.  Unknown, the
\* client is told and the connection closed.
Hy1Present(u) ==
    /\ quic = "hysteria" /\ main = "hello" /\ Presents(u)
    /\ \/ Checks(u) /\ UNCHANGED link
       \/ link' = "closed" /\ UNCHANGED auth

\* A HEADERS frame POST /auth, read by the accept loop.  Anything else, and
\* an unknown credential, gets a 404 page and the loop goes on.
Hy2Present(u) ==
    /\ quic = "hysteria2" /\ Serving /\ ~token /\ Presents(u)
    /\ Checks(u) /\ UNCHANGED link

\* The Authenticate command on a unidirectional stream.  TUIC looks in the
\* copy of the map it took at the start; unknown, the connection is closed.
\* Version 4 compares tokens, version 5 keying material exported for the user.
V4Present(u) ==
    /\ quic = "tuic4" /\ Serving /\ ~token /\ Presents(u)
    /\ \/ Checks(u) /\ UNCHANGED link
       \/ link' = "closed" /\ UNCHANGED auth
V5Present(u) ==
    /\ quic = "tuic5" /\ Serving /\ ~token /\ Presents(u)
    /\ \/ Checks(u) /\ UNCHANGED link
       \/ link' = "closed" /\ UNCHANGED auth

\* check_and_record_async answers: over the device limit the connection is
\* closed.
Device ==
    /\ auth.pc = "device" /\ quic # "hysteria"
    /\ \/ /\ link' = "closed" /\ auth' = [auth EXCEPT !.pc = "idle", !.cand = Nil]
          /\ UNCHANGED passed
       \/ /\ passed' = passed \union {auth.cand} /\ UNCHANGED link
          /\ auth' = [auth EXCEPT !.pc = "user"]
    /\ UNCHANGED <<quic, node, main, token, timer, stream>>
\* Hysteria 1 also takes its connection guard, without which it closes, and
\* answers with the negotiated rates before it starts to serve.
Hy1Device ==
    /\ auth.pc = "device" /\ quic = "hysteria" /\ link = "open"
    /\ \/ /\ link' = "closed" /\ auth' = [auth EXCEPT !.pc = "idle", !.cand = Nil]
          /\ UNCHANGED <<main, passed>>
       \/ /\ passed' = passed \union {auth.cand} /\ main' = "serve"
          /\ auth' = [auth EXCEPT !.user = auth.cand, !.ok = TRUE, !.pc = "idle", !.cand = Nil]
          /\ UNCHANGED link
    /\ UNCHANGED <<quic, node, token, timer, stream>>

\* The user is written, then the flag, then the waiters are woken.
SetUser ==
    /\ auth.pc = "user" /\ auth' = [auth EXCEPT !.pc = "flag", !.user = auth.cand]
    /\ UNCHANGED <<quic, node, link, main, token, timer, passed, stream>>
SetFlag ==
    /\ auth.pc = "flag" /\ auth' = [auth EXCEPT !.pc = "notify", !.ok = TRUE]
    /\ UNCHANGED <<quic, node, link, main, token, timer, passed, stream>>
NotifyWaiters ==
    /\ auth.pc = "notify" /\ auth' = [auth EXCEPT !.pc = "idle", !.cand = Nil]
    /\ stream' = [s \in Streams |->
           IF stream[s].st \in {"listen", "parked"}
           THEN [stream[s] EXCEPT !.woken = TRUE] ELSE stream[s]]
    /\ UNCHANGED <<quic, node, link, main, token, timer, passed>>

\* Variant with a defect: the timer gives up when another stream is waiting for the outcome.
TimerDefers ==
    /\ timer = "armed" /\ timer' = "off"
    /\ link' = IF auth.ok \/ \E s \in Streams : stream[s].st = "parked" THEN link ELSE "closed"
    /\ UNCHANGED <<quic, node, main, token, auth, passed, stream>>
\* auth_timeout: the connection is closed if the flag is still down.  (The
\* timer's own wait for the notification only ends it earlier.)
AuthTimer ==
    /\ timer = "armed" /\ timer' = "off"
    /\ link' = IF auth.ok THEN link ELSE "closed"
    /\ UNCHANGED <<quic, node, main, token, auth, passed, stream>>

\* Hysteria 1's deadline for the whole handshake, or an error in it.
HelloFails ==
    /\ quic = "hysteria" /\ main = "hello"
    /\ main' = "done" /\ link' = "closed"
    /\ auth' = [auth EXCEPT !.pc = "idle", !.cand = Nil]
    /\ UNCHANGED <<quic, node, token, timer, passed, stream>>

----------------------------------------------------------------------------
(* The request streams.                                                     *)

\* The slots are interchangeable: the lowest free one is used.
Open(s) ==
    /\ Serving /\ ~token /\ stream[s].st = "free"
    /\ \A r \in Streams : r < s => stream[r].st # "free"
    /\ Goes(s, "header")
    /\ UNCHANGED <<quic, node, link, main, token, auth, timer, passed>>

Still == UNCHANGED <<quic, node, link, main, token, auth, timer, passed>>

\* The request is read.  Hysteria 1 knows its user; Hysteria 2 has only read
\* the frame type; TUIC has read the target, and version 5 answers nothing to
\* a bad one.  The last three register for the notification.
Hy1Header(s) ==
    /\ quic = "hysteria" /\ stream[s].st = "header" /\ link = "open"
    /\ stream' = [stream EXCEPT ![s].st = "dial", ![s].user = auth.user] /\ Still
Hy2Header(s) ==
    /\ quic = "hysteria2" /\ stream[s].st = "header" /\ link = "open"
    /\ Goes(s, "listen") /\ Still
V4Header(s) ==
    /\ quic = "tuic4" /\ stream[s].st = "header" /\ link = "open"
    /\ Goes(s, "listen") /\ Still
V5Header(s) ==
    /\ quic = "tuic5" /\ stream[s].st = "header" /\ link = "open"
    /\ Goes(s, "listen") /\ Still

\* Variant with a defect: the flag is tested before the waiter registers.
TestThenListen(s) ==
    /\ \/ /\ stream[s].st = "header" /\ quic # "hysteria" /\ ~auth.ok /\ Goes(s, "late")
       \/ /\ stream[s].st \in {"late", "listen"}
          /\ Goes(s, IF auth.ok /\ stream[s].st = "listen" THEN "user" ELSE "parked")
    /\ Still
\* wait_auth: registered, then the flag; only then it parks.
TestFlag(s) ==
    /\ stream[s].st = "listen"
    /\ Goes(s, IF auth.ok THEN "user" ELSE "parked") /\ Still

\* The wait ends: woken, with the flag read again, or at its deadline.
Woken(s) ==
    /\ stream[s].st = "parked"
    /\ \/ stream[s].woken /\ auth.ok /\ Goes(s, "user")
       \/ Frees(s)
    /\ Still

\* Variant with a defect: a wait that ends is not looked at again.
TakeAnyUser(s) ==
    /\ stream[s].st \in {"user", "parked"}
    /\ stream' = [stream EXCEPT ![s].st = "target", ![s].user = auth.user] /\ Still
\* The stream reads the user; there is always one behind the flag.
TakeUser(s) ==
    /\ stream[s].st = "user"
    /\ IF auth.user = Nil THEN Frees(s)
       ELSE stream' = [stream EXCEPT ![s].st = "target", ![s].user = auth.user]
    /\ Still

\* A connection guard, or the stream is turned away.  Hysteria 2 reads the
\* target first.
Guard(s) ==
    IF Guards(stream[s].user) < MaxStreams THEN Goes(s, "dial") ELSE Frees(s)
Hy2Target(s) ==
    /\ quic = "hysteria2" /\ stream[s].st = "target" /\ link = "open" /\ Guard(s) /\ Still
TuicGuard(s) ==
    /\ quic \in {"tuic4", "tuic5"} /\ stream[s].st = "target" /\ Guard(s) /\ Still

\* Audit rules and routing, the dial, the reply to the client (none in TUIC 5):
\* a refusal, a failed dial or a failed reply ends the stream.
Replied(s) == stream[s].st = "dial" /\ link = "open" /\ Goes(s, "relay") /\ Still
Hy1Relay(s) == quic = "hysteria" /\ Replied(s)
Hy2Relay(s) == quic = "hysteria2" /\ Replied(s)
V4Relay(s) == quic = "tuic4" /\ Replied(s)
V5Relay(s) == quic = "tuic5" /\ stream[s].st = "dial" /\ Goes(s, "relay") /\ Still

\* What ends a stream: its header's deadline or the end of the QUIC connection
\* (Hysteria 2 reads the header and the target without a deadline), a
\* refusal, a failed dial, the end of the relay.
StreamEnds(s) ==
    /\ \/ stream[s].st \in {"header", "target"} /\ (quic = "hysteria2" => link = "closed")
       \/ stream[s].st \in Holding
    /\ Frees(s) /\ Still

\* Variant with a defect: only a relay looks at the token.
DropsRelays(s) ==
    /\ stream[s].st # "free"
    /\ (token /\ stream[s].st = "relay") \/ main = "done"
    /\ Frees(s) /\ Still
\* TUIC drops a task whose token is cancelled whatever it does, Hysteria 1 a
\* relay; an aborted connection aborts the streams it owned.
StreamDropped(s) ==
    /\ stream[s].st # "free"
    /\ \/ token /\ (quic \in {"tuic4", "tuic5"} \/ (quic = "hysteria" /\ stream[s].st = "relay"))
       \/ main = "done"
    /\ Frees(s) /\ Still

----------------------------------------------------------------------------
(* The end of the connection, and of the inbound.                           *)

PeerCloses ==
    /\ link = "open" /\ link' = "closed"
    /\ UNCHANGED <<quic, node, main, token, auth, timer, passed, stream>>

\* The accept loops end with the connection or a token: everything is
\* cancelled, the connection closed, a credential in progress dropped.
Leaves ==
    /\ main = "serve" /\ (link = "closed" \/ token \/ node # "up") /\ ~Occupied
    /\ main' = "drain" /\ token' = TRUE /\ link' = "closed"
    /\ auth' = [auth EXCEPT !.pc = "idle", !.cand = Nil] /\ timer' = "off"
    /\ UNCHANGED <<quic, node, passed, stream>>
Hy1Leave == quic = "hysteria" /\ Leaves
Hy2Leave == quic = "hysteria2" /\ Leaves
V4Leave == quic = "tuic4" /\ Leaves
V5Leave == quic = "tuic5" /\ Leaves

\* The tasks are joined; Hysteria aborts them at a deadline (3 s, 30 s) first.
Drain ==
    /\ main = "drain" /\ main' = "done"
    /\ \A s \in Streams : stream[s].st = "free"
    /\ UNCHANGED <<quic, node, link, token, auth, timer, passed, stream>>
Aborts ==
    /\ main = "drain" /\ main' = "done"
    /\ stream' = [s \in Streams |-> Closed]
    /\ UNCHANGED <<quic, node, link, token, auth, timer, passed>>
Hy1Abort == quic = "hysteria" /\ Aborts
Hy2Abort == quic = "hysteria2" /\ Aborts

\* The inbound stops: its token is cancelled and the endpoint closes every
\* connection.  Hysteria 1's connections have a token of their own.
Stops ==
    /\ node = "up" /\ node' = "stopping" /\ link' = "closed"
    /\ UNCHANGED <<quic, main, auth, timer, passed, stream>>
Hy1Stop == quic = "hysteria" /\ Stops /\ UNCHANGED token
Hy2Stop == quic = "hysteria2" /\ Stops /\ token' = TRUE
TuicStop == quic \in {"tuic4", "tuic5"} /\ Stops /\ token' = TRUE

\* The connections are joined, or aborted at a deadline (5 s, 30 s, 3 s).  An
\* aborted connection drops the set of its streams, which aborts them, without
\* waiting.
NodeStopped ==
    /\ node = "stopping" /\ main = "done" /\ node' = "stopped"
    /\ UNCHANGED <<quic, link, main, token, auth, timer, passed, stream>>
NodeAborts ==
    /\ node = "stopping" /\ main # "done"
    /\ main' = "done" /\ node' = "stopped" /\ token' = (token \/ quic # "hysteria")
    /\ auth' = [auth EXCEPT !.pc = "idle", !.cand = Nil] /\ timer' = "off"
    /\ UNCHANGED <<quic, link, passed, stream>>

Leave == Hy1Leave \/ Hy2Leave \/ V4Leave \/ V5Leave

QuicSessionNext ==
  /\ quic # "none"
  /\ \/ \E u \in QuicUsers : Hy1Present(u) \/ Hy2Present(u) \/ V4Present(u) \/ V5Present(u)
     \/ Device \/ Hy1Device \/ SetUser \/ SetFlag \/ NotifyWaiters \/ AuthTimer \/ HelloFails
     \/ \E s \in Streams :
         \/ Open(s) \/ Hy1Header(s) \/ Hy2Header(s) \/ V4Header(s) \/ V5Header(s)
         \/ TestFlag(s) \/ Woken(s) \/ TakeUser(s) \/ Hy2Target(s) \/ TuicGuard(s)
         \/ Hy1Relay(s) \/ Hy2Relay(s) \/ V4Relay(s) \/ V5Relay(s)
         \/ StreamEnds(s) \/ StreamDropped(s)
     \/ PeerCloses \/ Leave \/ Drain \/ Hy1Abort \/ Hy2Abort
     \/ Hy1Stop \/ Hy2Stop \/ TuicStop \/ NodeStopped \/ NodeAborts

\* A task that can run is run: the ends of a closed connection's streams, the
\* connection's own end, the inbound's; device checks answer; the
\* authentication timer and the handshake's deadline go off.
QuicSessionFairness ==
    /\ \A s \in Streams : WF_quicVars((StreamEnds(s) /\ link = "closed") \/ StreamDropped(s))
    /\ WF_quicVars(Leave \/ Drain \/ Hy1Abort \/ Hy2Abort)
    /\ WF_quicVars(Device \/ SetUser \/ SetFlag \/ NotifyWaiters)
    /\ WF_quicVars(NodeStopped \/ NodeAborts)
    /\ WF_quicVars(AuthTimer) /\ WF_quicVars(HelloFails)
==============================================================================
