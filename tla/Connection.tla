----------------------------- MODULE Connection -----------------------------
(***************************************************************************)
(* What every TCP inbound of src/protocol shares: one task per accepted     *)
(* connection, spawned into a JoinSet; a user list that update_users may    *)
(* replace at any moment; the admission steps (device check and connection  *)
(* guard); the audit and the dial; and the end of the inbound (stop         *)
(* accepting, drain, abort).  One module per protocol adds its own stages.  *)
(* An action runs a task from one await to the next.                        *)
(*                                                                          *)
(* Abstractions: a credential is the user that owns it; a host is all that  *)
(* the audit and the dialer look at; the device check and the dial may      *)
(* answer either way (DeviceLimiter and Egress model them).                 *)
(***************************************************************************)
EXTENDS Naturals, FiniteSets

CONSTANTS
    Conns,      \* connection slots; a closed slot may be accepted again
    Clients,    \* client addresses
    Users,      \* users the panel may list
    Lists,      \* the user lists update_users is called with
    Hosts,      \* targets a client may ask for
    Blocked,    \* the hosts should_block answers TRUE for
    MaxConn,    \* connection limit of every user
    None        \* no user, no address, no host

ASSUME ConnectionAssumption ==
    /\ IsFiniteSet(Conns) /\ MaxConn \in Nat
    /\ Lists \subseteq SUBSET Users
    /\ None \notin Users /\ None \notin Conns

VARIABLES
    proto,      \* the protocol of the inbound
    inbound,    \* "running", "draining" (accept loop left) or "stopped"
    users,      \* the current user list
    conn,       \* the task in each slot
    cache,      \* IpUserCache: the last user authenticated from an address
    suspects    \* addresses with a failure record in the defence manager

vars == <<proto, inbound, users, conn, cache, suspects>>

\* A slot with no task.  since and seen are history: the users listed during
\* the whole of the authentication, and at some moment of it; known and
\* wronged are the verdicts the properties read.
Idle == [pc |-> "closed", ip |-> None, cred |-> None, user |-> None,
         guard |-> FALSE, host |-> None, skip |-> None, list |-> {},
         since |-> {}, seen |-> {}, parent |-> None, detached |-> FALSE,
         known |-> TRUE, wronged |-> FALSE]

Init ==
    /\ inbound = "running"
    /\ users \in Lists
    /\ conn = [c \in Conns |-> Idle]
    /\ cache = [i \in Clients |-> None]
    /\ suspects = {}

At(c, stages) == conn[c].pc \in stages
Become(c, r) == conn' = [conn EXCEPT ![c] = r]
Move(c, pc) == conn' = [conn EXCEPT ![c].pc = pc]
\* Variant with a defect: the streams of a connection are not in its JoinSet.
CloseOne(c) == Become(c, Idle)
\* A task that ends takes the tasks of its own JoinSet (its streams) with it.
Close(c) ==
    conn' = [d \in Conns |-> IF d = c \/ conn[d].parent = c THEN Idle ELSE conn[d]]
KeepInbound == UNCHANGED <<proto, inbound, users>>
KeepRecords == UNCHANGED <<cache, suspects>>
Only(c) == KeepInbound /\ KeepRecords

\* The listener hands a stream to a new task (the accept arm of start).
Accept(c, stage) ==
    /\ inbound = "running" /\ At(c, {"closed"})
    /\ \E i \in Clients : Become(c, [Idle EXCEPT !.pc = stage, !.ip = i])
    /\ Only(c)

\* serve_transport on a multiplexed transport: the connection task c accepts a
\* stream and spawns its handler, into its JoinSet or detached.
Stream(c, d, r) ==
    /\ At(c, {"streams"}) /\ At(d, {"closed"})
    /\ Become(d, [r EXCEPT !.ip = conn[c].ip])
    /\ Only(d)

\* A read or write of the task fails, the peer closes, or the relay is over:
\* the handler returns and everything it owned is dropped.
Fail(c, stages) == At(c, stages) /\ Close(c) /\ Only(c)

\* r in the stage at which the client's credential is read.
Greeting(r) ==
    [r EXCEPT !.pc = "handshake", !.since = users, !.seen = users]

\* The lookup found u for the credential of cred.
Recognised(c, u, cred, pc) ==
    [conn[c] EXCEPT !.pc = pc, !.user = u, !.cred = cred,
                    !.known = (u \in conn[c].seen), !.since = {}, !.seen = {},
                    !.list = {}, !.skip = None]

\* The lookup found nobody.
Turned(c, cred) == [Idle EXCEPT !.wronged = (cred \in conn[c].since)]

\* record_success and record_failure of the defence manager; is_banned answers
\* FALSE whatever they recorded.
Forgive(c) == suspects' = suspects \ {conn[c].ip}
Suspect(c) == suspects' = suspects \cup {conn[c].ip}

\* ConnLimiter: guards of u alive now.
Held(u) == Cardinality({c \in Conns : conn[c].guard /\ conn[c].user = u})

\* Variant with a defect: the limit is exceeded by one.
AdmitOneMore(c, from, next) ==
    /\ At(c, {from}) /\ Held(conn[c].user) <= MaxConn
    /\ Become(c, [conn[c] EXCEPT !.pc = next, !.guard = TRUE])
    /\ Only(c)

\* check_and_record_async, then try_acquire with no await between them.
Admit(c, from, next) ==
    /\ At(c, {from})
    /\ \/ /\ Held(conn[c].user) < MaxConn
          /\ Become(c, [conn[c] EXCEPT !.pc = next, !.guard = TRUE])
       \/ Close(c)
    /\ Only(c)

\* The sniffed name, if any, is what should_block sees; sniff_redirect decides
\* which of the two names is dialled.
Audit(c, host, match, next) ==
    IF match \in Blocked
    THEN Close(c)
    ELSE \E d \in {host, match} :
             Become(c, [conn[c] EXCEPT !.pc = next, !.host = d])

\* Sniffing runs only when the target is an address, and may find any name.
Sniff(c, next) ==
    /\ At(c, {"sniff"})
    /\ \E m \in Hosts : Audit(c, conn[c].host, m, next)
    /\ Only(c)

\* Variant with a defect: the dialer trusts the caller's audit.
DialUnaudited(c, next) == At(c, {"dial"}) /\ Move(c, next) /\ Only(c)

\* The dialer audits the name again (resolve_target) before it connects.
Dial(c, next) ==
    /\ At(c, {"dial"})
    /\ \/ conn[c].host \notin Blocked /\ Move(c, next)
       \/ Close(c)
    /\ Only(c)

-----------------------------------------------------------------------------
\* update_users replaces the list; running tasks are not told.
UserUpdate ==
    /\ users' \in Lists \ {users}
    /\ conn' = [c \in Conns |->
                  IF At(c, {"handshake", "scan"})
                  THEN [conn[c] EXCEPT !.since = @ \cap users', !.seen = @ \cup users']
                  ELSE conn[c]]
    /\ UNCHANGED <<proto, inbound, cache, suspects>>

\* shutdown_rx fires: the accept loop is left and the listener dropped.
Stop ==
    /\ inbound = "running" /\ inbound' = "draining"
    /\ UNCHANGED <<proto, users, conn>> /\ KeepRecords

\* Every task of the JoinSet has been joined.
Drained ==
    /\ inbound = "draining" /\ inbound' = "stopped"
    /\ \A c \in Conns : At(c, {"closed"}) \/ conn[c].detached
    /\ UNCHANGED <<proto, users, conn>> /\ KeepRecords

\* drain_connections gives up waiting: abort_all drops the tasks of the
\* JoinSet at whatever await they are in.
DrainTimeout ==
    /\ inbound = "draining" /\ inbound' = "stopped"
    /\ conn' = [c \in Conns |-> IF conn[c].detached THEN conn[c] ELSE Idle]
    /\ UNCHANGED <<proto, users>> /\ KeepRecords
=============================================================================
