-------------------------- MODULE DatagramProofs ---------------------------
(***************************************************************************)
(* Theorems about what is relayed in datagrams.  Quic: the QUIC inbounds   *)
(* serve only authenticated users within their limits, lose no wake-up and *)
(* take no association from its id, for any number of users, streams,      *)
(* associations and ids.  Datagrams: the replay window of Shadowsocks 2022 *)
(* relays no datagram twice, for any size of the window.                   *)
(***************************************************************************)
EXTENDS Quic, Datagrams, FiniteSetTheorems, TLAPS

-----------------------------------------------------------------------------
(* Quic: authentication, the streams and the UDP associations.             *)

Stages == {"free", "header", "listen", "parked", "user", "target", "dial", "relay"}
StreamRec == [st : Stages, user : QuicUsers \cup {Nil}, woken : BOOLEAN]

\* The state of a connection that the properties look at has its shape.
QuicTypes ==
    /\ auth \in [user : QuicUsers \cup {Nil}, ok : BOOLEAN,
                 pc : {"idle", "device", "user", "flag", "notify"}, cand : QuicUsers \cup {Nil}]
    /\ passed \subseteq QuicUsers
    /\ stream \in [Streams -> StreamRec]

\* Whoever the connection is authenticated as, or is about to be, has passed;
\* Hysteria 1 does not serve before.
AuthInv ==
    /\ auth.user # Nil => auth.user \in passed
    /\ auth.pc = "device" => auth.cand # Nil
    /\ auth.pc \in {"user", "flag", "notify"} => auth.cand \in passed
    /\ quic = "hysteria" /\ main \in {"serve", "drain"} => auth.user # Nil

\* A stream that is served has a user who passed; a stream of Hysteria 1 never
\* waits for the authentication, it comes after it.
StreamInv ==
    \A s \in Streams :
        /\ stream[s].st \in Holding \cup {"target"} => stream[s].user \in passed
        /\ quic = "hysteria" =>
              /\ stream[s].st \in {"free", "header", "dial", "relay"}
              /\ stream[s].st # "free" => auth.user # Nil

\* The streams that hold a guard of u where every stream has one of its own.
Held(u) == {s \in Streams : stream[s].st \in Holding /\ stream[s].user = u}
HeldInv == quic # "hysteria" => \A u \in QuicUsers : Cardinality(Held(u)) <= MaxStreams

QuicInv == QuicTypes /\ AuthInv /\ StreamInv /\ HeldInv /\ WaitersWoken

SlotRec == [st : Running \cup {"free", "bind", "closing", "ended"}, id : Ids \cup {0},
            q : Nat, wq : Nat, w : {"none", "wait", "throttle", "ack"}, resp : Nat,
            left : BOOLEAN]

\* The state of the associations has its shape.
QudpTypes ==
    /\ table \in [Ids -> Slots \cup {NoSlot}]
    /\ slot \in [Slots -> SlotRec]
    /\ post \in Slots \cup {NoSlot}
    /\ nextId \in Nat

\* An association has an id; Hysteria 1 gives an id once, so no two of its
\* associations share one.
IdInv ==
    /\ \A a \in Slots : slot[a].st # "free" => slot[a].id \in Ids
    /\ udpq = "hy1" =>
          /\ \A a \in Slots : slot[a].st # "free" => slot[a].id < nextId
          /\ \A a, b \in Slots :
                slot[a].st # "free" /\ slot[b].st # "free" /\ slot[a].id = slot[b].id => a = b

QudpInv == QudpTypes /\ IdInv /\ SessionKept

-----------------------------------------------------------------------------
(* A connection and its streams.                                           *)

\* Streams that give up guards, or keep them, keep the limit.
LEMMA HeldShrinks ==
  ASSUME QuicTypes, HeldInv, UNCHANGED quic,
         \A u \in QuicUsers : Held(u)' \subseteq Held(u)
  PROVE  HeldInv'
  <1> SUFFICES ASSUME quic # "hysteria", NEW u \in QuicUsers
               PROVE  Cardinality(Held(u)') <= MaxStreams
    BY Zenon DEF HeldInv
  <1>1. IsFiniteSet(Held(u))
    BY FS_Subset, QuicAssumption, Zenon DEF Held
  <1>2. /\ Cardinality(Held(u)') <= Cardinality(Held(u))
        /\ IsFiniteSet(Held(u)')
    BY <1>1, FS_Subset, Zenon
  <1>3. Cardinality(Held(u)) \in Nat /\ Cardinality(Held(u)') \in Nat
    BY <1>1, <1>2, FS_CardinalityType, Zenon
  <1> QED
    BY <1>2, <1>3, QuicAssumption DEF HeldInv

\* One stream changes and nothing else: what the new stage must satisfy.
LEMMA StreamStep ==
  ASSUME QuicInv, Still, NEW s \in Streams, NEW r \in StreamRec,
         stream' = [stream EXCEPT ![s] = r],
         r.st \in Holding \cup {"target"} => r.user \in passed,
         r.st = "parked" => ~auth.ok \/ (stream[s].st = "parked" /\ r.woken = stream[s].woken),
         quic = "hysteria" => /\ r.st \in {"free", "header", "dial", "relay"}
                              /\ r.st # "free" => auth.user # Nil,
         r.st \in Holding =>
             \/ quic = "hysteria"
             \/ stream[s].st \in Holding /\ r.user = stream[s].user
             \/ Cardinality(Held(r.user)) < MaxStreams
  PROVE  QuicInv'
  <1> USE DEF QuicInv
  <1>1. /\ auth' = auth /\ passed' = passed /\ quic' = quic /\ main' = main
        /\ \A t \in Streams : stream'[t] = IF t = s THEN r ELSE stream[t]
    BY Zenon DEF Still, QuicTypes
  <1>2. QuicTypes'
    BY <1>1, Zenon DEF QuicTypes
  <1>3. AuthInv'
    BY <1>1, Zenon DEF AuthInv
  <1>4. StreamInv'
    BY <1>1 DEF StreamInv
  <1>5. WaitersWoken'
    BY <1>1, Zenon DEF WaitersWoken
  <1>6. HeldInv'
    <2>1. CASE \A u \in QuicUsers : Held(u)' \subseteq Held(u)
      BY <2>1, <1>1, HeldShrinks, Zenon
    <2>2. CASE quic = "hysteria"
      BY <2>2, <1>1, Zenon DEF HeldInv
    <2>3. CASE r.st \in Holding /\ quic # "hysteria" /\ Cardinality(Held(r.user)) < MaxStreams
      <3> SUFFICES ASSUME NEW u \in QuicUsers PROVE Cardinality(Held(u)') <= MaxStreams
        BY Zenon DEF HeldInv
      <3>1. IsFiniteSet(Held(u))
        BY FS_Subset, QuicAssumption, Zenon DEF Held
      <3>2. Cardinality(Held(u)) \in Nat
        BY <3>1, FS_CardinalityType, Zenon
      <3>3. CASE u = r.user
        <4>1. Held(u)' \subseteq Held(u) \cup {s}
          BY <1>1, Zenon DEF Held
        <4>2. /\ IsFiniteSet(Held(u) \cup {s})
              /\ Cardinality(Held(u) \cup {s}) <= Cardinality(Held(u)) + 1
          <5>1. /\ IsFiniteSet(Held(u) \cup {s})
                /\ \/ Cardinality(Held(u) \cup {s}) = Cardinality(Held(u))
                   \/ Cardinality(Held(u) \cup {s}) = Cardinality(Held(u)) + 1
            BY ZenonT(30), <3>1, FS_AddElement
          <5> QED
            BY <5>1, <3>2
        <4>3. /\ Cardinality(Held(u)') <= Cardinality(Held(u) \cup {s})
              /\ IsFiniteSet(Held(u)')
          BY <4>1, <4>2, FS_Subset, Zenon
        <4>4. Cardinality(Held(u)') \in Nat /\ Cardinality(Held(u) \cup {s}) \in Nat
          BY <4>2, <4>3, FS_CardinalityType, Zenon
        <4> QED
          BY <2>3, <3>2, <3>3, <4>2, <4>3, <4>4, QuicAssumption
      <3>4. CASE u # r.user
        <4>1. Held(u)' \subseteq Held(u)
          BY <1>1, <3>4, Zenon DEF Held
        <4>2. Cardinality(Held(u)') <= Cardinality(Held(u)) /\ IsFiniteSet(Held(u)')
          BY <4>1, <3>1, FS_Subset, Zenon
        <4>3. Cardinality(Held(u)') \in Nat
          BY <4>2, FS_CardinalityType, Zenon
        <4> QED
          BY <2>3, <3>2, <4>2, <4>3, QuicAssumption DEF HeldInv
      <3> QED
        BY <3>3, <3>4, Zenon
    <2>4. r.st \notin Holding \/ (stream[s].st \in Holding /\ r.user = stream[s].user)
              => \A u \in QuicUsers : Held(u)' \subseteq Held(u)
      BY <1>1, Zenon DEF Held
    <2> QED
      BY <2>1, <2>2, <2>3, <2>4, Zenon
  <1> QED
    BY <1>2, <1>3, <1>4, <1>5, <1>6, Zenon

\* The stages of a request stream preserve the invariant.
LEMMA StreamActions ==
  ASSUME QuicInv, NEW s \in Streams,
         \/ Open(s) \/ Hy1Header(s) \/ Hy2Header(s) \/ V4Header(s) \/ V5Header(s)
         \/ TestFlag(s) \/ Woken(s) \/ TakeUser(s) \/ Hy2Target(s) \/ TuicGuard(s)
         \/ Hy1Relay(s) \/ Hy2Relay(s) \/ V4Relay(s) \/ V5Relay(s)
         \/ StreamEnds(s) \/ StreamDropped(s)
  PROVE  QuicInv'
  <1> DEFINE Moved(st) == [stream[s] EXCEPT !.st = st]
             Taken(st, u) == [stream[s] EXCEPT !.st = st, !.user = u]
  <1>0. /\ stream \in [Streams -> StreamRec] /\ stream[s] \in StreamRec
        /\ auth.user \in QuicUsers \cup {Nil}
    BY Zenon DEF QuicInv, QuicTypes
  <1>1. ASSUME NEW st \in Stages, Still, Goes(s, st)
        PROVE  /\ stream' = [stream EXCEPT ![s] = Moved(st)] /\ Moved(st) \in StreamRec
               /\ Moved(st).st = st /\ Moved(st).user = stream[s].user
               /\ Moved(st).woken = stream[s].woken
    BY <1>0, <1>1, Zenon DEF Goes, StreamRec
  <1>2. ASSUME Still, Frees(s) PROVE QuicInv'
    <2>1. stream' = [stream EXCEPT ![s] = Closed] /\ Closed \in StreamRec /\ Closed.st = "free"
      BY <1>2, Zenon DEF Frees, Closed, StreamRec, Stages
    <2> HIDE DEF Moved
    <2> QED
      BY <2>1, <1>2, StreamStep, Zenon DEF Holding
  <1>3. ASSUME NEW u \in QuicUsers \cup {Nil}, NEW st \in Stages, Still,
               stream' = [stream EXCEPT ![s].st = st, ![s].user = u]
        PROVE  /\ stream' = [stream EXCEPT ![s] = Taken(st, u)] /\ Taken(st, u) \in StreamRec
               /\ Taken(st, u).st = st /\ Taken(st, u).user = u
    BY <1>0, <1>3, Zenon DEF StreamRec
  <1> HIDE DEF Moved, Taken
  <1>10. CASE Open(s)
    <2>1. Still /\ Goes(s, "header") /\ (quic = "hysteria" => auth.user # Nil)
      BY <1>10, Zenon DEF Open, Still, Serving, QuicInv, AuthInv
    <2> QED
      BY <2>1, <1>1, StreamStep, Zenon DEF Stages, Holding
  <1>11. CASE Hy1Header(s)
    <2>1. Still /\ auth.user # Nil /\ quic = "hysteria"
          /\ stream' = [stream EXCEPT ![s].st = "dial", ![s].user = auth.user]
          /\ auth.user \in passed
      BY <1>11, Zenon DEF Hy1Header, QuicInv, StreamInv, AuthInv
    <2>2. "dial" \in Stages
      BY Zenon DEF Stages
    <2>3. /\ stream' = [stream EXCEPT ![s] = Taken("dial", auth.user)]
          /\ Taken("dial", auth.user) \in StreamRec
          /\ Taken("dial", auth.user).st = "dial" /\ Taken("dial", auth.user).user = auth.user
      BY ONLY <2>1, <2>2, <1>0, <1>3, ZenonT(30)
    <2> QED
      BY <2>1, <2>3, StreamStep, Zenon DEF Holding
  <1>12. CASE Hy2Header(s) \/ V4Header(s) \/ V5Header(s)
    <2>1. Still /\ Goes(s, "listen") /\ quic # "hysteria"
      BY <1>12, Zenon DEF Hy2Header, V4Header, V5Header
    <2> QED
      BY <2>1, <1>1, StreamStep, Zenon DEF Stages, Holding
  <1>13. CASE TestFlag(s)
    <2>1. Still /\ quic # "hysteria"
      BY <1>13, Zenon DEF TestFlag, QuicInv, StreamInv
    <2>2. CASE auth.ok
      BY <2>1, <2>2, <1>13, <1>1, StreamStep, Zenon DEF TestFlag, Stages, Holding
    <2>3. CASE ~auth.ok
      BY <2>1, <2>3, <1>13, <1>1, StreamStep, Zenon DEF TestFlag, Stages, Holding
    <2> QED
      BY <2>2, <2>3, Zenon
  <1>14. CASE Woken(s)
    <2>1. Still /\ quic # "hysteria"
      BY <1>14, Zenon DEF Woken, QuicInv, StreamInv
    <2>2. CASE Goes(s, "user")
      BY <2>1, <2>2, <1>1, StreamStep, Zenon DEF Stages, Holding
    <2> QED
      BY <2>1, <2>2, <1>2, <1>14, Zenon DEF Woken
  <1>15. CASE TakeUser(s)
    <2>1. Still /\ quic # "hysteria"
      BY <1>15, Zenon DEF TakeUser, QuicInv, StreamInv
    <2>2. CASE auth.user # Nil
      <3>1. auth.user \in passed /\ stream' = [stream EXCEPT ![s].st = "target", ![s].user = auth.user]
        BY <2>2, <1>15, Zenon DEF TakeUser, QuicInv, AuthInv
      <3>2. "target" \in Stages
        BY Zenon DEF Stages
      <3>3. /\ stream' = [stream EXCEPT ![s] = Taken("target", auth.user)]
            /\ Taken("target", auth.user) \in StreamRec
            /\ Taken("target", auth.user).st = "target"
            /\ Taken("target", auth.user).user = auth.user
        BY ONLY <3>1, <3>2, <2>1, <1>0, <1>3, Zenon
      <3> QED
        BY <3>1, <3>3, <2>1, StreamStep, Zenon DEF Holding
    <2> QED
      BY <2>1, <2>2, <1>2, <1>15, Zenon DEF TakeUser
  <1>16. CASE Hy2Target(s) \/ TuicGuard(s)
    <2>1. Still /\ Guard(s) /\ quic # "hysteria" /\ stream[s].st = "target"
      BY <1>16, Zenon DEF Hy2Target, TuicGuard
    <2>2. CASE Guards(stream[s].user) < MaxStreams
      <3>1. Cardinality(Held(stream[s].user)) < MaxStreams
        BY <2>1, <2>2, Zenon DEF Guards, Held
      <3>2. Goes(s, "dial") /\ stream[s].user \in passed
        BY <2>1, <2>2, Zenon DEF Guard, QuicInv, StreamInv
      <3> QED
        BY <3>1, <3>2, <2>1, <1>1, StreamStep, Zenon DEF Stages, Holding
    <2> QED
      BY <2>1, <2>2, <1>2, Zenon DEF Guard
  <1>17. CASE Hy1Relay(s) \/ Hy2Relay(s) \/ V4Relay(s) \/ V5Relay(s)
    <2>1. Still /\ Goes(s, "relay") /\ stream[s].st = "dial"
      BY <1>17, Zenon DEF Hy1Relay, Hy2Relay, V4Relay, V5Relay, Replied
    <2>2. stream[s].user \in passed /\ (quic = "hysteria" => auth.user # Nil)
      BY <2>1, Zenon DEF QuicInv, StreamInv, Holding
    <2> QED
      BY <2>1, <2>2, <1>1, StreamStep, Zenon DEF Stages, Holding
  <1>18. CASE StreamEnds(s) \/ StreamDropped(s)
    BY <1>18, <1>2, Zenon DEF StreamEnds, StreamDropped
  <1> QED
    BY <1>10, <1>11, <1>12, <1>13, <1>14, <1>15, <1>16, <1>17, <1>18, Zenon

\* Streams and authentication are as they were; the connection's task ends, is
\* over, or goes on as it was.
LEMMA Bystander ==
  ASSUME QuicInv, UNCHANGED <<quic, passed, stream, auth>>,
         main' = main \/ main' = "done"
  PROVE  QuicInv'
  <1>1. QuicTypes' /\ AuthInv' /\ StreamInv' /\ WaitersWoken'
    BY Zenon DEF QuicInv, QuicTypes, AuthInv, StreamInv, WaitersWoken
  <1>2. HeldInv'
    BY Zenon DEF QuicInv, HeldInv, Held
  <1> QED
    BY <1>1, <1>2, Zenon DEF QuicInv

\* The authenticating task is dropped with the connection's accept loop.
LEMMA AuthDropped ==
  ASSUME QuicInv, UNCHANGED <<quic, passed, stream>>,
         auth' = [auth EXCEPT !.pc = "idle", !.cand = Nil],
         \/ main' = "done" \/ (main' = "drain" /\ main = "serve")
         \/ main' = main /\ auth.pc = "device"
  PROVE  QuicInv'
  <1>1. /\ auth'.user = auth.user /\ auth'.ok = auth.ok /\ auth'.pc = "idle"
        /\ auth' \in [user : QuicUsers \cup {Nil}, ok : BOOLEAN,
                      pc : {"idle", "device", "user", "flag", "notify"}, cand : QuicUsers \cup {Nil}]
    BY Zenon DEF QuicInv, QuicTypes
  <1>2. QuicTypes' /\ AuthInv' /\ StreamInv'
    BY <1>1, Zenon DEF QuicInv, QuicTypes, AuthInv, StreamInv
  <1>3. WaitersWoken'
    BY <1>1, Zenon DEF QuicInv, WaitersWoken
  <1>4. HeldInv'
    BY Zenon DEF QuicInv, HeldInv, Held
  <1> QED
    BY <1>2, <1>3, <1>4, Zenon DEF QuicInv

\* The steps of the authenticating task, of the timers and of the ends of the
\* connection and the inbound preserve the invariant.
LEMMA SessionActions ==
  ASSUME QuicInv, QuicSessionNext
  PROVE  QuicInv'
  <1> DEFINE AuthRec == [user : QuicUsers \cup {Nil}, ok : BOOLEAN,
                         pc : {"idle", "device", "user", "flag", "notify"},
                         cand : QuicUsers \cup {Nil}]
  <1>0. auth \in AuthRec /\ stream \in [Streams -> StreamRec] /\ passed \subseteq QuicUsers
    BY Zenon DEF QuicInv, QuicTypes
  \* The authentication advances and the streams stay.
  <1>1. ASSUME UNCHANGED <<quic, stream>>, auth' \in AuthRec,
               passed \subseteq passed', passed' \subseteq QuicUsers,
               AuthInv', auth.user # Nil => auth'.user # Nil, WaitersWoken'
        PROVE  QuicInv'
    <2>1. QuicTypes' /\ StreamInv'
      BY <1>1, Zenon DEF QuicInv, QuicTypes, StreamInv
    <2>2. HeldInv'
      BY <1>1, Zenon DEF QuicInv, HeldInv, Held
    <2> QED
      BY <2>1, <2>2, <1>1, Zenon DEF QuicInv
  <1>2. ASSUME NEW u \in QuicUsers, Hy1Present(u) \/ Hy2Present(u) \/ V4Present(u) \/ V5Present(u)
        PROVE  QuicInv'
    <2>1. UNCHANGED <<quic, main, passed, stream>> /\ (Checks(u) \/ UNCHANGED auth)
      BY <1>2, Zenon DEF Hy1Present, Hy2Present, V4Present, V5Present, Presents
    <2>2. CASE UNCHANGED auth
      BY <2>1, <2>2, Bystander, Zenon
    <2>3. CASE Checks(u)
      <3>1. /\ auth' \in AuthRec /\ auth'.pc = "device" /\ auth'.cand = u
            /\ auth'.user = auth.user /\ auth'.ok = auth.ok /\ auth.pc = "idle"
        BY <2>3, <1>0, <1>2, Zenon DEF Checks, Hy1Present, Hy2Present, V4Present, V5Present, Presents
      <3>2. AuthInv' /\ WaitersWoken'
        BY <3>1, <2>1, QuicAssumption, Zenon DEF QuicInv, AuthInv, WaitersWoken
      <3> QED
        BY <3>1, <3>2, <2>1, <1>0, <1>1, Zenon
    <2> QED
      BY <2>1, <2>2, <2>3, Zenon
  <1>3. CASE Device
    <2>1. CASE auth' = [auth EXCEPT !.pc = "idle", !.cand = Nil] /\ UNCHANGED passed
      BY <2>1, <1>3, AuthDropped, Zenon DEF Device
    <2>2. CASE passed' = passed \union {auth.cand} /\ auth' = [auth EXCEPT !.pc = "user"]
      <3>1. /\ auth' \in AuthRec /\ auth'.pc = "user" /\ auth'.cand = auth.cand
            /\ auth'.user = auth.user /\ auth'.ok = auth.ok /\ auth.pc = "device"
            /\ UNCHANGED <<quic, main, stream>>
        BY <2>2, <1>0, <1>3, Zenon DEF Device
      <3>2. auth.cand \in QuicUsers
        BY <3>1, <1>0, Zenon DEF QuicInv, AuthInv
      <3>3. AuthInv' /\ WaitersWoken'
        BY <3>1, <2>2, Zenon DEF QuicInv, AuthInv, WaitersWoken
      <3> QED
        BY <3>1, <3>2, <3>3, <2>2, <1>0, <1>1, Zenon
    <2> QED
      BY <2>1, <2>2, <1>3, Zenon DEF Device
  <1>4. CASE Hy1Device
    <2>1. CASE auth' = [auth EXCEPT !.pc = "idle", !.cand = Nil] /\ UNCHANGED <<main, passed>>
      BY <2>1, <1>4, AuthDropped, Zenon DEF Hy1Device
    <2>2. CASE /\ passed' = passed \union {auth.cand} /\ main' = "serve"
               /\ auth' = [auth EXCEPT !.user = auth.cand, !.ok = TRUE, !.pc = "idle", !.cand = Nil]
      <3>1. /\ auth' \in AuthRec /\ auth'.pc = "idle" /\ auth'.cand = Nil
            /\ auth'.user = auth.cand /\ auth.pc = "device" /\ quic = "hysteria"
            /\ UNCHANGED <<quic, stream>>
        BY <2>2, <1>0, <1>4, Zenon DEF Hy1Device
      <3>2. auth.cand \in QuicUsers /\ auth.cand # Nil
        BY <3>1, <1>0, Zenon DEF QuicInv, AuthInv
      <3>3. AuthInv'
        BY <3>1, <3>2, <2>2, Zenon DEF QuicInv, AuthInv
      <3>4. WaitersWoken'
        BY <3>1, Zenon DEF QuicInv, StreamInv, WaitersWoken
      <3> QED
        BY <3>1, <3>2, <3>3, <3>4, <2>2, <1>0, <1>1, Zenon
    <2> QED
      BY <2>1, <2>2, <1>4, Zenon DEF Hy1Device
  <1>5. CASE SetUser
    <2>1. /\ auth' \in AuthRec /\ auth'.pc = "flag" /\ auth'.cand = auth.cand
          /\ auth'.user = auth.cand /\ auth'.ok = auth.ok /\ auth.pc = "user"
          /\ UNCHANGED <<quic, main, passed, stream>>
      BY <1>0, <1>5, Zenon DEF SetUser
    <2>2. auth.cand \in passed /\ auth.cand # Nil
      BY <2>1, <1>0, QuicAssumption, Zenon DEF QuicInv, AuthInv
    <2>3. AuthInv' /\ WaitersWoken'
      BY <2>1, <2>2, Zenon DEF QuicInv, AuthInv, WaitersWoken
    <2> QED
      BY <2>1, <2>2, <2>3, <1>0, <1>1, Zenon
  <1>6. CASE SetFlag
    <2>1. /\ auth' \in AuthRec /\ auth'.pc = "notify" /\ auth'.cand = auth.cand
          /\ auth'.user = auth.user /\ auth.pc = "flag"
          /\ UNCHANGED <<quic, main, passed, stream>>
      BY <1>0, <1>6, Zenon DEF SetFlag
    <2>2. AuthInv' /\ WaitersWoken'
      BY <2>1, Zenon DEF QuicInv, AuthInv, WaitersWoken
    <2> QED
      BY <2>1, <2>2, <1>0, <1>1, Zenon
  <1>7. CASE NotifyWaiters
    <2>1. /\ auth' \in AuthRec /\ auth'.pc = "idle" /\ auth'.user = auth.user
          /\ UNCHANGED <<quic, main, passed>>
      BY <1>0, <1>7, Zenon DEF NotifyWaiters
    <2>2. /\ stream' \in [Streams -> StreamRec]
          /\ \A s \in Streams : /\ stream'[s].st = stream[s].st /\ stream'[s].user = stream[s].user
                                /\ stream'[s].st = "parked" => stream'[s].woken
      BY <1>0, <1>7, ZenonT(30) DEF NotifyWaiters, StreamRec
    <2>3. QuicTypes' /\ AuthInv' /\ StreamInv' /\ WaitersWoken'
      BY <2>1, <2>2, Zenon DEF QuicInv, QuicTypes, AuthInv, StreamInv, WaitersWoken
    <2>4. \A u \in QuicUsers : Held(u)' \subseteq Held(u)
      BY <2>2, Zenon DEF Held
    <2> QED
      BY <2>1, <2>3, <2>4, HeldShrinks, Zenon DEF QuicInv
  <1>8. CASE AuthTimer \/ PeerCloses \/ Drain \/ Hy1Stop \/ Hy2Stop \/ TuicStop \/ NodeStopped
    BY <1>8, Bystander, Zenon DEF AuthTimer, PeerCloses, Drain, Hy1Stop, Hy2Stop, TuicStop, Stops,
        NodeStopped
  <1>9. CASE HelloFails \/ Leave \/ NodeAborts
    BY <1>9, AuthDropped, Zenon DEF HelloFails, Leave, Hy1Leave, Hy2Leave, V4Leave, V5Leave,
        Leaves, NodeAborts
  <1>10. CASE Hy1Abort \/ Hy2Abort
    <2>1. UNCHANGED <<quic, auth, passed>> /\ main' = "done"
          /\ stream' = [s \in Streams |-> Closed] /\ Closed \in StreamRec
      BY <1>10, Zenon DEF Hy1Abort, Hy2Abort, Aborts, Closed, StreamRec, Stages
    <2>2. QuicTypes' /\ AuthInv' /\ StreamInv' /\ WaitersWoken'
      BY <2>1, Zenon DEF QuicInv, QuicTypes, AuthInv, StreamInv, WaitersWoken, Closed, Holding
    <2>3. \A u \in QuicUsers : Held(u)' \subseteq Held(u)
      BY <2>1, Zenon DEF Held, Closed, Holding
    <2> QED
      BY <2>1, <2>2, <2>3, HeldShrinks, Zenon DEF QuicInv
  <1> QED
    BY <1>2, <1>3, <1>4, <1>5, <1>6, <1>7, <1>8, <1>9, <1>10, StreamActions, Zenon DEF QuicSessionNext

-----------------------------------------------------------------------------
(* The associations.                                                       *)

\* One association changes, keeps its id, and is started by nothing.
LEMMA SlotStep ==
  ASSUME QudpInv, NEW a \in Slots, NEW r \in SlotRec,
         slot' = [slot EXCEPT ![a] = r], UNCHANGED <<udpq, table, nextId>>,
         post' \in Slots \cup {NoSlot}, r.id = slot[a].id, r.left = slot[a].left,
         r.st \in Running => slot[a].st \in Running,
         r.st # "free" => slot[a].st # "free"
  PROVE  QudpInv'
  <1>1. \A b \in Slots : slot'[b] = IF b = a THEN r ELSE slot[b]
    BY Zenon DEF QudpInv, QudpTypes
  <1>2. QudpTypes'
    BY <1>1, Zenon DEF QudpInv, QudpTypes
  <1>3. \A b \in Slots : /\ slot'[b].id = slot[b].id /\ slot'[b].left = slot[b].left
                         /\ slot'[b].st \in Running => slot[b].st \in Running
                         /\ slot'[b].st # "free" => slot[b].st # "free"
    BY <1>1, Zenon
  <1>4. IdInv'
    BY <1>3 DEF QudpInv, IdInv
  <1>5. SessionKept'
    BY <1>3, Zenon DEF QudpInv, SessionKept
  <1> QED
    BY <1>2, <1>4, <1>5, Zenon DEF QudpInv

\* The loop, the workers and the end of an association preserve the invariant.
LEMMA SlotActions ==
  ASSUME QudpInv, NEW a \in Slots,
         \/ TakePacket(a) \/ Dialled(a) \/ Forward(a)
         \/ WorkerSends(a) \/ WorkerHears(a) \/ WorkerPushes(a) \/ WorkerEnds(a)
         \/ Deliver(a) \/ LoopEnds(a) \/ Returned(a)
  PROVE  QudpInv'
  <1>0. slot[a] \in SlotRec /\ post \in Slots \cup {NoSlot}
        /\ UNCHANGED <<udpq, table, post, nextId>>
    BY Zenon DEF QudpInv, QudpTypes, TakePacket, Dialled, Forward, WorkerSends, WorkerHears,
           WorkerPushes, WorkerEnds, Deliver, LoopEnds, Returned
  <1>1. ASSUME NEW r, Set(a, r), r \in SlotRec, r.id = slot[a].id, r.left = slot[a].left,
               r.st \in Running => slot[a].st \in Running, r.st # "free" => slot[a].st # "free"
        PROVE  QudpInv'
    BY <1>0, <1>1, SlotStep, Zenon DEF Set
  <1>2. CASE TakePacket(a)
    <2> DEFINE st == IF udpq = "hy1" THEN "run" ELSE IF slot[a].w = "none" THEN "dial" ELSE "blocked"
               r == [slot[a] EXCEPT !.q = @ - 1, !.st = st]
    <2>1. st \in Running /\ slot[a].st \in Running /\ slot[a].q - 1 \in Nat /\ slot[a].st # "free"
      BY <1>0, <1>2 DEF TakePacket, Running, SlotRec
    <2>2. Set(a, r)
      BY <1>2, Zenon DEF TakePacket
    <2> HIDE DEF st
    <2>3. r \in SlotRec /\ r.id = slot[a].id /\ r.left = slot[a].left /\ r.st = st
      BY <1>0, <2>1, Zenon DEF SlotRec
    <2> HIDE DEF r
    <2> QED
      BY <1>1, <2>1, <2>2, <2>3, Zenon
  <1>3. CASE Dialled(a)
    <2> DEFINE r1 == [slot[a] EXCEPT !.st = "blocked", !.w = "wait"]
               r2 == [slot[a] EXCEPT !.st = "run"]
    <2>1. Set(a, r1) \/ Set(a, r2)
      BY <1>3, Zenon DEF Dialled
    <2>2. /\ r1 \in SlotRec /\ r1.id = slot[a].id /\ r1.left = slot[a].left
          /\ r2 \in SlotRec /\ r2.id = slot[a].id /\ r2.left = slot[a].left
          /\ slot[a].st \in Running /\ slot[a].st # "free"
      BY <1>0, <1>3, Zenon DEF Dialled, SlotRec, Running
    <2> HIDE DEF r1, r2
    <2> QED
      BY <1>1, <2>1, <2>2, Zenon
  <1>4. CASE Forward(a)
    <2> DEFINE r1 == [slot[a] EXCEPT !.st = "run", !.wq = @ + 1]
               r2 == [slot[a] EXCEPT !.st = "run"]
    <2>1. Set(a, r1) \/ Set(a, r2)
      BY <1>4, Zenon DEF Forward
    <2>2. slot[a].st \in Running /\ slot[a].st # "free" /\ slot[a].wq + 1 \in Nat
      BY <1>0, <1>4 DEF Forward, SlotRec, Running
    <2>3. /\ r1 \in SlotRec /\ r1.id = slot[a].id /\ r1.left = slot[a].left
          /\ r2 \in SlotRec /\ r2.id = slot[a].id /\ r2.left = slot[a].left
      BY <1>0, <2>2, Zenon DEF SlotRec, Running
    <2> HIDE DEF r1, r2
    <2> QED
      BY <1>1, <2>1, <2>2, <2>3, Zenon
  <1>5. CASE WorkerSends(a)
    <2> DEFINE r == [slot[a] EXCEPT !.wq = @ - 1]
    <2>1. Set(a, r) /\ r \in SlotRec /\ r.id = slot[a].id /\ r.left = slot[a].left /\ r.st = slot[a].st
      BY <1>0, <1>5 DEF WorkerSends, SlotRec
    <2> HIDE DEF r
    <2> QED
      BY <1>1, <2>1, Zenon
  <1>6. CASE WorkerHears(a)
    <2> DEFINE r == [slot[a] EXCEPT !.w = "throttle"]
    <2>1. Set(a, r) /\ r \in SlotRec /\ r.id = slot[a].id /\ r.left = slot[a].left /\ r.st = slot[a].st
      BY <1>0, <1>6, Zenon DEF WorkerHears, SlotRec
    <2> HIDE DEF r
    <2> QED
      BY <1>1, <2>1, Zenon
  <1>7. CASE WorkerPushes(a)
    <2> DEFINE r == [slot[a] EXCEPT !.w = "ack", !.resp = @ + 1]
    <2>1. Set(a, r) /\ slot[a].resp + 1 \in Nat
      BY <1>0, <1>7 DEF WorkerPushes, SlotRec
    <2>2. r \in SlotRec /\ r.id = slot[a].id /\ r.left = slot[a].left /\ r.st = slot[a].st
      BY <1>0, <2>1, Zenon DEF SlotRec
    <2> HIDE DEF r
    <2> QED
      BY <1>1, <2>1, <2>2, Zenon
  <1>8. CASE WorkerEnds(a)
    <2> DEFINE r == [slot[a] EXCEPT !.w = "none", !.wq = 0]
    <2>1. Set(a, r) /\ r \in SlotRec /\ r.id = slot[a].id /\ r.left = slot[a].left /\ r.st = slot[a].st
      BY <1>0, <1>8, Zenon DEF WorkerEnds, SlotRec
    <2> HIDE DEF r
    <2> QED
      BY <1>1, <2>1, Zenon
  <1>9. CASE Deliver(a)
    <2> DEFINE w == IF slot[a].w = "ack" THEN "wait" ELSE slot[a].w
               r == [slot[a] EXCEPT !.resp = @ - 1, !.w = w]
    <2>1. Set(a, r) /\ slot[a].resp - 1 \in Nat /\ w \in {"none", "wait", "throttle", "ack"}
      BY <1>0, <1>9 DEF Deliver, SlotRec
    <2> HIDE DEF w
    <2>2. r \in SlotRec /\ r.id = slot[a].id /\ r.left = slot[a].left /\ r.st = slot[a].st
      BY <1>0, <2>1, Zenon DEF SlotRec
    <2> HIDE DEF r
    <2> QED
      BY <1>1, <2>1, <2>2, Zenon
  <1>10. CASE LoopEnds(a)
    <2> DEFINE r == [slot[a] EXCEPT !.st = "closing"]
    <2>1. /\ Set(a, r) /\ r \in SlotRec /\ r.id = slot[a].id /\ r.left = slot[a].left
          /\ r.st = "closing" /\ slot[a].st # "free"
      BY <1>0, <1>10, Zenon DEF LoopEnds, SlotRec, Running
    <2> HIDE DEF r
    <2> QED
      BY <1>1, <2>1, Zenon DEF Running
  <1>11. CASE Returned(a)
    <2> DEFINE r == [FreeSlot EXCEPT !.st = "ended", !.id = slot[a].id, !.left = slot[a].left]
    <2>1. /\ Set(a, r) /\ r \in SlotRec /\ r.id = slot[a].id /\ r.left = slot[a].left
          /\ r.st = "ended" /\ slot[a].st # "free"
      BY <1>0, <1>11, Zenon DEF Returned, SlotRec, FreeSlot
    <2> HIDE DEF r
    <2> QED
      BY <1>1, <2>1, Zenon DEF Running
  <1> QED
    BY <1>2, <1>3, <1>4, <1>5, <1>6, <1>7, <1>8, <1>9, <1>10, <1>11, Zenon

\* A packet enters the channel of an association.
LEMMA Queued ==
  ASSUME QudpInv, NEW a \in Slots, UNCHANGED <<udpq, table, nextId>>,
         post' \in Slots \cup {NoSlot}, Set(a, [slot[a] EXCEPT !.q = @ + 1])
  PROVE  QudpInv'
  <1> DEFINE r == [slot[a] EXCEPT !.q = @ + 1]
  <1>1. slot[a] \in SlotRec /\ slot[a].q + 1 \in Nat
    BY DEF QudpInv, QudpTypes, SlotRec
  <1>2. r \in SlotRec /\ r.id = slot[a].id /\ r.left = slot[a].left /\ r.st = slot[a].st
    BY <1>1, Zenon DEF SlotRec
  <1>3. slot' = [slot EXCEPT ![a] = r]
    BY Zenon DEF Set
  <1> HIDE DEF r
  <1> QED
    BY <1>2, <1>3, SlotStep, Zenon

\* An association starts for the id i, whose entry leads to it; what it
\* replaces no association runs for.
LEMMA Starts ==
  ASSUME QudpInv, udpq # "hy1", NEW i \in Ids, NEW a \in Slots, NEW n \in Nat,
         slot[a].st = "free", Set(a, Started(i, n)), UNCHANGED <<udpq, post, nextId>>,
         NEW kept \in [Ids -> Slots \cup {NoSlot}], table' = [kept EXCEPT ![i] = a],
         udpq = "tuic" => /\ kept = table
                          /\ table[i] = NoSlot \/ Shut(i)
  PROVE  QudpInv'
  <1> DEFINE r == Started(i, n)
  <1>1. r \in SlotRec /\ r.id = i /\ r.left = FALSE /\ r.st = "run"
    BY Zenon DEF Started, FreeSlot, SlotRec, Running
  <1>2. slot' = [slot EXCEPT ![a] = r]
    BY Zenon DEF Set
  <1> HIDE DEF r
  <1>3. \A b \in Slots : slot'[b] = IF b = a THEN r ELSE slot[b]
    BY <1>2, Zenon DEF QudpInv, QudpTypes
  <1>4. QudpTypes'
    BY <1>1, <1>2, Zenon DEF QudpInv, QudpTypes
  <1>5. IdInv'
    BY <1>1, <1>3, Zenon DEF QudpInv, IdInv
  <1>6. SessionKept'
    <2> SUFFICES ASSUME udpq = "tuic", NEW b \in Slots, slot'[b].st \in Running, ~slot'[b].left
                 PROVE  table'[slot'[b].id] = b
      BY Zenon DEF SessionKept
    <2>1. CASE b = a
      BY <2>1, <1>1, <1>3, Zenon
    <2>2. CASE b # a
      <3>1. slot'[b] = slot[b] /\ table[slot[b].id] = b /\ slot[b].id \in Ids
        BY <2>2, <1>3, Zenon DEF QudpInv, SessionKept, IdInv, Running
      <3>2. slot[b].id # i
        BY <3>1, QudpAssumption, Zenon DEF Shut, Live
      <3> QED
        BY <3>1, <3>2, Zenon
    <2> QED
      BY <2>1, <2>2, Zenon
  <1> QED
    BY <1>4, <1>5, <1>6, Zenon DEF QudpInv

\* The steps that change the table preserve the invariant.
LEMMA TableActions ==
  ASSUME QudpInv, QuicUdpNext
  PROVE  QudpInv'
  <1>0. /\ table \in [Ids -> Slots \cup {NoSlot}] /\ slot \in [Slots -> SlotRec]
        /\ post \in Slots \cup {NoSlot} /\ nextId \in Nat
    BY Zenon DEF QudpInv, QudpTypes
  <1>f. FreeSlot \in SlotRec /\ FreeSlot.st = "free"
    BY Zenon DEF FreeSlot, SlotRec
  \* A slot is emptied, and no entry but that of its id changes.
  <1>e. ASSUME NEW a \in Slots, slot[a].st # "free", Set(a, FreeSlot),
               UNCHANGED <<udpq, post, nextId>>,
               \/ table' = table
               \/ /\ table' = [table EXCEPT ![slot[a].id] = NoSlot]
                  /\ udpq = "tuic" => Shut(slot[a].id)
                  /\ slot[a].st \notin Running
        PROVE  QudpInv'
    <2>1. \A b \in Slots : slot'[b] = IF b = a THEN FreeSlot ELSE slot[b]
      BY <1>0, <1>e, Zenon DEF Set
    <2>2. QudpTypes'
      BY <1>0, <1>e, <1>f, Zenon DEF QudpTypes, Set
    <2>3. IdInv'
      BY <2>1, <1>e, <1>f DEF QudpInv, IdInv
    <2>4. SessionKept'
      <3> SUFFICES ASSUME udpq \in {"hy1", "tuic"}, NEW b \in Slots,
                          slot'[b].st \in Running, ~slot'[b].left
                   PROVE  table'[slot'[b].id] = b
        BY <1>e, Zenon DEF SessionKept
      <3>1. b # a /\ slot'[b] = slot[b]
        BY <2>1, <1>f, Zenon DEF Running
      <3>2. table[slot[b].id] = b /\ slot[b].id \in Ids
        BY <3>1, <1>e, Zenon DEF QudpInv, SessionKept, IdInv, Running
      <3>3. CASE table' = table
        BY <3>1, <3>2, <3>3, Zenon
      <3>4. CASE table' = [table EXCEPT ![slot[a].id] = NoSlot] /\ (udpq = "tuic" => Shut(slot[a].id))
        <4>1. slot[b].id # slot[a].id
          <5>1. CASE udpq = "hy1"
            BY <5>1, <3>1, <1>e, Zenon DEF QudpInv, IdInv, Running
          <5>2. CASE udpq = "tuic"
            BY <5>2, <3>1, <3>2, <3>4, Zenon DEF Shut, Live
          <5> QED
            BY <5>1, <5>2, Zenon
        <4> QED
          BY <4>1, <3>1, <3>2, <3>4, <1>0, Zenon
      <3> QED
        BY <3>3, <3>4, <1>e, Zenon
    <2> QED
      BY <2>2, <2>3, <2>4, Zenon DEF QudpInv
  <1>1. ASSUME NEW a \in Slots, udpq = "hy1", Hy1Open(a) PROVE QudpInv'
    <2> DEFINE r == [FreeSlot EXCEPT !.st = "bind", !.id = nextId]
    <2>1. /\ r \in SlotRec /\ r.id = nextId /\ r.st = "bind" /\ nextId \in Ids
          /\ slot' = [slot EXCEPT ![a] = r] /\ nextId' = nextId + 1
          /\ UNCHANGED <<udpq, table, post>>
      BY <1>1, Zenon DEF Hy1Open, Set, FreeSlot, SlotRec
    <2> HIDE DEF r
    <2>2. \A b \in Slots : slot'[b] = IF b = a THEN r ELSE slot[b]
      BY <2>1, <1>0, Zenon
    <2>3. QudpTypes'
      BY <2>1, <1>0 DEF QudpTypes
    <2>4. IdInv'
      <3>1. \A b \in Slots : slot[b].st # "free" => slot[b].id \in Nat /\ slot[b].id < nextId
        BY <1>1, QudpAssumption, Zenon DEF QudpInv, IdInv
      <3> QED
        BY <3>1, <2>1, <2>2, <1>0, <1>1 DEF QudpInv, IdInv
    <2>5. SessionKept'
      BY <2>1, <2>2, Zenon DEF QudpInv, SessionKept, Running
    <2> QED
      BY <2>3, <2>4, <2>5, Zenon DEF QudpInv
  <1>2. ASSUME NEW a \in Slots, udpq = "hy1", Hy1Bound(a) PROVE QudpInv'
    <2>1. CASE Set(a, FreeSlot) /\ UNCHANGED table
      BY <2>1, <1>2, <1>e, Zenon DEF Hy1Bound
    <2>2. CASE Set(a, Started(slot[a].id, 0)) /\ table' = [table EXCEPT ![slot[a].id] = a]
      <3> DEFINE i == slot[a].id  r == Started(i, 0)
      <3>1. i \in Ids /\ slot[a].st = "bind" /\ UNCHANGED <<udpq, post, nextId>>
        BY <1>2, Zenon DEF Hy1Bound, QudpInv, IdInv
      <3>2. r \in SlotRec /\ r.id = i /\ r.st = "run"
        BY <3>1, Zenon DEF Started, FreeSlot, SlotRec, Running
      <3>3. slot' = [slot EXCEPT ![a] = r]
        BY <2>2, Zenon DEF Set
      <3> HIDE DEF r
      <3>4. \A b \in Slots : slot'[b] = IF b = a THEN r ELSE slot[b]
        BY <3>3, <1>0, Zenon
      <3>5. QudpTypes'
        BY <2>2, <3>1, <3>2, <3>3, <1>0, Zenon DEF QudpTypes
      <3>6. IdInv'
        BY <3>1, <3>2, <3>4 DEF QudpInv, IdInv
      <3>7. SessionKept'
        <4> SUFFICES ASSUME NEW b \in Slots, slot'[b].st \in Running, ~slot'[b].left
                     PROVE  table'[slot'[b].id] = b
          BY Zenon DEF SessionKept
        <4>1. CASE b = a
          BY <4>1, <2>2, <3>1, <3>2, <3>4, <1>0, Zenon
        <4>2. CASE b # a
          <5>1. slot'[b] = slot[b] /\ slot[b].id \in Ids /\ slot[b].id # i
            BY <4>2, <3>1, <3>4, <1>2, Zenon DEF QudpInv, IdInv, Running
          <5> QED
            BY <5>1, <2>2, <1>0, <1>2, Zenon DEF QudpInv, SessionKept
        <4> QED
          BY <4>1, <4>2, Zenon
      <3> QED
        BY <3>5, <3>6, <3>7, Zenon DEF QudpInv
    <2> QED
      BY <2>1, <2>2, <1>2, Zenon DEF Hy1Bound
  <1>3. ASSUME NEW i \in Ids, Hy1Packet(i) PROVE QudpInv'
    <2>1. UNCHANGED <<udpq, table, slot, nextId>> /\ post' \in Slots \cup {NoSlot}
      BY <1>0, <1>3, Zenon DEF Hy1Packet
    <2> QED
      BY <2>1, Zenon DEF QudpInv, QudpTypes, IdInv, SessionKept
  <1>4. CASE Hy1Posted
    <2>1. UNCHANGED <<udpq, table, nextId>> /\ post \in Slots /\ post' = NoSlot
      BY <1>0, <1>4, Zenon DEF Hy1Posted
    <2>2. CASE Set(post, [slot[post] EXCEPT !.q = @ + 1])
      BY <2>1, <2>2, Queued, Zenon
    <2>3. CASE UNCHANGED slot
      BY <2>1, <2>3, Zenon DEF QudpInv, QudpTypes, IdInv, SessionKept
    <2> QED
      BY <2>2, <2>3, <1>4, Zenon DEF Hy1Posted
  <1>5. ASSUME NEW i \in Ids, udpq = "hy2", Hy2Packet(i) PROVE QudpInv'
    <2>0. UNCHANGED <<udpq, post, nextId>>
      BY <1>5, Zenon DEF Hy2Packet
    <2>1. ASSUME UNCHANGED slot, table' \in [Ids -> Slots \cup {NoSlot}] PROVE QudpInv'
      BY <2>0, <2>1, <1>5, Zenon DEF QudpInv, QudpTypes, IdInv, SessionKept
    <2>2. CASE table[i] # NoSlot
      <3>1. UNCHANGED table /\ table[i] \in Slots
        BY <2>2, <1>0, <1>5, Zenon DEF Hy2Packet
      <3>2. UNCHANGED slot \/ Set(table[i], [slot[table[i]] EXCEPT !.q = @ + 1])
        BY <2>2, <3>1, <1>0, <1>5, Zenon DEF Hy2Packet, Set
      <3>3. CASE UNCHANGED slot
        BY <3>1, <3>3, <2>1, <1>0, Zenon
      <3>4. CASE Set(table[i], [slot[table[i]] EXCEPT !.q = @ + 1])
        BY <3>1, <3>4, <2>0, <1>0, Queued, Zenon
      <3> QED
        BY <3>2, <3>3, <3>4, Zenon
    <2>3. CASE table[i] = NoSlot
      <3> DEFINE kept == IF Cardinality(Known) >= TableCap
                         THEN [j \in Ids |-> IF Shut(j) THEN NoSlot ELSE table[j]] ELSE table
      <3>1. kept \in [Ids -> Slots \cup {NoSlot}]
        BY <1>0, Zenon
      <3>2. \/ table' = kept /\ UNCHANGED slot
            \/ \E a \in Slots : Spare(a) /\ Set(a, Started(i, 1)) /\ table' = [kept EXCEPT ![i] = a]
        BY <2>3, <1>5, Zenon DEF Hy2Packet
      <3> HIDE DEF kept
      <3>3. CASE table' = kept /\ UNCHANGED slot
        BY <3>1, <3>3, <2>1, Zenon
      <3>4. ASSUME NEW a \in Slots, Spare(a), Set(a, Started(i, 1)), table' = [kept EXCEPT ![i] = a]
            PROVE  QudpInv'
        BY <3>1, <3>4, <2>0, <1>5, Starts, Zenon DEF Spare
      <3> QED
        BY <3>2, <3>3, <3>4, Zenon
    <2> QED
      BY <2>2, <2>3, Zenon
  <1>6. ASSUME NEW i \in Ids, udpq = "tuic", TuicPacket(i) PROVE QudpInv'
    <2>0. UNCHANGED <<udpq, post, nextId>>
      BY <1>6, Zenon DEF TuicPacket
    <2>1. CASE table[i] # NoSlot /\ ~Shut(i)
      <3>1. /\ table[i] \in Slots /\ UNCHANGED table
            /\ Set(table[i], [slot[table[i]] EXCEPT !.q = @ + 1])
        BY <2>1, <1>0, <1>6, Zenon DEF TuicPacket
      <3> QED
        BY <3>1, <2>0, <1>0, Queued, Zenon
    <2>2. CASE ~(table[i] # NoSlot /\ ~Shut(i))
      <3>1. PICK a \in Slots : Spare(a) /\ Set(a, Started(i, 1)) /\ table' = [table EXCEPT ![i] = a]
        BY <2>2, <1>6, Zenon DEF TuicPacket
      <3> QED
        BY <3>1, <2>0, <2>2, <1>0, <1>6, Starts, Zenon DEF Spare
    <2> QED
      BY <2>1, <2>2, Zenon
  <1>7. ASSUME NEW i \in Ids, udpq = "tuic", TuicDissociate(i) PROVE QudpInv'
    <2> DEFINE c == table[i]  r == [slot[c] EXCEPT !.left = Live(c)]
    <2>1. /\ c \in Slots /\ table' = [table EXCEPT ![i] = NoSlot] /\ slot[c] \in SlotRec
          /\ UNCHANGED <<udpq, post, nextId>>
      BY <1>0, <1>7, Zenon DEF TuicDissociate
    <2>2. slot' = [slot EXCEPT ![c] = r]
      BY <1>7, Zenon DEF TuicDissociate
    <2>3. Live(c) \in BOOLEAN
      BY DEF Live
    <2>4. r \in SlotRec /\ r.id = slot[c].id /\ r.st = slot[c].st /\ r.left = Live(c)
      BY <2>1, <2>3, Zenon DEF SlotRec
    <2> HIDE DEF r
    <2>5. \A b \in Slots : slot'[b] = IF b = c THEN r ELSE slot[b]
      BY <2>2, <1>0, Zenon
    <2>6. QudpTypes'
      BY <2>1, <2>2, <2>4, <1>0, Zenon DEF QudpTypes
    <2>7. IdInv'
      BY <2>1, <2>4, <2>5, <1>7, Zenon DEF QudpInv, IdInv
    <2>8. SessionKept'
      <3> SUFFICES ASSUME NEW b \in Slots, slot'[b].st \in Running, ~slot'[b].left
                   PROVE  table'[slot'[b].id] = b
        BY Zenon DEF SessionKept
      <3>1. b # c
        BY <2>4, <2>5, Zenon DEF Live
      <3>2. slot'[b] = slot[b] /\ slot[b].id \in Ids /\ table[slot[b].id] = b
        BY <3>1, <2>5, <1>7, Zenon DEF QudpInv, SessionKept, IdInv, Running
      <3> QED
        BY <3>1, <3>2, <2>1, <1>0, Zenon
    <2> QED
      BY <2>6, <2>7, <2>8, Zenon DEF QudpInv
  <1>8. ASSUME NEW a \in Slots, Forget(a) PROVE QudpInv'
    BY <1>8, <1>e, Zenon DEF Forget, Running
  <1>9. CASE Cancel
    BY <1>9, Zenon DEF Cancel, QudpInv, QudpTypes, IdInv, SessionKept
  <1> QED
    BY <1>1, <1>2, <1>3, <1>4, <1>5, <1>6, <1>7, <1>8, <1>9, SlotActions, Zenon DEF QuicUdpNext

-----------------------------------------------------------------------------
\* What a client of a QUIC inbound is promised holds in every reachable state,
\* for any users, streams, associations and ids: a stream dials or relays only
\* for a user who passed the authentication and the device check of this
\* connection, and within the connection limit; wait_auth misses no
\* notification; and no association is taken from its id by the end of another.
THEOREM QuicSoundHolds == QuicSpec => []QuicSound
  <1>1. QuicInit => QuicInv /\ QudpInv
    <2> SUFFICES ASSUME QuicInit PROVE QuicInv /\ QudpInv
      BY Zenon
    <2>1. /\ auth = [user |-> Nil, ok |-> FALSE, pc |-> "idle", cand |-> Nil] /\ passed = {}
          /\ stream = [s \in Streams |-> Closed]
          /\ quic = "hysteria" => main = "hello"
      BY Zenon DEF QuicInit, QuicSessionInit, Quics
    <2>2. /\ table = [i \in Ids |-> NoSlot] /\ slot = [a \in Slots |-> FreeSlot]
          /\ post = NoSlot /\ nextId = 1
      BY Zenon DEF QuicInit, QudpInit
    <2>3. Closed \in StreamRec /\ Closed.st = "free"
      BY Zenon DEF Closed, StreamRec, Stages
    <2>4. QuicTypes /\ AuthInv /\ StreamInv /\ WaitersWoken
      BY <2>1, <2>3, Zenon DEF QuicTypes, AuthInv, StreamInv, WaitersWoken, Holding
    <2>5. HeldInv
      <3>1. \A u \in QuicUsers : Held(u) = {}
        BY <2>1, <2>3, Zenon DEF Held, Holding
      <3> QED
        BY <3>1, FS_EmptySet, QuicAssumption DEF HeldInv
    <2>6. FreeSlot \in SlotRec /\ FreeSlot.st = "free"
      BY Zenon DEF FreeSlot, SlotRec
    <2>7. QudpInv
      BY <2>2, <2>6, Zenon DEF QudpInv, QudpTypes, IdInv, SessionKept, Running
    <2> QED
      BY <2>4, <2>5, <2>7, Zenon DEF QuicInv
  <1>2. QuicInv /\ QudpInv /\ [QuicNext]_vars => (QuicInv /\ QudpInv)'
    <2> SUFFICES ASSUME QuicInv, QudpInv, [QuicNext]_vars PROVE QuicInv' /\ QudpInv'
      BY Zenon
    <2>1. ASSUME UNCHANGED quicVars PROVE QuicInv'
      BY <2>1, Bystander, Zenon DEF quicVars
    <2>2. ASSUME UNCHANGED qudpVars PROVE QudpInv'
      BY <2>2, Zenon DEF qudpVars, QudpInv, QudpTypes, IdInv, SessionKept
    <2> QED
      BY <2>1, <2>2, SessionActions, TableActions, Zenon DEF QuicNext, vars
  <1>3. QuicInv /\ QudpInv => QuicSound
    <2> SUFFICES ASSUME QuicInv, QudpInv PROVE QuicServes
      BY Zenon DEF QuicSound, QuicInv, QudpInv
    <2>1. ASSUME NEW u \in QuicUsers PROVE Guards(u) <= MaxStreams
      BY QuicAssumption DEF QuicInv, HeldInv, Held, Guards
    <2> QED
      BY <2>1, Zenon DEF QuicServes, QuicInv, StreamInv
  <1> QED
    BY <1>1, <1>2, <1>3, PTL DEF QuicSpec

-----------------------------------------------------------------------------
(* Datagrams: the replay window of Shadowsocks 2022.                       *)

ReplaySpec == (\E on \in {"on", "none"} : ReplayInit(on)) /\ [][ReplayNext]_replayVars

Places == 0 .. Words - 1
Cells == 0 .. Bits - 1
Offset(i, b) == Bits * i + b
WindowRec == [open : BOOLEAN, highest : Nat, bitmap : [Places -> SUBSET Cells], seen : Nat,
              busy : BOOLEAN, mine : SUBSET Packets64]

\* The bit at offset x of the bitmap stands for the packet that is x below the
\* highest.
Exact ==
    window.open => \A i \in Places, b \in Cells :
        b \in window.bitmap[i] <=> window.highest - Offset(i, b) \in window.mine

\* A datagram the window has let pass and whose timestamp is still good was not
\* sent longer ago than the window has been unused.
MineInv ==
    \A p \in window.mine :
        /\ window.open /\ p <= window.highest /\ taken[p] # 0
        /\ age[p] <= Skew => window.seen - Ahead <= age[p]

\* A datagram that was let pass once is out of date or one of the window's.
TakenInv ==
    \A p \in Packets64 :
        /\ taken[p] <= 1
        /\ taken[p] # 0 => age[p] # Unsent /\ (age[p] <= Skew => p \in window.mine)

ReplayTypes ==
    /\ window \in WindowRec /\ age \in [Packets64 -> Int] /\ taken \in [Packets64 -> Nat]
    /\ \A p \in Packets64 : -Ahead <= age[p]

ClosedInv == ~window.open => \A i \in Places : window.bitmap[i] = {}

ReplayInv == ReplayTypes /\ Exact /\ ClosedInv /\ MineInv /\ TakenInv

\* Division with a remainder.
LEMMA Division ==
  ASSUME NEW n \in Int, NEW c \in Int, c > 0
  PROVE  n = c * (n \div c) + (n % c)
  OBVIOUS

\* Places and cells: n is at one offset.
LEMMA Offsets ==
  /\ \A n \in Nat : n \div Bits \in Nat /\ n % Bits \in Cells /\ n = Offset(n \div Bits, n % Bits)
  /\ \A i, j \in Int : i < j => Bits * i + Bits <= Bits * j
  /\ \A i, j \in Int : Bits * (i - j) = Bits * i - Bits * j
  <1>0. Bits \in Nat /\ Bits > 0
    BY ReplayAssumption
  <1>1. ASSUME NEW n \in Nat
        PROVE  n \div Bits \in Nat /\ n % Bits \in Cells /\ n = Offset(n \div Bits, n % Bits)
    <2>1. n \div Bits \in Nat
      BY <1>0
    <2>2. n % Bits \in Cells
      BY <1>0 DEF Cells
    <2>3. n = Bits * (n \div Bits) + (n % Bits)
      <3>1. n \in Int /\ Bits \in Int /\ Bits > 0
        BY <1>0
      <3> QED
        BY ONLY <3>1, Division, Zenon
    <2> QED
      BY <2>1, <2>2, <2>3, Zenon DEF Offset
  <1>2. ASSUME NEW i \in Int, NEW j \in Int, i < j PROVE Bits * i + Bits <= Bits * j
    <2>1. j - i - 1 >= 0 /\ j - i - 1 \in Int
      BY <1>2
    <2>2. Bits * (j - i - 1) >= 0
      BY <1>0, <2>1
    <2>3. Bits * (j - i - 1) = Bits * j - Bits * i - Bits
      BY <1>0
    <2> QED
      BY <1>0, <2>2, <2>3
  <1>3. ASSUME NEW i \in Int, NEW j \in Int PROVE Bits * (i - j) = Bits * i - Bits * j
    BY <1>0
  <1> QED
    BY <1>1, <1>2, <1>3, Zenon

\* An offset belongs to one cell of one place, and all are below the size.
LEMMA OneCell ==
  /\ \A i, j \in Int, b, c \in Cells : Offset(i, b) = Offset(j, c) => i = j /\ b = c
  /\ \A i \in Places, b \in Cells : Offset(i, b) \in Nat /\ Offset(i, b) < Words * Bits
  /\ \A n \in Nat : n < Words * Bits => n \div Bits \in Places
  <1>0. Bits \in Nat /\ Bits > 0 /\ Words \in Nat /\ Words > 0
    BY ReplayAssumption
  <1>m. \A i \in Int : Bits * i \in Int
    BY <1>0
  <1>1. ASSUME NEW i \in Int, NEW j \in Int, NEW b \in Cells, NEW c \in Cells,
               Bits * i + b = Bits * j + c
        PROVE  i = j /\ b = c
    <2>1. ~(i < j)
      BY <1>0, <1>1, <1>m, Offsets DEF Cells
    <2>2. ~(j < i)
      BY <1>0, <1>1, <1>m, Offsets DEF Cells
    <2>3. i = j
      BY <2>1, <2>2
    <2> QED
      BY <2>3, <1>0, <1>1, <1>m DEF Cells
  <1>2. Words * Bits = Bits * Words /\ Words * Bits \in Nat
    BY <1>0
  <1>3. ASSUME NEW i \in Places, NEW b \in Cells
        PROVE  Bits * i + b \in Nat /\ Bits * i + b < Words * Bits
    <2>1. i \in Int /\ i < Words /\ i >= 0
      BY <1>0 DEF Places
    <2>2. Bits * i + Bits <= Bits * Words
      BY <2>1, <1>0, Offsets
    <2>3. Bits * i >= 0 /\ Bits * i \in Int
      BY <1>0, <2>1
    <2> QED
      BY <2>2, <2>3, <1>0, <1>2 DEF Cells
  <1>4. ASSUME NEW n \in Nat, n < Words * Bits PROVE n \div Bits \in Places
    <2> DEFINE q == n \div Bits
               r == n % Bits
    <2>1. q \in Nat /\ r \in Cells /\ n = Bits * q + r
      BY Offsets, Zenon DEF Offset
    <2> HIDE DEF q, r
    <2>2. ~(Words <= q)
      <3>1. CASE Words = q
        BY <3>1, <2>1, <1>4, <1>2, <1>0 DEF Cells
      <3>2. CASE Words < q
        <4>1. Bits * Words + Bits <= Bits * q
          BY <3>2, <2>1, <1>0, Offsets
        <4> QED
          BY <4>1, <2>1, <1>4, <1>2, <1>0, <1>m, SMTT(30) DEF Cells
      <3> QED
        BY <3>1, <3>2, <2>1, <1>0
    <2>3. q \in Places
      BY <2>1, <2>2, <1>0 DEF Places
    <2> QED
      BY <2>3, Zenon DEF q
  <1> QED
    BY <1>1, <1>3, <1>4, Zenon DEF Offset

\* The shifts of a word, bit by bit.
LEMMA Shifts ==
  ASSUME NEW word \in SUBSET Cells, NEW n \in Int, NEW b \in Int
  PROVE  /\ b \in Shl(word, n) <=> b \in Cells /\ b - n \in word
         /\ b \in Shr(word, n) <=> b \in Cells /\ b + n \in word
  <1>0. \A c \in word : c \in Int
    BY ReplayAssumption DEF Cells
  <1>1. (\E c \in word : b = c + n) <=> b - n \in word
    <2>1. ASSUME NEW c \in word, b = c + n PROVE b - n \in word
      <3>1. b - n = c
        BY <1>0, <2>1
      <3> QED
        BY <3>1, Zenon
    <2>2. ASSUME b - n \in word PROVE \E c \in word : b = c + n
      <3>1. b = (b - n) + n
        OBVIOUS
      <3> QED
        BY <3>1, <2>2, Zenon
    <2> QED
      BY <2>1, <2>2, Zenon
  <1>2. (\E c \in word : b = c - n) <=> b + n \in word
    <2>1. ASSUME NEW c \in word, b = c - n PROVE b + n \in word
      <3>1. b + n = c
        BY <1>0, <2>1
      <3> QED
        BY <3>1, Zenon
    <2>2. ASSUME b + n \in word PROVE \E c \in word : b = c - n
      <3>1. b = (b + n) - n
        OBVIOUS
      <3> QED
        BY <3>1, <2>2, Zenon
    <2> QED
      BY <2>1, <2>2, Zenon
  <1> QED
    BY <1>1, <1>2, Zenon DEF Shl, Shr, Cells

\* Slide moves every bit n places up, across the words.
LEMMA Slides ==
  ASSUME NEW bm \in [Places -> SUBSET Cells], NEW n \in Nat, n < Words * Bits,
         NEW i \in Places, NEW b \in Cells
  PROVE  /\ Slide(bm, n)[i] \in SUBSET Cells
         /\ b \in Slide(bm, n)[i] <=>
              \E j \in Places, c \in Cells : c \in bm[j] /\ Offset(i, b) = Offset(j, c) + n
  <1> DEFINE s == n \div Bits
             r == n % Bits
             Source == \E j \in Places, c \in Cells : c \in bm[j] /\ Offset(i, b) = Offset(j, c) + n
  <1>0. Bits \in Nat /\ Bits > 0 /\ Words \in Nat /\ Words > 0 /\ i \in Int /\ b \in Int /\ i >= 0 /\ i < Words
    BY ReplayAssumption DEF Places, Cells
  <1>1. s \in Places /\ s \in Int /\ s >= 0 /\ r \in Cells /\ r \in Int /\ n = Bits * s + r
    BY Offsets, OneCell DEF Offset, Places, Cells
  <1>2. Slide(bm, n)[i] =
          IF i < s THEN {}
          ELSE Shl(bm[i - s], r) \cup (IF r > 0 /\ i > s THEN Shr(bm[i - s - 1], Bits - r) ELSE {})
    BY Zenon DEF Slide, Places
  <1> HIDE DEF s, r
  <1>3. ASSUME NEW k \in Int, NEW d \in Cells, Offset(i, b) = Offset(k, d) + n
        PROVE  Source <=> k \in Places /\ d \in bm[k]
    <2>1. ASSUME NEW j \in Places, NEW c \in Cells, Offset(i, b) = Offset(j, c) + n
          PROVE  j = k /\ c = d
      <3>1. j \in Int /\ Offset(j, c) \in Int /\ Offset(k, d) \in Int
        BY <1>0 DEF Places, Cells, Offset
      <3>2. Offset(j, c) + n = Offset(k, d) + n
        BY <2>1, <1>3, Zenon
      <3>3. \A x, y \in Int : x + n = y + n => x = y
        OBVIOUS
      <3>4. Offset(j, c) = Offset(k, d)
        BY <3>1, <3>2, <3>3, Zenon
      <3> QED
        BY <3>1, <3>4, OneCell
    <2> QED
      BY <2>1, <1>3, Zenon
  <1>4. Shl(bm[i - s], r) \in SUBSET Cells /\ Shr(bm[i - s - 1], Bits - r) \in SUBSET Cells
    BY Zenon DEF Shl, Shr, Cells
  <1>5. Slide(bm, n)[i] \in SUBSET Cells
    BY <1>2, <1>4, Zenon
  <1>6. \A k \in Int : i - s = k /\ k >= 0 => k \in Places
    BY <1>0, <1>1 DEF Places
  <1>7. \A k \in Int : i - s - 1 = k /\ k >= 0 => k \in Places
    BY <1>0, <1>1 DEF Places
  <1>8. CASE b >= r
    <2>1. b - r \in Cells /\ i - s \in Int
      BY <1>8, <1>0, <1>1 DEF Cells
    <2>2. Offset(i, b) = Offset(i - s, b - r) + n
      <3>1. Bits * (i - s) = Bits * i - Bits * s
        BY <1>0, <1>1, Offsets, Zenon
      <3>2. Bits * i \in Int /\ Bits * s \in Int
        BY <1>0, <1>1
      <3> QED
        BY <3>1, <3>2, <1>0, <1>1 DEF Offset
    <2>3. Source <=> i - s \in Places /\ b - r \in bm[i - s]
      BY <1>3, <2>1, <2>2, Zenon
    <2>4. CASE i < s
      <3>1. i - s \notin Places
        BY <2>4, <1>0, <1>1 DEF Places
      <3> QED
        BY <3>1, <2>3, <2>4, <1>2, <1>5, Zenon
    <2>5. CASE i >= s
      <3>1. i - s \in Places /\ bm[i - s] \in SUBSET Cells
        BY <2>5, <1>0, <1>1 DEF Places
      <3>2. b \in Shl(bm[i - s], r) <=> b - r \in bm[i - s]
        BY <3>1, <1>0, <1>1, Shifts, Zenon
      <3>3. r > 0 /\ i > s => b \notin Shr(bm[i - s - 1], Bits - r)
        <4> SUFFICES ASSUME r > 0, i > s PROVE b \notin Shr(bm[i - s - 1], Bits - r)
          BY Zenon
        <4>1. bm[i - s - 1] \in SUBSET Cells /\ Bits - r \in Int
          BY <1>0, <1>1 DEF Places
        <4>2. b + (Bits - r) \notin Cells
          BY <1>0, <1>1, <1>8 DEF Cells
        <4> QED
          BY <4>1, <4>2, <1>0, Shifts, Zenon
      <3>4. ~(i < s)
        BY <2>5, <1>0, <1>1
      <3> QED
        BY <3>1, <3>2, <3>3, <3>4, <2>3, <1>2, <1>5, Zenon
    <2> QED
      BY <2>4, <2>5, <1>0, <1>1
  <1>9. CASE b < r
    <2>1. b + (Bits - r) \in Cells /\ i - s - 1 \in Int /\ r > 0 /\ b - r \notin Cells
      BY <1>9, <1>0, <1>1 DEF Cells
    <2>2. Offset(i, b) = Offset(i - s - 1, b + (Bits - r)) + n
      <3>1. Bits * (i - s - 1) = Bits * i - Bits * s - Bits
        BY <1>0, <1>1
      <3>2. Bits * i \in Int /\ Bits * s \in Int
        BY <1>0, <1>1
      <3> QED
        BY <3>1, <3>2, <1>0, <1>1 DEF Offset
    <2>3. Source <=> i - s - 1 \in Places /\ b + (Bits - r) \in bm[i - s - 1]
      BY <1>3, <2>1, <2>2, Zenon
    <2>4. CASE i <= s
      <3>1. i - s - 1 \notin Places /\ ~(i > s)
        BY <2>4, <1>0, <1>1 DEF Places
      <3>2. ~(i < s) => b \notin Shl(bm[i - s], r)
        <4> SUFFICES ASSUME ~(i < s) PROVE b \notin Shl(bm[i - s], r)
          BY Zenon
        <4>1. bm[i - s] \in SUBSET Cells
          BY <1>0, <1>1 DEF Places
        <4> QED
          BY <4>1, <2>1, <1>0, <1>1, Shifts, Zenon
      <3> QED
        BY <3>1, <3>2, <2>3, <1>2, <1>5, Zenon
    <2>5. CASE i > s
      <3>1. /\ i - s - 1 \in Places /\ bm[i - s - 1] \in SUBSET Cells /\ bm[i - s] \in SUBSET Cells
            /\ Bits - r \in Int /\ ~(i < s)
        BY <2>5, <1>0, <1>1 DEF Places
      <3>2. b \in Shr(bm[i - s - 1], Bits - r) <=> b + (Bits - r) \in bm[i - s - 1]
        BY <3>1, <1>0, Shifts, Zenon
      <3>3. b \notin Shl(bm[i - s], r)
        BY <3>1, <2>1, <1>0, <1>1, Shifts, Zenon
      <3> QED
        BY <3>1, <3>2, <3>3, <2>1, <2>3, <2>5, <1>2, <1>5, ZenonT(30)
    <2> QED
      BY <2>4, <2>5, <1>0, <1>1
  <1> QED
    BY <1>5, <1>8, <1>9, <1>0, <1>1

-----------------------------------------------------------------------------
\* ReplayWindow::accept lets no datagram pass that it has let pass before.
LEMMA NotTaken ==
  ASSUME ReplayInv, NEW p \in Packets64, age[p] <= Skew,
         ~window.open \/ p > window.highest \/ Unseen(p)
  PROVE  taken[p] = 0
  <1> SUFFICES ASSUME taken[p] # 0 PROVE FALSE
    BY Zenon
  <1>0. window \in WindowRec /\ p \in Nat
    BY DEF ReplayInv, ReplayTypes, Packets64
  <1>1. p \in window.mine /\ window.open /\ p <= window.highest /\ window.highest \in Nat
    BY <1>0, Zenon DEF ReplayInv, TakenInv, MineInv, WindowRec
  <1> DEFINE n == window.highest - p
  <1>2. n \in Nat /\ window.highest - n = p
    BY <1>0, <1>1
  <1>3. n < Words * Bits /\ n % Bits \notin window.bitmap[n \div Bits]
    BY <1>0, <1>1 DEF Unseen
  <1>4. n \div Bits \in Places /\ n % Bits \in Cells /\ n = Offset(n \div Bits, n % Bits)
    BY <1>2, <1>3, Offsets, OneCell, Zenon
  <1>5. window.highest - Offset(n \div Bits, n % Bits) = p
    BY <1>2, <1>4, Zenon
  <1> HIDE DEF n
  <1> QED
    BY <1>1, <1>3, <1>4, <1>5, Zenon DEF ReplayInv, Exact

\* A datagram is let pass: w is the window afterwards.
LEMMA LetPass ==
  ASSUME ReplayInv, NEW p \in Packets64, age[p] <= Skew, taken[p] = 0,
         NEW w \in WindowRec, window' = w, w.open, w.seen = 0, w.mine = window.mine \cup {p},
         p <= w.highest, window.open => window.highest <= w.highest,
         \A i \in Places, b \in Cells :
             b \in w.bitmap[i] <=> w.highest - Offset(i, b) \in window.mine \cup {p},
         taken' = [taken EXCEPT ![p] = @ + 1], UNCHANGED age
  PROVE  ReplayInv'
  <1>0. /\ window \in WindowRec /\ age \in [Packets64 -> Int] /\ taken \in [Packets64 -> Nat]
        /\ -Ahead <= age[p] /\ p \in Nat /\ Skew \in Nat /\ Ahead \in Nat /\ Unsent = Skew + 2
    BY ReplayAssumption DEF ReplayInv, ReplayTypes, Packets64, Unsent
  <1>1. \A q \in Packets64 : taken'[q] = IF q = p THEN 1 ELSE taken[q]
    BY <1>0
  <1>2. ReplayTypes'
    BY <1>0, <1>1 DEF ReplayInv, ReplayTypes
  <1>3. Exact' /\ ClosedInv'
    BY Zenon DEF Exact, ClosedInv
  <1>4. MineInv'
    <2> SUFFICES ASSUME NEW q \in w.mine
                 PROVE  /\ w.open /\ q <= w.highest /\ taken'[q] # 0
                        /\ age[q] <= Skew => w.seen - Ahead <= age[q]
      BY Zenon DEF MineInv
    <2>1. q \in Packets64 /\ q \in Nat /\ w.highest \in Nat /\ window.highest \in Nat /\ window.seen \in Nat
          /\ age[q] \in Int
      BY <1>0 DEF WindowRec, Packets64
    <2>2. CASE q = p
      BY <2>1, <2>2, <1>0, <1>1, SMTT(30)
    <2>3. CASE q \in window.mine /\ q # p
      <3>1. /\ window.open /\ q <= window.highest /\ taken[q] # 0
            /\ age[q] <= Skew => window.seen - Ahead <= age[q]
        BY <2>3, Zenon DEF ReplayInv, MineInv
      <3> QED
        BY <3>1, <2>1, <2>3, <1>0, <1>1
    <2> QED
      BY <2>2, <2>3
  <1>5. TakenInv'
    <2> SUFFICES ASSUME NEW q \in Packets64
                 PROVE  /\ taken'[q] <= 1
                        /\ taken'[q] # 0 => age[q] # Unsent /\ (age[q] <= Skew => q \in w.mine)
      BY Zenon DEF TakenInv
    <2>1. CASE q = p
      BY <2>1, <1>0, <1>1
    <2>2. CASE q # p
      BY <2>2, <1>0, <1>1, Zenon DEF ReplayInv, TakenInv
    <2> QED
      BY <2>1, <2>2, Zenon
  <1> QED
    BY <1>2, <1>3, <1>4, <1>5, Zenon DEF ReplayInv

\* Arrives, for the first datagram of a window.
LEMMA PassFirst ==
  ASSUME ReplayInv, NEW p \in Packets64, age[p] <= Skew, ~window.open,
         window' = [[window EXCEPT !.open = TRUE, !.seen = 0]
                      EXCEPT !.highest = p, !.bitmap[0] = {0}, !.mine = {p}, !.busy = TRUE],
         taken' = [taken EXCEPT ![p] = @ + 1], UNCHANGED age
  PROVE  ReplayInv'
  <1> DEFINE bm == [window.bitmap EXCEPT ![0] = {0}]
             w == [open |-> TRUE, highest |-> p, bitmap |-> bm, seen |-> 0, busy |-> TRUE, mine |-> {p}]
  <1>0. /\ window \in WindowRec /\ p \in Nat /\ window.bitmap \in [Places -> SUBSET Cells]
        /\ 0 \in Places /\ 0 \in Cells /\ window.mine = {} /\ \A i \in Places : window.bitmap[i] = {}
    <2>1. window \in WindowRec /\ p \in Nat
      BY DEF ReplayInv, ReplayTypes, Packets64
    <2>2. window.bitmap \in [Places -> SUBSET Cells]
      BY <2>1, Zenon DEF WindowRec
    <2>3. 0 \in Places /\ 0 \in Cells
      BY ReplayAssumption DEF Places, Cells
    <2>4. window.mine = {} /\ \A i \in Places : window.bitmap[i] = {}
      BY Zenon DEF ReplayInv, MineInv, ClosedInv
    <2> QED
      BY <2>1, <2>2, <2>3, <2>4, Zenon
  <1>1. bm \in [Places -> SUBSET Cells] /\ \A i \in Places : bm[i] = IF i = 0 THEN {0} ELSE {}
    BY <1>0, Zenon
  <1>2. window' = w
    BY <1>0, Zenon DEF WindowRec
  <1> HIDE DEF bm
  <1>3. w \in WindowRec
    BY <1>0, <1>1, Zenon DEF WindowRec
  <1>4. /\ w.open /\ w.seen = 0 /\ w.mine = window.mine \cup {p} /\ p <= w.highest
        /\ w.bitmap = bm /\ w.highest = p
    BY <1>0
  <1> HIDE DEF w
  <1>5. ASSUME NEW i \in Places, NEW b \in Cells
        PROVE  b \in bm[i] <=> p - Offset(i, b) \in window.mine \cup {p}
    <2>1. Offset(i, b) \in Nat
      BY OneCell, Zenon
    <2>2. Offset(0, 0) = 0 /\ 0 \in Int /\ i \in Int
      BY ReplayAssumption DEF Offset, Places
    <2>3. Offset(i, b) = 0 <=> i = 0 /\ b = 0
      BY <2>2, <1>0, OneCell, Zenon
    <2>4. p - Offset(i, b) = p <=> Offset(i, b) = 0
      BY <2>1, <1>0
    <2> QED
      BY <2>3, <2>4, <1>0, <1>1, Zenon
  <1>6. taken[p] = 0
    BY NotTaken, Zenon
  <1> QED
    BY <1>2, <1>3, <1>4, <1>5, <1>6, LetPass, ZenonT(30)

\* Arrives, for a datagram above the highest.
LEMMA PassAbove ==
  ASSUME ReplayInv, NEW p \in Packets64, age[p] <= Skew, window.open, p > window.highest,
         window' = [[window EXCEPT !.open = TRUE, !.seen = 0]
                      EXCEPT !.highest = p, !.bitmap = Advance(p), !.mine = @ \cup {p}, !.busy = TRUE],
         taken' = [taken EXCEPT ![p] = @ + 1], UNCHANGED age
  PROVE  ReplayInv'
  <1> DEFINE n == p - window.highest
             mv == IF n >= Words * Bits THEN [i \in 0 .. Words - 1 |-> {}] ELSE Slide(window.bitmap, n)
             bm == [mv EXCEPT ![0] = @ \cup {0}]
             w == [open |-> TRUE, highest |-> p, bitmap |-> bm, seen |-> 0, busy |-> TRUE,
                   mine |-> window.mine \cup {p}]
  <1>0. /\ window \in WindowRec /\ p \in Nat /\ window.bitmap \in [Places -> SUBSET Cells]
        /\ 0 \in Places /\ 0 \in Cells /\ window.highest \in Nat /\ window.mine \in SUBSET Packets64
        /\ Words * Bits \in Nat
    <2>1. Words \in Nat /\ Bits \in Nat /\ Words > 0 /\ Bits > 0
      BY ReplayAssumption
    <2>2. Words * Bits \in Nat
      BY <2>1
    <2>3. window \in WindowRec /\ p \in Nat
      BY DEF ReplayInv, ReplayTypes, Packets64
    <2>4. window.bitmap \in [Places -> SUBSET Cells] /\ window.highest \in Nat
          /\ window.mine \in SUBSET Packets64
      BY <2>3, Zenon DEF WindowRec
    <2>5. 0 \in Places /\ 0 \in Cells
      BY <2>1 DEF Places, Cells
    <2> QED
      BY <2>2, <2>3, <2>4, <2>5, Zenon
  <1>1. n \in Nat /\ n > 0 /\ window.highest = p - n
    BY <1>0
  <1>2. window' = w
    BY <1>0, Zenon DEF WindowRec, Advance
  <1> HIDE DEF n
  <1>m. \A q \in window.mine : q \in Int /\ q <= window.highest
    BY <1>0 DEF ReplayInv, MineInv, Packets64
  \* Every bit that was there has moved; none is made up.
  <1>3. /\ mv \in [Places -> SUBSET Cells]
        /\ \A i \in Places, b \in Cells : b \in mv[i] <=> p - Offset(i, b) \in window.mine
    <2>1. CASE n >= Words * Bits
      <3>1. mv = [i \in Places |-> {}]
        BY <2>1, Zenon DEF Places
      <3>2. ASSUME NEW i \in Places, NEW b \in Cells PROVE p - Offset(i, b) \notin window.mine
        <4>1. Offset(i, b) \in Nat /\ Offset(i, b) < Words * Bits
          BY OneCell, Zenon
        <4>2. p - Offset(i, b) > window.highest /\ p - Offset(i, b) \in Int
          BY <4>1, <2>1, <1>0, <1>1
        <4> QED
          BY <4>2, <1>m, <1>0
      <3> QED
        BY <3>1, <3>2, Zenon
    <2>2. CASE ~(n >= Words * Bits)
      <3>0. mv = Slide(window.bitmap, n) /\ n < Words * Bits
        BY <2>2, <1>0, <1>1
      <3> HIDE DEF mv
      <3>1. DOMAIN mv = Places /\ mv = [i \in Places |-> mv[i]]
        BY <3>0, Zenon DEF Slide, Places
      <3>2. \A i \in Places : mv[i] \in SUBSET Cells
        BY <3>0, <1>0, <1>1, Slides, Zenon
      <3>3. ASSUME NEW i \in Places, NEW b \in Cells
            PROVE  b \in mv[i] <=> p - Offset(i, b) \in window.mine
        <4>1. b \in mv[i] <=>
                \E j \in Places, c \in Cells : c \in window.bitmap[j] /\ Offset(i, b) = Offset(j, c) + n
          BY <3>0, <1>0, <1>1, Slides, Zenon
        <4>2. Offset(i, b) \in Nat
          BY OneCell, Zenon
        <4>3. ASSUME NEW j \in Places, NEW c \in Cells, c \in window.bitmap[j],
                     Offset(i, b) = Offset(j, c) + n
              PROVE  p - Offset(i, b) \in window.mine
          <5>1. Offset(j, c) \in Nat
            BY OneCell, Zenon
          <5>2. p - Offset(i, b) = window.highest - Offset(j, c)
            BY <5>1, <4>2, <4>3, <1>0, <1>1
          <5> QED
            BY <5>2, <4>3, Zenon DEF ReplayInv, Exact
        <4>4. ASSUME p - Offset(i, b) \in window.mine
              PROVE  \E j \in Places, c \in Cells : c \in window.bitmap[j] /\ Offset(i, b) = Offset(j, c) + n
          <5> DEFINE m == Offset(i, b) - n
          <5>1. p - Offset(i, b) <= window.highest
            BY <4>4, <1>m, Zenon
          <5>2. m \in Nat /\ m < Words * Bits /\ Offset(i, b) = m + n
                /\ window.highest - m = p - Offset(i, b)
            <6>1. Offset(i, b) < Words * Bits
              BY OneCell, Zenon
            <6> QED
              BY <6>1, <5>1, <4>2, <1>0, <1>1
          <5> HIDE DEF m
          <5>3. m \div Bits \in Places /\ m % Bits \in Cells /\ m = Offset(m \div Bits, m % Bits)
            BY <5>2, Offsets, OneCell, Zenon
          <5>4. window.highest - Offset(m \div Bits, m % Bits) \in window.mine
            BY <5>2, <5>3, <4>4, Zenon
          <5>5. m % Bits \in window.bitmap[m \div Bits]
            BY <5>3, <5>4, Zenon DEF ReplayInv, Exact
          <5>6. Offset(i, b) = Offset(m \div Bits, m % Bits) + n
            BY <5>2, <5>3, Zenon
          <5> QED
            BY <5>3, <5>5, <5>6, Zenon
        <4> QED
          BY <4>1, <4>3, <4>4, Zenon
      <3> QED
        BY <3>1, <3>2, <3>3, Zenon
    <2> QED
      BY <2>1, <2>2, Zenon
  <1> HIDE DEF mv
  <1>4. bm \in [Places -> SUBSET Cells] /\ \A i \in Places : bm[i] = IF i = 0 THEN mv[0] \cup {0} ELSE mv[i]
    BY <1>0, <1>3, Zenon
  <1> HIDE DEF bm
  <1>5. w \in WindowRec
    BY <1>0, <1>4, Zenon DEF WindowRec
  <1>6. /\ w.open /\ w.seen = 0 /\ w.mine = window.mine \cup {p} /\ w.bitmap = bm /\ w.highest = p
        /\ p <= w.highest /\ window.highest <= w.highest
    BY <1>0, <1>1
  <1> HIDE DEF w
  <1>7. ASSUME NEW i \in Places, NEW b \in Cells
        PROVE  b \in bm[i] <=> p - Offset(i, b) \in window.mine \cup {p}
    <2>1. Offset(i, b) \in Nat
      BY OneCell, Zenon
    <2>2. Offset(0, 0) = 0 /\ 0 \in Int /\ i \in Int
      BY ReplayAssumption DEF Offset, Places
    <2>3. Offset(i, b) = 0 <=> i = 0 /\ b = 0
      BY <2>2, <1>0, OneCell, Zenon
    <2>4. p - Offset(i, b) = p <=> Offset(i, b) = 0
      BY <2>1, <1>0
    <2>5. b \in mv[i] <=> p - Offset(i, b) \in window.mine
      BY <1>3, Zenon
    <2> QED
      BY <2>3, <2>4, <2>5, <1>4, Zenon
  <1>8. taken[p] = 0
    BY NotTaken, Zenon
  <1> QED
    BY <1>2, <1>5, <1>6, <1>7, <1>8, LetPass, ZenonT(30)

\* Arrives, for a datagram below the highest whose bit is not set.
LEMMA PassBelow ==
  ASSUME ReplayInv, NEW p \in Packets64, age[p] <= Skew, window.open, p <= window.highest, Unseen(p),
         window' = [[window EXCEPT !.open = TRUE, !.seen = 0]
                      EXCEPT !.bitmap = Mark(p), !.mine = @ \cup {p}, !.busy = TRUE],
         taken' = [taken EXCEPT ![p] = @ + 1], UNCHANGED age
  PROVE  ReplayInv'
  <1> DEFINE n == window.highest - p
             s == n \div Bits
             r == n % Bits
             bm == [window.bitmap EXCEPT ![s] = @ \cup {r}]
             w == [open |-> TRUE, highest |-> window.highest, bitmap |-> bm, seen |-> 0, busy |-> TRUE,
                   mine |-> window.mine \cup {p}]
  <1>0. /\ window \in WindowRec /\ p \in Nat /\ window.bitmap \in [Places -> SUBSET Cells]
        /\ window.highest \in Nat /\ window.mine \in SUBSET Packets64
    BY DEF ReplayInv, ReplayTypes, Packets64, WindowRec
  <1>1. n \in Nat /\ n < Words * Bits /\ p = window.highest - n
    BY <1>0 DEF Unseen
  <1>2. window' = w
    BY <1>0, Zenon DEF WindowRec, Mark
  <1>3. s \in Places /\ s \in Int /\ r \in Cells /\ n = Offset(s, r)
    BY <1>1, Offsets, OneCell
  <1> HIDE DEF n, s, r
  <1>4. bm \in [Places -> SUBSET Cells] /\ \A i \in Places :
          bm[i] = IF i = s THEN window.bitmap[s] \cup {r} ELSE window.bitmap[i]
    BY <1>0, <1>3, Zenon
  <1> HIDE DEF bm
  <1>5. w \in WindowRec
    BY <1>0, <1>4, Zenon DEF WindowRec
  <1>6. /\ w.open /\ w.seen = 0 /\ w.mine = window.mine \cup {p} /\ w.bitmap = bm
        /\ w.highest = window.highest /\ p <= w.highest /\ window.highest <= w.highest
    BY <1>0, <1>1
  <1> HIDE DEF w
  <1>7. ASSUME NEW i \in Places, NEW b \in Cells
        PROVE  b \in bm[i] <=> w.highest - Offset(i, b) \in window.mine \cup {p}
    <2>1. Offset(i, b) \in Nat /\ i \in Int
      BY OneCell DEF Places
    <2>2. window.highest - Offset(i, b) = p <=> Offset(i, b) = n
      BY <2>1, <1>0, <1>1
    <2>3. Offset(i, b) = n <=> i = s /\ b = r
      BY <2>1, <1>3, OneCell, Zenon
    <2>4. b \in window.bitmap[i] <=> window.highest - Offset(i, b) \in window.mine
      BY Zenon DEF ReplayInv, Exact
    <2> QED
      BY <2>2, <2>3, <2>4, <1>4, <1>6, Zenon
  <1>8. taken[p] = 0
    BY NotTaken, Zenon
  <1> QED
    BY <1>2, <1>5, <1>6, <1>7, <1>8, LetPass, Zenon

\* The steps that let nothing pass: w is the window afterwards, with the bits it
\* had, and a is the age of the datagrams.
LEMMA NothingPasses ==
  ASSUME ReplayInv, NEW w \in WindowRec, window' = w, w.open = window.open, w.highest = window.highest,
         w.bitmap = window.bitmap, w.mine = window.mine, UNCHANGED taken,
         NEW a \in [Packets64 -> Int], age' = a,
         \A p \in Packets64 :
             /\ -Ahead <= a[p]
             /\ taken[p] # 0 => a[p] # Unsent /\ (a[p] <= Skew => age[p] <= Skew)
             /\ p \in window.mine /\ a[p] <= Skew =>
                  w.seen - window.seen <= a[p] - age[p]
  PROVE  ReplayInv'
  <1>0. window \in WindowRec /\ age \in [Packets64 -> Int] /\ taken \in [Packets64 -> Nat] /\ Ahead \in Nat
    BY ReplayAssumption, Zenon DEF ReplayInv, ReplayTypes
  <1>1. ReplayTypes'
    BY <1>0, Zenon DEF ReplayTypes
  <1>2. Exact' /\ ClosedInv'
    BY Zenon DEF ReplayInv, Exact, ClosedInv
  <1>3. MineInv'
    <2> SUFFICES ASSUME NEW q \in window.mine
                 PROVE  /\ window.open /\ q <= window.highest /\ taken[q] # 0
                        /\ a[q] <= Skew => w.seen - Ahead <= a[q]
      BY Zenon DEF MineInv
    <2>1. q \in Packets64 /\ w.seen \in Nat /\ window.seen \in Nat /\ a[q] \in Int /\ age[q] \in Int
      BY <1>0, Zenon DEF WindowRec
    <2>2. /\ window.open /\ q <= window.highest /\ taken[q] # 0
          /\ age[q] <= Skew => window.seen - Ahead <= age[q]
      BY Zenon DEF ReplayInv, MineInv
    <2> QED
      BY <2>1, <2>2, <1>0
  <1>4. TakenInv'
    BY Zenon DEF ReplayInv, TakenInv
  <1> QED
    BY <1>1, <1>2, <1>3, <1>4, Zenon DEF ReplayInv

\* No datagram of a Shadowsocks 2022 session is relayed twice, and its bitmap holds
\* exactly the packets that were let pass and that it still reaches, in every
\* reachable state, for a bitmap of any size, any packet ids and any number of
\* deliveries: while the client's clock runs ahead by less than a window is kept
\* beyond the allowed skew.
THEOREM RelayedOnceHolds ==
  ASSUME Keep > Skew + Ahead
  PROVE  ReplaySpec => []RelayedOnce
  <1>0. Skew \in Nat /\ Ahead \in Nat /\ Keep \in Nat /\ Unsent = Skew + 2
    BY ReplayAssumption, Zenon DEF Unsent
  <1>1. (\E on \in {"on", "none"} : ReplayInit(on)) => ReplayInv
    <2> SUFFICES ASSUME NEW on, ReplayInit(on) PROVE ReplayInv
      BY Zenon
    <2>1. /\ window = NoWindow /\ age = [p \in Packets64 |-> Unsent] /\ taken = [p \in Packets64 |-> 0]
      BY Zenon DEF ReplayInit
    <2>2. NoWindow \in WindowRec
      BY Zenon DEF NoWindow, WindowRec, Places
    <2>3. ~NoWindow.open /\ NoWindow.mine = {} /\ \A i \in Places : NoWindow.bitmap[i] = {}
      BY Zenon DEF NoWindow, Places
    <2>4. ReplayTypes
      BY <2>1, <2>2, <1>0 DEF ReplayTypes
    <2>5. Exact /\ ClosedInv /\ MineInv
      BY <2>1, <2>3, Zenon DEF Exact, ClosedInv, MineInv
    <2>6. TakenInv
      BY <2>1 DEF TakenInv
    <2> QED
      BY <2>4, <2>5, <2>6, Zenon DEF ReplayInv
  <1>2. ReplayInv /\ [ReplayNext]_replayVars => ReplayInv'
    <2> SUFFICES ASSUME ReplayInv, [ReplayNext]_replayVars PROVE ReplayInv'
      BY Zenon
    <2>0. /\ window \in WindowRec /\ age \in [Packets64 -> Int] /\ taken \in [Packets64 -> Nat]
          /\ \A p \in Packets64 : -Ahead <= age[p]
          /\ window.seen \in Nat
      BY Zenon DEF ReplayInv, ReplayTypes, WindowRec
    <2>1. CASE UNCHANGED replayVars
      BY <2>1, Zenon DEF replayVars, ReplayInv, ReplayTypes, Exact, ClosedInv, MineInv, TakenInv
    <2>2. ASSUME NEW p \in Packets64, Arrives(p) PROVE ReplayInv'
      <3>1. CASE window.open /\ p <= window.highest /\ ~Unseen(p)
        <4> DEFINE w == [window EXCEPT !.open = TRUE, !.seen = 0]
        <4>1. /\ w \in WindowRec /\ w.open = window.open /\ w.highest = window.highest
              /\ w.bitmap = window.bitmap /\ w.mine = window.mine /\ w.seen = 0
          BY <2>0, <3>1, Zenon DEF WindowRec
        <4>2. p \in Nat /\ window.highest \in Nat
          BY <2>0 DEF Packets64, WindowRec
        <4>3. window' = w /\ UNCHANGED <<age, taken>>
          BY <2>2, <3>1, <4>2 DEF Arrives
        <4> HIDE DEF w
        <4>4. \A q \in Packets64 :
                 /\ -Ahead <= age[q]
                 /\ taken[q] # 0 => age[q] # Unsent /\ (age[q] <= Skew => age[q] <= Skew)
                 /\ q \in window.mine /\ age[q] <= Skew => w.seen - window.seen <= age[q] - age[q]
          <5>1. \A q \in Packets64 : taken[q] # 0 => age[q] # Unsent
            BY Zenon DEF ReplayInv, TakenInv
          <5>2. \A q \in Packets64 : w.seen - window.seen <= age[q] - age[q]
            BY <2>0, <4>1
          <5> QED
            BY <5>1, <5>2, <2>0, Zenon
        <4> QED
          BY <4>1, <4>3, <4>4, <2>0, NothingPasses, Zenon
      <3>2. CASE ~(window.open /\ p <= window.highest /\ ~Unseen(p))
        <4>1. p \in Nat /\ window.highest \in Nat
          BY <2>0 DEF Packets64, WindowRec
        <4> QED
          BY <2>2, <3>2, <4>1, PassFirst, PassAbove, PassBelow, Zenon DEF Arrives
      <3> QED
        BY <3>1, <3>2, Zenon
    <2>3. CASE SendNext
      <3>1. PICK p \in Packets64, a \in 0 .. Ahead : age[p] = Unsent /\ age' = [age EXCEPT ![p] = -a]
        BY <2>3, Zenon DEF SendNext
      <3>2. UNCHANGED <<window, taken>> /\ -a \in Int /\ -Ahead <= -a
        BY <2>3, <3>1, <1>0 DEF SendNext
      <3>3. taken[p] = 0 /\ p \notin window.mine
        BY <3>1, Zenon DEF ReplayInv, TakenInv, MineInv
      <3>4. age' \in [Packets64 -> Int] /\ \A q \in Packets64 : age'[q] = IF q = p THEN -a ELSE age[q]
        BY <3>1, <3>2, <2>0, Zenon
      <3>5. \A q \in Packets64 :
               /\ -Ahead <= age'[q]
               /\ taken[q] # 0 => age'[q] # Unsent /\ (age'[q] <= Skew => age[q] <= Skew)
               /\ q \in window.mine /\ age'[q] <= Skew => window.seen - window.seen <= age'[q] - age[q]
        <4>1. \A q \in Packets64 : taken[q] # 0 => age[q] # Unsent
          BY Zenon DEF ReplayInv, TakenInv
        <4>2. \A q \in Packets64 : q # p => window.seen - window.seen <= age'[q] - age[q]
          BY <3>4, <2>0
        <4> QED
          BY <4>1, <4>2, <3>2, <3>3, <3>4, <2>0, Zenon
      <3> QED
        BY <3>2, <3>4, <3>5, <2>0, NothingPasses, Zenon
    <2>4. CASE SessionEnds
      <3> DEFINE w == [window EXCEPT !.busy = FALSE]
      <3>1. /\ w \in WindowRec /\ w.open = window.open /\ w.highest = window.highest
            /\ w.bitmap = window.bitmap /\ w.mine = window.mine /\ w.seen = window.seen
        BY <2>0, Zenon DEF WindowRec
      <3>2. window' = w /\ UNCHANGED <<age, taken>>
        BY <2>4, Zenon DEF SessionEnds
      <3> HIDE DEF w
      <3>3. \A q \in Packets64 :
               /\ -Ahead <= age[q]
               /\ taken[q] # 0 => age[q] # Unsent /\ (age[q] <= Skew => age[q] <= Skew)
               /\ q \in window.mine /\ age[q] <= Skew => w.seen - window.seen <= age[q] - age[q]
        <4>1. \A q \in Packets64 : taken[q] # 0 => age[q] # Unsent
          BY Zenon DEF ReplayInv, TakenInv
        <4>2. \A q \in Packets64 : w.seen - window.seen <= age[q] - age[q]
          BY <2>0, <3>1
        <4> QED
          BY <4>1, <4>2, <2>0, Zenon
      <3> QED
        BY <3>1, <3>2, <3>3, <2>0, NothingPasses, Zenon
    <2>5. CASE SweepWindow
      <3>1. /\ window.open /\ window.seen >= Keep /\ window' = NoWindow /\ UNCHANGED <<age, taken>>
        BY <2>5, Zenon DEF SweepWindow, Stale
      <3>2. NoWindow \in WindowRec /\ ~NoWindow.open /\ NoWindow.mine = {}
            /\ \A i \in Places : NoWindow.bitmap[i] = {}
        BY Zenon DEF NoWindow, WindowRec, Places
      \* What the window has let pass is out of date.
      <3>3. \A q \in window.mine : ~(age[q] <= Skew)
        <4> SUFFICES ASSUME NEW q \in window.mine, age[q] <= Skew PROVE FALSE
          BY Zenon
        <4>1. window.seen - Ahead <= age[q]
          BY Zenon DEF ReplayInv, MineInv
        <4>2. age[q] \in Int
          BY <2>0, Zenon DEF WindowRec
        <4> QED
          BY <4>1, <4>2, <3>1, <2>0, <1>0
      <3>4. ReplayTypes'
        BY <3>1, <3>2, <2>0, Zenon DEF ReplayTypes
      <3>5. Exact' /\ ClosedInv' /\ MineInv'
        BY <3>1, <3>2, Zenon DEF Exact, ClosedInv, MineInv
      <3>6. TakenInv'
        BY <3>1, <3>3, Zenon DEF ReplayInv, TakenInv
      <3> QED
        BY <3>4, <3>5, <3>6, Zenon DEF ReplayInv
    <2>6. CASE Second
      <3> DEFINE s == IF window.open /\ window.seen < Keep THEN window.seen + 1 ELSE window.seen
                 w == [window EXCEPT !.seen = s]
                 a == [q \in Packets64 |-> IF age[q] > Skew THEN age[q] ELSE age[q] + 1]
      <3>1. s \in Nat /\ s <= window.seen + 1
        BY <2>0
      <3>2. window' = w /\ age' = a /\ UNCHANGED taken
        BY <2>6, Zenon DEF Second
      <3> HIDE DEF s
      <3>3. /\ w \in WindowRec /\ w.open = window.open /\ w.highest = window.highest
            /\ w.bitmap = window.bitmap /\ w.mine = window.mine /\ w.seen = s
        BY <2>0, <3>1, Zenon DEF WindowRec
      <3>4. a \in [Packets64 -> Int] /\ \A q \in Packets64 : a[q] = IF age[q] > Skew THEN age[q] ELSE age[q] + 1
        BY <2>0
      <3> HIDE DEF w, a
      <3>5. ASSUME NEW q \in Packets64
            PROVE  /\ -Ahead <= a[q]
                   /\ taken[q] # 0 => a[q] # Unsent /\ (a[q] <= Skew => age[q] <= Skew)
                   /\ q \in window.mine /\ a[q] <= Skew => w.seen - window.seen <= a[q] - age[q]
        <4>1. taken[q] # 0 => age[q] # Unsent
          BY Zenon DEF ReplayInv, TakenInv
        <4>2. age[q] \in Int /\ -Ahead <= age[q]
          BY <2>0, Zenon
        <4> QED
          BY <4>1, <4>2, <3>1, <3>3, <3>4, <2>0, <1>0, SMTT(30)
      <3> QED
        BY <3>2, <3>3, <3>4, <3>5, NothingPasses, Zenon
    <2> QED
      BY <2>1, <2>2, <2>3, <2>4, <2>5, <2>6, Zenon DEF ReplayNext
  <1>3. ReplayInv => RelayedOnce
    <2> SUFFICES ASSUME ReplayInv PROVE RelayedOnce
      BY Zenon
    <2>1. \A p \in Packets64 : taken[p] <= 1
      BY Zenon DEF ReplayInv, TakenInv
    <2>2. ASSUME window.open
          PROVE  {window.highest - (Bits * i + b) : i \in 0 .. Words - 1, b \in 0 .. Bits - 1} \cap window.mine
                 = UNION {{window.highest - (Bits * i + b) : b \in window.bitmap[i]} : i \in 0 .. Words - 1}
      <3>1. \A i \in 0 .. Words - 1 : window.bitmap[i] \subseteq 0 .. Bits - 1
        BY Zenon DEF ReplayInv, ReplayTypes, WindowRec, Places, Cells
      <3>2. \A i \in 0 .. Words - 1, b \in 0 .. Bits - 1 :
               b \in window.bitmap[i] <=> window.highest - (Bits * i + b) \in window.mine
        BY <2>2, Zenon DEF ReplayInv, Exact, Places, Cells, Offset
      <3> QED
        BY <3>1, <3>2
    <2> QED
      BY <2>1, <2>2 DEF RelayedOnce
  <1> QED
    BY <1>1, <1>2, <1>3, PTL DEF ReplaySpec

=============================================================================
