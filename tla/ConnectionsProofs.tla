------------------------- MODULE ConnectionsProofs --------------------------
(***************************************************************************)
(* Theorems about the TCP inbounds, for every finite set of connection     *)
(* slots, every user list, every connection limit and every protocol.      *)
(***************************************************************************)
EXTENDS Connections, FiniteSetTheorems, TLAPS

\* The stages before the credential is awaited, while it is looked up, and
\* after the connection guard was taken.
Early == {"proxy", "secure", "transport", "accept", "fallback", "probe", "peek", "streams"}
Greeted == {"handshake", "scan"}
Admitted == {"request", "sniff", "vision", "bind", "mux", "audit", "padding", "session",
             "dial", "relay", "udp"}
Stage == {"closed", "device"} \cup Early \cup Greeted \cup Admitted

Somebody == Users \cup {None}
Task == [pc : Stage, ip : Clients \cup {None}, cred : Somebody, user : Somebody,
         guard : BOOLEAN, host : Hosts \cup {None}, skip : Somebody, list : SUBSET Users,
         since : SUBSET Users, seen : SUBSET Users, parent : Conns \cup {None}, detached : BOOLEAN,
         known : BOOLEAN, wronged : BOOLEAN]

\* What is true of each task by itself: a guard is held from the admission on;
\* the user is known from the lookup on and owns the credential; those listed
\* all along are in the list and in the snapshot, and those are among the ones
\* seen; a cached user that was passed over was not listed all along.
Sound(t) ==
    /\ ~t.wronged
    /\ t.guard <=> t.pc \in Admitted
    /\ t.pc \in {"closed"} \cup Early \cup Greeted => t.user = None
    /\ t.pc \in {"closed", "handshake"} \cup Early => t.cred = None
    /\ t.pc \in {"device"} \cup Admitted => proto = "ssnone" \/ t.user # None
    /\ t.user # None => t.user = t.cred /\ t.known
    /\ t.pc = "relay" => t.host \notin Blocked
    /\ t.pc # "closed" => t.ip \in Clients
    /\ t.pc \in {"closed"} \cup Early => t.parent = None /\ ~t.detached
    /\ t.detached => proto = "naive" /\ t.parent = None
    /\ t.pc \in Greeted =>
          /\ t.since \subseteq users /\ users \subseteq t.seen
          /\ proto \in Families \cup {"ssr"} => t.since \subseteq t.list /\ t.list \subseteq t.seen
    /\ t.pc = "scan" /\ t.cred = t.skip => t.cred \notin t.since

\* What relates the tasks to each other and to the inbound.
ShapeInv ==
    /\ proto \in Protocols /\ inbound \in {"running", "draining", "stopped"}
    /\ users \in Lists /\ suspects \subseteq Clients
    /\ cache \in [Clients -> Somebody]
    /\ conn \in [Conns -> Task]
TasksInv == \A c \in Conns : Sound(conn[c])
ParentInv == \A c \in Conns : conn[c].parent # None => conn[conn[c].parent].pc = "streams"
QuietInv == inbound = "stopped" => \A c \in Conns : conn[c].pc = "closed" \/ conn[c].detached

ConnInv == ShapeInv /\ TasksInv /\ ParentInv /\ QuietInv /\ GuardsWithinLimit

-----------------------------------------------------------------------------
(* What the pieces of a handler do to the invariant.                       *)

\* A slot without a task is as Idle says.
LEMMA IdleSound == Idle \in Task /\ Sound(Idle)
  BY ConnectionAssumption, Zenon DEF Idle, Task, Stage, Early, Greeted, Admitted, Somebody, Sound

\* A step that hands out no guard keeps every user within the limit.
LEMMA NoNewGuard ==
  ASSUME ConnInv,
         \A d \in Conns : conn'[d].guard => conn[d].guard /\ conn'[d].user = conn[d].user
  PROVE  GuardsWithinLimit'
  <1> SUFFICES ASSUME NEW u \in Users PROVE Held(u)' <= MaxConn
    BY Zenon DEF GuardsWithinLimit
  <1> DEFINE Old == {c \in Conns : conn[c].guard /\ conn[c].user = u}
             New == {c \in Conns : conn'[c].guard /\ conn'[c].user = u}
  <1>1. IsFiniteSet(Old) /\ New \subseteq Old
    BY ConnectionAssumption, FS_Subset, Zenon
  <1>2. IsFiniteSet(New) /\ Cardinality(New) <= Cardinality(Old)
    BY <1>1, FS_Subset, Zenon
  <1>3. Cardinality(Old) <= MaxConn
    BY Zenon DEF ConnInv, GuardsWithinLimit, Held
  <1>4. Cardinality(Old) \in Nat /\ Cardinality(New) \in Nat
    BY <1>1, <1>2, FS_CardinalityType, Zenon
  <1> HIDE DEF Old, New
  <1>5. Cardinality(New) <= MaxConn
    BY <1>2, <1>3, <1>4, ConnectionAssumption
  <1> QED
    BY <1>5, Zenon DEF Held, New

\* A handler goes on from one await to the next: its task stays with its
\* connection and keeps the guard it has, or it ends.
LEMMA Replaced ==
  ASSUME ConnInv, NEW c \in Conns, NEW t \in Task, KeepInbound,
         cache' \in [Clients -> Somebody], suspects' \subseteq Clients,
         Become(c, t), Sound(t),
         conn[c].pc \notin {"closed", "streams"},
         t.parent \in {None, conn[c].parent},
         t.pc = "closed" \/ t.detached = conn[c].detached,
         t.guard => conn[c].guard /\ t.user = conn[c].user
  PROVE  ConnInv'
  <1>0. conn \in [Conns -> Task] /\ conn' = [conn EXCEPT ![c] = t] /\ UNCHANGED <<proto, inbound, users>>
    BY Zenon DEF ConnInv, ShapeInv, Become, KeepInbound
  <1>1. conn'[c] = t /\ \A d \in Conns : d # c => conn'[d] = conn[d]
    BY <1>0, Zenon
  <1>2. ShapeInv'
    BY <1>0, Zenon DEF ConnInv, ShapeInv
  <1>3. TasksInv'
    BY <1>0, <1>1 DEF ConnInv, TasksInv, Sound
  <1>4. ParentInv'
    <2> SUFFICES ASSUME NEW d \in Conns, conn'[d].parent # None PROVE conn'[conn'[d].parent].pc = "streams"
      BY Zenon DEF ParentInv
    <2>1. conn'[d].parent = conn[d].parent
      BY <1>1, Zenon
    <2>2. conn[conn[d].parent].pc = "streams" /\ conn[d].parent \in Conns
      BY <1>0, <2>1, Zenon DEF ConnInv, ParentInv, Task
    <2> QED
      BY <1>1, <2>1, <2>2, Zenon
  <1>5. QuietInv'
    BY <1>0, <1>1, Zenon DEF ConnInv, QuietInv
  <1>6. GuardsWithinLimit'
    BY <1>1, NoNewGuard, Zenon
  <1> QED
    BY <1>2, <1>3, <1>4, <1>5, <1>6, Zenon DEF ConnInv

\* A handler returns or is dropped, its streams with it.
LEMMA Closed ==
  ASSUME ConnInv, NEW c \in Conns, KeepInbound, Close(c),
         cache' \in [Clients -> Somebody], suspects' \subseteq Clients
  PROVE  ConnInv'
  <1>0. conn \in [Conns -> Task] /\ UNCHANGED <<proto, inbound, users>>
    BY Zenon DEF ConnInv, ShapeInv, KeepInbound
  <1>1. \A d \in Conns :
           conn'[d] = IF d = c \/ conn[d].parent = c THEN Idle ELSE conn[d]
    BY Zenon DEF Close
  <1>2. ShapeInv'
    BY <1>0, IdleSound, Zenon DEF ConnInv, ShapeInv, Close
  <1>3. TasksInv'
    BY <1>0, <1>1, IdleSound DEF ConnInv, TasksInv, Sound
  <1>4. ParentInv'
    <2> SUFFICES ASSUME NEW d \in Conns, conn'[d].parent # None PROVE conn'[conn'[d].parent].pc = "streams"
      BY Zenon DEF ParentInv
    <2>1. conn'[d] = conn[d] /\ d # c /\ conn[d].parent # c
      BY <1>1 DEF Idle
    <2>2. conn[conn[d].parent].pc = "streams" /\ conn[d].parent \in Conns
      BY <1>0, <2>1, Zenon DEF ConnInv, ParentInv, Task
    <2>3. conn[conn[d].parent].parent = None
      BY <2>2, Zenon DEF ConnInv, TasksInv, Sound, Early
    <2> QED
      BY <1>1, <2>1, <2>2, <2>3, ConnectionAssumption, Zenon
  <1>5. QuietInv'
    BY <1>0, <1>1 DEF ConnInv, QuietInv, Idle
  <1>6. GuardsWithinLimit'
    BY <1>1, NoNewGuard DEF Idle
  <1> QED
    BY <1>2, <1>3, <1>4, <1>5, <1>6, Zenon DEF ConnInv

\* The handlers' records of addresses stay records of addresses.
LEMMA Records ==
  ASSUME ConnInv, NEW c \in Conns, conn[c].pc # "closed"
  PROVE  /\ KeepRecords => cache' \in [Clients -> Somebody] /\ suspects' \subseteq Clients
         /\ UNCHANGED cache => cache' \in [Clients -> Somebody]
         /\ UNCHANGED suspects \/ Forgive(c) \/ Suspect(c) => suspects' \subseteq Clients
         /\ \A u \in Somebody : cache' = [cache EXCEPT ![conn[c].ip] = u] => cache' \in [Clients -> Somebody]
         /\ cache[conn[c].ip] \in Somebody
  BY Zenon DEF ConnInv, ShapeInv, TasksInv, Sound, KeepRecords, Forgive, Suspect

\* The accept loop spawns a task.
LEMMA Accepted ==
  ASSUME ConnInv, NEW c \in Conns, NEW stage \in Early \ {"streams"}, Accept(c, stage)
  PROVE  ConnInv'
  <1>1. PICK i \in Clients : conn' = [conn EXCEPT ![c] = [Idle EXCEPT !.pc = stage, !.ip = i]]
    BY Zenon DEF Accept, Become
  <1> DEFINE t == [Idle EXCEPT !.pc = stage, !.ip = i]
  <1>2. t \in Task /\ Sound(t)
    BY ConnectionAssumption, ZenonT(30) DEF Idle, Task, Stage, Early, Greeted, Admitted, Somebody, Sound
  <1>3. t.parent = None /\ ~t.guard
    BY Zenon DEF Idle
  <1> HIDE DEF t
  <1>4. conn \in [Conns -> Task] /\ UNCHANGED <<proto, inbound, users, cache, suspects>>
        /\ inbound = "running" /\ conn[c].pc = "closed"
    BY Zenon DEF ConnInv, ShapeInv, Accept, Only, KeepInbound, KeepRecords, At
  <1>5. conn'[c] = t /\ \A d \in Conns : d # c => conn'[d] = conn[d]
    BY <1>1, <1>4, Zenon DEF t
  <1>6. ShapeInv'
    BY <1>1, <1>2, <1>4, Zenon DEF ConnInv, ShapeInv, t
  <1>7. TasksInv' /\ QuietInv'
    BY <1>2, <1>4, <1>5 DEF ConnInv, TasksInv, QuietInv, Sound
  <1>8. ParentInv'
    <2> SUFFICES ASSUME NEW d \in Conns, conn'[d].parent # None PROVE conn'[conn'[d].parent].pc = "streams"
      BY Zenon DEF ParentInv
    <2>1. conn'[d] = conn[d]
      BY <1>3, <1>5, Zenon
    <2>2. conn[conn[d].parent].pc = "streams" /\ conn[d].parent \in Conns
      BY <1>4, <2>1, Zenon DEF ConnInv, ParentInv, Task
    <2> QED
      BY <1>4, <1>5, <2>1, <2>2, Zenon
  <1>9. GuardsWithinLimit'
    BY <1>3, <1>5, NoNewGuard, Zenon
  <1> QED
    BY <1>6, <1>7, <1>8, <1>9, Zenon DEF ConnInv

\* What the stage at which the credential is read changes in a task.
LEMMA GreetingType ==
  ASSUME NEW x \in Task, users \subseteq Users
  PROVE  \A t \in {Greeting(x), [Greeting(x) EXCEPT !.list = users]} :
           /\ t \in Task /\ t.pc = "handshake" /\ t.since = users /\ t.seen = users
           /\ t.wronged = x.wronged /\ t.guard = x.guard /\ t.user = x.user /\ t.cred = x.cred
           /\ t.ip = x.ip /\ t.parent = x.parent /\ t.detached = x.detached
           /\ t.list = users \/ t = Greeting(x)
           /\ [Greeting(x) EXCEPT !.list = users].list = users
  <1> DEFINE g == Greeting(x)
  <1>0. users \in SUBSET Users /\ "handshake" \in Stage
    BY Zenon DEF Stage, Greeted
  <1>1. /\ g \in Task /\ g.pc = "handshake" /\ g.since = users /\ g.seen = users
        /\ g.wronged = x.wronged /\ g.guard = x.guard /\ g.user = x.user /\ g.cred = x.cred
        /\ g.ip = x.ip /\ g.parent = x.parent /\ g.detached = x.detached
    BY <1>0, Zenon DEF Greeting, Task
  <1> HIDE DEF g
  <1> DEFINE h == [g EXCEPT !.list = users]
  <1>2. /\ h \in Task /\ h.pc = g.pc /\ h.since = g.since /\ h.seen = g.seen
        /\ h.wronged = g.wronged /\ h.guard = g.guard /\ h.user = g.user /\ h.cred = g.cred
        /\ h.ip = g.ip /\ h.parent = g.parent /\ h.detached = g.detached /\ h.list = users
    BY <1>0, <1>1, Zenon DEF Task
  <1> HIDE DEF h
  <1> QED
    BY <1>1, <1>2, Zenon DEF g, h

\* A connection task spawns the handler of a stream, with or without a snapshot
\* of the users, into its JoinSet or, in the Naive inbound, detached.
LEMMA Streamed ==
  ASSUME ConnInv, NEW c \in Conns, NEW d \in Conns, NEW r,
         \/ r = Greeting([Idle EXCEPT !.parent = c]) /\ proto \notin Families \cup {"ssr"}
         \/ r = [Greeting([Idle EXCEPT !.parent = c]) EXCEPT !.list = users]
         \/ r = Greeting([Idle EXCEPT !.detached = TRUE]) /\ proto = "naive",
         Stream(c, d, r)
  PROVE  ConnInv'
  <1>0. conn \in [Conns -> Task] /\ UNCHANGED <<proto, inbound, users, cache, suspects>>
        /\ conn[c].pc = "streams" /\ conn[d].pc = "closed"
    BY Zenon DEF ConnInv, ShapeInv, Stream, Only, KeepInbound, KeepRecords, At
  <1>1. conn[c].ip \in Clients /\ ~conn[c].detached /\ users \subseteq Users
    BY <1>0, ConnectionAssumption, Zenon DEF ConnInv, ShapeInv, TasksInv, Sound, Early
  <1> DEFINE t == [r EXCEPT !.ip = conn[c].ip]
  <1> DEFINE k == [Idle EXCEPT !.parent = c]
             n == [Idle EXCEPT !.detached = TRUE]
  <1>k. /\ k \in Task /\ k.parent = c /\ ~k.detached
        /\ ~k.wronged /\ ~k.guard /\ k.user = None /\ k.cred = None
    BY IdleSound, Zenon DEF Idle, Task
  <1>n. /\ n \in Task /\ n.parent = None
        /\ ~n.wronged /\ ~n.guard /\ n.user = None /\ n.cred = None
    BY IdleSound, Zenon DEF Idle, Task
  <1> HIDE DEF k, n
  <1>a. /\ r \in Task /\ r.pc = "handshake" /\ r.since = users /\ r.seen = users
        /\ r.list = users \/ proto \notin Families \cup {"ssr"}
        /\ ~r.wronged /\ ~r.guard /\ r.user = None /\ r.cred = None
        /\ r.parent \in {None, c} /\ (r.detached => r.parent = None /\ proto = "naive")
    <2>1. CASE r = Greeting(k) /\ proto \notin Families \cup {"ssr"}
      BY <1>1, <1>k, <2>1, GreetingType, Zenon
    <2>2. CASE r = [Greeting(k) EXCEPT !.list = users]
      BY <1>1, <1>k, <2>2, GreetingType, Zenon
    <2>3. CASE r = Greeting(n) /\ proto = "naive"
      BY <1>1, <1>n, <2>3, GreetingType, Zenon DEF Families
    <2> QED
      BY <2>1, <2>2, <2>3, Zenon DEF k, n
  <1>t. /\ t \in Task /\ t.pc = "handshake" /\ t.since = users /\ t.seen = users /\ t.list = r.list
        /\ t.wronged = r.wronged /\ t.guard = r.guard /\ t.user = r.user /\ t.cred = r.cred
        /\ t.parent = r.parent /\ t.detached = r.detached /\ t.ip \in Clients
    BY <1>1, <1>a, Zenon DEF Task
  <1> HIDE DEF t
  <1>2. t \in Task /\ Sound(t) /\ ~t.guard /\ t.parent \in {None, c}
    BY <1>1, <1>a, <1>t, Zenon DEF Early, Greeted, Admitted, Sound
  <1>3. conn' = [conn EXCEPT ![d] = t]
    BY Zenon DEF Stream, Become, t
  <1>4. conn'[d] = t /\ \A e \in Conns : e # d => conn'[e] = conn[e]
    BY <1>0, <1>3, Zenon
  <1>5. ShapeInv'
    BY <1>0, <1>2, <1>3, Zenon DEF ConnInv, ShapeInv
  <1>6. TasksInv' /\ QuietInv'
    BY <1>0, <1>1, <1>2, <1>4 DEF ConnInv, TasksInv, QuietInv, Sound
  <1>7. ParentInv'
    <2> SUFFICES ASSUME NEW e \in Conns, conn'[e].parent # None PROVE conn'[conn'[e].parent].pc = "streams"
      BY Zenon DEF ParentInv
    <2>1. CASE e = d
      BY <1>0, <1>2, <1>4, <2>1, Zenon
    <2>2. CASE e # d
      <3>1. conn[conn[e].parent].pc = "streams" /\ conn[e].parent \in Conns /\ conn'[e] = conn[e]
        BY <1>0, <1>4, <2>2, Zenon DEF ConnInv, ParentInv, Task
      <3> QED
        BY <1>0, <1>4, <3>1, Zenon
    <2> QED
      BY <2>1, <2>2, Zenon
  <1>8. GuardsWithinLimit'
    BY <1>2, <1>4, NoNewGuard, Zenon
  <1> QED
    BY <1>5, <1>6, <1>7, <1>8, Zenon DEF ConnInv

\* A handler reaches the stage at which the credential is read, and with a
\* snapshot takes the list of that moment.
LEMMA Greets ==
  ASSUME ConnInv, NEW c \in Conns, conn[c].pc \in Early \ {"streams"}, Only(c),
         \/ Become(c, Greeting(conn[c])) /\ proto \notin Families \cup {"ssr"}
         \/ Become(c, [Greeting(conn[c]) EXCEPT !.list = users])
  PROVE  ConnInv'
  <1>1. conn[c] \in Task /\ Sound(conn[c]) /\ users \subseteq Users
    BY ConnectionAssumption, Zenon DEF ConnInv, ShapeInv, TasksInv
  <1>2. PICK t : /\ Become(c, t)
                 /\ \/ t = Greeting(conn[c]) /\ proto \notin Families \cup {"ssr"}
                    \/ t = [Greeting(conn[c]) EXCEPT !.list = users]
    BY Zenon
  <1>a. /\ t \in Task /\ t.pc = "handshake" /\ t.since = users /\ t.seen = users
        /\ t.list = users \/ proto \notin Families \cup {"ssr"}
        /\ t.wronged = conn[c].wronged /\ t.guard = conn[c].guard /\ t.user = conn[c].user
        /\ t.cred = conn[c].cred /\ t.ip = conn[c].ip /\ t.parent = conn[c].parent
        /\ t.detached = conn[c].detached
    <2>1. CASE t = Greeting(conn[c]) /\ proto \notin Families \cup {"ssr"}
      BY <1>1, <2>1, GreetingType, Zenon
    <2>2. CASE t = [Greeting(conn[c]) EXCEPT !.list = users]
      BY <1>1, <2>2, GreetingType, Zenon
    <2> QED
      BY <1>2, <2>1, <2>2, Zenon
  <1>3. t \in Task /\ Sound(t)
    BY <1>1, <1>a, Zenon DEF Early, Greeted, Admitted, Sound
  <1>4. t.parent = conn[c].parent /\ t.detached = conn[c].detached /\ t.guard = conn[c].guard /\ t.user = conn[c].user
    BY <1>a, Zenon
  <1>5. KeepInbound /\ cache' \in [Clients -> Somebody] /\ suspects' \subseteq Clients
    BY Zenon DEF ConnInv, ShapeInv, Only, KeepRecords
  <1> QED
    BY <1>2, <1>3, <1>4, <1>5, Replaced, Zenon DEF Early

\* A read, a write, a deadline or the token ends the handler.
LEMMA Failed ==
  ASSUME ConnInv, NEW c \in Conns, NEW stages, "closed" \notin stages, Fail(c, stages)
  PROVE  ConnInv'
  BY Closed, Records, Zenon DEF Fail, At, Only

\* The handler of c is dropped after the records of its address were updated.
LEMMA Dropped ==
  ASSUME ConnInv, NEW c \in Conns, conn[c].pc # "closed", Close(c), KeepInbound, UNCHANGED cache,
         UNCHANGED suspects \/ Forgive(c) \/ Suspect(c)
  PROVE  ConnInv'
  BY Closed, Records, Zenon

\* The handler of c is dropped and the rest of the inbound is as it was.
LEMMA Ended ==
  ASSUME ConnInv, NEW c \in Conns, conn[c].pc # "closed", Close(c), Only(c)
  PROVE  ConnInv'
  BY Closed, Records, Zenon DEF Only

\* A handler goes on before the credential is read, or after its admission.
LEMMA Moved ==
  ASSUME ConnInv, NEW c \in Conns, NEW pc, Only(c), Move(c, pc),
         \/ conn[c].pc \in Early \ {"streams"} /\ pc \in Early
         \/ conn[c].pc = "handshake" /\ pc = "scan"
         \/ conn[c].pc \in Admitted /\ pc \in Admitted /\ (pc = "relay" => conn[c].host \notin Blocked)
  PROVE  ConnInv'
  <1> DEFINE t == [conn[c] EXCEPT !.pc = pc]
  <1>1. conn[c] \in Task /\ Sound(conn[c]) /\ conn \in [Conns -> Task]
    BY Zenon DEF ConnInv, ShapeInv, TasksInv
  <1>2. pc \in Stage
    BY Zenon DEF Stage, Greeted
  <1>3. /\ t \in Task /\ t.pc = pc /\ t.since = conn[c].since /\ t.seen = conn[c].seen
        /\ t.wronged = conn[c].wronged /\ t.guard = conn[c].guard /\ t.user = conn[c].user
        /\ t.cred = conn[c].cred /\ t.ip = conn[c].ip /\ t.parent = conn[c].parent
        /\ t.detached = conn[c].detached /\ t.host = conn[c].host /\ t.known = conn[c].known
        /\ t.list = conn[c].list /\ t.skip = conn[c].skip
    BY <1>1, <1>2, Zenon DEF Task
  <1>4. Become(c, t)
    BY <1>1, Zenon DEF Move, Become
  <1> HIDE DEF t
  <1>5. t.since \subseteq Users
    BY <1>3, Zenon DEF Task
  <1>6. Sound(t)
    BY <1>1, <1>3, <1>5, ConnectionAssumption, ZenonT(30) DEF Early, Greeted, Admitted, Sound
  <1>7. KeepInbound /\ cache' \in [Clients -> Somebody] /\ suspects' \subseteq Clients
    BY Zenon DEF ConnInv, ShapeInv, Only, KeepRecords
  <1>8. conn[c].pc \notin {"closed", "streams"} /\ t.parent \in {None, conn[c].parent}
        /\ (t.pc = "closed" \/ t.detached = conn[c].detached)
        /\ (t.guard => conn[c].guard /\ t.user = conn[c].user)
    BY <1>3, Zenon DEF Early, Greeted, Admitted
  <1> QED
    BY <1>3, <1>4, <1>6, <1>7, <1>8, Replaced, Zenon

\* An admitted handler learns, or changes, its target.
LEMMA Targeted ==
  ASSUME ConnInv, NEW c \in Conns, NEW pc, NEW h \in Hosts \cup {None}, Only(c),
         Become(c, [conn[c] EXCEPT !.pc = pc, !.host = h]),
         conn[c].pc \in Admitted, pc \in Admitted \ {"relay"}
  PROVE  ConnInv'
  <1> DEFINE t == [conn[c] EXCEPT !.pc = pc, !.host = h]
  <1>1. conn[c] \in Task /\ Sound(conn[c])
    BY Zenon DEF ConnInv, ShapeInv, TasksInv
  <1>2. pc \in Stage
    BY Zenon DEF Stage
  <1>3. /\ t \in Task /\ t.pc = pc
        /\ t.wronged = conn[c].wronged /\ t.guard = conn[c].guard /\ t.user = conn[c].user
        /\ t.cred = conn[c].cred /\ t.ip = conn[c].ip /\ t.parent = conn[c].parent
        /\ t.detached = conn[c].detached /\ t.known = conn[c].known
    BY <1>1, <1>2, Zenon DEF Task
  <1>4. Become(c, t)
    BY Zenon
  <1> HIDE DEF t
  <1>6. Sound(t)
    BY <1>1, <1>3, Zenon DEF Early, Greeted, Admitted, Sound
  <1>7. KeepInbound /\ cache' \in [Clients -> Somebody] /\ suspects' \subseteq Clients
    BY Zenon DEF ConnInv, ShapeInv, Only, KeepRecords
  <1>8. conn[c].pc \notin {"closed", "streams"}
    BY Zenon DEF Admitted
  <1> QED
    BY <1>3, <1>4, <1>6, <1>7, <1>8, Replaced, Zenon

\* The lookup found u, with the target or without: u owns the credential and
\* was listed at some moment of the authentication.
LEMMA Found ==
  ASSUME ConnInv, NEW c \in Conns, NEW u \in Somebody, NEW r, conn[c].pc \in Greeted,
         \/ r = Recognised(c, u, u, "device")
         \/ \E h \in Hosts : r = [Recognised(c, u, u, "device") EXCEPT !.host = h],
         u # None => u \in conn[c].seen,
         proto = "ssnone" \/ u # None,
         Become(c, r), KeepInbound,
         UNCHANGED cache \/ cache' = [cache EXCEPT ![conn[c].ip] = u],
         UNCHANGED suspects \/ Forgive(c)
  PROVE  ConnInv'
  <1> DEFINE t == Recognised(c, u, u, "device")
  <1>1. conn[c] \in Task /\ Sound(conn[c])
    BY Zenon DEF ConnInv, ShapeInv, TasksInv
  <1>2. (u \in conn[c].seen) \in BOOLEAN /\ "device" \in Stage /\ None \in Somebody /\ {} \in SUBSET Users
    BY DEF Stage, Somebody
  <1>3. /\ t \in Task /\ t.pc = "device"
        /\ t.wronged = conn[c].wronged /\ t.guard = conn[c].guard /\ t.user = u
        /\ t.cred = u /\ t.ip = conn[c].ip /\ t.parent = conn[c].parent
        /\ t.detached = conn[c].detached /\ t.known = (u \in conn[c].seen)
    BY <1>1, <1>2, Zenon DEF Task, Recognised
  <1> HIDE DEF t
  <1>4. /\ r \in Task /\ r.pc = "device"
        /\ r.wronged = conn[c].wronged /\ r.guard = conn[c].guard /\ r.user = u
        /\ r.cred = u /\ r.ip = conn[c].ip /\ r.parent = conn[c].parent
        /\ r.detached = conn[c].detached /\ r.known = (u \in conn[c].seen)
    <2>1. CASE r = t
      BY <1>3, <2>1, Zenon
    <2>2. ASSUME NEW h \in Hosts, r = [t EXCEPT !.host = h]
          PROVE  <1>4!1 /\ <1>4!2 /\ <1>4!3 /\ <1>4!4
      BY <1>3, <2>2, Zenon DEF Task
    <2> QED
      BY <2>1, <2>2, Zenon DEF t
  <1>5. conn[c].pc \notin {"closed", "streams"} /\ ~conn[c].guard
    BY <1>1, Zenon DEF Greeted, Admitted, Sound
  <1>6. Sound(r)
    BY <1>1, <1>4, <1>5, Zenon DEF Early, Greeted, Admitted, Sound
  <1>7. cache' \in [Clients -> Somebody] /\ suspects' \subseteq Clients
    BY <1>5, Records, Zenon
  <1> QED
    BY <1>4, <1>5, <1>6, <1>7, Replaced, Zenon

\* The lookup found nobody for a credential whose owner was not listed all
\* along.
LEMMA TurnedAway ==
  ASSUME ConnInv, NEW c \in Conns, NEW k, conn[c].pc \in Greeted, k \notin conn[c].since,
         Become(c, Turned(c, k)), KeepInbound, UNCHANGED cache,
         UNCHANGED suspects \/ Suspect(c)
  PROVE  ConnInv'
  <1>a. (k \in conn[c].since) = FALSE
    OBVIOUS
  <1>b. Idle.wronged = FALSE /\ Idle \in Task
    BY IdleSound, Zenon DEF Idle
  <1>1. Turned(c, k) = Idle
    BY <1>a, <1>b, Zenon DEF Turned, Task
  <1>2. conn[c].pc \notin {"closed", "streams"}
    BY Zenon DEF Greeted
  <1>3. cache' \in [Clients -> Somebody] /\ suspects' \subseteq Clients
    BY <1>2, Records, Zenon
  <1>4. Idle.parent = None /\ Idle.pc = "closed" /\ ~Idle.guard
    BY Zenon DEF Idle
  <1> QED
    BY <1>1, <1>2, <1>3, <1>4, IdleSound, Replaced, Zenon

\* The cached user did not match: the others are tried next.
LEMMA Scanned ==
  ASSUME ConnInv, NEW c \in Conns, NEW k \in Users, NEW u \in Somebody,
         conn[c].pc = "handshake", k = u => k \notin conn[c].since,
         Become(c, [conn[c] EXCEPT !.pc = "scan", !.cred = k, !.skip = u]), Only(c)
  PROVE  ConnInv'
  <1> DEFINE t == [conn[c] EXCEPT !.pc = "scan", !.cred = k, !.skip = u]
  <1>1. conn[c] \in Task /\ Sound(conn[c])
    BY Zenon DEF ConnInv, ShapeInv, TasksInv
  <1>2. "scan" \in Stage /\ k \in Somebody
    BY Zenon DEF Stage, Greeted, Somebody
  <1>3. /\ t \in Task /\ t.pc = "scan" /\ t.since = conn[c].since /\ t.seen = conn[c].seen
        /\ t.wronged = conn[c].wronged /\ t.guard = conn[c].guard /\ t.user = conn[c].user
        /\ t.cred = k /\ t.ip = conn[c].ip /\ t.parent = conn[c].parent
        /\ t.detached = conn[c].detached /\ t.host = conn[c].host /\ t.known = conn[c].known
        /\ t.list = conn[c].list /\ t.skip = u
    BY <1>1, <1>2, Zenon DEF Task
  <1> HIDE DEF t
  <1>4. Sound(t)
    BY <1>1, <1>3, Zenon DEF Early, Greeted, Admitted, Sound
  <1>5. cache' \in [Clients -> Somebody] /\ suspects' \subseteq Clients /\ KeepInbound
    BY Records, Zenon DEF Only
  <1> QED
    BY <1>3, <1>4, <1>5, Replaced, Zenon DEF t

\* The device check passes and a guard is handed out, or the handler returns.
LEMMA Admits ==
  ASSUME ConnInv, NEW c \in Conns, NEW next \in Admitted \ {"relay"}, Admit(c, "device", next)
  PROVE  ConnInv'
  <1>0. conn[c].pc = "device" /\ Only(c) /\ conn[c] \in Task /\ Sound(conn[c])
    BY Zenon DEF Admit, At, ConnInv, ShapeInv, TasksInv
  <1>1. CASE Close(c)
    BY <1>0, <1>1, Ended, Zenon
  <1>2. CASE /\ Held(conn[c].user) < MaxConn
             /\ Become(c, [conn[c] EXCEPT !.pc = next, !.guard = TRUE])
    <2> DEFINE t == [conn[c] EXCEPT !.pc = next, !.guard = TRUE]
    <2>1. next \in Stage
      BY Zenon DEF Stage
    <2>2. /\ t \in Task /\ t.pc = next /\ t.guard
          /\ t.wronged = conn[c].wronged /\ t.user = conn[c].user
          /\ t.cred = conn[c].cred /\ t.ip = conn[c].ip /\ t.parent = conn[c].parent
          /\ t.detached = conn[c].detached /\ t.known = conn[c].known
      BY <1>0, <2>1, Zenon DEF Task
    <2> HIDE DEF t
    <2>3. Sound(t)
      BY <1>0, <2>2, Zenon DEF Early, Greeted, Admitted, Sound
    <2>4. conn \in [Conns -> Task] /\ conn' = [conn EXCEPT ![c] = t]
          /\ UNCHANGED <<proto, inbound, users, cache, suspects>>
      BY <1>0, <1>2, Zenon DEF ConnInv, ShapeInv, Become, Only, KeepInbound, KeepRecords, t
    <2>5. conn'[c] = t /\ \A d \in Conns : d # c => conn'[d] = conn[d]
      BY <2>4, Zenon
    <2>6. ShapeInv'
      BY <2>2, <2>4, Zenon DEF ConnInv, ShapeInv
    <2>7. TasksInv'
      BY <2>3, <2>4, <2>5 DEF ConnInv, TasksInv, Sound
    <2>8. ParentInv'
      <3> SUFFICES ASSUME NEW d \in Conns, conn'[d].parent # None
                   PROVE  conn'[conn'[d].parent].pc = "streams"
        BY Zenon DEF ParentInv
      <3>1. conn'[d].parent = conn[d].parent
        BY <2>2, <2>5, Zenon
      <3>2. conn[conn[d].parent].pc = "streams" /\ conn[d].parent \in Conns
        BY <2>4, <3>1, Zenon DEF ConnInv, ParentInv, Task
      <3> QED
        BY <1>0, <2>5, <3>1, <3>2, Zenon
    <2>9. QuietInv'
      BY <1>0, <2>2, <2>4, <2>5, Zenon DEF ConnInv, QuietInv
    <2>10. GuardsWithinLimit'
      <3> SUFFICES ASSUME NEW u \in Users PROVE Held(u)' <= MaxConn
        BY Zenon DEF GuardsWithinLimit
      <3> DEFINE Old == {d \in Conns : conn[d].guard /\ conn[d].user = u}
                 New == {d \in Conns : conn'[d].guard /\ conn'[d].user = u}
      <3>1. IsFiniteSet(Old) /\ Cardinality(Old) \in Nat
        BY ConnectionAssumption, FS_Subset, FS_CardinalityType, Zenon
      <3>2. Cardinality(Old) <= MaxConn /\ (conn[c].user = u => Cardinality(Old) < MaxConn)
        BY <1>2, Zenon DEF ConnInv, GuardsWithinLimit, Held
      <3>3. CASE conn[c].user = u
        <4>1. New = Old \cup {c}
          BY <2>2, <2>5, <3>3, ZenonT(30)
        <4>2. c \notin Old
          BY <1>0, Zenon DEF Sound, Admitted
        <4> HIDE DEF Old, New
        <4>3. Cardinality(New) = Cardinality(Old) + 1
          BY <3>1, <4>1, <4>2, FS_AddElement, Zenon
        <4>4. Cardinality(New) <= MaxConn
          BY <3>1, <3>2, <3>3, <4>3, ConnectionAssumption
        <4> QED
          BY <4>4, Zenon DEF Held, New
      <3>4. CASE conn[c].user # u
        <4>1. New = Old
          BY <2>2, <2>5, <3>4, Zenon
        <4> QED
          BY <3>2, <4>1, Zenon DEF Held
      <3> QED
        BY <3>3, <3>4, Zenon
    <2> QED
      BY <2>6, <2>7, <2>8, <2>9, <2>10, Zenon DEF ConnInv
  <1> QED
    BY <1>1, <1>2, Zenon DEF Admit

\* should_block looks at the sniffed or the requested name.
LEMMA Audited ==
  ASSUME ConnInv, NEW c \in Conns, conn[c].pc \in Admitted, Only(c),
         NEW host \in Hosts \cup {None}, NEW match \in Hosts \cup {None}, Audit(c, host, match, "dial")
  PROVE  ConnInv'
  <1>1. conn[c].pc # "closed" /\ "dial" \in Admitted \ {"relay"}
    BY Zenon DEF Admitted
  <1>2. CASE Close(c)
    BY <1>1, <1>2, Ended, Zenon
  <1>3. ASSUME NEW d \in {host, match}, Become(c, [conn[c] EXCEPT !.pc = "dial", !.host = d])
        PROVE  ConnInv'
    <2>1. d \in Hosts \cup {None}
      BY Zenon
    <2> QED
      BY <1>1, <1>3, <2>1, Targeted, Zenon
  <1> QED
    BY <1>2, <1>3, Zenon DEF Audit

\* The audit of the name of an admitted handler, sniffed or requested.
LEMMA OwnAudit ==
  ASSUME ConnInv, NEW c \in Conns, conn[c].pc \in Admitted, Only(c),
         \/ Audit(c, conn[c].host, conn[c].host, "dial")
         \/ \E m \in Hosts : Audit(c, conn[c].host, m, "dial")
  PROVE  ConnInv'
  <1>1. conn[c].host \in Hosts \cup {None}
    BY Zenon DEF ConnInv, ShapeInv, Task
  <1>2. CASE Audit(c, conn[c].host, conn[c].host, "dial")
    BY <1>1, <1>2, Audited, Zenon
  <1>3. ASSUME NEW m \in Hosts, Audit(c, conn[c].host, m, "dial") PROVE ConnInv'
    BY <1>1, <1>3, Audited, Zenon
  <1> QED
    BY <1>2, <1>3, Zenon

\* Sniffing, and the dialer's audit of the name it connects to.
LEMMA Forwarded ==
  ASSUME ConnInv, NEW c \in Conns, Sniff(c, "dial") \/ Dial(c, "relay")
  PROVE  ConnInv'
  <1>1. CASE Sniff(c, "dial")
    BY <1>1, OwnAudit, Zenon DEF Sniff, At, Admitted
  <1>2. CASE Dial(c, "relay")
    <2>1. conn[c].pc \in Admitted /\ conn[c].pc # "closed" /\ "relay" \in Admitted /\ Only(c)
      BY <1>2, Zenon DEF Dial, At, Admitted
    <2> QED
      BY <1>2, <2>1, Ended, Moved, Zenon DEF Dial
  <1> QED
    BY <1>1, <1>2, Zenon

-----------------------------------------------------------------------------
(* The steps of the inbound itself.                                        *)

\* update_users: those listed all along are fewer, those seen are more.
LEMMA UpdateKeeps ==
  ASSUME ConnInv, UserUpdate
  PROVE  ConnInv'
  <1>0. /\ conn \in [Conns -> Task] /\ users' \in Lists /\ users' \subseteq Users
        /\ UNCHANGED <<proto, inbound, cache, suspects>>
    BY ConnectionAssumption, Zenon DEF ConnInv, ShapeInv, UserUpdate
  <1> DEFINE U(c) == [conn[c] EXCEPT !.since = @ \cap users', !.seen = @ \cup users']
  <1>1. \A c \in Conns : conn'[c] = IF conn[c].pc \in Greeted THEN U(c) ELSE conn[c]
    BY Zenon DEF UserUpdate, At, Greeted
  <1>2. ASSUME NEW c \in Conns
        PROVE  /\ conn'[c] \in Task /\ conn'[c].pc = conn[c].pc
               /\ conn'[c].wronged = conn[c].wronged /\ conn'[c].guard = conn[c].guard
               /\ conn'[c].user = conn[c].user /\ conn'[c].cred = conn[c].cred /\ conn'[c].ip = conn[c].ip
               /\ conn'[c].parent = conn[c].parent /\ conn'[c].detached = conn[c].detached
               /\ conn'[c].known = conn[c].known /\ conn'[c].host = conn[c].host
               /\ conn'[c].list = conn[c].list /\ conn'[c].skip = conn[c].skip
               /\ conn[c].pc \in Greeted =>
                    /\ conn'[c].since = conn[c].since \cap users'
                    /\ conn'[c].seen = conn[c].seen \cup users'
    <2>0. conn[c] \in Task /\ (conn[c].since \cap users') \in SUBSET Users
          /\ (conn[c].seen \cup users') \in SUBSET Users
      BY <1>0, Zenon DEF Task
    <2>1. CASE conn[c].pc \in Greeted
      <3>1. conn'[c] = U(c)
        BY <1>1, <2>1, Zenon
      <3> QED
        BY <2>0, <3>1, ZenonT(30) DEF Task
    <2>2. CASE conn[c].pc \notin Greeted
      BY <1>1, <2>0, <2>2, Zenon
    <2> QED
      BY <2>1, <2>2, Zenon
  <1>3. ShapeInv'
    <2>1. conn' \in [Conns -> Task]
      <3>1. conn' = [c \in Conns |-> conn'[c]]
        BY Zenon DEF UserUpdate
      <3> QED
        BY <1>2, <3>1, Zenon
    <2> QED
      BY <1>0, <2>1, Zenon DEF ConnInv, ShapeInv
  <1>4. TasksInv'
    <2> SUFFICES ASSUME NEW c \in Conns PROVE Sound(conn[c])'
      BY Zenon DEF TasksInv
    <2>1. Sound(conn[c])
      BY Zenon DEF ConnInv, TasksInv
    <2>2. proto' = proto
      BY <1>0, Zenon
    <2> HIDE DEF U
    <2>3. CASE conn[c].pc \in Greeted
      BY <1>2, <2>1, <2>2, <2>3, Zenon DEF Sound, Early, Greeted, Admitted
    <2>4. CASE conn[c].pc \notin Greeted
      BY <1>1, <1>2, <2>1, <2>2, <2>4, Zenon DEF Sound, Greeted
    <2> QED
      BY <2>3, <2>4, Zenon
  <1>5. ParentInv'
    <2> SUFFICES ASSUME NEW c \in Conns, conn'[c].parent # None
                 PROVE  conn'[conn'[c].parent].pc = "streams"
      BY Zenon DEF ParentInv
    <2>1. conn[conn[c].parent].pc = "streams" /\ conn[c].parent \in Conns /\ conn'[c].parent = conn[c].parent
      BY <1>0, <1>2, Zenon DEF ConnInv, ParentInv, Task
    <2> QED
      BY <1>2, <2>1, Zenon
  <1>6. QuietInv'
    BY <1>0, <1>2, Zenon DEF ConnInv, QuietInv
  <1>7. GuardsWithinLimit'
    BY <1>2, NoNewGuard, Zenon
  <1> QED
    BY <1>3, <1>4, <1>5, <1>6, <1>7, Zenon DEF ConnInv

\* The listener is dropped, and when every task was joined start returns.
LEMMA StopKeeps ==
  ASSUME ConnInv, Stop \/ Drained
  PROVE  ConnInv'
  <1>1. UNCHANGED <<proto, users, conn, cache, suspects>> /\ inbound' \in {"draining", "stopped"}
    BY Zenon DEF Stop, Drained, KeepRecords
  <1>2. ShapeInv' /\ TasksInv' /\ ParentInv'
    BY <1>1 DEF ConnInv, ShapeInv, TasksInv, ParentInv, Sound
  <1>3. QuietInv'
    BY Zenon DEF Stop, Drained, QuietInv, At
  <1>4. GuardsWithinLimit'
    BY <1>1, NoNewGuard, Zenon
  <1> QED
    BY <1>2, <1>3, <1>4, Zenon DEF ConnInv

\* abort_all drops every task of the JoinSet, streams included.
LEMMA AbortKeeps ==
  ASSUME ConnInv, AbortDrain
  PROVE  ConnInv'
  <1>0. /\ conn \in [Conns -> Task] /\ inbound' = "stopped"
        /\ UNCHANGED <<proto, users, cache, suspects>>
    BY Zenon DEF ConnInv, ShapeInv, AbortDrain, DrainTimeout, KeepRecords
  <1>1. \A c \in Conns : conn'[c] = IF conn[c].detached THEN conn[c] ELSE Idle
    BY Zenon DEF AbortDrain, DrainTimeout
  <1>2. ShapeInv'
    BY <1>0, IdleSound, Zenon DEF ConnInv, ShapeInv, AbortDrain, DrainTimeout
  <1>3. TasksInv'
    BY <1>0, <1>1, IdleSound, SMTT(30) DEF ConnInv, TasksInv, Sound
  <1>4. ParentInv'
    BY <1>1 DEF ConnInv, TasksInv, Sound, ParentInv, Idle
  <1>5. QuietInv'
    BY <1>1 DEF QuietInv, Idle
  <1>6. GuardsWithinLimit'
    BY <1>1, NoNewGuard DEF Idle
  <1> QED
    BY <1>2, <1>3, <1>4, <1>5, <1>6, Zenon DEF ConnInv

-----------------------------------------------------------------------------
(* One lemma per protocol: each handler is put together from those pieces. *)

\* What a lookup may rely on while the credential is read.
LEMMA Lookup ==
  ASSUME ConnInv, NEW c \in Conns, conn[c].pc \in Greeted
  PROVE  /\ conn[c].since \subseteq users /\ users \subseteq conn[c].seen /\ conn[c].cred \in Somebody
         /\ proto \in Families \cup {"ssr"} =>
              conn[c].since \subseteq conn[c].list /\ conn[c].list \subseteq conn[c].seen
         /\ conn[c].pc = "scan" /\ conn[c].cred = conn[c].skip => conn[c].cred \notin conn[c].since
         /\ conn[c].list \subseteq Users /\ None \notin conn[c].since /\ users \subseteq Users
         /\ Users \subseteq Somebody /\ None \notin Users /\ conn[c].pc # "closed"
  <1>1. conn[c] \in Task /\ Sound(conn[c]) /\ users \subseteq Users
    BY ConnectionAssumption, Zenon DEF ConnInv, ShapeInv, TasksInv
  <1>2. conn[c].cred \in Somebody /\ conn[c].list \subseteq Users /\ conn[c].since \subseteq Users
    BY <1>1, Zenon DEF Task
  <1> QED
    BY <1>1, <1>2, ConnectionAssumption, Zenon DEF Sound, Greeted, Somebody

\* Trojan: PROXY header, security, transport, the hash of the password, then
\* a TCP or a UDP relay.
LEMMA TrojanKeeps ==
  ASSUME ConnInv, proto = "trojan", NEW c \in Conns, TrojanStep(c)
  PROVE  ConnInv'
  <1>0. proto \notin Families \cup {"ssr"}
    BY Zenon DEF Families
  <1>1. CASE TrojanAccept(c)
    BY <1>1, Accepted, Zenon DEF TrojanAccept, Early
  <1>2. CASE TrojanProxy(c)
    BY <1>2, Moved, Zenon DEF TrojanProxy, At, Early
  <1>3. CASE TrojanSecure(c)
    BY <1>3, Moved, Ended, Zenon DEF TrojanSecure, At, Early
  <1>4. CASE TrojanTransport(c)
    BY <1>0, <1>4, Moved, Greets, Zenon DEF TrojanTransport, At, Early
  <1>5. ASSUME NEW d \in Conns, TrojanStream(c, d) PROVE ConnInv'
    BY <1>0, <1>5, Streamed, Zenon DEF TrojanStream
  <1>6. CASE TrojanAuth(c)
    <2>0. PICK k \in Users : IF k \in users
                             THEN Become(c, Recognised(c, k, k, "device")) /\ Forgive(c)
                             ELSE Become(c, Turned(c, k)) /\ Suspect(c)
      BY <1>6, Zenon DEF TrojanAuth
    <2>1. conn[c].pc \in Greeted /\ KeepInbound /\ UNCHANGED cache
      BY <1>6, Zenon DEF TrojanAuth, At, Greeted
    <2>2. CASE k \in users
      BY <2>0, <2>1, <2>2, Lookup, Found, Zenon
    <2>3. CASE k \notin users
      BY <2>0, <2>1, <2>3, Lookup, TurnedAway, Zenon
    <2> QED
      BY <2>2, <2>3, Zenon
  <1>7. CASE TrojanAdmit(c)
    BY <1>7, Admits, Zenon DEF TrojanAdmit, Admitted
  <1>8. CASE TrojanRequest(c)
    BY <1>8, Targeted, Zenon DEF TrojanRequest, At, Admitted
  <1>9. CASE TrojanAssociate(c)
    BY <1>9, Moved, Ended, Zenon DEF TrojanAssociate, At, Admitted
  <1>10. CASE TrojanForward(c)
    BY <1>10, Forwarded, Zenon DEF TrojanForward
  <1>11. CASE TrojanExpire(c) \/ Fail(c, {"proxy", "transport", "streams", "relay", "udp"})
    BY <1>11, Failed, Zenon DEF TrojanExpire
  <1> QED
    BY <1>1, <1>2, <1>3, <1>4, <1>5, <1>6, <1>7, <1>8, <1>9, <1>10, <1>11, Zenon DEF TrojanStep

\* AnyTLS: TLS, the hash of the password, the padding, then the session.
LEMMA AnytlsKeeps ==
  ASSUME ConnInv, proto = "anytls", NEW c \in Conns, AnytlsStep(c)
  PROVE  ConnInv'
  <1>0. proto \notin Families \cup {"ssr"}
    BY Zenon DEF Families
  <1>1. CASE AnytlsAccept(c)
    BY <1>1, Accepted, Zenon DEF AnytlsAccept, Early
  <1>2. CASE AnytlsProxy(c)
    BY <1>2, Moved, Zenon DEF AnytlsProxy, At, Early
  <1>3. CASE AnytlsSecure(c)
    BY <1>0, <1>3, Greets, Zenon DEF AnytlsSecure, At, Early
  <1>4. CASE AnytlsAuth(c)
    <2>0. PICK k \in Users : IF k \in users
                             THEN Become(c, Recognised(c, k, k, "device")) /\ Forgive(c)
                             ELSE Become(c, Turned(c, k)) /\ Suspect(c)
      BY <1>4, Zenon DEF AnytlsAuth
    <2>1. conn[c].pc \in Greeted /\ KeepInbound /\ UNCHANGED cache
      BY <1>4, Zenon DEF AnytlsAuth, At, Greeted
    <2>2. CASE k \in users
      BY <2>0, <2>1, <2>2, Lookup, Found, Zenon
    <2>3. CASE k \notin users
      BY <2>0, <2>1, <2>3, Lookup, TurnedAway, Zenon
    <2> QED
      BY <2>2, <2>3, Zenon
  <1>5. CASE AnytlsAdmit(c)
    BY <1>5, Admits, Zenon DEF AnytlsAdmit, Admitted
  <1>6. CASE AnytlsPadding(c)
    BY <1>6, Moved, Zenon DEF AnytlsPadding, At, Admitted
  <1>7. CASE AnytlsExpire(c) \/ AnytlsCancel(c) \/ Fail(c, {"session"})
    BY <1>7, Failed, Zenon DEF AnytlsExpire, AnytlsCancel
  <1> QED
    BY <1>1, <1>2, <1>3, <1>4, <1>5, <1>6, <1>7, Zenon DEF AnytlsStep

\* VMess: the cached user of the address first, then the others against the
\* list as it is after the semaphore was awaited.
LEMMA VmessKeeps ==
  ASSUME ConnInv, proto = "vmess", NEW c \in Conns, VmessStep(c)
  PROVE  ConnInv'
  <1>0. proto \notin Families \cup {"ssr"}
    BY Zenon DEF Families
  <1>1. CASE VmessAccept(c)
    BY <1>1, Accepted, Zenon DEF VmessAccept, Early
  <1>2. CASE VmessProxy(c) \/ VmessSecure(c)
    BY <1>2, Moved, Zenon DEF VmessProxy, VmessSecure, At, Early
  <1>3. CASE VmessTransport(c)
    BY <1>0, <1>3, Moved, Greets, Zenon DEF VmessTransport, At, Early
  <1>4. ASSUME NEW d \in Conns, VmessStream(c, d) PROVE ConnInv'
    BY <1>0, <1>4, Streamed, Zenon DEF VmessStream
  <1>5. CASE VmessForceMd5(c)
    BY <1>5, Dropped, Zenon DEF VmessForceMd5, At
  <1>6. CASE VmessFastPath(c)
    <2> DEFINE u == cache[conn[c].ip]
    <2>0. conn[c].pc = "handshake" /\ conn[c].pc \in Greeted /\ KeepInbound
      BY <1>6, Zenon DEF VmessFastPath, At, Greeted
    <2>1. u \in Somebody
      BY <2>0, Records, Zenon
    <2>2. PICK k \in Users :
            IF u \in users /\ u = k
            THEN VmessFound(c, u, k)
            ELSE /\ Become(c, [conn[c] EXCEPT !.pc = "scan", !.cred = k, !.skip = u])
                 /\ KeepRecords
      BY <1>6, Zenon DEF VmessFastPath
    <2> HIDE DEF u
    <2>3. CASE u \in users /\ u = k
      BY <2>0, <2>1, <2>2, <2>3, Lookup, Found, ZenonT(30) DEF VmessFound
    <2>4. CASE ~(u \in users /\ u = k)
      BY <2>0, <2>1, <2>2, <2>4, Lookup, Scanned, ZenonT(30) DEF Only
    <2> QED
      BY <2>3, <2>4, Zenon
  <1>7. CASE VmessScan(c)
    <2> DEFINE k == conn[c].cred
    <2>0. conn[c].pc = "scan" /\ conn[c].pc \in Greeted /\ KeepInbound
      BY <1>7, Zenon DEF VmessScan, At, Greeted
    <2>2. IF k \in users /\ k # conn[c].skip
          THEN VmessFound(c, k, k)
          ELSE Become(c, Turned(c, k)) /\ Suspect(c) /\ UNCHANGED cache
      BY <1>7, Zenon DEF VmessScan
    <2>3. CASE k \in users /\ k # conn[c].skip
      BY <2>0, <2>2, <2>3, Lookup, Found, Zenon DEF VmessFound
    <2>4. CASE ~(k \in users /\ k # conn[c].skip)
      BY <2>0, <2>2, <2>4, Lookup, TurnedAway, Zenon
    <2> QED
      BY <2>3, <2>4, Zenon
  <1>8. CASE VmessAdmit(c)
    BY <1>8, Admits, Zenon DEF VmessAdmit, Admitted
  <1>9. CASE VmessRequest(c)
    BY <1>9, Targeted, Ended, Zenon DEF VmessRequest, At, Admitted
  <1>10. CASE VmessDial(c)
    BY <1>10, Forwarded, Zenon DEF VmessDial
  <1>11. CASE VmessExpire(c) \/ Fail(c, {"proxy", "transport", "streams", "relay"})
    BY <1>11, Failed, Zenon DEF VmessExpire
  <1> QED
    BY <1>1, <1>2, <1>3, <1>4, <1>5, <1>6, <1>7, <1>8, <1>9, <1>10, <1>11, Zenon DEF VmessStep

\* VLESS: the header names user and target, then one of four relays.
LEMMA VlessKeeps ==
  ASSUME ConnInv, proto = "vless", NEW c \in Conns, VlessStep(c)
  PROVE  ConnInv'
  <1>0. proto \notin Families \cup {"ssr"}
    BY Zenon DEF Families
  <1>1. CASE VlessAccept(c)
    BY <1>1, Accepted, Zenon DEF VlessAccept, Early
  <1>2. CASE VlessProxy(c) \/ VlessSecure(c)
    BY <1>2, Moved, Ended, Zenon DEF VlessProxy, VlessSecure, At, Early
  <1>3. CASE VlessTransport(c)
    BY <1>0, <1>3, Moved, Greets, Zenon DEF VlessTransport, At, Early
  <1>4. ASSUME NEW d \in Conns, VlessStream(c, d) PROVE ConnInv'
    BY <1>0, <1>4, Streamed, Zenon DEF VlessStream
  <1>5. CASE VlessAuth(c)
    <2>0. PICK k \in Users, h \in Hosts :
            IF k \in users
            THEN Become(c, [Recognised(c, k, k, "device") EXCEPT !.host = h]) /\ Forgive(c)
            ELSE Become(c, Turned(c, k)) /\ Suspect(c)
      BY <1>5, Zenon DEF VlessAuth
    <2>1. conn[c].pc \in Greeted /\ KeepInbound /\ UNCHANGED cache
      BY <1>5, Zenon DEF VlessAuth, At, Greeted
    <2>2. CASE k \in users
      BY <2>0, <2>1, <2>2, Lookup, Found, Zenon
    <2>3. CASE k \notin users
      BY <2>0, <2>1, <2>3, Lookup, TurnedAway, Zenon
    <2> QED
      BY <2>2, <2>3, Zenon
  <1>6. CASE VlessAdmit(c)
    BY <1>6, Admits, Zenon DEF VlessAdmit, Admitted
  <1>7. CASE VlessRequest(c)
    BY <1>7, Moved, Ended, Zenon DEF VlessRequest, At, Admitted
  <1>8. CASE VlessVision(c) \/ VlessBind(c)
    BY <1>8, OwnAudit, Zenon DEF VlessVision, VlessBind, At, Admitted
  <1>9. CASE VlessStandard(c)
    BY <1>9, Forwarded, Zenon DEF VlessStandard
  <1>10. CASE VlessExpire(c)
              \/ Fail(c, {"proxy", "secure", "transport", "streams", "vision", "relay", "mux"})
    BY <1>10, Failed, Zenon DEF VlessExpire
  <1> QED
    BY <1>1, <1>2, <1>3, <1>4, <1>5, <1>6, <1>7, <1>8, <1>9, <1>10, Zenon DEF VlessStep

\* Shadowsocks finds the target together with the user.
LEMMA SsFinds ==
  ASSUME ConnInv, NEW c \in Conns, conn[c].pc \in Greeted, KeepInbound,
         NEW u \in Somebody, NEW h \in Hosts, SsFound(c, u, u, h),
         u # None => u \in conn[c].seen, proto = "ssnone" \/ u # None
  PROVE  ConnInv'
  <1> DEFINE r == [Recognised(c, u, u, "device") EXCEPT !.host = h]
  <1>1. Become(c, r) /\ Forgive(c) /\ cache' = [cache EXCEPT ![conn[c].ip] = u]
    BY Zenon DEF SsFound
  <1>2. \E g \in Hosts : r = [Recognised(c, u, u, "device") EXCEPT !.host = g]
    BY Zenon
  <1> HIDE DEF r
  <1> QED
    BY <1>1, <1>2, Found, Zenon

\* Shadowsocks: the lookups read the snapshot taken with the stream.
LEMMA SsKeeps ==
  ASSUME ConnInv, proto \in Families, NEW c \in Conns, SsStep(c)
  PROVE  ConnInv'
  <1>1. CASE SsAccept(c)
    BY <1>1, Accepted, Zenon DEF SsAccept, Early
  <1>2. CASE SsTransport(c) \/ SsProbe(c)
    BY <1>2, Moved, Greets, Zenon DEF SsTransport, SsProbe, At, Early
  <1>3. ASSUME NEW d \in Conns, SsStream(c, d) PROVE ConnInv'
    BY <1>3, Streamed, Zenon DEF SsStream
  <1>4. CASE SsRefuse(c)
    BY <1>4, Dropped, Zenon DEF SsRefuse, At
  <1>5. CASE SsNone(c)
    <2>0. conn[c].pc \in Greeted /\ KeepInbound /\ proto = "ssnone"
      BY <1>5, Zenon DEF SsNone, At, Greeted
    <2>1. PICK h \in Hosts : IF Cardinality(conn[c].list) # 1
                             THEN SsFound(c, None, None, h)
                             ELSE \E u \in conn[c].list : SsFound(c, u, u, h)
      BY <1>5, Zenon DEF SsNone
    <2>2. CASE SsFound(c, None, None, h)
      BY <2>0, <2>2, SsFinds, Zenon DEF Somebody
    <2>3. ASSUME NEW u \in conn[c].list, SsFound(c, u, u, h) PROVE ConnInv'
      <3>1. u \in Somebody /\ u \in conn[c].seen
        BY <2>0, Lookup, Zenon
      <3> QED
        BY <2>0, <2>3, <3>1, SsFinds, Zenon
    <2> QED
      BY <2>1, <2>2, <2>3, Zenon
  <1>6. CASE Ss2022(c)
    <2>0. conn[c].pc \in Greeted /\ KeepInbound
      BY <1>6, Zenon DEF Ss2022, At, Greeted
    <2>1. PICK k \in Users, h \in Hosts :
            IF k \in conn[c].list
            THEN SsFound(c, k, k, h)
            ELSE Become(c, Turned(c, k)) /\ Suspect(c) /\ UNCHANGED cache
      BY <1>6, Zenon DEF Ss2022
    <2>2. CASE k \in conn[c].list
      BY <2>0, <2>1, <2>2, Lookup, SsFinds, Zenon
    <2>3. CASE k \notin conn[c].list
      BY <2>0, <2>1, <2>3, Lookup, TurnedAway, Zenon
    <2> QED
      BY <2>2, <2>3, Zenon
  <1>7. CASE SsFastPath(c)
    <2> DEFINE u == cache[conn[c].ip]
    <2>0. conn[c].pc = "handshake" /\ conn[c].pc \in Greeted /\ KeepInbound
      BY <1>7, Zenon DEF SsFastPath, At, Greeted
    <2>1. u \in Somebody
      BY <2>0, Records, Zenon
    <2>2. PICK k \in Users :
            IF u \in conn[c].list /\ u = k
            THEN \E h \in Hosts : SsFound(c, u, k, h)
            ELSE /\ Become(c, [conn[c] EXCEPT !.pc = "scan", !.cred = k, !.skip = u])
                 /\ KeepRecords
      BY <1>7, Zenon DEF SsFastPath
    <2> HIDE DEF u
    <2>3. CASE u \in conn[c].list /\ u = k
      BY <2>0, <2>1, <2>2, <2>3, Lookup, SsFinds, Zenon
    <2>4. CASE ~(u \in conn[c].list /\ u = k)
      BY <2>0, <2>1, <2>2, <2>4, Lookup, Scanned, ZenonT(30) DEF Only
    <2> QED
      BY <2>3, <2>4, Zenon
  <1>8. CASE SsScan(c)
    <2> DEFINE k == conn[c].cred
    <2>0. conn[c].pc = "scan" /\ conn[c].pc \in Greeted /\ KeepInbound
      BY <1>8, Zenon DEF SsScan, At, Greeted
    <2>2. IF k \in conn[c].list /\ k # conn[c].skip
          THEN \E h \in Hosts : SsFound(c, k, k, h)
          ELSE Become(c, Turned(c, k)) /\ Suspect(c) /\ UNCHANGED cache
      BY <1>8, Zenon DEF SsScan
    <2>3. CASE k \in conn[c].list /\ k # conn[c].skip
      BY <2>0, <2>2, <2>3, Lookup, SsFinds, Zenon
    <2>4. CASE ~(k \in conn[c].list /\ k # conn[c].skip)
      BY <2>0, <2>2, <2>4, Lookup, TurnedAway, Zenon
    <2> QED
      BY <2>3, <2>4, Zenon
  <1>9. CASE SsAdmit(c)
    BY <1>9, Admits, Zenon DEF SsAdmit, Admitted
  <1>10. CASE SsDetect(c)
    BY <1>10, Ended, Zenon DEF SsDetect, At
  <1>11. CASE SsForward(c)
    BY <1>11, Forwarded, Zenon DEF SsForward
  <1>12. CASE SsExpire(c) \/ SsCancel(c) \/ Fail(c, {"accept", "fallback", "streams", "relay"})
    BY <1>12, Failed, Zenon DEF SsExpire, SsCancel
  <1> QED
    BY <1>1, <1>2, <1>3, <1>4, <1>5, <1>6, <1>7, <1>8, <1>9, <1>10, <1>11, <1>12, ZenonT(30) DEF SsStep

\* ShadowsocksR: authenticate reads the snapshot taken after the PROXY header.
LEMMA SsrKeeps ==
  ASSUME ConnInv, proto = "ssr", NEW c \in Conns, SsrStep(c)
  PROVE  ConnInv'
  <1>1. CASE SsrAccept(c)
    BY <1>1, Accepted, Zenon DEF SsrAccept, Early
  <1>2. CASE SsrProxy(c)
    BY <1>2, Greets, Zenon DEF SsrProxy, At, Early
  <1>3. CASE SsrAuth(c)
    <2>0. PICK k \in Users : IF k \in conn[c].list
                             THEN Become(c, Recognised(c, k, k, "device")) /\ Forgive(c)
                             ELSE Become(c, Turned(c, k)) /\ Suspect(c)
      BY <1>3, Zenon DEF SsrAuth
    <2>1. conn[c].pc \in Greeted /\ KeepInbound /\ UNCHANGED cache
      BY <1>3, Zenon DEF SsrAuth, At, Greeted
    <2>2. CASE k \in conn[c].list
      BY <2>0, <2>1, <2>2, Lookup, Found, Zenon
    <2>3. CASE k \notin conn[c].list
      BY <2>0, <2>1, <2>3, Lookup, TurnedAway, Zenon
    <2> QED
      BY <2>2, <2>3, Zenon
  <1>4. CASE SsrAdmit(c)
    BY <1>4, Admits, Zenon DEF SsrAdmit, Admitted
  <1>5. CASE SsrRequest(c)
    BY <1>5, Targeted, Ended, Zenon DEF SsrRequest, At, Admitted
  <1>6. CASE SsrForward(c)
    BY <1>6, Forwarded, Zenon DEF SsrForward
  <1>7. CASE SsrExpire(c) \/ Fail(c, {"relay"})
    BY <1>7, Failed, Dropped, Zenon DEF SsrExpire, SsrRefuse, At
  <1> QED
    BY <1>1, <1>2, <1>3, <1>4, <1>5, <1>6, <1>7, Zenon DEF SsrStep

\* HTTP: the header names user and target, both names are audited.
LEMMA HttpKeeps ==
  ASSUME ConnInv, proto = "http", NEW c \in Conns, HttpStep(c)
  PROVE  ConnInv'
  <1>0. proto \notin Families \cup {"ssr"}
    BY Zenon DEF Families
  <1>1. CASE HttpAccept(c)
    BY <1>1, Accepted, Zenon DEF HttpAccept, Early
  <1>2. CASE HttpSecure(c)
    BY <1>0, <1>2, Greets, Zenon DEF HttpSecure, At, Early
  <1>3. CASE HttpAuth(c)
    <2>1. conn[c].pc \in Greeted /\ KeepInbound /\ UNCHANGED <<cache, suspects>> /\ Only(c)
      BY <1>3, Zenon DEF HttpAuth, At, Greeted, Only, KeepRecords
    <2>2. CASE Close(c)
      BY <2>1, <2>2, Lookup, Ended, Zenon
    <2>3. ASSUME NEW k \in Users, NEW h \in Hosts,
                 IF HttpVerify(k)
                 THEN Become(c, [Recognised(c, k, k, "device") EXCEPT !.host = h])
                 ELSE Become(c, Turned(c, k))
          PROVE  ConnInv'
      <3>1. CASE k \in users
        BY <2>1, <2>3, <3>1, Lookup, Found, Zenon DEF HttpVerify
      <3>2. CASE k \notin users
        BY <2>1, <2>3, <3>2, Lookup, TurnedAway, Zenon DEF HttpVerify
      <3> QED
        BY <3>1, <3>2, Zenon
    <2> QED
      BY <1>3, <2>2, <2>3, Zenon DEF HttpAuth
  <1>4. CASE HttpAdmit(c)
    BY <1>4, Admits, Zenon DEF HttpAdmit, Admitted
  <1>5. CASE HttpRelay(c)
    BY <1>5, Ended, OwnAudit, Zenon DEF HttpRelay, At, Admitted
  <1>6. CASE Dial(c, "relay")
    BY <1>6, Forwarded, Zenon
  <1>7. CASE HttpExpire(c) \/ Fail(c, {"relay"})
    BY <1>7, Failed, Zenon DEF HttpExpire
  <1> QED
    BY <1>1, <1>2, <1>3, <1>4, <1>5, <1>6, <1>7, Zenon DEF HttpStep

\* SOCKS5: the password is looked up one await after the methods.
LEMMA SocksKeeps ==
  ASSUME ConnInv, proto = "socks", NEW c \in Conns, SocksStep(c)
  PROVE  ConnInv'
  <1>0. proto \notin Families \cup {"ssr"}
    BY Zenon DEF Families
  <1>1. CASE SocksAccept(c)
    BY <1>1, Accepted, Zenon DEF SocksAccept, Early
  <1>2. CASE SocksProxy(c)
    BY <1>0, <1>2, Greets, Zenon DEF SocksProxy, At, Early
  <1>3. CASE SocksMethods(c)
    BY <1>3, Ended, Moved, Zenon DEF SocksMethods, At
  <1>4. CASE SocksAuth(c)
    <2>0. PICK k \in Users : IF k \in users
                             THEN Become(c, Recognised(c, k, k, "device")) /\ Forgive(c)
                             ELSE Become(c, Turned(c, k)) /\ UNCHANGED suspects
      BY <1>4, Zenon DEF SocksAuth
    <2>1. conn[c].pc \in Greeted /\ KeepInbound /\ UNCHANGED cache
      BY <1>4, Zenon DEF SocksAuth, At, Greeted
    <2>2. CASE k \in users
      BY <2>0, <2>1, <2>2, Lookup, Found, Zenon
    <2>3. CASE k \notin users
      BY <2>0, <2>1, <2>3, Lookup, TurnedAway, Zenon
    <2> QED
      BY <2>2, <2>3, Zenon
  <1>5. CASE SocksAdmit(c)
    BY <1>5, Admits, Zenon DEF SocksAdmit, Admitted
  <1>6. CASE SocksRequest(c)
    BY <1>6, Ended, Moved, Audited, Zenon DEF SocksRequest, SocksConnect, At, Admitted
  <1>7. CASE Dial(c, "relay")
    BY <1>7, Forwarded, Zenon
  <1>8. CASE SocksExpire(c) \/ Fail(c, {"udp", "relay"})
    BY <1>8, Failed, Zenon DEF SocksExpire
  <1> QED
    BY <1>1, <1>2, <1>3, <1>4, <1>5, <1>6, <1>7, <1>8, Zenon DEF SocksStep

\* Naive: one request of an HTTP/1 connection, or a detached HTTP/2 stream.
LEMMA NaiveKeeps ==
  ASSUME ConnInv, proto = "naive", NEW c \in Conns, NaiveStep(c)
  PROVE  ConnInv'
  <1>0. proto \notin Families \cup {"ssr"}
    BY Zenon DEF Families
  <1>1. CASE NaiveAccept(c)
    BY <1>1, Accepted, Zenon DEF NaiveAccept, Early
  <1>2. CASE NaiveProxy(c) \/ NaiveSecure(c)
    BY <1>2, Moved, Ended, Zenon DEF NaiveProxy, NaiveSecure, At, Early
  <1>3. CASE NaivePeek(c)
    BY <1>0, <1>3, Moved, Greets, Zenon DEF NaivePeek, At, Early
  <1>4. ASSUME NEW d \in Conns, NaiveStream(c, d) PROVE ConnInv'
    BY <1>4, Streamed, Zenon DEF NaiveStream
  <1>5. CASE NaiveConnect(c)
    <2>1. conn[c].pc \in Greeted /\ KeepInbound /\ UNCHANGED cache
      BY <1>5, Zenon DEF NaiveConnect, At, Greeted
    <2>2. CASE Close(c) /\ UNCHANGED suspects
      BY <2>1, <2>2, Lookup, Dropped, Zenon
    <2>3. ASSUME NEW k \in Users, NEW h \in Hosts,
                 IF k \in users
                 THEN Become(c, [Recognised(c, k, k, "device") EXCEPT !.host = h]) /\ Forgive(c)
                 ELSE Become(c, Turned(c, k)) /\ UNCHANGED suspects
          PROVE  ConnInv'
      <3>1. CASE k \in users
        BY <2>1, <2>3, <3>1, Lookup, Found, Zenon
      <3>2. CASE k \notin users
        BY <2>1, <2>3, <3>2, Lookup, TurnedAway, Zenon
      <3> QED
        BY <3>1, <3>2, Zenon
    <2> QED
      BY <1>5, <2>2, <2>3, Zenon DEF NaiveConnect
  <1>6. CASE NaiveAdmit(c)
    BY <1>6, Admits, Zenon DEF NaiveAdmit, Admitted
  <1>7. CASE NaiveAudit(c)
    BY <1>7, OwnAudit, Zenon DEF NaiveAudit, At, Admitted
  <1>8. CASE Dial(c, "relay")
    BY <1>8, Forwarded, Zenon
  <1>9. CASE Fail(c, {"proxy", "peek", "streams", "relay"})
    BY <1>9, Failed, Zenon
  <1> QED
    BY <1>1, <1>2, <1>3, <1>4, <1>5, <1>6, <1>7, <1>8, <1>9, Zenon DEF NaiveStep, NaiveH1, NaiveH2,
        NaiveRequest

-----------------------------------------------------------------------------
(* The theorems.                                                           *)

\* A fresh inbound of any protocol.
LEMMA ConnectionsStart == ConnectionsInit => ConnInv
  <1> SUFFICES ASSUME ConnectionsInit PROVE ConnInv
    BY Zenon
  <1>1. conn = [c \in Conns |-> Idle] /\ conn \in [Conns -> Task]
    BY IdleSound, Zenon DEF ConnectionsInit, Init
  <1>2. ShapeInv /\ TasksInv /\ ParentInv /\ QuietInv
    <2>1. ShapeInv
      BY <1>1, Zenon DEF ConnectionsInit, Init, ShapeInv, Somebody
    <2>2. TasksInv
      BY <1>1, IdleSound, Zenon DEF TasksInv
    <2> QED
      BY <1>1, <2>1, <2>2 DEF ConnectionsInit, Init, ParentInv, QuietInv, Idle
  <1>3. GuardsWithinLimit
    <2> SUFFICES ASSUME NEW u \in Users PROVE Held(u) <= MaxConn
      BY Zenon DEF GuardsWithinLimit
    <2>1. {c \in Conns : conn[c].guard /\ conn[c].user = u} = {}
      BY <1>1, Zenon DEF Idle
    <2>2. Held(u) = 0
      BY <2>1, FS_EmptySet, Zenon DEF Held
    <2> QED
      BY <2>2, ConnectionAssumption
  <1> QED
    BY <1>2, <1>3, Zenon DEF ConnInv

\* Whatever a handler of any protocol, a user update or the end of the inbound
\* does, the invariant survives.
LEMMA ConnectionsStep == ConnInv /\ [ConnectionsNext]_vars => ConnInv'
  <1> SUFFICES ASSUME ConnInv, [ConnectionsNext]_vars PROVE ConnInv'
    BY Zenon
  <1>1. CASE TrojanNext \/ AnytlsNext
    BY <1>1, TrojanKeeps, AnytlsKeeps, Zenon DEF TrojanNext, AnytlsNext
  <1>2. CASE VmessNext \/ VlessNext
    BY <1>2, VmessKeeps, VlessKeeps, Zenon DEF VmessNext, VlessNext
  <1>3. CASE SsNext \/ SsrNext
    BY <1>3, SsKeeps, SsrKeeps, Zenon DEF SsNext, SsrNext
  <1>4. CASE HttpNext \/ SocksNext \/ NaiveNext
    BY <1>4, HttpKeeps, SocksKeeps, NaiveKeeps, Zenon DEF HttpNext, SocksNext, NaiveNext
  <1>5. CASE UserUpdate
    BY <1>5, UpdateKeeps, Zenon
  <1>6. CASE Stop \/ Drained
    BY <1>6, StopKeeps, Zenon
  <1>7. CASE AbortDrain
    BY <1>7, AbortKeeps, ZenonT(30)
  <1>8. CASE UNCHANGED vars
    BY <1>8 DEF vars, ConnInv, ShapeInv, TasksInv, Sound, ParentInv, QuietInv, GuardsWithinLimit, Held
  <1> QED
    BY <1>1, <1>2, <1>3, <1>4, <1>5, <1>6, <1>7, <1>8, Zenon DEF ConnectionsNext

\* Every inbound, whatever its protocol, serves only users that own the
\* credential they showed, hold a connection guard within the limit and ask
\* for targets the audit lets through; and nobody listed during the whole of
\* the authentication is turned away by a lookup, in spite of update_users,
\* of the snapshots and of the per-address cache (src/protocol).
THEOREM OnlyAdmittedServed == ConnectionsSafety => []AdmittedOnly
  <1>1. ConnInv => AdmittedOnly
    <2> SUFFICES ASSUME ConnInv PROVE AdmittedOnly
      BY Zenon
    <2>1. TypeOK
      BY Zenon DEF ConnInv, ShapeInv, TypeOK, Task, Somebody
    <2>2. ServesAdmitted
      BY Zenon DEF ConnInv, TasksInv, Sound, ServesAdmitted, Serving, Admitted
    <2>3. AuthenticatesOwners
      BY Zenon DEF ConnInv, TasksInv, Sound, AuthenticatesOwners
    <2> QED
      BY <2>1, <2>2, <2>3, Zenon DEF AdmittedOnly, ConnInv
  <1> QED
    BY <1>1, ConnectionsStart, ConnectionsStep, PTL DEF ConnectionsSafety

\* When start returns, only the HTTP/2 streams that Naive detached are left of
\* an inbound's tasks, and no other stream outlives its connection, whether
\* the drain completed or abort_all cut it short.
THEOREM StoppedMeansQuiet == ConnectionsSafety => []StoppedIsQuiet
  <1>1. ConnInv => StoppedIsQuiet
    BY Zenon DEF ConnInv, TasksInv, Sound, QuietInv, ParentInv, StoppedIsQuiet
  <1> QED
    BY <1>1, ConnectionsStart, ConnectionsStep, PTL DEF ConnectionsSafety
=============================================================================
