--------------------------- MODULE SessionsProofs ---------------------------
(***************************************************************************)
(* The streams of a multiplexed session stay within its limit, what was     *)
(* queued outlives their end and what they relayed is counted, for any      *)
(* number of ids and tasks and channels of any size.                        *)
(***************************************************************************)
EXTENDS Sessions, FiniteSetTheorems, TLAPS

Writers == {"idle", "write", "gone"}
LoopRec == [pc : {"read", "push", "ending", "join", "over"}, todo : Nat, t : Tasks \cup {None},
            version : 0..2, last : Ids \cup {0}, cancel : BOOLEAN]
EntryRec == [st : {"none", "waiting", "active", "closed", "dead"}, t : Tasks \cup {None}]
TaskRec == [pc : {"none", "head", "dial", "relay", "quit", "ended"}, q : 0..StreamCap,
            up : BOOLEAN, down : BOOLEAN, todo : Int, stop : BOOLEAN]
StatRec == [owed : Nat, excess : Int, clean : BOOLEAN, unpaid : BOOLEAN]

\* The state of a session has its shape.
SessTypes ==
    /\ loop \in LoopRec /\ table \in [Ids -> EntryRec] /\ task \in [Tasks -> TaskRec]
    /\ stats \in [Tasks -> StatRec] /\ outq \in 0..OutCap /\ writer \in Writers

Runs(k) == k.pc \notin {"none", "ended"}
Leads(i, t) == table[i].st = "active" /\ table[i].t = t

\* What task t owes its target is what its channel holds and what the loop is
\* pushing into it.  A push that the end of the session cuts short stays owed,
\* and then the channel does not end before the session does.
Owing(t, k, s) ==
    \/ s.owed = k.q + (IF loop.pc = "push" /\ loop.t = t THEN 1 ELSE 0)
    \/ s.owed >= k.q /\ loop.pc = "over"
    \/ s.owed >= k.q /\ loop.pc \in {"ending", "join"} /\ \E i \in Ids : Leads(i, t)

\* The books of task t, whose record is k and whose counters are s.
Fits(t, k, s) ==
    /\ k.up => Runs(k) /\ ~s.clean /\ Owing(t, k, s)
    /\ ~Runs(k) => ~s.clean /\ s.owed = 0
    /\ k.pc \in {"head", "dial"} => k.up
    /\ kind = "vless" /\ k.pc = "relay" => k.up
    /\ s.clean => s.owed = 0
    /\ kind = "anytls" => s.excess = 0
    /\ kind = "vless" => s.excess = s.owed
    /\ kind = "anytls" /\ s.unpaid => loop.cancel
FitsInv == \A t \in Tasks : Fits(t, task[t], stats[t])

\* The loop pushes to a task; a Shadowsocks stream it pushes to is open.
PushInv ==
    loop.pc = "push" =>
        loop.t \in Tasks /\ (kind = "ss" => \E i \in Ids : Leads(i, loop.t))

\* What the entries of the table stand for.
RowsInv ==
    \A i \in Ids :
        /\ table[i].st \in {"active", "closed", "dead"} => table[i].t \in Tasks
        /\ table[i].st = "waiting" => kind = "anytls"
        /\ kind = "anytls" /\ table[i].st = "active" => Live(table[i].t)

\* A task of a Shadowsocks session has an entry until it is joined.
JoinInv ==
    kind = "ss" /\ ~loop.cancel =>
        \A t \in Tasks : Live(t) => \E i \in Ids : table[i].st # "none" /\ table[i].t = t

RoomInv == kind # "vless" => Cardinality(Entries) <= MaxStreams

SessInv == SessTypes /\ FitsInv /\ PushInv /\ RowsInv /\ JoinInv /\ RoomInv

-----------------------------------------------------------------------------
\* Entries that go, or stay, keep the limit.
LEMMA RoomKept ==
  ASSUME RoomInv, UNCHANGED kind, Entries' \subseteq Entries
  PROVE  RoomInv'
  <1> SUFFICES ASSUME kind # "vless" PROVE Cardinality(Entries') <= MaxStreams
    BY Zenon DEF RoomInv
  <1>1. IsFiniteSet(Entries)
    BY FS_Subset, MuxAssumption, Zenon DEF Entries
  <1>2. Cardinality(Entries') <= Cardinality(Entries) /\ IsFiniteSet(Entries')
    BY <1>1, FS_Subset, Zenon
  <1>3. Cardinality(Entries) \in Nat /\ Cardinality(Entries') \in Nat
    BY <1>1, <1>2, FS_CardinalityType, Zenon
  <1> QED
    BY <1>2, <1>3, MuxAssumption DEF RoomInv

\* An entry that is made below the limit keeps it.
LEMMA RoomTaken ==
  ASSUME NEW i \in Ids, Entries' \subseteq Entries \cup {i},
         Cardinality(Entries) < MaxStreams
  PROVE  RoomInv'
  <1>1. IsFiniteSet(Entries)
    BY FS_Subset, MuxAssumption, Zenon DEF Entries
  <1>2. /\ IsFiniteSet(Entries \cup {i})
        /\ \/ Cardinality(Entries \cup {i}) = Cardinality(Entries)
           \/ Cardinality(Entries \cup {i}) = Cardinality(Entries) + 1
    BY ZenonT(30), <1>1, FS_AddElement
  <1>3. Cardinality(Entries') <= Cardinality(Entries \cup {i}) /\ IsFiniteSet(Entries')
    BY <1>2, FS_Subset, Zenon
  <1>4. Cardinality(Entries) \in Nat /\ Cardinality(Entries') \in Nat
    BY <1>1, <1>3, FS_CardinalityType, Zenon
  <1> QED
    BY <1>2, <1>3, <1>4, MuxAssumption DEF RoomInv

\* One task and its counters change, and fit.
LEMMA TaskStep ==
  ASSUME SessInv, NEW t \in Tasks, NEW k \in TaskRec, NEW s \in StatRec,
         task' = [task EXCEPT ![t] = k], stats' = [stats EXCEPT ![t] = s],
         UNCHANGED <<kind, loop, table>>, outq' \in 0..OutCap, writer' \in Writers,
         Runs(k) => Live(t), kind = "anytls" => Runs(k), Fits(t, k, s)
  PROVE  SessInv'
  <1>1. /\ \A u \in Tasks : task'[u] = IF u = t THEN k ELSE task[u]
        /\ \A u \in Tasks : stats'[u] = IF u = t THEN s ELSE stats[u]
    BY Zenon DEF SessInv, SessTypes
  <1>2. SessTypes'
    BY Zenon DEF SessInv, SessTypes
  <1>3. FitsInv'
    <2> SUFFICES ASSUME NEW u \in Tasks PROVE Fits(u, task[u], stats[u])'
      BY Zenon DEF FitsInv
    <2>1. Fits(u, task'[u], stats'[u])
      BY <1>1, Zenon DEF SessInv, FitsInv
    <2> QED
      BY <2>1, Zenon DEF Fits, Owing, Leads
  <1>4. PushInv'
    BY Zenon DEF SessInv, PushInv, Leads
  <1>5. RowsInv'
    BY <1>1 DEF SessInv, RowsInv, Live, Runs
  <1>6. JoinInv'
    BY <1>1, Zenon DEF SessInv, JoinInv, Live, Runs
  <1>7. RoomInv'
    BY RoomKept, Zenon DEF SessInv, Entries
  <1> QED
    BY <1>2, <1>3, <1>4, <1>5, <1>6, <1>7, Zenon DEF SessInv

\* The channel of the writer, and the writer, change; the loop goes on, or the
\* session comes nearer to its end.
LEMMA LoopStep ==
  ASSUME SessInv, NEW l \in LoopRec, loop' = l, UNCHANGED <<kind, table, task, stats>>,
         outq' \in 0..OutCap, writer' \in Writers, loop.cancel => l.cancel,
         \/ l.pc = loop.pc /\ l.t = loop.t
         \/ loop.pc = "read" /\ l.pc = "ending"
         \/ loop.pc \in {"ending", "read"} /\ l.pc = "join"
         \/ loop.pc = "push" /\ l.pc \in {"ending", "join"} /\ kind = "ss"
         \/ loop.pc # "push" /\ l.pc = "over"
  PROVE  SessInv'
  <1>1. SessTypes'
    BY Zenon DEF SessInv, SessTypes
  <1>2. FitsInv'
    <2> SUFFICES ASSUME NEW u \in Tasks PROVE Fits(u, task[u], stats[u])'
      BY Zenon DEF FitsInv
    <2>1. Fits(u, task[u], stats[u])
      BY Zenon DEF SessInv, FitsInv
    <2>2. task[u].q \in Nat /\ stats[u].owed \in Nat /\ loop \in LoopRec
      BY MuxAssumption DEF SessInv, SessTypes, TaskRec, StatRec
    <2>3. Owing(u, task[u], stats[u]) => Owing(u, task[u], stats[u])'
      BY <2>2 DEF Owing, Leads, SessInv, PushInv, LoopRec
    <2> QED
      BY <2>1, <2>3, Zenon DEF Fits
  <1>3. PushInv'
    BY Zenon DEF SessInv, PushInv, Leads
  <1>4. RowsInv' /\ JoinInv'
    BY Zenon DEF SessInv, RowsInv, JoinInv, Live
  <1>5. RoomInv'
    BY RoomKept, Zenon DEF SessInv, Entries
  <1> QED
    BY <1>1, <1>2, <1>3, <1>4, <1>5, Zenon DEF SessInv

\* A frame changes the table and nothing else but the loop.
LEMMA FrameStep ==
  ASSUME SessInv, loop.pc = "read", UNCHANGED <<kind, task, stats, outq, writer>>,
         loop' \in LoopRec, loop'.pc \in {"read", "ending"}, loop'.cancel = loop.cancel,
         table' \in [Ids -> EntryRec], RowsInv', JoinInv', RoomInv'
  PROVE  SessInv'
  <1>1. SessTypes'
    BY Zenon DEF SessInv, SessTypes
  <1>2. FitsInv'
    <2> SUFFICES ASSUME NEW u \in Tasks PROVE Fits(u, task[u], stats[u])'
      BY Zenon DEF FitsInv
    <2>1. Fits(u, task[u], stats[u])
      BY Zenon DEF SessInv, FitsInv
    <2>2. Owing(u, task[u], stats[u]) => Owing(u, task[u], stats[u])'
      BY Zenon DEF Owing
    <2> QED
      BY <2>1, <2>2, Zenon DEF Fits
  <1>3. PushInv'
    BY Zenon DEF PushInv
  <1> QED
    BY <1>1, <1>2, <1>3, Zenon DEF SessInv

\* A data frame is on its way to the channel of the open stream of i.
LEMMA PushStep ==
  ASSUME SessInv, loop.pc = "read", NEW i \in Ids, table[i].st = "active", NEW t, t = table[i].t,
         loop' = [loop EXCEPT !.pc = "push", !.t = t], NEW n \in StatRec,
         stats' = IF task[t].up THEN [stats EXCEPT ![t] = n] ELSE stats,
         n.owed = stats[t].owed + 1, n.clean = stats[t].clean, n.unpaid = stats[t].unpaid,
         n.excess = IF kind = "vless" THEN stats[t].excess + 1 ELSE stats[t].excess,
         UNCHANGED <<kind, table, task, outq, writer>>
  PROVE  SessInv'
  <1>0. /\ t \in Tasks /\ loop \in LoopRec /\ stats \in [Tasks -> StatRec] /\ task \in [Tasks -> TaskRec]
        /\ Leads(i, t)
    BY Zenon DEF SessInv, SessTypes, RowsInv, Leads
  <1>1. loop' \in LoopRec /\ loop'.pc = "push" /\ loop'.t = t /\ loop'.cancel = loop.cancel
    BY <1>0, Zenon DEF LoopRec
  <1>4. SessTypes'
    BY <1>0, <1>1, Zenon DEF SessInv, SessTypes
  <1>5. FitsInv'
    <2> SUFFICES ASSUME NEW u \in Tasks PROVE Fits(u, task[u], stats[u])'
      BY Zenon DEF FitsInv
    <2>1. Fits(u, task[u], stats[u]) /\ task[u] \in TaskRec /\ stats[u] \in StatRec
      BY <1>0, Zenon DEF SessInv, FitsInv
    <2>2. task[u].up => stats[u].owed = task[u].q
      BY <2>1 DEF Fits, Owing, TaskRec
    <2>3. CASE u = t /\ task[t].up
      <3>1. stats'[u] = n /\ task'[u] = task[u]
        BY <2>3, <1>0, Zenon
      <3>2. n.owed = task[u].q + 1 /\ (kind = "vless" => n.excess = n.owed)
            /\ (kind = "anytls" => n.excess = 0)
        BY <2>1, <2>2, <2>3, Zenon DEF Fits
      <3>3. Owing(u, task[u], stats[u])'
        BY <3>1, <3>2, <2>3, <1>1, Zenon DEF Owing
      <3>4. Runs(task[u]) /\ ~stats[u].clean
        BY <2>1, <2>3, Zenon DEF Fits
      <3> QED
        BY <3>1, <3>2, <3>3, <3>4, <2>1, <2>3, <1>1, Zenon DEF Fits
    <2>4. CASE u # t \/ ~task[t].up
      <3>1. stats'[u] = stats[u] /\ task'[u] = task[u]
        BY <2>4, <1>0, Zenon
      <3>2. task[u].up => Owing(u, task[u], stats[u])'
        BY <3>1, <2>1, <2>2, <2>4, <1>1 DEF Owing, TaskRec
      <3> QED
        BY <3>1, <3>2, <2>1, <1>1, Zenon DEF Fits
    <2> QED
      BY <2>3, <2>4, Zenon
  <1>6. PushInv'
    BY <1>0, <1>1, Zenon DEF PushInv, Leads
  <1>7. RowsInv' /\ JoinInv'
    BY <1>1, Zenon DEF SessInv, RowsInv, JoinInv, Live
  <1>8. RoomInv'
    BY RoomKept, Zenon DEF SessInv, Entries
  <1> QED
    BY <1>4, <1>5, <1>6, <1>7, <1>8, Zenon DEF SessInv

\* A stream is opened: its task starts with d chunks in hand, and the loop goes
\* on, or has one more to push to it.
LEMMA SpawnStep ==
  ASSUME SessInv, loop.pc = "read", NEW i \in Ids, NEW t \in Tasks, NEW d \in 0..1,
         NEW pc \in {"head", "dial", "relay"}, Spawn(t, i, pc, d),
         NEW n \in StatRec, stats' = [stats EXCEPT ![t] = n],
         loop' \in LoopRec, loop'.cancel = loop.cancel,
         \/ loop'.pc = "read" /\ n.owed = d
         \/ loop'.pc = "push" /\ loop'.t = t /\ n.owed = d + 1,
         n.clean = stats[t].clean, n.unpaid = stats[t].unpaid,
         kind = "vless" => n.excess = n.owed, kind = "anytls" => n.excess = 0,
         UNCHANGED <<kind, outq, writer>>, RoomInv',
         kind = "ss" => table[i].st = "none"
  PROVE  SessInv'
  <1>0. /\ loop \in LoopRec /\ stats \in [Tasks -> StatRec] /\ task \in [Tasks -> TaskRec]
        /\ table \in [Ids -> EntryRec]
    BY Zenon DEF SessInv, SessTypes
  <1> DEFINE k == [NoTask EXCEPT !.pc = pc, !.up = TRUE, !.q = d]
             w == [st |-> "active", t |-> t]
  <1>a. d \in 0..StreamCap
    BY MuxAssumption
  <1>1. k \in TaskRec /\ k.pc = pc /\ k.up = TRUE /\ k.q = d /\ Runs(k)
    <2>1. NoTask \in TaskRec
      BY MuxAssumption DEF NoTask, TaskRec
    <2>2. k \in TaskRec /\ k.pc = pc /\ k.up = TRUE /\ k.q = d
      BY <2>1, <1>a, Zenon DEF TaskRec
    <2> QED
      BY <2>2, Zenon DEF Runs
  <1>3. /\ task' = [task EXCEPT ![t] = k]
        /\ table' = [table EXCEPT ![i] = w] /\ w \in EntryRec
        /\ w.st = "active" /\ w.t = t /\ task[t].pc = "none"
    BY Zenon DEF Spawn, EntryRec
  <1> HIDE DEF k, w
  <1>4. /\ \A u \in Tasks : task'[u] = IF u = t THEN k ELSE task[u]
        /\ \A u \in Tasks : stats'[u] = IF u = t THEN n ELSE stats[u]
        /\ \A j \in Ids : table'[j] = IF j = i THEN w ELSE table[j]
    BY <1>0, <1>3, Zenon
  <1>5. SessTypes'
    BY <1>0, <1>1, <1>3, Zenon DEF SessInv, SessTypes
  <1>6. FitsInv'
    <2> SUFFICES ASSUME NEW u \in Tasks PROVE Fits(u, task[u], stats[u])'
      BY Zenon DEF FitsInv
    <2>1. Fits(u, task[u], stats[u]) /\ task[u] \in TaskRec /\ stats[u] \in StatRec
      BY <1>0, Zenon DEF SessInv, FitsInv
    <2>2. CASE u = t
      <3>1. ~stats[t].clean /\ (kind = "anytls" /\ stats[t].unpaid => loop.cancel)
        BY <2>1, <2>2, <1>3, Zenon DEF Fits, Runs
      <3>2. task'[u] = k /\ stats'[u] = n
        BY <2>2, <1>4, Zenon
      <3>3. Owing(u, task[u], stats[u])'
        BY <3>2, <2>2, <1>1 DEF Owing
      <3> QED
        BY <3>1, <3>2, <3>3, <1>1, Zenon DEF Fits
    <2>3. CASE u # t
      <3>1. task'[u] = task[u] /\ stats'[u] = stats[u]
        BY <2>3, <1>4, Zenon
      <3>2. task[u].up => Owing(u, task[u], stats[u])'
        BY <3>1, <2>1, <2>3, ZenonT(30) DEF Fits, Owing, TaskRec
      <3> QED
        BY <3>1, <3>2, <2>1, Zenon DEF Fits
    <2> QED
      BY <2>2, <2>3, Zenon
  <1>7. PushInv'
    BY <1>3, <1>4 DEF PushInv, Leads
  <1>8. RowsInv'
    BY <1>1, <1>3, <1>4 DEF SessInv, RowsInv, Live, Runs
  <1>9. JoinInv'
    <2> SUFFICES ASSUME kind = "ss", ~loop.cancel, NEW u \in Tasks, Live(u)'
                 PROVE  \E j \in Ids : table'[j].st # "none" /\ table'[j].t = u
      BY Zenon DEF JoinInv
    <2>1. CASE u = t
      BY <2>1, <1>3, <1>4, Zenon
    <2>2. CASE u # t
      <3>1. PICK j \in Ids : table[j].st # "none" /\ table[j].t = u
        BY <2>2, <1>4, Zenon DEF SessInv, JoinInv, Live
      <3> QED
        BY <3>1, <1>4, Zenon
    <2> QED
      BY <2>1, <2>2, Zenon
  <1> QED
    BY <1>5, <1>6, <1>7, <1>8, <1>9, Zenon DEF SessInv

\* A frame enters the writer's channel within its capacity.
LEMMA SendRoom ==
  ASSUME outq \in 0..OutCap, Send
  PROVE  outq' \in 0..OutCap
  BY MuxAssumption DEF Send

\* A task goes on without touching its counters.
LEMMA StageStep ==
  ASSUME SessInv, NEW t \in Tasks, Live(t), NEW k \in TaskRec, Runs(k),
         task' = [task EXCEPT ![t] = k], UNCHANGED <<kind, loop, table, writer, stats>>,
         outq' \in 0..OutCap, k.up => task[t].up /\ k.q = task[t].q,
         k.pc \in {"head", "dial"} => k.up, kind = "vless" /\ k.pc = "relay" => k.up
  PROVE  SessInv'
  <1>1. /\ stats[t] \in StatRec /\ stats' = [stats EXCEPT ![t] = stats[t]] /\ writer' \in Writers
        /\ Fits(t, task[t], stats[t])
    BY Zenon DEF SessInv, SessTypes, FitsInv
  <1>2. Fits(t, k, stats[t])
    BY <1>1, Zenon DEF Fits, Owing
  <1> QED
    BY <1>1, <1>2, TaskStep, Zenon

\* A chunk is written to the target.
LEMMA WriteStep ==
  ASSUME SessInv, NEW t \in Tasks, task[t].up, task[t].q > 0, NEW c \in {0, 1},
         task' = [task EXCEPT ![t].q = @ - 1], Wrote(t, 1, c),
         kind = "anytls" => c = 1, kind = "vless" => c = 0,
         UNCHANGED <<kind, loop, table, outq, writer>>
  PROVE  SessInv'
  <1>1. /\ task \in [Tasks -> TaskRec] /\ stats \in [Tasks -> StatRec] /\ outq' \in 0..OutCap
        /\ writer' \in Writers /\ Fits(t, task[t], stats[t])
    BY Zenon DEF SessInv, SessTypes, FitsInv
  <1> DEFINE k == [task[t] EXCEPT !.q = @ - 1]
             s == [stats[t] EXCEPT !.owed = @ - 1, !.excess = @ + c - 1]
  <1>2. task[t] \in TaskRec /\ task[t].q - 1 \in 0..StreamCap /\ task[t].q \in Nat
    BY <1>1, MuxAssumption DEF TaskRec
  <1>3. k \in TaskRec /\ k.q = task[t].q - 1 /\ k.pc = task[t].pc /\ k.up = task[t].up
    BY <1>2, Zenon DEF TaskRec
  <1>4. stats[t] \in StatRec /\ stats[t].owed >= task[t].q /\ stats[t].owed \in Nat
        /\ stats[t].excess \in Int
    BY <1>1, <1>2 DEF Fits, Owing, StatRec
  <1>a. stats[t].owed - 1 \in Nat /\ stats[t].excess + c - 1 \in Int
    BY <1>2, <1>4
  <1>5. s \in StatRec /\ s.owed = stats[t].owed - 1 /\ s.excess = stats[t].excess + c - 1
        /\ s.clean = stats[t].clean /\ s.unpaid = stats[t].unpaid
    BY <1>4, <1>a, Zenon DEF StatRec
  <1>6. task' = [task EXCEPT ![t] = k] /\ stats' = [stats EXCEPT ![t] = s]
    BY <1>1, Zenon DEF Wrote
  <1> HIDE DEF k, s
  <1>7. Owing(t, k, s) /\ Runs(k) /\ Live(t)
    BY <1>1, <1>2, <1>3, <1>4, <1>5 DEF Fits, Owing, Runs, Live
  <1>8. Fits(t, k, s)
    BY <1>1, <1>3, <1>4, <1>5, <1>7 DEF Fits
  <1> QED
    BY <1>1, <1>3, <1>5, <1>6, <1>7, <1>8, TaskStep, Zenon

\* The upstream half is complete: nothing is owed unless the session is over.
LEMMA EndStep ==
  ASSUME SessInv, NEW t \in Tasks, UpEnd(t), NEW k \in TaskRec, task' = [task EXCEPT ![t] = k],
         ~k.up, k.pc \in {"relay", "quit"}, kind = "vless" => k.pc = "quit",
         UNCHANGED <<kind, loop, table, outq, writer>>
  PROVE  SessInv'
  <1>1. /\ stats \in [Tasks -> StatRec] /\ outq' \in 0..OutCap /\ loop \in LoopRec
        /\ writer' \in Writers /\ Fits(t, task[t], stats[t])
    BY Zenon DEF SessInv, SessTypes, FitsInv
  <1> DEFINE s == [stats[t] EXCEPT !.clean = (loop.pc # "over")]
  <1>2. /\ s \in StatRec /\ s.owed = stats[t].owed /\ s.excess = stats[t].excess
        /\ s.unpaid = stats[t].unpaid /\ s.clean = (loop.pc # "over")
    BY <1>1, Zenon DEF StatRec
  <1>3. stats' = [stats EXCEPT ![t] = s]
    BY <1>1, Zenon DEF UpEnd
  <1> HIDE DEF s
  <1>4. loop.pc # "over" => stats[t].owed = 0
    BY <1>1 DEF UpEnd, Closed, Fits, Owing, Leads
  <1>5. Runs(k) /\ Live(t)
    BY <1>1, Zenon DEF Runs, Live, UpEnd, Fits
  <1>6. Fits(t, k, s)
    BY <1>1, <1>2, <1>4, <1>5, Zenon DEF Fits
  <1> QED
    BY <1>1, <1>2, <1>3, <1>5, <1>6, TaskStep, Zenon

\* A task that has not started, or is over, runs nothing.
LEMMA EndedTask ==
  LET k == [NoTask EXCEPT !.pc = "ended"]
  IN  NoTask \in TaskRec /\ k \in TaskRec /\ ~Runs(k) /\ ~k.up /\ k.pc = "ended"
  <1>1. NoTask \in TaskRec /\ ~NoTask.up
    BY MuxAssumption DEF NoTask, TaskRec
  <1> DEFINE k == [NoTask EXCEPT !.pc = "ended"]
  <1>2. k \in TaskRec /\ ~k.up /\ k.pc = "ended"
    BY <1>1, Zenon DEF TaskRec
  <1> QED
    BY <1>1, <1>2, Zenon DEF Runs

\* A task ends: the entries that lead to it go, or stay for the client's End or
\* for join_next.
LEMMA OverStep ==
  ASSUME SessInv, NEW t \in Tasks, Live(t), Over(t), NEW s \in StatRec,
         stats' = [stats EXCEPT ![t] = s], s.owed = 0, s.excess = 0, ~s.clean,
         kind = "anytls" => ~s.unpaid,
         table' \in [Ids -> EntryRec],
         \A i \in Ids : \/ table'[i] = table[i] /\ (kind = "anytls" => table[i].t # t)
                        \/ kind # "ss" /\ table[i].t = t /\ table'[i].st = "none"
                        \/ kind = "vless" /\ table[i].t = t /\ table'[i].st = "dead" /\ table'[i].t = t,
         UNCHANGED <<kind, loop, outq, writer>>
  PROVE  SessInv'
  <1>0. /\ task \in [Tasks -> TaskRec] /\ stats \in [Tasks -> StatRec]
        /\ table \in [Ids -> EntryRec] /\ loop \in LoopRec
    BY Zenon DEF SessInv, SessTypes
  <1> DEFINE k == [NoTask EXCEPT !.pc = "ended"]
  <1>1. k \in TaskRec /\ ~Runs(k) /\ ~k.up /\ k.pc = "ended" /\ task' = [task EXCEPT ![t] = k]
    BY EndedTask, Zenon DEF Over
  <1> HIDE DEF k
  <1>2. /\ \A u \in Tasks : task'[u] = IF u = t THEN k ELSE task[u]
        /\ \A u \in Tasks : stats'[u] = IF u = t THEN s ELSE stats[u]
    BY <1>0, <1>1, Zenon
  <1>3. SessTypes'
    BY <1>0, <1>1, Zenon DEF SessInv, SessTypes
  <1>4. FitsInv'
    <2> SUFFICES ASSUME NEW u \in Tasks PROVE Fits(u, task[u], stats[u])'
      BY Zenon DEF FitsInv
    <2>1. Fits(u, task[u], stats[u])
      BY Zenon DEF SessInv, FitsInv
    <2>2. CASE u = t
      BY <2>2, <1>1, <1>2 DEF Fits
    <2>3. CASE u # t
      <3>1. task'[u] = task[u] /\ stats'[u] = stats[u]
        BY <2>3, <1>2, Zenon
      <3>2. \A i \in Ids : Leads(i, u) => Leads(i, u)'
        BY <2>3, Zenon DEF Leads
      <3>3. Owing(u, task[u], stats[u]) => Owing(u, task[u], stats[u])'
        BY <3>1, <3>2, Zenon DEF Owing
      <3> QED
        BY <3>1, <3>3, <2>1, Zenon DEF Fits
    <2> QED
      BY <2>2, <2>3, Zenon
  <1>5. PushInv'
    BY Zenon DEF SessInv, PushInv, Leads
  <1>6. RowsInv'
    BY <1>2 DEF SessInv, RowsInv, Live, Runs
  <1>7. JoinInv'
    BY <1>1, <1>2 DEF SessInv, JoinInv, Live, Runs
  <1>8. RoomInv'
    <2>1. kind # "vless" => Entries' \subseteq Entries
      BY Zenon DEF Entries
    <2> QED
      BY <2>1, RoomKept, Zenon DEF SessInv, RoomInv
  <1> QED
    BY <1>3, <1>4, <1>5, <1>6, <1>7, <1>8, Zenon DEF SessInv

-----------------------------------------------------------------------------
(* The steps of the loop, the writer and the tasks that the sessions share. *)

\* LoopReply, LoopEof, the writer and TaskReply.
LEMMA SharedActions ==
  ASSUME SessInv,
         \/ LoopReply \/ LoopEof \/ WriterTake \/ WriterDone
         \/ \E t \in Tasks : TaskReply(t)
  PROVE  SessInv'
  <1>0. loop \in LoopRec /\ task \in [Tasks -> TaskRec] /\ outq \in 0..OutCap /\ writer \in Writers
    BY Zenon DEF SessInv, SessTypes
  <1>1. CASE LoopReply
    <2> DEFINE l == [loop EXCEPT !.todo = @ - 1]
    <2>1. loop' = l /\ l \in LoopRec /\ l.pc = loop.pc /\ l.t = loop.t /\ l.cancel = loop.cancel
      BY <1>0, <1>1 DEF LoopReply, LoopSet, LoopRec
    <2>2. outq' \in 0..OutCap /\ UNCHANGED <<kind, table, task, writer, stats>>
      BY <1>0, <1>1, SendRoom, Zenon DEF LoopReply
    <2> HIDE DEF l
    <2> QED
      BY <2>1, <2>2, <1>0, LoopStep, Zenon
  <1>2. CASE LoopEof
    <2> DEFINE l == [loop EXCEPT !.pc = "ending"]
    <2>1. loop' = l /\ l \in LoopRec /\ l.pc = "ending" /\ l.cancel = loop.cancel /\ loop.pc = "read"
          /\ UNCHANGED <<kind, table, task, outq, writer, stats>>
      BY <1>0, <1>2, Zenon DEF LoopEof, LoopSet, LoopRec, Reading
    <2> HIDE DEF l
    <2> QED
      BY <2>1, <1>0, LoopStep, Zenon
  <1>3. CASE WriterTake \/ WriterDone
    <2>1. outq' \in 0..OutCap /\ writer' \in Writers /\ UNCHANGED <<kind, loop, table, task, stats>>
      BY <1>0, <1>3, MuxAssumption DEF WriterTake, WriterDone, Writers
    <2> QED
      BY <2>1, <1>0, LoopStep, Zenon
  <1>4. ASSUME NEW t \in Tasks, TaskReply(t) PROVE SessInv'
    <2> DEFINE k == [task[t] EXCEPT !.todo = @ - 1]
    <2>1. k \in TaskRec /\ k.pc = task[t].pc /\ k.up = task[t].up /\ k.q = task[t].q
      BY <1>0 DEF TaskRec
    <2>2. task' = [task EXCEPT ![t] = k] /\ Live(t) /\ UNCHANGED <<kind, loop, table, writer, stats>>
          /\ outq' \in 0..OutCap
      BY <1>0, <1>4, SendRoom, Zenon DEF TaskReply
    <2> HIDE DEF k
    <2>3. Fits(t, task[t], stats[t])
      BY Zenon DEF SessInv, FitsInv
    <2> QED
      BY <2>1, <2>2, <2>3, StageStep, Zenon DEF Runs, Live, Fits
  <1> QED
    BY <1>1, <1>2, <1>3, <1>4, Zenon

\* The loop's data frame enters the channel of its stream, or the stream has
\* given it up.
LEMMA LoopPushes ==
  ASSUME SessInv, LoopPush
  PROVE  SessInv'
  <1> DEFINE t == loop.t
             l == [loop EXCEPT !.pc = "read", !.t = None]
  <1>0. /\ loop \in LoopRec /\ task \in [Tasks -> TaskRec] /\ stats \in [Tasks -> StatRec]
        /\ t \in Tasks /\ loop.pc = "push"
    BY Zenon DEF SessInv, SessTypes, PushInv, LoopPush
  <1>1. loop' = l /\ l \in LoopRec /\ l.pc = "read" /\ l.cancel = loop.cancel
    BY <1>0, Zenon DEF LoopPush, LoopSet, LoopRec
  <1>2. UNCHANGED <<kind, table, outq, writer, stats>>
    BY Zenon DEF LoopPush
  <1> HIDE DEF l
  <1>3. ASSUME NEW u \in Tasks
        PROVE  /\ task'[u] \in TaskRec /\ task'[u].pc = task[u].pc /\ task'[u].up = task[u].up
               /\ task[u].up => task'[u].q = task[u].q + (IF u = t THEN 1 ELSE 0)
    <2>1. CASE UNCHANGED task /\ ~(Live(t) /\ task[t].up)
      <3>1. Fits(t, task[t], stats[t])
        BY <1>0, Zenon DEF SessInv, FitsInv
      <3>2. ~task[t].up
        BY <3>1, <2>1, Zenon DEF Fits, Live, Runs
      <3>3. task[u] \in TaskRec /\ task[u].q \in Nat
        BY <1>0, MuxAssumption DEF TaskRec
      <3> QED
        BY <2>1, <3>2, <3>3
    <2>2. CASE task[t].q < StreamCap /\ task' = [task EXCEPT ![t].q = @ + 1]
      <3>1. task[t] \in TaskRec /\ task[u] \in TaskRec /\ task[u].q \in Nat
            /\ task[t].q + 1 \in 0..StreamCap
        BY <1>0, <2>2, MuxAssumption DEF TaskRec
      <3>2. [task[t] EXCEPT !.q = @ + 1] \in TaskRec
        BY <3>1, Zenon DEF TaskRec
      <3>3. task'[u] = IF u = t THEN [task[t] EXCEPT !.q = @ + 1] ELSE task[u]
        BY <2>2, <1>0, Zenon
      <3> QED
        BY <3>1, <3>2, <3>3 DEF TaskRec
    <2> QED
      BY <2>1, <2>2, Zenon DEF LoopPush
  <1>4. SessTypes'
    <2>1. task' \in [Tasks -> TaskRec]
      <3>1. task' = [u \in Tasks |-> task'[u]]
        BY <1>0, Zenon DEF LoopPush
      <3> QED
        BY <3>1, <1>3, Zenon
    <2> QED
      BY <2>1, <1>1, <1>2, Zenon DEF SessInv, SessTypes
  <1>5. FitsInv'
    <2> SUFFICES ASSUME NEW u \in Tasks PROVE Fits(u, task[u], stats[u])'
      BY Zenon DEF FitsInv
    <2>1. Fits(u, task[u], stats[u])
      BY Zenon DEF SessInv, FitsInv
    <2>2. task[u].up => Owing(u, task[u], stats[u])'
      <3>1. task[u].up => stats[u].owed = task[u].q + (IF u = t THEN 1 ELSE 0)
        BY <2>1, <1>0, Zenon DEF Fits, Owing
      <3>2. task'[u].q \in Nat
        BY <1>3, MuxAssumption DEF TaskRec
      <3>3. task[u].up => stats'[u].owed = task'[u].q
        BY <3>1, <1>2, <1>3, Zenon
      <3> QED
        BY <3>2, <3>3, <1>1 DEF Owing
    <2> QED
      BY <2>1, <2>2, <1>1, <1>2, <1>3, Zenon DEF Fits, Runs
  <1>6. PushInv'
    BY <1>1, Zenon DEF PushInv
  <1>7. RowsInv' /\ JoinInv'
    BY <1>1, <1>2, <1>3, Zenon DEF SessInv, RowsInv, JoinInv, Live
  <1>8. RoomInv'
    BY <1>2, RoomKept, Zenon DEF SessInv, Entries
  <1> QED
    BY <1>4, <1>5, <1>6, <1>7, <1>8, Zenon DEF SessInv

-----------------------------------------------------------------------------
(* AnyTLS.                                                                 *)

\* The frames of a client and what the loop makes of them.
LEMMA AnytlsFrames ==
  ASSUME SessInv, kind = "anytls", AnytlsFrame
  PROVE  SessInv'
  <1>0. /\ loop \in LoopRec /\ table \in [Ids -> EntryRec] /\ loop.pc = "read"
        /\ stats \in [Tasks -> StatRec] /\ UNCHANGED <<kind, outq, writer>>
    BY Zenon DEF SessInv, SessTypes, AnytlsFrame, Reading
  <1>a. ASSUME NEW r \in Nat, Handled(r)
        PROVE  loop' \in LoopRec /\ loop'.pc = "read" /\ loop'.cancel = loop.cancel
    BY <1>0, <1>a, Zenon DEF Handled, LoopSet, LoopRec
  \* A frame that leaves the tasks alone and makes no stream active.
  <1>b. ASSUME loop' \in LoopRec, loop'.pc \in {"read", "ending"}, loop'.cancel = loop.cancel,
               UNCHANGED <<task, stats>>, table' \in [Ids -> EntryRec], RoomInv',
               \A i \in Ids : table'[i] = table[i] \/ table'[i].st \in {"none", "waiting"}
        PROVE  SessInv'
    <2>1. RowsInv' /\ JoinInv'
      BY <1>0, <1>b, Zenon DEF SessInv, RowsInv, JoinInv, Live
    <2> QED
      BY <2>1, <1>0, <1>b, FrameStep, Zenon
  <1>c. UNCHANGED table => RoomInv'
    BY <1>0, RoomKept, Zenon DEF SessInv, Entries
  <1>1. CASE AnytlsSettings
    <2>1. PICK v \in 1..2, n \in 0..1 : loop' = [loop EXCEPT !.version = v, !.todo = n + v - 1]
      BY <1>1, Zenon DEF AnytlsSettings, LoopSet
    <2>2. n + v - 1 \in Nat /\ v \in 0..2
      OBVIOUS
    <2>3. loop' \in LoopRec /\ loop'.pc = "read" /\ loop'.cancel = loop.cancel
      BY <2>1, <2>2, <1>0, Zenon DEF LoopRec
    <2> QED
      BY <2>3, <1>0, <1>1, <1>b, <1>c, Zenon DEF AnytlsSettings
  <1>2. ASSUME NEW i \in Ids, AnytlsSyn(i) PROVE SessInv'
    <2>1. CASE loop.version = 0 \/ i <= loop.last
      <3>1. loop' = [loop EXCEPT !.pc = "ending", !.todo = 1] /\ UNCHANGED <<table, task, stats>>
        BY <2>1, <1>2, Zenon DEF AnytlsSyn, LoopSet
      <3>2. loop' \in LoopRec /\ loop'.pc = "ending" /\ loop'.cancel = loop.cancel
        BY <3>1, <1>0, Zenon DEF LoopRec
      <3> QED
        BY <3>1, <3>2, <1>0, <1>b, <1>c, Zenon
    <2>2. CASE ~(loop.version = 0 \/ i <= loop.last)
      <3> DEFINE full == Cardinality(Entries) >= MaxStreams
      <3>1. /\ loop' = [loop EXCEPT !.last = i, !.todo = IF full THEN 1 ELSE 0]
            /\ table' = IF full THEN table ELSE [table EXCEPT ![i].st = "waiting"]
            /\ UNCHANGED <<task, stats>>
        BY <2>2, <1>2, Zenon DEF AnytlsSyn, LoopSet
      <3>2. loop' \in LoopRec /\ loop'.pc = "read" /\ loop'.cancel = loop.cancel
        <4>1. (IF full THEN 1 ELSE 0) \in Nat
          BY Zenon
        <4> HIDE DEF full
        <4> QED
          BY <4>1, <3>1, <1>0, Zenon DEF LoopRec
      <3>3. CASE full
        BY <3>1, <3>2, <3>3, <1>0, <1>b, <1>c, Zenon
      <3>4. CASE ~full
        <4>1. table' = [table EXCEPT ![i].st = "waiting"]
          BY <3>1, <3>4, Zenon
        <4>2. /\ table' \in [Ids -> EntryRec]
              /\ \A j \in Ids : IF j = i THEN table'[j].st = "waiting" ELSE table'[j] = table[j]
          BY <4>1, <1>0, Zenon DEF EntryRec
        <4>3. Entries' \subseteq Entries \cup {i}
          BY <4>2, Zenon DEF Entries
        <4>4. Cardinality(Entries) < MaxStreams
          <5>1. Cardinality(Entries) \in Nat
            BY FS_Subset, FS_CardinalityType, MuxAssumption, Zenon DEF Entries
          <5> QED
            BY <5>1, <3>4, MuxAssumption
        <4>5. RoomInv'
          BY <4>3, <4>4, RoomTaken, Zenon
        <4> QED
          BY <4>2, <4>5, <3>1, <3>2, <1>b, Zenon
      <3> QED
        BY <3>3, <3>4, Zenon
    <2> QED
      BY <2>1, <2>2, Zenon
  \* An entry that is given up.
  <1>d. ASSUME NEW i \in Ids, NEW r \in Nat, Handled(r), table' = [table EXCEPT ![i] = NoEntry],
               UNCHANGED <<task, stats>>
        PROVE  SessInv'
    <2>1. NoEntry \in EntryRec /\ NoEntry.st = "none"
      BY Zenon DEF NoEntry, EntryRec
    <2>2. /\ table' \in [Ids -> EntryRec]
          /\ \A j \in Ids : table'[j] = IF j = i THEN NoEntry ELSE table[j]
      BY <2>1, <1>d, <1>0, Zenon
    <2>3. Entries' \subseteq Entries
      BY <2>1, <2>2, Zenon DEF Entries
    <2>4. RoomInv'
      BY <2>3, <1>0, RoomKept, Zenon DEF SessInv
    <2>5. loop' \in LoopRec /\ loop'.pc = "read" /\ loop'.cancel = loop.cancel
      BY <1>a, <1>d, Zenon
    <2> QED
      BY <2>1, <2>2, <2>4, <2>5, <1>d, <1>b, Zenon
  <1>3. ASSUME NEW i \in Ids, AnytlsPsh(i) PROVE SessInv'
    <2>1. ASSUME Handled(0), NEW t \in Tasks, NEW d \in 0..1, NEW pc \in {"head", "dial"},
                 table[i].st = "waiting", Spawn(t, i, pc, d), stats' = [stats EXCEPT ![t].owed = d]
          PROVE  SessInv'
      <3> DEFINE n == [stats[t] EXCEPT !.owed = d]
      <3>1. /\ n \in StatRec /\ n.owed = d /\ n.clean = stats[t].clean /\ n.unpaid = stats[t].unpaid
            /\ n.excess = stats[t].excess
        BY <1>0 DEF StatRec
      <3>2. stats' = [stats EXCEPT ![t] = n]
        BY <2>1, <1>0, Zenon
      <3> HIDE DEF n
      <3>3. stats[t].excess = 0
        BY Zenon DEF SessInv, FitsInv, Fits
      <3>4. Entries' \subseteq Entries
        BY <2>1, <1>0, Zenon DEF Spawn, Entries
      <3>5. RoomInv'
        BY <3>4, <1>0, RoomKept, Zenon DEF SessInv
      <3>6. loop' \in LoopRec /\ loop'.pc = "read" /\ loop'.cancel = loop.cancel
        BY <1>a, <2>1, Zenon
      <3>7. pc \in {"head", "dial", "relay"} /\ n.excess = 0 /\ kind # "vless" /\ kind # "ss"
        BY <3>1, <3>3, Zenon
      <3>8. /\ SessInv /\ loop.pc = "read" /\ Spawn(t, i, pc, d) /\ n \in StatRec
            /\ stats' = [stats EXCEPT ![t] = n]
            /\ loop' \in LoopRec /\ loop'.cancel = loop.cancel
            /\ \/ loop'.pc = "read" /\ n.owed = d
               \/ loop'.pc = "push" /\ loop'.t = t /\ n.owed = d + 1
            /\ n.clean = stats[t].clean /\ n.unpaid = stats[t].unpaid
            /\ (kind = "vless" => n.excess = n.owed) /\ (kind = "anytls" => n.excess = 0)
            /\ UNCHANGED <<kind, outq, writer>> /\ RoomInv' /\ (kind = "ss" => table[i].st = "none")
        BY <3>1, <3>2, <3>5, <3>6, <3>7, <2>1, <1>0, Zenon
      <3> QED
        BY <3>7, <3>8, SpawnStep, ZenonT(30)
    <2>2. ASSUME Handled(loop.version), table' = [table EXCEPT ![i] = NoEntry], UNCHANGED <<task, stats>>
          PROVE  SessInv'
      <3>1. loop.version \in Nat
        BY <1>0 DEF LoopRec
      <3> QED
        BY <3>1, <2>2, <1>d, Zenon
    <2>3. ASSUME table[i].st = "active", Pushing(table[i].t), UNCHANGED <<table, task>> PROVE SessInv'
      <3> DEFINE t == table[i].t  n == [stats[t] EXCEPT !.owed = @ + 1]
      <3>1. t \in Tasks
        BY <2>3, Zenon DEF SessInv, RowsInv
      <3>2. /\ n \in StatRec /\ n.owed = stats[t].owed + 1 /\ n.clean = stats[t].clean
            /\ n.unpaid = stats[t].unpaid /\ n.excess = stats[t].excess
        BY <3>1, <1>0 DEF StatRec
      <3>3. loop' = [loop EXCEPT !.pc = "push", !.t = t]
            /\ stats' = IF task[t].up THEN [stats EXCEPT ![t] = n] ELSE stats
        BY <2>3, <3>1, <1>0, Zenon DEF Pushing, LoopSet
      <3> HIDE DEF n, t
      <3>4. t = table[i].t
        BY Zenon DEF t
      <3> QED
        BY Zenon, <3>2, <3>3, <3>4, <2>3, <1>0, PushStep
    <2>4. ASSUME Handled(0), UNCHANGED <<table, task, stats>> PROVE SessInv'
      BY <2>4, <1>0, <1>a, <1>b, <1>c, Zenon
    <2> QED
      BY <2>1, <2>2, <2>3, <2>4, <1>3, Zenon DEF AnytlsPsh
  <1>4. ASSUME NEW i \in Ids, AnytlsFin(i) PROVE SessInv'
    BY <1>4, <1>d, Zenon DEF AnytlsFin
  <1>5. ASSUME Handled(1), UNCHANGED <<table, task, stats>> PROVE SessInv'
    BY <1>5, <1>0, <1>a, <1>b, <1>c, Zenon
  <1> QED
    BY <1>1, <1>2, <1>3, <1>4, <1>5, Zenon DEF AnytlsFrame

\* The stages of an AnyTLS worker.
LEMMA AnytlsWorks ==
  ASSUME SessInv, kind = "anytls", NEW t \in Tasks,
         UotHead(t) \/ AnytlsDial(t) \/ AnytlsUp(t) \/ AnytlsDown(t)
  PROVE  SessInv'
  <1>0. /\ task \in [Tasks -> TaskRec] /\ task[t] \in TaskRec /\ loop \in LoopRec
        /\ outq \in 0..OutCap /\ Fits(t, task[t], stats[t])
    BY Zenon DEF SessInv, SessTypes, FitsInv
  <1>a. UNCHANGED <<kind, loop, table, writer>>
    BY Zenon DEF UotHead, AnytlsDial, AnytlsUp, AnytlsDown
  <1>b. ASSUME NEW pc \in {"dial", "quit"}, NEW f \in Int, Live(t), Stage(t, pc, f),
               pc = "dial" => task[t].up, UNCHANGED <<outq, stats>>
        PROVE  SessInv'
    <2> DEFINE k == [task[t] EXCEPT !.pc = pc, !.todo = f]
    <2>1. k \in TaskRec /\ k.pc = pc /\ k.up = task[t].up /\ k.q = task[t].q
      BY <1>0, Zenon DEF TaskRec
    <2>2. task' = [task EXCEPT ![t] = k]
      BY <1>0, <1>b, Zenon DEF Stage
    <2> HIDE DEF k
    <2> QED
      BY <2>1, <2>2, <1>0, <1>a, <1>b, StageStep, Zenon DEF Runs
  \* The relay goes on with its halves, its token and its frames changed.
  <1>c. ASSUME NEW k \in TaskRec, task' = [task EXCEPT ![t] = k], k.pc = "relay",
               task[t].pc = "relay", k.q = task[t].q, k.up => task[t].up, UNCHANGED <<outq, stats>>
        PROVE  SessInv'
    BY <1>0, <1>a, <1>c, StageStep, Zenon DEF Runs, Live
  <1>1. CASE UotHead(t)
    <2>0. task[t].pc = "head" /\ task[t].up /\ Live(t)
      BY <1>0, <1>1, Zenon DEF UotHead, Free, Fits, Live
    <2>1. CASE Stage(t, "dial", 0) /\ UNCHANGED stats
      BY <2>0, <2>1, <1>1, <1>b DEF UotHead
    <2>2. CASE task[t].q > 0 /\ task' = [task EXCEPT ![t].q = @ - 1] /\ Wrote(t, 1, 1)
      BY <2>0, <2>2, <1>1, <1>a, WriteStep, Zenon DEF UotHead
    <2>3. CASE Stage(t, "quit", 0) /\ UNCHANGED stats
      BY <2>0, <2>3, <1>1, <1>b DEF UotHead
    <2> QED
      BY <2>1, <2>2, <2>3, <1>1, Zenon DEF UotHead
  <1>2. CASE AnytlsDial(t)
    <2>0. Live(t) /\ Ack \in Int /\ Ack + 1 \in Int
      BY <1>0, <1>2 DEF AnytlsDial, Free, Live, Ack, LoopRec
    <2>1. CASE task' = [task EXCEPT ![t].pc = "relay", ![t].todo = Ack, ![t].down = TRUE]
      <3> DEFINE k == [task[t] EXCEPT !.pc = "relay", !.todo = Ack, !.down = TRUE]
      <3>1. k \in TaskRec /\ k.pc = "relay" /\ k.up = task[t].up /\ k.q = task[t].q
        BY <2>0, <1>0, Zenon DEF TaskRec
      <3>2. task' = [task EXCEPT ![t] = k] /\ UNCHANGED <<outq, stats>>
        BY <2>1, <1>0, <1>2, Zenon DEF AnytlsDial
      <3> HIDE DEF k
      <3> QED
        BY <3>1, <3>2, <2>0, <1>0, <1>a, StageStep, Zenon DEF Runs
    <2>2. CASE Stage(t, "quit", Ack + 1)
      BY <2>0, <2>2, <1>2, <1>b, Zenon DEF AnytlsDial
    <2> QED
      BY <2>1, <2>2, <1>2, Zenon DEF AnytlsDial
  <1>3. CASE AnytlsUp(t)
    <2> DEFINE k1 == [task[t] EXCEPT !.up = FALSE, !.stop = TRUE]
               k2 == [task[t] EXCEPT !.up = FALSE]
    <2>0. /\ k1 \in TaskRec /\ ~k1.up /\ k1.pc = task[t].pc /\ k1.q = task[t].q
          /\ k2 \in TaskRec /\ ~k2.up /\ k2.pc = task[t].pc /\ k2.q = task[t].q
      BY <1>0, Zenon DEF TaskRec
    <2>1. task[t].pc = "relay" /\ task[t].up /\ UNCHANGED outq
      BY <1>3, Zenon DEF AnytlsUp
    <2>2. \/ task[t].q > 0 /\ task' = [task EXCEPT ![t].q = @ - 1] /\ Wrote(t, 1, 1)
          \/ task' = [task EXCEPT ![t] = k1] /\ UNCHANGED stats
          \/ task' = [task EXCEPT ![t] = k2] /\ UNCHANGED stats
          \/ task' = [task EXCEPT ![t] = k2] /\ UpEnd(t)
      BY <1>0, <1>3, Zenon DEF AnytlsUp
    <2> HIDE DEF k1, k2
    <2>3. CASE task[t].q > 0 /\ task' = [task EXCEPT ![t].q = @ - 1] /\ Wrote(t, 1, 1)
      BY <2>1, <2>3, <1>a, WriteStep, Zenon
    <2>4. CASE task' = [task EXCEPT ![t] = k1] /\ UNCHANGED stats
      BY <2>0, <2>1, <2>4, <1>c, Zenon
    <2>5. CASE task' = [task EXCEPT ![t] = k2] /\ UNCHANGED stats
      BY <2>0, <2>1, <2>5, <1>c, Zenon
    <2>6. CASE task' = [task EXCEPT ![t] = k2] /\ UpEnd(t)
      BY <2>0, <2>1, <2>6, <1>a, EndStep, Zenon
    <2> QED
      BY <2>2, <2>3, <2>4, <2>5, <2>6, Zenon
  <1>4. CASE AnytlsDown(t)
    <2> DEFINE k1 == [task[t] EXCEPT !.down = FALSE, !.stop = TRUE, !.todo = 1]
               k2 == [task[t] EXCEPT !.down = FALSE, !.todo = 1]
    <2>0. 1 \in Int /\ task[t] \in TaskRec
      BY <1>0
    <2>a. k1 \in TaskRec /\ k1.up = task[t].up /\ k1.pc = task[t].pc /\ k1.q = task[t].q
      BY <2>0, Zenon DEF TaskRec
    <2>b. k2 \in TaskRec /\ k2.up = task[t].up /\ k2.pc = task[t].pc /\ k2.q = task[t].q
      BY <2>0, Zenon DEF TaskRec
    <2>1. task[t].pc = "relay"
      BY <1>4, Zenon DEF AnytlsDown, Free
    <2>2. \/ Send /\ UNCHANGED <<task, stats>>
          \/ task' = [task EXCEPT ![t] = k1] /\ UNCHANGED <<outq, stats>>
          \/ task' = [task EXCEPT ![t] = k2] /\ UNCHANGED <<outq, stats>>
      BY <1>0, <1>4, Zenon DEF AnytlsDown
    <2> HIDE DEF k1, k2
    <2>3. CASE Send /\ UNCHANGED <<task, stats>>
      <3>1. outq' \in 0..OutCap /\ writer' \in Writers
        BY <2>3, <1>0, <1>a, SendRoom, Zenon DEF SessInv, SessTypes
      <3> QED
        BY <3>1, <2>3, <1>0, <1>a, LoopStep, Zenon
    <2>4. CASE task' = [task EXCEPT ![t] = k1] /\ UNCHANGED <<outq, stats>>
      BY <2>a, <2>1, <2>4, <1>c, Zenon
    <2>5. CASE task' = [task EXCEPT ![t] = k2] /\ UNCHANGED <<outq, stats>>
      BY <2>b, <2>1, <2>5, <1>c, Zenon
    <2> QED
      BY <2>2, <2>3, <2>4, <2>5, Zenon
  <1> QED
    BY <1>1, <1>2, <1>3, <1>4, Zenon

\* The counters of a task that is over.
LEMMA PaidStats ==
  ASSUME NEW b \in BOOLEAN
  PROVE  LET s == [NoStats EXCEPT !.unpaid = b]
         IN  /\ s \in StatRec /\ s.owed = 0 /\ s.excess = 0 /\ ~s.clean /\ s.unpaid = b
             /\ NoStats \in StatRec /\ NoStats.owed = 0 /\ NoStats.excess = 0 /\ ~NoStats.clean
             /\ ~NoStats.unpaid
  <1>1. /\ NoStats \in StatRec /\ NoStats.owed = 0 /\ NoStats.excess = 0 /\ ~NoStats.clean
        /\ ~NoStats.unpaid
    BY DEF NoStats, StatRec
  <1> DEFINE s == [NoStats EXCEPT !.unpaid = b]
  <1>2. s \in StatRec /\ s.owed = 0 /\ s.excess = 0 /\ ~s.clean /\ s.unpaid = b
    BY <1>1, Zenon DEF StatRec
  <1> QED
    BY <1>1, <1>2, Zenon

\* The ends of an AnyTLS worker and of the session.
LEMMA AnytlsEnds ==
  ASSUME SessInv, kind = "anytls",
         \/ AnytlsTick \/ AnytlsStop \/ AnytlsJoin \/ AnytlsWriterStop \/ AnytlsEnd
         \/ \E t \in Tasks : AnytlsDone(t)
  PROVE  SessInv'
  <1>0. /\ loop \in LoopRec /\ task \in [Tasks -> TaskRec] /\ outq \in 0..OutCap /\ writer \in Writers
        /\ table \in [Ids -> EntryRec] /\ stats \in [Tasks -> StatRec]
    BY Zenon DEF SessInv, SessTypes
  <1>n. NoEntry \in EntryRec /\ NoEntry.st = "none"
    BY Zenon DEF NoEntry, EntryRec
  <1>1. CASE AnytlsTick \/ AnytlsStop \/ AnytlsJoin
    <2>1. UNCHANGED <<kind, table, task, outq, writer, stats>>
      BY <1>1, Zenon DEF AnytlsTick, AnytlsStop, AnytlsJoin
    <2>2. \/ UNCHANGED loop
          \/ loop.pc = "read" /\ loop' = [loop EXCEPT !.pc = "ending"]
          \/ loop' = [loop EXCEPT !.cancel = TRUE]
          \/ loop.pc = "join" /\ loop' = [loop EXCEPT !.pc = "over"]
      BY <1>1, Zenon DEF AnytlsTick, AnytlsStop, AnytlsJoin, LoopSet, Reading
    <2>3. /\ loop' \in LoopRec /\ (loop.cancel => loop'.cancel)
          /\ \/ loop'.pc = loop.pc /\ loop'.t = loop.t
             \/ loop.pc = "read" /\ loop'.pc = "ending"
             \/ loop.pc # "push" /\ loop'.pc = "over"
      BY <2>2, <1>0, Zenon DEF LoopRec
    <2> QED
      BY <2>1, <2>3, <1>0, LoopStep, Zenon
  <1>2. CASE AnytlsWriterStop
    <2>1. outq' \in 0..OutCap /\ writer' \in Writers /\ UNCHANGED <<kind, loop, table, task, stats>>
      BY <1>2, MuxAssumption DEF AnytlsWriterStop, Writers
    <2> QED
      BY <2>1, <1>0, LoopStep, Zenon
  <1>3. ASSUME NEW t \in Tasks, AnytlsDone(t) PROVE SessInv'
    <2> DEFINE s == [NoStats EXCEPT !.unpaid = FALSE]
    <2>1. s \in StatRec /\ s.owed = 0 /\ s.excess = 0 /\ ~s.clean /\ ~s.unpaid
      BY PaidStats, Zenon
    <2>2. /\ stats' = [stats EXCEPT ![t] = s] /\ Over(t) /\ Live(t) /\ UNCHANGED <<kind, loop, outq, writer>>
          /\ table' = [i \in Ids |-> IF table[i].t = t THEN NoEntry ELSE table[i]]
      BY <1>3, Zenon DEF AnytlsDone, Paid, Free, Live
    <2> HIDE DEF s
    <2>3. /\ table' \in [Ids -> EntryRec]
          /\ \A i \in Ids : \/ table'[i] = table[i] /\ table[i].t # t
                            \/ table[i].t = t /\ table'[i].st = "none"
      BY <2>2, <1>0, <1>n, Zenon
    <2> QED
      BY <2>1, <2>2, <2>3, OverStep, Zenon
  <1>4. CASE AnytlsEnd
    <2> DEFINE l == [loop EXCEPT !.pc = "join", !.cancel = TRUE]
               k == [NoTask EXCEPT !.pc = "ended"]
               s == [NoStats EXCEPT !.unpaid = TRUE]
    <2>1. l \in LoopRec /\ l.pc = "join" /\ l.cancel /\ l.t = loop.t
      BY <1>0, Zenon DEF LoopRec
    <2>2. k \in TaskRec /\ ~Runs(k) /\ ~k.up /\ k.pc = "ended"
      BY EndedTask, Zenon
    <2>3. s \in StatRec /\ s.owed = 0 /\ s.excess = 0 /\ ~s.clean /\ s.unpaid
      BY PaidStats, Zenon
    <2>4. /\ loop' = l /\ UNCHANGED <<kind, outq, writer>> /\ loop.pc # "push"
          /\ task' = [t \in Tasks |-> IF Live(t) THEN k ELSE task[t]]
          /\ stats' = [t \in Tasks |-> IF Live(t) THEN s ELSE stats[t]]
          /\ table' = [i \in Ids |-> NoEntry]
      BY <1>4, Zenon DEF AnytlsEnd, LoopSet, Paid, Reading
    <2> HIDE DEF l, k, s
    <2>5. SessTypes'
      BY <2>1, <2>2, <2>3, <2>4, <1>0, <1>n, Zenon DEF SessTypes
    <2>6. FitsInv'
      <3> SUFFICES ASSUME NEW t \in Tasks PROVE Fits(t, task[t], stats[t])'
        BY Zenon DEF FitsInv
      <3>1. Fits(t, task[t], stats[t])
        BY Zenon DEF SessInv, FitsInv
      <3>2. CASE Live(t)
        BY <3>2, <2>1, <2>2, <2>3, <2>4, Zenon DEF Fits
      <3>3. CASE ~Live(t)
        BY <3>1, <3>3, <2>1, <2>4, Zenon DEF Fits, Live, Runs
      <3> QED
        BY <3>2, <3>3, Zenon
    <2>7. PushInv' /\ RowsInv' /\ JoinInv'
      BY <2>1, <2>4, <1>n, Zenon DEF PushInv, RowsInv, JoinInv
    <2>8. RoomInv'
      <3>1. Entries' \subseteq Entries
        BY <2>4, <1>n, Zenon DEF Entries
      <3> QED
        BY <3>1, <2>4, RoomKept, Zenon DEF SessInv
    <2> QED
      BY <2>5, <2>6, <2>7, <2>8, Zenon DEF SessInv
  <1> QED
    BY <1>1, <1>2, <1>3, <1>4, Zenon

-----------------------------------------------------------------------------
(* The multiplexer of VLESS.                                               *)

\* The frames of a client.
LEMMA VlessFrames ==
  ASSUME SessInv, kind = "vless", VlessFrame
  PROVE  SessInv'
  <1>0. /\ loop \in LoopRec /\ table \in [Ids -> EntryRec] /\ loop.pc = "read"
        /\ stats \in [Tasks -> StatRec] /\ UNCHANGED <<kind, outq, writer>> /\ RoomInv'
    BY Zenon DEF SessInv, SessTypes, VlessFrame, Reading, RoomInv
  <1>a. ASSUME NEW r \in Nat, Handled(r)
        PROVE  loop' \in LoopRec /\ loop'.pc = "read" /\ loop'.cancel = loop.cancel
    BY <1>0, <1>a, Zenon DEF Handled, LoopSet, LoopRec
  <1>1. ASSUME NEW r \in Nat, Handled(r), UNCHANGED <<table, task, stats>> PROVE SessInv'
    <2>1. RowsInv' /\ JoinInv'
      BY <1>0, <1>1, Zenon DEF SessInv, RowsInv, JoinInv, Live
    <2> QED
      BY <2>1, <1>0, <1>1, <1>a, FrameStep, Zenon
  <1>2. ASSUME NEW i \in Ids, NEW t \in Tasks, NEW d \in 0..1, Handled(0), Spawn(t, i, "dial", d),
               stats' = [stats EXCEPT ![t].owed = d, ![t].excess = d]
        PROVE  SessInv'
    <2> DEFINE n == [stats[t] EXCEPT !.owed = d, !.excess = d]
    <2>1. /\ n \in StatRec /\ n.owed = d /\ n.clean = stats[t].clean /\ n.unpaid = stats[t].unpaid
          /\ n.excess = d
      <3>1. d \in Nat /\ d \in Int /\ stats[t] \in StatRec
        BY <1>0
      <3> QED
        BY <3>1, Zenon DEF StatRec
    <2>2. stats' = [stats EXCEPT ![t] = n]
      BY <1>2, <1>0, Zenon
    <2> HIDE DEF n
    <2>3. /\ loop.pc = "read" /\ Spawn(t, i, "dial", d) /\ n \in StatRec
          /\ stats' = [stats EXCEPT ![t] = n] /\ "dial" \in {"head", "dial", "relay"}
          /\ loop' \in LoopRec /\ loop'.cancel = loop.cancel
          /\ \/ loop'.pc = "read" /\ n.owed = d
             \/ loop'.pc = "push" /\ loop'.t = t /\ n.owed = d + 1
          /\ n.clean = stats[t].clean /\ n.unpaid = stats[t].unpaid
          /\ (kind = "vless" => n.excess = n.owed) /\ (kind = "anytls" => n.excess = 0)
          /\ UNCHANGED <<kind, outq, writer>> /\ RoomInv' /\ (kind = "ss" => table[i].st = "none")
      BY <2>1, <2>2, <1>2, <1>0, <1>a, Zenon
    <2> QED
      BY <2>3, SpawnStep, Zenon
  <1>3. ASSUME NEW i \in Ids, VlessKeep(i) PROVE SessInv'
    <2> DEFINE t == table[i].t
    <2>1. CASE table[i].st = "dead"
      <3> DEFINE n == [stats[t] EXCEPT !.unpaid = TRUE]
      <3>1. t \in Tasks
        BY <2>1, Zenon DEF SessInv, RowsInv
      <3>2. /\ n \in StatRec /\ n.owed = stats[t].owed /\ n.clean = stats[t].clean
            /\ n.excess = stats[t].excess
        BY <3>1, <1>0, Zenon DEF StatRec
      <3>3. Handled(0) /\ stats' = [stats EXCEPT ![t] = n] /\ UNCHANGED <<table, task>>
        BY <2>1, <3>1, <1>0, <1>3, Zenon DEF VlessKeep
      <3> HIDE DEF n, t
      <3>4. loop' \in LoopRec /\ loop'.pc = "read" /\ loop'.cancel = loop.cancel
        BY <3>3, <1>a, Zenon
      <3>5. SessTypes'
        BY <3>1, <3>2, <3>3, <3>4, <1>0, Zenon DEF SessInv, SessTypes
      <3>6. FitsInv'
        <4> SUFFICES ASSUME NEW u \in Tasks PROVE Fits(u, task[u], stats[u])'
          BY Zenon DEF FitsInv
        <4>1. Fits(u, task[u], stats[u])
          BY Zenon DEF SessInv, FitsInv
        <4>2. /\ stats'[u].owed = stats[u].owed /\ stats'[u].clean = stats[u].clean
              /\ stats'[u].excess = stats[u].excess /\ task'[u] = task[u]
          BY SMTT(20), <3>1, <3>2, <3>3, <1>0
        <4>3. Owing(u, task[u], stats[u]) => Owing(u, task[u], stats[u])'
          BY SMTT(20), <4>2, <3>4, <1>0 DEF Owing
        <4> QED
          BY <4>1, <4>2, <4>3, <1>0, Zenon DEF Fits
      <3>7. PushInv' /\ RowsInv' /\ JoinInv'
        BY <3>3, <3>4, <1>0, Zenon DEF SessInv, PushInv, RowsInv, JoinInv, Live
      <3> QED
        BY <3>5, <3>6, <3>7, <1>0, Zenon DEF SessInv
    <2>2. CASE table[i].st = "active"
      <3> DEFINE n == [stats[t] EXCEPT !.owed = @ + 1, !.excess = @ + 1]
      <3>1. t \in Tasks
        BY <2>2, Zenon DEF SessInv, RowsInv
      <3>2. /\ n \in StatRec /\ n.owed = stats[t].owed + 1 /\ n.clean = stats[t].clean
            /\ n.unpaid = stats[t].unpaid /\ n.excess = stats[t].excess + 1
        <4>1. stats[t] \in StatRec /\ stats[t].owed + 1 \in Nat /\ stats[t].excess + 1 \in Int
          BY <3>1, <1>0 DEF StatRec
        <4> QED
          BY <4>1, Zenon DEF StatRec
      <3>3. /\ loop' = [loop EXCEPT !.pc = "push", !.t = t] /\ UNCHANGED <<table, task>>
            /\ stats' = IF task[t].up THEN [stats EXCEPT ![t] = n] ELSE stats
        BY <2>2, <3>1, <1>0, <1>3, Zenon DEF VlessKeep, LoopSet
      <3> HIDE DEF n, t
      <3>4. t = table[i].t
        BY Zenon DEF t
      <3> QED
        BY Zenon, <3>2, <3>3, <3>4, <2>2, <1>0, PushStep
    <2>3. CASE table[i].st \notin {"dead", "active"}
      BY <2>3, <1>1, <1>3, Zenon DEF VlessKeep
    <2> QED
      BY <2>1, <2>2, <2>3, Zenon
  <1>4. ASSUME NEW i \in Ids, Handled(0), table' = [table EXCEPT ![i] = NoEntry], UNCHANGED <<task, stats>>
        PROVE  SessInv'
    <2>1. NoEntry \in EntryRec /\ NoEntry.st = "none"
      BY Zenon DEF NoEntry, EntryRec
    <2>2. /\ table' \in [Ids -> EntryRec]
          /\ \A j \in Ids : table'[j] = IF j = i THEN NoEntry ELSE table[j]
      BY <2>1, <1>4, <1>0, Zenon
    <2>3. RowsInv' /\ JoinInv'
      BY <2>1, <2>2, <1>0, <1>4, Zenon DEF SessInv, RowsInv, JoinInv, Live
    <2> QED
      BY <2>2, <2>3, <1>0, <1>4, <1>a, FrameStep, Zenon
  <1> QED
    BY <1>1, <1>2, <1>3, <1>4, Zenon DEF VlessFrame, VlessNew

\* The tasks of VLESS, the end of the session and the report.
LEMMA VlessWorks ==
  ASSUME SessInv, kind = "vless",
         \/ VlessEnd \/ VlessReport
         \/ \E t \in Tasks : VlessDial(t) \/ VlessUp(t) \/ VlessDown(t) \/ VlessDone(t)
  PROVE  SessInv'
  <1>0. /\ loop \in LoopRec /\ task \in [Tasks -> TaskRec] /\ outq \in 0..OutCap /\ writer \in Writers
        /\ table \in [Ids -> EntryRec] /\ stats \in [Tasks -> StatRec]
    BY Zenon DEF SessInv, SessTypes
  <1>n. NoEntry \in EntryRec /\ NoEntry.st = "none"
    BY Zenon DEF NoEntry, EntryRec
  <1>1. CASE VlessEnd
    <2>1. LoopInit \in LoopRec /\ ~LoopInit.cancel
      BY DEF LoopInit, LoopRec
    <2> DEFINE l == [LoopInit EXCEPT !.pc = "over"]
    <2>2. l \in LoopRec /\ l.pc = "over"
      BY <2>1, Zenon DEF LoopRec
    <2>3. /\ loop' = l /\ table' = [i \in Ids |-> NoEntry] /\ writer' \in Writers /\ outq' \in 0..OutCap
          /\ UNCHANGED <<kind, task, stats>>
      BY <1>1, MuxAssumption DEF VlessEnd, LoopSet, Writers
    <2> HIDE DEF l
    <2>4. SessTypes'
      BY SMTT(20), <2>2, <2>3, <1>0, <1>n DEF SessTypes
    <2>5. FitsInv'
      <3> SUFFICES ASSUME NEW u \in Tasks PROVE Fits(u, task[u], stats[u])'
        BY Zenon DEF FitsInv
      <3>1. Fits(u, task[u], stats[u])
        BY Zenon DEF SessInv, FitsInv
      <3>2. task[u].q \in Nat /\ stats[u].owed \in Nat
        BY <1>0, MuxAssumption DEF TaskRec, StatRec
      <3>3. Owing(u, task[u], stats[u]) => Owing(u, task[u], stats[u])'
        BY <3>2, <2>2, <2>3 DEF Owing
      <3> QED
        BY <3>1, <3>3, <2>3, Zenon DEF Fits
    <2>6. PushInv' /\ RowsInv' /\ JoinInv' /\ RoomInv'
      BY <2>2, <2>3, <1>n, Zenon DEF PushInv, RowsInv, JoinInv, RoomInv
    <2> QED
      BY <2>4, <2>5, <2>6, Zenon DEF SessInv
  <1>2. CASE VlessReport
    <2>1. /\ UNCHANGED <<kind, loop, table, task, outq, writer>>
          /\ stats' = [t \in Tasks |-> [stats[t] EXCEPT !.unpaid = FALSE]]
      BY <1>2, Zenon DEF VlessReport
    <2>2. /\ stats' \in [Tasks -> StatRec]
          /\ \A u \in Tasks : /\ stats'[u].owed = stats[u].owed /\ stats'[u].clean = stats[u].clean
                              /\ stats'[u].excess = stats[u].excess
      BY <2>1, <1>0, Zenon DEF StatRec
    <2>3. SessTypes'
      BY <2>1, <2>2, Zenon DEF SessInv, SessTypes
    <2>4. FitsInv'
      BY <2>1, <2>2 DEF SessInv, FitsInv, Fits, Owing, Leads
    <2>5. PushInv' /\ RowsInv' /\ JoinInv' /\ RoomInv'
      BY <2>1, Zenon DEF SessInv, PushInv, Leads, RowsInv, JoinInv, RoomInv, Live
    <2> QED
      BY <2>3, <2>4, <2>5, Zenon DEF SessInv
  <1>3. ASSUME NEW t \in Tasks, VlessDial(t) PROVE SessInv'
    <2> DEFINE k(pc, f) == [task[t] EXCEPT !.pc = pc, !.todo = f]
    <2>1. ASSUME NEW pc \in {"relay", "quit"}, NEW f \in Int
          PROVE  /\ k(pc, f) \in TaskRec /\ k(pc, f).pc = pc /\ k(pc, f).up = task[t].up
                 /\ k(pc, f).q = task[t].q
      BY <1>0, Zenon DEF TaskRec
    <2>2. /\ \/ task' = [task EXCEPT ![t] = k("relay", 0)]
             \/ task' = [task EXCEPT ![t] = k("quit", 1)]
          /\ UNCHANGED <<kind, loop, table, outq, writer, stats>> /\ task[t].pc = "dial"
      BY Zenon, <1>0, <1>3 DEF VlessDial, Stage, Free
    <2> HIDE DEF k
    <2>3. task[t].up /\ Live(t)
      BY <2>2, Zenon DEF SessInv, FitsInv, Fits, Live
    <2>4. k("relay", 0) \in TaskRec /\ k("relay", 0).pc = "relay" /\ k("relay", 0).up = task[t].up
          /\ k("relay", 0).q = task[t].q
      BY <2>1
    <2>5. k("quit", 1) \in TaskRec /\ k("quit", 1).pc = "quit" /\ k("quit", 1).up = task[t].up
          /\ k("quit", 1).q = task[t].q
      BY <2>1
    <2>6. CASE task' = [task EXCEPT ![t] = k("relay", 0)]
      BY <2>2, <2>3, <2>4, <2>6, <1>0, StageStep, Zenon DEF Runs
    <2>7. CASE task' = [task EXCEPT ![t] = k("quit", 1)]
      BY <2>2, <2>3, <2>5, <2>7, <1>0, StageStep, Zenon DEF Runs
    <2> QED
      BY <2>2, <2>6, <2>7, Zenon
  \* Both halves end together.
  <1>q. ASSUME NEW t \in Tasks
        PROVE  LET k == [task[t] EXCEPT !.pc = "quit", !.up = FALSE, !.todo = 1]
               IN  k \in TaskRec /\ k.pc = "quit" /\ ~k.up
    <2>1. task[t] \in TaskRec /\ 1 \in Int
      BY <1>0
    <2> QED
      BY <2>1, Zenon DEF TaskRec
  <1>4. ASSUME NEW t \in Tasks, VlessUp(t) PROVE SessInv'
    <2> DEFINE k == [task[t] EXCEPT !.pc = "quit", !.up = FALSE, !.todo = 1]
    <2>1. UNCHANGED <<kind, loop, table, outq, writer>> /\ task[t].pc = "relay"
      BY Zenon, <1>4 DEF VlessUp, Free
    <2>2. task[t].up
      BY <2>1, Zenon DEF SessInv, FitsInv, Fits
    <2>3. CASE task[t].q > 0 /\ task' = [task EXCEPT ![t].q = @ - 1] /\ Wrote(t, 1, 0)
      BY <2>1, <2>2, <2>3, WriteStep, Zenon
    <2>4. CASE UpEnd(t) /\ task' = [task EXCEPT ![t].pc = "quit", ![t].up = FALSE, ![t].todo = 1]
      <3>1. task' = [task EXCEPT ![t] = k] /\ k \in TaskRec /\ k.pc = "quit" /\ ~k.up
        BY Zenon, <2>4, <1>0, <1>q
      <3> HIDE DEF k
      <3> QED
        BY <3>1, <2>1, <2>4, EndStep, Zenon
    <2> QED
      BY Zenon, <2>3, <2>4, <1>4 DEF VlessUp
  <1>5. ASSUME NEW t \in Tasks, VlessDown(t) PROVE SessInv'
    <2> DEFINE k == [task[t] EXCEPT !.pc = "quit", !.up = FALSE, !.todo = 1]
    <2>1. UNCHANGED <<kind, loop, table, writer>> /\ Live(t)
      BY Zenon, <1>5 DEF VlessDown, Free, Live
    <2>2. CASE Send /\ UNCHANGED <<task, stats>>
      BY <2>1, <2>2, <1>0, SendRoom, LoopStep, Zenon
    <2>3. CASE /\ task' = [task EXCEPT ![t].pc = "quit", ![t].up = FALSE, ![t].todo = 1]
               /\ UNCHANGED <<outq, stats>>
      <3>1. task' = [task EXCEPT ![t] = k] /\ k \in TaskRec /\ k.pc = "quit" /\ ~k.up
        BY Zenon, <2>3, <1>0, <1>q
      <3> HIDE DEF k
      <3> QED
        BY <3>1, <2>1, <2>3, <1>0, StageStep, Zenon DEF Runs
    <2> QED
      BY Zenon, <2>2, <2>3, <1>5 DEF VlessDown
  <1>6. ASSUME NEW t \in Tasks, VlessDone(t) PROVE SessInv'
    <2> DEFINE s == [NoStats EXCEPT !.unpaid = TRUE]
    <2>1. s \in StatRec /\ s.owed = 0 /\ s.excess = 0 /\ ~s.clean
      BY PaidStats, Zenon
    <2>2. /\ stats' = [stats EXCEPT ![t] = s] /\ Over(t) /\ Live(t) /\ UNCHANGED <<kind, loop, outq, writer>>
          /\ table' = [i \in Ids |-> IF table[i].t = t THEN [table[i] EXCEPT !.st = "dead"] ELSE table[i]]
      BY <1>6, Zenon DEF VlessDone, Paid, Free, Live
    <2> HIDE DEF s
    <2>3. /\ table' \in [Ids -> EntryRec]
          /\ \A i \in Ids : \/ table'[i] = table[i]
                            \/ table[i].t = t /\ table'[i].st = "dead" /\ table'[i].t = t
      BY <2>2, <1>0, ZenonT(30) DEF EntryRec
    <2> QED
      BY <2>1, <2>2, <2>3, OverStep, Zenon
  <1> QED
    BY <1>1, <1>2, <1>3, <1>4, <1>5, <1>6, Zenon

-----------------------------------------------------------------------------
(* The mux of the Shadowsocks plugins.                                     *)

\* The frames of a client, and a task that is joined.
LEMMA SsFrames ==
  ASSUME SessInv, kind = "ss", SsFrame \/ \E t \in Tasks : SsJoin(t)
  PROVE  SessInv'
  <1>0. /\ loop \in LoopRec /\ table \in [Ids -> EntryRec] /\ loop.pc = "read"
        /\ stats \in [Tasks -> StatRec] /\ task \in [Tasks -> TaskRec]
        /\ UNCHANGED <<kind, outq, writer>>
    BY Zenon DEF SessInv, SessTypes, SsFrame, SsJoin, Reading
  <1>a. ASSUME NEW r \in Nat, Handled(r)
        PROVE  loop' \in LoopRec /\ loop'.pc = "read" /\ loop'.cancel = loop.cancel
    BY <1>0, <1>a, Zenon DEF Handled, LoopSet, LoopRec
  <1>1. ASSUME UNCHANGED <<table, task, stats>>, loop' \in LoopRec, loop'.pc \in {"read", "ending"},
               loop'.cancel = loop.cancel
        PROVE  SessInv'
    <2>1. RowsInv' /\ JoinInv' /\ RoomInv'
      BY <1>0, <1>1, Zenon DEF SessInv, RowsInv, JoinInv, RoomInv, Entries, Live
    <2> QED
      BY <2>1, <1>0, <1>1, FrameStep, Zenon
  <1>2. ASSUME NEW i \in Ids, SsNew(i) PROVE SessInv'
    <2>1. CASE Cardinality(Entries) >= MaxStreams \/ table[i].st # "none"
      <3>1. loop' = [loop EXCEPT !.pc = "ending"] /\ UNCHANGED <<table, task, stats>>
        BY Zenon, <2>1, <1>2 DEF SsNew, LoopSet
      <3>2. loop' \in LoopRec /\ loop'.pc = "ending" /\ loop'.cancel = loop.cancel
        BY <3>1, <1>0, Zenon DEF LoopRec
      <3> QED
        BY <3>1, <3>2, <1>1, Zenon
    <2>2. CASE ~(Cardinality(Entries) >= MaxStreams \/ table[i].st # "none")
      <3>1. PICK t \in Tasks :
              /\ Spawn(t, i, "relay", 0)
              /\ \/ Handled(0) /\ UNCHANGED stats
                 \/ /\ LoopSet([loop EXCEPT !.pc = "push", !.t = t])
                    /\ stats' = [stats EXCEPT ![t].owed = 1]
        BY Zenon, <2>2, <1>2 DEF SsNew
      <3>2. stats[t] \in StatRec /\ stats[t].owed = 0 /\ 1 \in Nat
        BY <3>1, <1>0, Zenon DEF SessInv, FitsInv, Fits, Runs, Spawn
      <3>3. Entries' \subseteq Entries \cup {i}
        BY <3>1, <1>0, Zenon DEF Entries, Spawn
      <3>4. Cardinality(Entries) < MaxStreams
        <4>1. IsFiniteSet(Entries)
          BY FS_Subset, MuxAssumption, Zenon DEF Entries
        <4>2. Cardinality(Entries) \in Nat
          BY <4>1, FS_CardinalityType, Zenon
        <4> QED
          BY <4>2, <2>2, MuxAssumption
      <3>5. RoomInv'
        BY <3>3, <3>4, RoomTaken, Zenon
      <3>6. CASE Handled(0) /\ UNCHANGED stats
        <4> DEFINE n == stats[t]
        <4>1. /\ n \in StatRec /\ stats' = [stats EXCEPT ![t] = n] /\ n.owed = 0
              /\ n.clean = stats[t].clean /\ n.unpaid = stats[t].unpaid
          BY <3>2, <3>6, <1>0, Zenon
        <4> HIDE DEF n
        <4>2. /\ loop.pc = "read" /\ Spawn(t, i, "relay", 0) /\ n \in StatRec /\ 0 \in 0..1
              /\ stats' = [stats EXCEPT ![t] = n] /\ "relay" \in {"head", "dial", "relay"}
              /\ loop' \in LoopRec /\ loop'.cancel = loop.cancel
              /\ \/ loop'.pc = "read" /\ n.owed = 0
                 \/ loop'.pc = "push" /\ loop'.t = t /\ n.owed = 0 + 1
              /\ n.clean = stats[t].clean /\ n.unpaid = stats[t].unpaid
              /\ (kind = "vless" => n.excess = n.owed) /\ (kind = "anytls" => n.excess = 0)
              /\ UNCHANGED <<kind, outq, writer>> /\ RoomInv' /\ (kind = "ss" => table[i].st = "none")
          BY <4>1, <3>1, <3>5, <3>6, <2>2, <1>0, <1>a
        <4> QED
          BY Zenon, <4>2, SpawnStep
      <3>7. CASE /\ LoopSet([loop EXCEPT !.pc = "push", !.t = t])
                 /\ stats' = [stats EXCEPT ![t].owed = 1]
        <4> DEFINE n == [stats[t] EXCEPT !.owed = 1]
        <4>1. n \in StatRec /\ n.owed = 1 /\ n.clean = stats[t].clean /\ n.unpaid = stats[t].unpaid
          BY <3>2, Zenon DEF StatRec
        <4>2. stats' = [stats EXCEPT ![t] = n]
          BY <3>7, <1>0, Zenon
        <4>3. loop' \in LoopRec /\ loop'.pc = "push" /\ loop'.t = t /\ loop'.cancel = loop.cancel
          <5>1. loop' = [loop EXCEPT !.pc = "push", !.t = t]
            BY <3>7, Zenon DEF LoopSet
          <5> QED
            BY <5>1, <1>0, Zenon DEF LoopRec
        <4> HIDE DEF n
        <4>4. /\ loop.pc = "read" /\ Spawn(t, i, "relay", 0) /\ n \in StatRec /\ 0 \in 0..1
              /\ stats' = [stats EXCEPT ![t] = n] /\ "relay" \in {"head", "dial", "relay"}
              /\ loop' \in LoopRec /\ loop'.cancel = loop.cancel
              /\ \/ loop'.pc = "read" /\ n.owed = 0
                 \/ loop'.pc = "push" /\ loop'.t = t /\ n.owed = 0 + 1
              /\ n.clean = stats[t].clean /\ n.unpaid = stats[t].unpaid
              /\ (kind = "vless" => n.excess = n.owed) /\ (kind = "anytls" => n.excess = 0)
              /\ UNCHANGED <<kind, outq, writer>> /\ RoomInv' /\ (kind = "ss" => table[i].st = "none")
          BY <4>1, <4>2, <4>3, <3>1, <3>5, <2>2, <1>0, SMTT(30)
        <4> QED
          BY <4>4, SpawnStep, Zenon
      <3> QED
        BY <3>1, <3>6, <3>7, Zenon
    <2> QED
      BY <2>1, <2>2, Zenon
  <1>3. ASSUME NEW i \in Ids, SsData(i) PROVE SessInv'
    <2> DEFINE t == table[i].t
    <2>1. CASE table[i].st = "active" /\ Pushing(t)
      <3> DEFINE n == [stats[t] EXCEPT !.owed = @ + 1]
      <3>1. t \in Tasks
        BY <2>1, Zenon DEF SessInv, RowsInv
      <3>2. /\ n \in StatRec /\ n.owed = stats[t].owed + 1 /\ n.clean = stats[t].clean
            /\ n.unpaid = stats[t].unpaid /\ n.excess = stats[t].excess
        <4>1. stats[t] \in StatRec /\ stats[t].owed + 1 \in Nat
          BY <3>1, <1>0 DEF StatRec
        <4> QED
          BY <4>1, Zenon DEF StatRec
      <3>3. /\ loop' = [loop EXCEPT !.pc = "push", !.t = t] /\ UNCHANGED <<table, task>>
            /\ stats' = IF task[t].up THEN [stats EXCEPT ![t] = n] ELSE stats
        BY <2>1, <3>1, <1>0, <1>3, Zenon DEF SsData, Pushing, LoopSet
      <3> HIDE DEF n, t
      <3>4. t = table[i].t
        BY Zenon DEF t
      <3> QED
        BY Zenon, <3>2, <3>3, <3>4, <2>1, <1>0, PushStep
    <2>2. CASE UNCHANGED stats /\ (Handled(0) \/ Handled(1))
      BY <2>2, <1>1, <1>3, <1>a, Zenon DEF SsData
    <2> QED
      BY <2>1, <2>2, <1>3, Zenon DEF SsData
  <1>4. ASSUME NEW i \in Ids, NEW reset \in BOOLEAN, SsEnd(i, reset) PROVE SessInv'
    <2> DEFINE t == table[i].t
    <2>1. t \in Tasks
      BY <1>4, <1>0, Zenon DEF SsEnd, SessInv, RowsInv, EntryRec
    <2>2. /\ table[i].st # "none" /\ Handled(0) /\ UNCHANGED stats
          /\ table' = [table EXCEPT ![i].st = "closed"]
          /\ task' = [task EXCEPT ![t].stop = @ \/ reset]
      BY <1>4, Zenon DEF SsEnd
    <2>3. loop' \in LoopRec /\ loop'.pc = "read" /\ loop'.cancel = loop.cancel
      BY <2>2, <1>a, Zenon
    <2>4. /\ table' \in [Ids -> EntryRec]
          /\ \A j \in Ids : /\ table'[j].t = table[j].t
                            /\ table'[j].st = IF j = i THEN "closed" ELSE table[j].st
      BY <2>2, <1>0, Zenon DEF EntryRec
    <2> HIDE DEF t
    <2>5. /\ task' \in [Tasks -> TaskRec]
          /\ \A u \in Tasks : /\ task'[u].pc = task[u].pc /\ task'[u].up = task[u].up
                              /\ task'[u].q = task[u].q
      <3>1. task[t] \in TaskRec /\ (task[t].stop \/ reset) \in BOOLEAN
        BY <2>1, <1>0, Zenon DEF TaskRec
      <3> DEFINE k == [task[t] EXCEPT !.stop = @ \/ reset]
      <3>2. k \in TaskRec /\ k.pc = task[t].pc /\ k.up = task[t].up /\ k.q = task[t].q
        BY <3>1, Zenon DEF TaskRec
      <3>3. task' = [task EXCEPT ![t] = k]
        BY <2>1, <2>2, <1>0, Zenon
      <3> HIDE DEF k
      <3> QED
        BY <2>1, <3>2, <3>3, <1>0, Zenon
    <2>6. SessTypes'
      BY <2>2, <2>3, <2>4, <2>5, <1>0, Zenon DEF SessInv, SessTypes
    <2>7. FitsInv'
      <3> SUFFICES ASSUME NEW u \in Tasks PROVE Fits(u, task[u], stats[u])'
        BY Zenon DEF FitsInv
      <3>1. Fits(u, task[u], stats[u])
        BY Zenon DEF SessInv, FitsInv
      <3>2. Owing(u, task[u], stats[u]) => Owing(u, task[u], stats[u])'
        BY SMTT(20), <2>2, <2>3, <2>5, <1>0 DEF Owing
      <3> QED
        BY <3>1, <3>2, <2>2, <2>3, <2>5, <1>0, ZenonT(30) DEF Fits, Runs
    <2>8. PushInv' /\ RowsInv'
      BY <2>1, <2>3, <2>4, <1>0, Zenon DEF SessInv, PushInv, RowsInv, t
    <2>9. JoinInv'
      BY <2>2, <2>3, <2>4, <2>5, <1>0 DEF SessInv, JoinInv, Live
    <2>10. Entries' \subseteq Entries
      BY <2>2, <2>4, Zenon DEF Entries
    <2>11. RoomInv'
      BY <2>10, <1>0, RoomKept, Zenon DEF SessInv
    <2> QED
      BY <2>6, <2>7, <2>8, <2>9, <2>11, Zenon DEF SessInv
  <1>5. ASSUME NEW t \in Tasks, SsJoin(t) PROVE SessInv'
    <2>1. /\ UNCHANGED <<kind, loop, task, outq, writer, stats>> /\ ~Live(t)
          /\ table' = [i \in Ids |-> IF table[i].t = t THEN NoEntry ELSE table[i]]
      BY <1>5, Zenon DEF SsJoin, Live
    <2>2. NoEntry \in EntryRec /\ NoEntry.st = "none"
      BY Zenon DEF NoEntry, EntryRec
    <2>3. table' \in [Ids -> EntryRec] /\ RowsInv' /\ Entries' \subseteq Entries
      BY <2>1, <2>2, <1>0, Zenon DEF SessInv, RowsInv, Entries
    <2>4. JoinInv'
      BY <2>1, <2>2, <1>0, Zenon DEF SessInv, JoinInv, Live
    <2>5. RoomInv'
      BY <2>3, <1>0, RoomKept, Zenon DEF SessInv
    <2> QED
      BY <2>1, <2>3, <2>4, <2>5, <1>0, FrameStep, Zenon
  <1>6. ASSUME Handled(1), UNCHANGED <<table, task, stats>> PROVE SessInv'
    BY <1>6, <1>1, <1>a, Zenon
  <1> QED
    BY <1>2, <1>3, <1>4, <1>5, <1>6, Zenon DEF SsFrame

\* The tasks of a Shadowsocks session, and its end.
LEMMA SsWorks ==
  ASSUME SessInv, kind = "ss",
         \/ SsStall \/ SsStop \/ SsOver
         \/ \E t \in Tasks : SsUp(t) \/ SsDown(t) \/ SsHandled(t) \/ SsDone(t) \/ SsCancelled(t)
  PROVE  SessInv'
  <1>0. /\ loop \in LoopRec /\ task \in [Tasks -> TaskRec] /\ outq \in 0..OutCap /\ writer \in Writers
        /\ table \in [Ids -> EntryRec] /\ 0 \in 0..OutCap /\ "gone" \in Writers
    BY MuxAssumption DEF SessInv, SessTypes, Writers
  <1>1. CASE SsStall
    <2> DEFINE l == [loop EXCEPT !.pc = "ending", !.t = None]
    <2>1. l \in LoopRec /\ l.pc = "ending" /\ l.cancel = loop.cancel
      BY <1>0, Zenon DEF LoopRec
    <2>2. loop' = l /\ loop.pc = "push" /\ UNCHANGED <<kind, table, task, outq, writer, stats>>
      BY <1>1, Zenon DEF SsStall, LoopSet
    <2> HIDE DEF l
    <2> QED
      BY <2>1, <2>2, <1>0, LoopStep, Zenon
  <1>2. CASE SsStop
    <2> DEFINE l == [loop EXCEPT !.pc = "join", !.todo = 0, !.t = None, !.cancel = TRUE]
    <2>1. l \in LoopRec /\ l.pc = "join" /\ l.cancel
      BY <1>0, Zenon DEF LoopRec
    <2>2. /\ loop' = l /\ loop.pc \in {"read", "push", "ending"} /\ UNCHANGED <<kind, table, task, stats>>
          /\ outq' = 0 /\ writer' = "gone"
      BY <1>2, Zenon DEF SsStop, LoopSet
    <2> HIDE DEF l
    <2> QED
      BY <2>1, <2>2, <1>0, LoopStep, Zenon
  <1>3. CASE SsOver
    <2> DEFINE l == [loop EXCEPT !.pc = "over"]
    <2>1. l \in LoopRec /\ l.pc = "over" /\ l.cancel = loop.cancel
      BY <1>0, Zenon DEF LoopRec
    <2>2. loop' = l /\ loop.pc = "join" /\ UNCHANGED <<kind, table, task, outq, writer, stats>>
      BY <1>3, Zenon DEF SsOver, LoopSet
    <2> HIDE DEF l
    <2> QED
      BY <2>1, <2>2, <1>0, LoopStep, Zenon
  <1>4. ASSUME NEW t \in Tasks, SsUp(t) PROVE SessInv'
    <2> DEFINE k == [task[t] EXCEPT !.up = FALSE]
    <2>1. UNCHANGED <<kind, loop, table, outq, writer>> /\ task[t].pc = "relay" /\ task[t].up
      BY <1>4, Zenon DEF SsUp
    <2>2. CASE task[t].q > 0 /\ task' = [task EXCEPT ![t].q = @ - 1] /\ Wrote(t, 1, 1)
      BY <2>1, <2>2, WriteStep, Zenon
    <2>3. CASE UpEnd(t) /\ task' = [task EXCEPT ![t].up = FALSE]
      <3>1. k \in TaskRec /\ k.pc = "relay" /\ ~k.up
        BY <2>1, <1>0, Zenon DEF TaskRec
      <3>2. task' = [task EXCEPT ![t] = k]
        BY <2>3, <1>0, Zenon
      <3> HIDE DEF k
      <3> QED
        BY <3>1, <3>2, <2>1, <2>3, EndStep, Zenon
    <2> QED
      BY <2>2, <2>3, <1>4, Zenon DEF SsUp
  <1>5. ASSUME NEW t \in Tasks, SsDown(t) PROVE SessInv'
    BY <1>0, <1>5, SendRoom, LoopStep, Zenon DEF SsDown
  <1>6. ASSUME NEW t \in Tasks, SsHandled(t) PROVE SessInv'
    <2> DEFINE k == [task[t] EXCEPT !.pc = "quit", !.up = FALSE, !.todo = 1]
    <2>1. task[t] \in TaskRec /\ 1 \in Int
      BY <1>0
    <2>2. k \in TaskRec /\ k.pc = "quit" /\ ~k.up
      BY <2>1, Zenon DEF TaskRec
    <2>3. task' = [task EXCEPT ![t] = k] /\ Live(t) /\ UNCHANGED <<kind, loop, table, outq, writer, stats>>
      BY Zenon, <1>0, <1>6 DEF SsHandled, Free, Live
    <2> HIDE DEF k
    <2> QED
      BY <2>2, <2>3, <1>0, StageStep, Zenon DEF Runs
  <1>7. ASSUME NEW t \in Tasks, SsDone(t) \/ SsCancelled(t) PROVE SessInv'
    <2>1. NoStats \in StatRec /\ NoStats.owed = 0 /\ NoStats.excess = 0 /\ ~NoStats.clean
      BY Zenon, PaidStats
    <2>2. /\ stats' = [stats EXCEPT ![t] = NoStats] /\ Over(t) /\ Live(t)
          /\ UNCHANGED <<kind, loop, table, outq, writer>>
      BY <1>7, Zenon DEF SsDone, SsCancelled, Free, Live
    <2> QED
      BY <2>1, <2>2, <1>0, OverStep, Zenon
  <1> QED
    BY <1>1, <1>2, <1>3, <1>4, <1>5, <1>6, <1>7, Zenon

-----------------------------------------------------------------------------
\* A new session has no stream.
LEMMA SessionStarts == SessionsInit => SessInv
  <1> SUFFICES ASSUME SessionsInit PROVE SessInv
    BY Zenon
  <1>1. /\ LoopInit \in LoopRec /\ LoopInit.pc = "read" /\ NoEntry \in EntryRec /\ NoEntry.st = "none"
        /\ NoTask.pc = "none" /\ ~NoTask.up
    BY DEF LoopInit, LoopRec, NoEntry, EntryRec, NoTask
  <1>2. NoTask \in TaskRec
    BY EndedTask, Zenon
  <1>3. /\ NoStats \in StatRec /\ NoStats.owed = 0 /\ NoStats.excess = 0 /\ ~NoStats.clean
        /\ ~NoStats.unpaid
    BY Zenon, PaidStats
  <1>4. /\ loop = LoopInit /\ table = [i \in Ids |-> NoEntry] /\ task = [t \in Tasks |-> NoTask]
        /\ stats = [t \in Tasks |-> NoStats] /\ outq = 0 /\ writer = "idle"
    BY Zenon DEF SessionsInit, Init
  <1>5. SessTypes
    BY <1>1, <1>2, <1>3, <1>4, MuxAssumption DEF SessTypes, Writers
  <1>6. FitsInv /\ PushInv /\ RowsInv /\ JoinInv
    BY <1>1, <1>3, <1>4, Zenon DEF FitsInv, Fits, Runs, PushInv, RowsInv, JoinInv, Live
  <1>7. Entries = {}
    BY <1>1, <1>4, Zenon DEF Entries
  <1>8. RoomInv
    BY <1>7, FS_EmptySet, MuxAssumption DEF RoomInv
  <1> QED
    BY <1>5, <1>6, <1>8, Zenon DEF SessInv

\* The live tasks of a Shadowsocks session are no more than its entries.
LEMMA TasksFit ==
  ASSUME SessInv, kind = "ss", ~loop.cancel
  PROVE  Cardinality({t \in Tasks : Live(t)}) <= MaxStreams
  <1> DEFINE L == {t \in Tasks : Live(t)}
             T == {table[i].t : i \in Entries}
             f == [i \in Entries |-> table[i].t]
  <1>1. IsFiniteSet(Entries)
    BY FS_Subset, MuxAssumption, Zenon DEF Entries
  <1>2. f \in Surjection(Entries, T)
    BY Zenon DEF Surjection
  <1>3. IsFiniteSet(T) /\ Cardinality(T) <= Cardinality(Entries)
    BY <1>1, <1>2, FS_Surjection, Zenon
  <1>4. L \subseteq T
    BY Zenon DEF SessInv, JoinInv, Entries
  <1> HIDE DEF T
  <1>5. IsFiniteSet(L) /\ Cardinality(L) <= Cardinality(T)
    BY <1>3, <1>4, FS_Subset, Zenon
  <1> HIDE DEF L
  <1>6. Cardinality(L) \in Nat /\ Cardinality(T) \in Nat /\ Cardinality(Entries) \in Nat
    BY <1>1, <1>3, <1>5, FS_CardinalityType, Zenon
  <1>7. Cardinality(Entries) <= MaxStreams
    BY Zenon DEF SessInv, RoomInv
  <1>8. Cardinality(L) <= MaxStreams
    BY <1>3, <1>5, <1>6, <1>7, MuxAssumption
  <1> QED
    BY <1>8, Zenon DEF L

\* The streams of a multiplexed session stay within its limit, and the tasks of
\* a Shadowsocks session with them; a stream whose task saw the client's end has
\* written every chunk the loop took before it; AnyTLS counts exactly what it
\* relayed and VLESS what it took in charge: in every reachable state, for any
\* ids, tasks, stream limit and channel capacities.
THEOREM StreamsKeptHolds == SessionsSpec => []StreamsKept
  <1>1. SessInv /\ [SessionsNext]_vars => SessInv'
    <2> SUFFICES ASSUME SessInv, [SessionsNext]_vars PROVE SessInv'
      BY Zenon
    <2>1. CASE UNCHANGED vars
      <3>0. UNCHANGED <<kind, loop, table, task, outq, writer, stats>>
        BY <2>1, Zenon DEF vars
      <3>1. SessTypes' /\ RoomInv'
        BY <3>0, Zenon DEF SessInv, SessTypes, RoomInv, Entries
      <3>2. FitsInv'
        BY <3>0, ZenonT(30) DEF SessInv, FitsInv, Fits, Owing, Leads
      <3>3. PushInv' /\ RowsInv' /\ JoinInv'
        BY <3>0, Zenon DEF SessInv, PushInv, Leads, RowsInv, JoinInv, Live
      <3> QED
        BY <3>1, <3>2, <3>3, Zenon DEF SessInv
    <2>2. CASE AnytlsSessionNext
      BY <2>2, SharedActions, LoopPushes, AnytlsFrames, AnytlsWorks, AnytlsEnds, Zenon
         DEF AnytlsSessionNext, AnytlsWork
    <2>3. CASE VlessMuxNext
      BY <2>3, SharedActions, LoopPushes, VlessFrames, VlessWorks, Zenon DEF VlessMuxNext, VlessWork
    <2>4. CASE SsMuxNext
      BY <2>4, SharedActions, LoopPushes, SsFrames, SsWorks, Zenon DEF SsMuxNext, SsWork
    <2> QED
      BY <2>1, <2>2, <2>3, <2>4, Zenon DEF SessionsNext
  <1>2. SessInv => StreamsKept
    <2> SUFFICES ASSUME SessInv PROVE StreamsKept
      BY Zenon
    <2>1. TypeOK
      BY Zenon DEF SessInv, SessTypes, TypeOK, LoopRec, TaskRec, StatRec, Writers
    <2>2. Cardinality(Entries) <= IF kind = "vless" THEN Cardinality(Ids) ELSE MaxStreams
      <3>1. Cardinality(Entries) <= Cardinality(Ids)
        BY FS_Subset, MuxAssumption, Zenon DEF Entries
      <3> QED
        BY <3>1, Zenon DEF SessInv, RoomInv
    <2>3. TableBounded
      BY <2>2, TasksFit, Zenon DEF TableBounded, SessInv, RowsInv
    <2>4. EndDrains /\ TrafficCounted
      BY Zenon DEF SessInv, FitsInv, Fits, EndDrains, TrafficCounted
    <2> QED
      BY <2>1, <2>3, <2>4, Zenon DEF StreamsKept
  <1> QED
    BY <1>1, <1>2, SessionStarts, PTL DEF SessionsSpec
=============================================================================
