----------------------------- MODULE MuxSession -----------------------------
(***************************************************************************)
(* What the three multiplexed sessions share (AnyTLS, VLESS mux and the mux *)
(* of the Shadowsocks plugins): a receive loop that handles the client's    *)
(* frames one at a time, a table of streams, one task per stream fed by a   *)
(* bounded channel, and one writer fed by a bounded channel of frames.      *)
(* A send to a full channel blocks the sender where it stands; a send to a  *)
(* channel whose receiver is gone fails at once.  Chunks and frames are      *)
(* counted, not named: every channel is first in, first out.                *)
(***************************************************************************)
EXTENDS Integers, FiniteSets

CONSTANTS
    Ids,            \* stream ids a client may use
    Tasks,          \* stream tasks over the life of the session
    MaxStreams,     \* MAX_CONCURRENT_STREAMS, or 64
    StreamCap,      \* capacity of a stream's channel
    OutCap,         \* capacity of the writer's channel
    None

ASSUME MuxAssumption ==
    /\ IsFiniteSet(Ids) /\ None \notin Tasks
    /\ MaxStreams \in Nat /\ OutCap \in Nat /\ StreamCap \in Nat \ {0}

VARIABLES
    kind,       \* "anytls", "vless" or "ss"
    loop,       \* the receive loop
    table,      \* per id: its state and its task
    task,       \* the stream tasks
    outq,       \* how many frames wait for the writer
    writer,     \* "idle", "write" or "gone"
    stats       \* what the properties compare

vars == <<kind, loop, table, task, outq, writer, stats>>

\* pc: "read", "push" (data for the channel of task t), "ending" or "over";
\* todo: replies the loop sends before it goes on; version and last: what an
\* AnyTLS client has announced; cancel: the token of the session.
LoopInit == [pc |-> "read", todo |-> 0, t |-> None, version |-> 0, last |-> 0,
             cancel |-> FALSE]
NoEntry == [st |-> "none", t |-> None]

\* up and down: the two halves of the relay are running; todo: frames the task
\* sends before it goes on; q: the payload it was created with and its channel;
\* stop: its own token.
NoTask == [pc |-> "none", q |-> 0, up |-> FALSE, down |-> FALSE,
           todo |-> 0, stop |-> FALSE]

\* Per task, owed: chunks read from the client, while the task takes any, and
\* not written to the target;
\* excess: chunks counted as traffic less those relayed; clean: the client
\* ended the stream, and the task saw its channel's end; unpaid: the task is
\* over and what it counted has not been reported.
NoStats == [owed |-> 0, excess |-> 0, clean |-> FALSE, unpaid |-> FALSE]

Init ==
    /\ loop = LoopInit
    /\ table = [i \in Ids |-> NoEntry]
    /\ task = [t \in Tasks |-> NoTask]
    /\ outq = 0 /\ writer = "idle"
    /\ stats = [t \in Tasks |-> NoStats]

Live(t) == task[t].pc \notin {"none", "ended"}
Entries == {i \in Ids : table[i].st # "none"}
\* mpsc::Sender::send of one frame to the writer.
Send ==
    \/ writer = "gone" /\ UNCHANGED outq
    \/ writer # "gone" /\ outq < OutCap /\ outq' = outq + 1

Reading == loop.pc = "read" /\ loop.todo = 0
LoopSet(l) == loop' = l

\* The loop sends one of its replies.
LoopReply ==
    /\ loop.todo > 0 /\ loop.pc # "over"
    /\ Send /\ LoopSet([loop EXCEPT !.todo = @ - 1])
    /\ UNCHANGED <<kind, table, task, writer, stats>>

\* Variant with a defect: the loop waits for room whatever becomes of the task.
LoopPushWaits ==
    /\ loop.pc = "push" /\ LoopSet([loop EXCEPT !.pc = "read", !.t = None])
    /\ Live(loop.t) /\ task[loop.t].up /\ task[loop.t].q < StreamCap
    /\ task' = [task EXCEPT ![loop.t].q = @ + 1]
    /\ UNCHANGED <<kind, table, outq, writer, stats>>

\* The loop's data frame enters the channel of its stream, or is dropped when
\* the task has already given the channel up.
LoopPush ==
    /\ loop.pc = "push" /\ LoopSet([loop EXCEPT !.pc = "read", !.t = None])
    /\ LET t == loop.t IN
         \/ /\ Live(t) /\ task[t].up /\ task[t].q < StreamCap
            /\ task' = [task EXCEPT ![t].q = @ + 1]
         \/ ~(Live(t) /\ task[t].up) /\ UNCHANGED task
    /\ UNCHANGED <<kind, table, outq, writer, stats>>

\* The client is gone, or what it sent is no frame.
LoopEof ==
    /\ Reading /\ LoopSet([loop EXCEPT !.pc = "ending"])
    /\ UNCHANGED <<kind, table, task, outq, writer, stats>>

\* A frame has been read; what is left is to send r replies.
Handled(r) == LoopSet([loop EXCEPT !.todo = r])
\* A data frame has been read for the stream of task t.
Pushing(t) ==
    /\ LoopSet([loop EXCEPT !.pc = "push", !.t = t])
    /\ stats' = IF task[t].up THEN [stats EXCEPT ![t].owed = @ + 1] ELSE stats

\* A task is created for id i, with d chunks of payload.
Spawn(t, i, pc, d) ==
    /\ task[t].pc = "none" /\ \A u \in Tasks : u < t => task[u].pc # "none"
    /\ task' = [task EXCEPT ![t] = [NoTask EXCEPT !.pc = pc, !.up = TRUE, !.q = d]]
    /\ table' = [table EXCEPT ![i] = [st |-> "active", t |-> t]]

\* The sender of t's channel has been dropped: no entry of the table, and no
\* push in progress, refers to it any more.
Closed(t) ==
    /\ loop.pc = "over" \/ \A i \in Ids : table[i].st \in {"active"} => table[i].t # t
    /\ ~(loop.pc = "push" /\ loop.t = t)

\* The task's next stage, after f frames.
Stage(t, pc, f) == task' = [task EXCEPT ![t].pc = pc, ![t].todo = f]
Free(t, pc) == task[t].pc = pc /\ task[t].todo = 0

\* t wrote n chunks to its target and counted c.
Wrote(t, n, c) ==
    stats' = [stats EXCEPT ![t].owed = @ - n, ![t].excess = @ + c - n]
\* The channel is empty and closed: the upstream half of t is complete.
UpEnd(t) ==
    /\ task[t].up /\ task[t].q = 0 /\ Closed(t)
    /\ stats' = [stats EXCEPT ![t].clean = (loop.pc # "over")]

\* A task sends one of its frames.
TaskReply(t) ==
    /\ Live(t) /\ task[t].todo > 0 /\ Send
    /\ task' = [task EXCEPT ![t].todo = @ - 1]
    /\ UNCHANGED <<kind, loop, table, writer, stats>>

\* t is over; its traffic has been reported or not.
Over(t) == task' = [task EXCEPT ![t] = [NoTask EXCEPT !.pc = "ended"]]
Paid(t, paid) ==
    [NoStats EXCEPT !.unpaid = ~paid]

-----------------------------------------------------------------------------
\* The writer takes a frame, and has written it.
WriterTake ==
    /\ writer = "idle" /\ outq > 0
    /\ writer' = "write" /\ outq' = outq - 1
    /\ UNCHANGED <<kind, loop, table, task, stats>>
WriterDone ==
    /\ writer = "write" /\ writer' = "idle"
    /\ UNCHANGED <<kind, loop, table, task, outq, stats>>
=============================================================================
