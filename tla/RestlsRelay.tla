----------------------------- MODULE RestlsRelay -----------------------------
(***************************************************************************)
(* An authenticated ResTLS session (Session::relay and the RestlsState      *)
(* behind it, protocol/restls/mod.rs): one task between the client's TLS    *)
(* records, the plaintext stream of the Shadowsocks handler and the decoy,  *)
(* whose own records are still passed to the client.  Records are           *)
(* authenticated by their number, so the two ends must count alike; a       *)
(* record may ask the other end for answers, and the sender of such a       *)
(* record waits for the first one.                                          *)
(***************************************************************************)
EXTENDS Integers, Sequences, SequencesExt

CONSTANTS Lines,       \* the script: [len, answers] of the first records sent
          MinLen,      \* min_record_len, plus a random part below Jitter
          Jitter,
          BufSize,     \* BUF_SIZE, and the room a record's header takes
          Header,
          LowSpace,    \* back_mut moves the content down when less is left
          Backlog,     \* most answers owed
          ShutAfter,   \* records counted before the decoy is shut down
          Upload,      \* units the client sends
          Download,    \* units the target sends
          DecoySends   \* records the decoy sends

VARIABLES sess, peers

sessVars == <<sess, peers>>

Unit(n) == 1..n
-----------------------------------------------------------------------------
\* DoubleCursorBuf: content between two cursors, room for a header before it.
Back(b) == b.front + Header + Len(b.data)
ShiftToHead(b) == [b EXCEPT !.front = 0]
BackMut(b) == IF BufSize - Back(b) < LowSpace THEN ShiftToHead(b) ELSE b
Room_(b) == BufSize - Back(BackMut(b))
\* load, for a record of n units of which the last ones are padding.
Load(b, n) ==
    IF n > Len(b.data) /\ b.front + Header + n > BufSize THEN ShiftToHead(b) ELSE b
Release(b, real, n) ==
    LET rest == SubSeq(b.data, real + 1, Len(b.data))
    IN  [front |-> IF rest = <<>> THEN 0 ELSE b.front + n, data |-> rest]

\* act_according_to_script: how much of the data, how long a record and how many
\* answers to ask for.
ActAccordingToScript(counter, size) ==
    IF counter < Len(Lines)
    THEN LET line == Lines[counter + 1]
         IN  {[real |-> IF line.len < size THEN line.len ELSE size,
               total |-> line.len, answers |-> line.answers]}
    ELSE {[real |-> size, total |-> IF size < m THEN m ELSE size, answers |-> 0] :
            m \in MinLen..(MinLen + Jitter)}

\* read_app_data: the record must carry the number it is expected under.
ReadAppData(s, rec) == rec.number = s.toServer
\* prepare_app_data_header numbers the record.
Numbered(s, real, answers) ==
    [data |-> SubSeq(s.buf.data, 1, real), number |-> s.toClient, answers |-> answers]
-----------------------------------------------------------------------------
\* The head of the loop.  First the records decoded from the client, until one
\* carries data or it closes.
RECURSIVE DrainInput(_)
DrainInput(s) ==
    IF s.end # "open" \/ s.inputClosed \/ s.toPlain # <<>> \/ s.decoded = <<>> THEN s
    ELSE LET rec == Head(s.decoded)
             t == [s EXCEPT !.decoded = Tail(@)]
         IN  IF rec.kind = "alert" THEN [t EXCEPT !.inputClosed = TRUE]
             ELSE IF ~ReadAppData(s, rec) \/ s.respond + rec.answers > Backlog
             THEN [t EXCEPT !.end = "failed"]
             ELSE DrainInput([t EXCEPT !.toServer = @ + 1, !.toPlain = rec.data,
                                       !.awaiting = FALSE, !.respond = @ + rec.answers])

\* Then one record for the client, if nothing waits to be written: of the data,
\* unless an answer is awaited, or an answer owed.
PreparePacket(s) ==
    IF /\ s.end = "open" /\ s.toWrite = {}
       /\ ~s.awaiting \/ s.respond > 0 \/ s.inputClosed
       /\ s.buf.data # <<>> \/ s.respond > 0
    THEN {[s EXCEPT !.toWrite = {Numbered(s, a.real, a.answers)},
                    !.buf = Release(Load(s.buf, a.total), a.real, a.total),
                    !.fits = @ /\ Load(s.buf, a.total).front + Header
                                  + (IF a.total > Len(s.buf.data) THEN a.total ELSE Len(s.buf.data)) <= BufSize,
                    !.toClient = @ + 1, !.respond = IF @ > 0 THEN @ - 1 ELSE 0,
                    !.awaiting = a.answers > 0] :
            a \in ActAccordingToScript(s.toClient, Len(s.buf.data))}
    ELSE {s}

\* Variant with a defect: the decoy's short records are counted though they are not passed on.
RECURSIVE ForwardCountsAll(_)
ForwardCountsAll(s) ==
    IF s.end # "open" \/ s.toWrite # {} \/ s.clientShut \/ s.decoyed = <<>> THEN s
    ELSE LET t == [s EXCEPT !.decoyed = Tail(@), !.toClient = @ + 1]
         IN  IF Head(s.decoyed) = "short" THEN ForwardCountsAll(t)
             ELSE [t EXCEPT !.toWrite = {[data |-> <<>>, number |-> s.toClient, answers |-> 0]}]

\* Last a record of the decoy, if there is still nothing to write; short ones are
\* dropped.
RECURSIVE ForwardDecoy(_)
ForwardDecoy(s) ==
    IF s.end # "open" \/ s.toWrite # {} \/ s.clientShut \/ s.decoyed = <<>> THEN s
    ELSE LET t == [s EXCEPT !.decoyed = Tail(@)]
         IN  IF Head(s.decoyed) = "short" THEN ForwardDecoy(t)
             ELSE [t EXCEPT !.toWrite = {[data |-> <<>>, number |-> s.toClient, answers |-> 0]},
                            !.toClient = @ + 1]

\* The rest of the head: the end of the session, and the decoy shut down once a
\* few records have been exchanged.
Settle(s) ==
    IF s.plainShut /\ s.clientShut THEN [s EXCEPT !.end = "closed"]
    ELSE [s EXCEPT !.decoyShut = @ \/ s.toClient > ShutAfter \/ s.toServer > ShutAfter]
LoopHead(s) == {Settle(ForwardDecoy(t)) : t \in PreparePacket(DrainInput(s))}
-----------------------------------------------------------------------------
\* The branches of the select.  A write of a part leaves the same branches
\* enabled, so a write is of all that waits.
Open == sess.end = "open"
ReadClient ==
    /\ Open /\ ~sess.inputClosed /\ sess.toPlain = <<>> /\ sess.decoded = <<>> /\ sess.respond = 0
    /\ \/ /\ peers.wire # <<>>
          /\ \E n \in 1..Len(peers.wire) :
               /\ peers' = [peers EXCEPT !.wire = SubSeq(@, n + 1, Len(@))]
               /\ sess' \in LoopHead([sess EXCEPT !.decoded = SubSeq(peers.wire, 1, n)])
       \/ /\ peers.wire = <<>> /\ peers.clientEof
          /\ sess' \in LoopHead([sess EXCEPT !.inputClosed = TRUE])
          /\ UNCHANGED peers

ReadDecoy ==
    /\ Open /\ ~sess.decoyClosed /\ ~sess.clientShut /\ sess.toWrite = {} /\ sess.decoyed = <<>>
    /\ \/ \E b \in UNION {[1..n -> {"short", "long"}] : n \in 1..peers.decoyLeft} :
            /\ peers' = [peers EXCEPT !.decoyLeft = @ - Len(b)]
            /\ sess' \in LoopHead([sess EXCEPT !.decoyed = b])
       \/ sess' \in LoopHead([sess EXCEPT !.decoyClosed = TRUE]) /\ UNCHANGED peers
       \/ sess' = [sess EXCEPT !.end = "failed"] /\ UNCHANGED peers

ReadPlain ==
    /\ Open /\ ~sess.outputClosed /\ Room_(sess.buf) > 0
    /\ \/ \E n \in 1..(Download - peers.produced) :
            /\ n <= Room_(sess.buf)
            /\ peers' = [peers EXCEPT !.produced = @ + n]
            /\ sess' \in LoopHead([sess EXCEPT
                  !.buf = [BackMut(@) EXCEPT !.data = @ \o [i \in 1..n |-> peers.produced + i]]])
       \/ /\ peers.targetDone
          /\ sess' \in LoopHead([sess EXCEPT !.buf = BackMut(@), !.outputClosed = TRUE])
          /\ UNCHANGED peers

ClosePlain == sess.inputClosed /\ sess.toPlain = <<>> /\ ~sess.plainShut
WritePlain ==
    /\ Open
    /\ \/ /\ ClosePlain
          /\ sess' \in LoopHead([sess EXCEPT !.plainShut = TRUE]) /\ UNCHANGED peers
       \/ /\ sess.toPlain # <<>>
          /\ peers' = [peers EXCEPT !.got = @ \o sess.toPlain]
          /\ sess' \in LoopHead([sess EXCEPT !.toPlain = <<>>])

CloseClient ==
    /\ sess.outputClosed /\ sess.buf.data = <<>> /\ sess.respond = 0
    /\ sess.toWrite = {} /\ ~sess.clientShut
WriteClient ==
    /\ Open
    /\ \/ /\ CloseClient
          /\ sess' \in LoopHead([sess EXCEPT !.clientShut = TRUE]) /\ UNCHANGED peers
       \/ \E rec \in sess.toWrite :
          /\ peers' = [peers EXCEPT !.down = @ \o rec.data, !.seen = @ + 1,
                                    !.inStep = @ /\ rec.number = peers.seen,
                                    !.owes = @ + rec.answers]
          /\ sess' \in LoopHead([sess EXCEPT !.toWrite = {}])
-----------------------------------------------------------------------------
\* The client: sends its units, each record asking for answers or not, answers
\* what it owes, may repeat a record, and closes with an alert or without.  The
\* target stops sending when it has sent everything.
ClientSends ==
    /\ Open /\ ~peers.clientEof /\ Len(peers.wire) < 2
    /\ \/ \E n \in 0..1, answers \in 0..1 :
            /\ peers.uploaded + n <= Upload /\ n + peers.owes > 0
            /\ peers' = [peers EXCEPT
                  !.uploaded = @ + n, !.number = @ + 1, !.owes = IF @ > 0 THEN @ - 1 ELSE 0,
                  !.wire = Append(@, [kind |-> "data", number |-> peers.number, answers |-> answers,
                                      data |-> [i \in 1..n |-> peers.uploaded + i]])]
       \/ /\ peers.number > 0 /\ ~peers.repeated
          /\ peers' = [peers EXCEPT !.repeated = TRUE,
                !.wire = Append(@, [kind |-> "data", number |-> peers.number - 1, answers |-> 0,
                                    data |-> <<1>>])]
    /\ UNCHANGED sess
ClientCloses ==
    /\ Open /\ ~peers.clientEof /\ (peers.uploaded = Upload \/ peers.seen > 1)
    /\ \E alert \in BOOLEAN :
         peers' = [peers EXCEPT !.clientEof = TRUE,
            !.wire = IF alert THEN Append(@, [kind |-> "alert"]) ELSE @]
    /\ UNCHANGED sess
TargetCloses ==
    /\ Open /\ ~peers.targetDone /\ peers.produced = Download
    /\ peers' = [peers EXCEPT !.targetDone = TRUE]
    /\ UNCHANGED sess

FreshSession ==
    [end |-> "open", inputClosed |-> FALSE, outputClosed |-> FALSE, plainShut |-> FALSE,
     clientShut |-> FALSE, decoyClosed |-> FALSE, decoyShut |-> FALSE, awaiting |-> FALSE,
     respond |-> 0, toServer |-> 0, toClient |-> 0, toPlain |-> <<>>, toWrite |-> {},
     decoded |-> <<>>, decoyed |-> <<>>, buf |-> [front |-> 0, data |-> <<>>], fits |-> TRUE]
FreshPeers ==
    [wire |-> <<>>, clientEof |-> FALSE, uploaded |-> 0, number |-> 0, owes |-> 0, repeated |-> FALSE,
     seen |-> 0, inStep |-> TRUE, down |-> <<>>, got |-> <<>>, produced |-> 0,
     targetDone |-> FALSE, decoyLeft |-> DecoySends]
SessInit == sess = FreshSession /\ peers = FreshPeers
SessNone == sess = [FreshSession EXCEPT !.end = "none"] /\ peers = FreshPeers
SessSettled == sess.end \notin {"none", "open"} /\ UNCHANGED sessVars
SessNext ==
    \/ ReadClient \/ ReadDecoy \/ ReadPlain \/ WritePlain \/ WriteClient
    \/ ClientSends \/ ClientCloses \/ TargetCloses \/ SessSettled
-----------------------------------------------------------------------------
\* What reaches the handler is what the client sent and what reaches the client is
\* what the target sent, in order and, at a clean end, all of it; every record the
\* client gets carries the number the client expects, the decoy's records counted
\* in; a record always fits the buffer it is built in (Session::relay,
\* read_app_data, prepare_packet_to_client, DoubleCursorBuf::load's assertion).
SessionExact ==
    /\ IsPrefix(peers.got, [i \in Unit(peers.uploaded) |-> i])
    /\ IsPrefix(peers.down, [i \in Unit(peers.produced) |-> i])
    /\ sess.plainShut => peers.got = [i \in Unit(peers.uploaded) |-> i]
    /\ sess.clientShut => peers.down = [i \in Unit(peers.produced) |-> i]
    /\ peers.inStep
    /\ sess.fits
=============================================================================
