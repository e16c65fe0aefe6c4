-------------------------------- MODULE Relay --------------------------------
(***************************************************************************)
(* A relay between a client and a target once both are connected: the       *)
(* throttled copy of src/conn (Trojan, VLESS, Shadowsocks, HTTP, SOCKS,     *)
(* Naive), the VMess forwarder, VLESS Vision and VLESS UDP.  Two directions *)
(* run in one task; they share one idle timer; when one ends, the kind      *)
(* decides about the other; a TrafficGuard reports what was counted when    *)
(* the task drops it.                                                       *)
(*                                                                          *)
(* Abstractions: a chunk is a unit; the throttle is part of the write, which*)
(* may last as long as the clock lets it; a peer is live, stuck (it neither *)
(* sends nor reads any more) or gone (every call on it fails).              *)
(***************************************************************************)
EXTENDS Naturals

CONSTANTS
    Chunks,     \* chunks each peer sends before it closes its side
    Timeout     \* ticks of tcp_timeout or udp_timeout

ASSUME RelayAssumption == Chunks \in Nat /\ Timeout \in Nat

VARIABLES
    relay,      \* the kind of relay, "none" when this part is not exercised
    way,        \* the two directions
    peer,       \* the client and the target
    quiet,      \* ticks since the last operation that succeeded (IdleTimeout)
    book        \* what was counted, what the guard reported, and the end

relayVars == <<relay, way, peer, quiet, book>>

Ways == {"up", "down"}
Copies == {"copy"}
Joined == {"vmess_tcp", "vision"}
Raced == {"vmess_udp", "vless_udp"}
Relays == Copies \cup Joined \cup Raced

Source(d) == IF d = "up" THEN "client" ELSE "target"
Sink(d) == IF d = "up" THEN "target" ELSE "client"
Other(d) == IF d = "up" THEN "down" ELSE "up"
\* A peer that can end what it sends; VMess takes an empty datagram for an end.
Closes(p) == relay # "vless_udp" \/ p = "client"

NoBook == [counted |-> [d \in Ways |-> 0], paid |-> [d \in Ways |-> 0],
           over |-> FALSE, fault |-> FALSE]

RelayInit(k) ==
    /\ relay = k
    /\ way = [d \in Ways |->
                 [pc |-> IF k = "vision" THEN "hello" ELSE "read",
                  left |-> Chunks, got |-> 0, shut |-> FALSE]]
    /\ peer = [p \in {"client", "target"} |-> "live"]
    /\ quiet = 0
    /\ book = NoBook

At(d, stages) == ~book.over /\ way[d].pc \in stages
Active == quiet' = 0
Count(d) == book' = [book EXCEPT !.counted[d] = @ + 1]
\* Variant with a defect: the guard reports the upload only.
CloseForgetsDownload(fault) ==
    book' = [book EXCEPT !.over = TRUE, !.fault = @ \/ fault, !.paid["up"] = book.counted["up"]]
\* Drop of TrafficGuard: what was counted is reported, once.
Close(fault) ==
    book' = [book EXCEPT !.over = TRUE, !.fault = @ \/ fault, !.paid = book.counted]

\* The direction has no more to do.  try_join and join wait for the other one,
\* select does not.
Finish(d, fault) ==
    IF relay \in Raced \/ way[Other(d)].pc = "done"
    THEN Close(fault)
    ELSE book' = [book EXCEPT !.fault = @ \/ fault]

\* Variant with a defect: an end of file in one direction ends the relay.
EofEndsBoth(d) ==
    /\ At(d, {"read"}) /\ peer[Source(d)] = "live" /\ Closes(Source(d)) /\ way[d].left = 0
    /\ Close(FALSE) /\ Active /\ UNCHANGED <<relay, way, peer>>

\* The source closed its side: the sink is told.
Eof(d) ==
    /\ At(d, {"read"}) /\ peer[Source(d)] = "live" /\ Closes(Source(d)) /\ way[d].left = 0
    /\ IF relay \in Raced /\ d = "up"
       THEN /\ way' = [way EXCEPT ![d].pc = "done"]
            /\ Finish(d, FALSE)
       ELSE /\ way' = [way EXCEPT ![d].pc = "shut"]
            /\ UNCHANGED book
    /\ Active /\ UNCHANGED <<relay, peer>>

\* An operation of direction d fails or times out.  The copy gives up both
\* directions; the others leave the loop of this one.
Break(d) ==
    IF relay \in Copies
    THEN Close(TRUE) /\ UNCHANGED way
    ELSE IF d = "up" /\ relay \in Raced
    THEN /\ way' = [way EXCEPT ![d].pc = "done"]
         /\ Finish(d, TRUE)
    ELSE /\ way' = [way EXCEPT ![d].pc = "shut"]
         /\ book' = [book EXCEPT !.fault = TRUE]

\* A chunk is read.  MonitoredStream counts the upload here.
Read(d) ==
    /\ At(d, {"read"}) /\ peer[Source(d)] = "live" /\ way[d].left > 0
    /\ way' = [way EXCEPT ![d].pc = "write", ![d].left = @ - 1]
    /\ IF relay = "copy" /\ d = "up" THEN Count(d) ELSE UNCHANGED book
    /\ Active /\ UNCHANGED <<relay, peer>>

\* The directions that flush after every write.
Flushed(d) == relay \in {"copy", "vmess_tcp"} \/ <<relay, d>> \in {<<"vision", "up">>, <<"vmess_udp", "down">>}

\* The throttle and the write.  MonitoredStream counts the download here; the
\* datagram kinds and Vision's write_payload count when the write returns.
Write(d) ==
    /\ At(d, {"write"}) /\ peer[Sink(d)] = "live"
    /\ way' = [way EXCEPT ![d].pc = IF Flushed(d) THEN "flush" ELSE "read", ![d].got = @ + 1]
    /\ IF ~Flushed(d) \/ (relay = "copy" /\ d = "down") THEN Count(d) ELSE UNCHANGED book
    /\ Active /\ UNCHANGED <<relay, peer>>

\* The flush, after which VMess and the uplink of Vision count the chunk; they
\* ignore how a flush towards the target ended.
Flush(d) ==
    /\ At(d, {"flush"})
    /\ \/ peer[Sink(d)] = "live" /\ Active
       \/ peer[Sink(d)] = "gone" /\ relay \in Joined /\ d = "up" /\ UNCHANGED quiet
    /\ way' = [way EXCEPT ![d].pc = "read"]
    /\ IF relay = "copy" THEN UNCHANGED book ELSE Count(d)
    /\ UNCHANGED <<relay, peer>>

\* shutdown of the sink, for VMess after the end chunk.  Only the copy runs it
\* under the idle timer and minds its failure.
Shut(d) ==
    /\ At(d, {"shut"}) /\ peer[Sink(d)] # "stuck"
    /\ LET failed == peer[Sink(d)] = "gone"
       IN  IF relay \in Copies /\ failed
           THEN Close(TRUE) /\ UNCHANGED way
           ELSE /\ way' = [way EXCEPT ![d].pc = "done", ![d].shut = ~failed]
                /\ Finish(d, failed)
    /\ Active /\ UNCHANGED <<relay, peer>>

Error(d) ==
    /\ \/ At(d, {"read"}) /\ peer[Source(d)] = "gone"
       \/ At(d, {"write"}) /\ peer[Sink(d)] = "gone"
       \/ At(d, {"flush"}) /\ peer[Sink(d)] = "gone" /\ ~(relay \in Joined /\ d = "up")
    /\ Break(d) /\ UNCHANGED <<relay, peer, quiet>>

\* Variant with a defect: the idle timer covers the reads of the client only.
TimedReads(d) == d = "up" /\ At(d, {"read"})

\* The stages under idle.run.
Timed(d) ==
    At(d, {"read", "write", "flush"}) \/ (relay \in Copies /\ At(d, {"shut"}))

\* IdleTimeout::run: nothing succeeded, in either direction, for the timeout.
Expire(d) ==
    /\ Timed(d) /\ quiet = Timeout
    /\ IF way[d].pc = "flush" /\ relay \in Joined /\ d = "up"
       THEN way' = [way EXCEPT ![d].pc = "read"] /\ Count(d)
       ELSE Break(d)
    /\ UNCHANGED <<relay, peer, quiet>>

Tick ==
    /\ ~book.over /\ relay # "none" /\ quiet < Timeout
    /\ quiet' = quiet + 1 /\ UNCHANGED <<relay, way, peer, book>>

\* handle_vless_vision_tcp before the relay: the first payload is read, the
\* target audited and dialled, in either order; then it is written, flushed
\* and counted.  Any failure ends the task.
VisionHello ==
    /\ At("up", {"hello"})
    /\ \/ /\ peer["client"] = "live" /\ way["up"].left > 0
          /\ way' = [way EXCEPT !["up"].pc = "first", !["up"].left = @ - 1]
          /\ Active /\ UNCHANGED book
       \/ Close(TRUE) /\ UNCHANGED <<way, quiet>>
    /\ UNCHANGED <<relay, peer>>

VisionFirst ==
    /\ At("up", {"first"})
    /\ \/ /\ peer["target"] = "live"
          /\ way' = [way EXCEPT !["up"].pc = "read", !["down"].pc = "read", !["up"].got = 1]
          /\ Count("up") /\ Active
       \/ /\ peer["target"] = "gone" \/ quiet = Timeout
          /\ Close(TRUE) /\ UNCHANGED <<way, quiet>>
    /\ UNCHANGED <<relay, peer>>

\* The inbound aborts the task, or its token is cancelled: the guard is
\* dropped wherever the two directions are.
Abort ==
    /\ relay # "none" /\ ~book.over
    /\ Close(TRUE) /\ UNCHANGED <<relay, way, peer, quiet>>

\* The peers belong to the environment.
PeerFails ==
    /\ relay # "none" /\ ~book.over
    /\ \E p \in {"client", "target"}, s \in {"stuck", "gone"} :
          peer[p] = "live" /\ peer' = [peer EXCEPT ![p] = s]
    /\ UNCHANGED <<relay, way, quiet, book>>

Move(d) == Read(d) \/ Eof(d) \/ Write(d) \/ Flush(d) \/ Shut(d) \/ Error(d) \/ Expire(d)

RelayNext ==
    \/ \E d \in Ways : Move(d)
    \/ VisionHello \/ VisionFirst \/ Tick \/ Abort \/ PeerFails

\* The task is polled when a call it waits for returns, and time passes.
RelayFairness ==
    \A d \in Ways : WF_relayVars(Move(d)) /\ WF_relayVars(VisionHello)
                    /\ WF_relayVars(VisionFirst) /\ WF_relayVars(Tick)
-----------------------------------------------------------------------------
\* What the panel is told of a finished relay is what was relayed, give or
\* take the chunk each direction had in hand: whoever failed, timed out or was
\* aborted, and at whatever stage (TrafficGuard, MonitoredStream).
RelayPaid ==
    relay # "none" /\ book.over =>
        \A d \in Ways : book.paid[d] <= way[d].got + 1 /\ way[d].got <= book.paid[d] + 1

\* A half-closed stream goes on: unless a peer fails, the task is aborted or the
\* relay falls quiet, a TCP relay ends only after every chunk of both
\* directions was delivered and both sinks were told of the end.
HalfCloseDelivers ==
    relay \in Copies \cup Joined /\ book.over /\ ~book.fault =>
        \A d \in Ways : way[d].got = Chunks /\ way[d].shut

\* A relay whose peers fall silent ends, and so returns its connection guard:
\* the idle timer covers every wait of the copy, and a UDP relay ends with the
\* first of its directions.  (VMess and Vision shut their streams down outside
\* the timer: a client that stops reading keeps those relays.)
QuietRelayEnds ==
    []<>(relay \in Copies \cup Raced => book.over)
==============================================================================
