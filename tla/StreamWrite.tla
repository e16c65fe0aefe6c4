----------------------------- MODULE StreamWrite ----------------------------
(***************************************************************************)
(* The writing half of the stream wrappers: poll_write, poll_flush and     *)
(* poll_shutdown over an inner stream that takes any number of bytes and   *)
(* then says Pending.  A caller writes a payload, flushes and shuts down   *)
(* in any order, may abandon a call that is pending (a branch of select!   *)
(* that lost) and repeats the bytes that were not accepted.                *)
(***************************************************************************)
EXTENDS StreamRead

CONSTANTS
    Total,      \* payload bytes the caller has to write
    Chunk,      \* the most payload bytes a wrapper puts into one frame
    Pressure    \* FramedWrite's backpressure boundary

VARIABLES
    wk,         \* the wrapper
    call,       \* the call in progress: "none", "write", "flush", "shutdown"
    ask,        \* payload bytes offered by the write in progress
    chunks,     \* sizes of the pieces accepted, in order
    wbuf,       \* encoded and not yet taken by the inner stream
    sent,       \* what the inner stream took
    wst,        \* [left, nonce, words, pre, direct, ended]: the other fields
    credit,     \* HTTP/2: the peer's window, as it stands
    wend        \* "open", "shut" or "failed"

wvars == <<wk, call, ask, chunks, wbuf, sent, wst, credit, wend>>

PendingKinds == {"naive", "chunked", "ss2022", "record", "xor", "direct", "vision"}
SinkKinds == {"aead", "obfs", "obfs_http", "shadowtls", "gun", "ws", "ss_ws"}
H2Kinds == {"grpc", "h2", "ss_h2", "xhttp"}
WriteKinds == PendingKinds \union SinkKinds \union H2Kinds \union {"camouflage", "vmess"}

(* What goes out once, before the first frame.                              *)
Preamble(kind) ==
    CASE kind \in {"ss2022", "aead"} -> <<<<"salt", 0>>>>
      [] kind \in {"record", "xor"} -> <<<<"pre", 0>>>>
      [] kind = "vision" -> <<<<"uuid", 0>>>>
      [] kind \in {"camouflage", "obfs_http", "obfs"} -> <<<<"resp", 1>>, <<"resp", 2>>>>
      [] OTHER -> <<>>

WriteInit ==
    /\ wk \in WriteKinds
    /\ call = "none" /\ ask = 0 /\ chunks = <<>> /\ sent = <<>>
    /\ wbuf = IF wk = "camouflage" THEN Preamble(wk) ELSE <<>>
    /\ wst = [left |-> Padded, nonce |-> 0, words |-> 0, pre |-> wk # "camouflage",
              direct |-> FALSE, ended |-> FALSE]
    /\ credit = 0 /\ wend = "open"

WriteNone ==
    /\ wk = "none" /\ call = "none" /\ ask = 0 /\ chunks = <<>> /\ wbuf = <<>>
    /\ sent = <<>> /\ credit = 0 /\ wend = "open"
    /\ wst = [left |-> 0, nonce |-> 0, words |-> 0, pre |-> FALSE,
              direct |-> FALSE, ended |-> FALSE]

Accepted == FoldLeft(+, 0, chunks)

-----------------------------------------------------------------------------
(* The caller.                                                              *)
Calls ==
    /\ wk # "none" /\ wend = "open" /\ call = "none"
    /\ \/ /\ Accepted < Total
          /\ ~wst.ended       \* nobody writes after the shutdown began
          /\ wk = "direct" /\ chunks # <<>> => wst.direct
          /\ call' = "write"
          /\ ask' \in 1..(Total - Accepted)
       \/ call' \in {"flush", "shutdown"} /\ ask' = 0
    /\ UNCHANGED <<wk, chunks, wbuf, sent, wst, credit, wend>>

Abandons ==
    /\ call # "none" /\ wend = "open"
    /\ call' = "none" /\ ask' = 0
    /\ UNCHANGED <<wk, chunks, wbuf, sent, wst, credit, wend>>

InnerFails ==
    /\ call # "none" /\ wend = "open"
    /\ wend' = "failed" /\ call' = "none" /\ ask' = 0
    /\ UNCHANGED <<wk, chunks, wbuf, sent, wst, credit>>

In(kinds, op) == wk \in kinds /\ wend = "open" /\ call = op

(* The inner stream takes some of what is buffered.                         *)
Drains ==
    /\ wbuf # <<>>
    /\ \E k \in 1..Segment :
         /\ k <= Len(wbuf)
         /\ sent' = sent \o Take(wbuf, k)
         /\ wbuf' = DropN(wbuf, k)
    /\ UNCHANGED <<wk, call, ask, chunks, wst, credit, wend>>

(* The call returns Ok: n bytes accepted as `frame`, of which the inner     *)
(* stream takes a part at once.                                             *)
Accepts(n, frame, next) ==
    /\ \E k \in 0..Len(frame) :
         sent' = sent \o Take(frame, k) /\ wbuf' = wbuf \o DropN(frame, k)
    /\ chunks' = Append(chunks, n)
    /\ wst' = next
    /\ call' = "none" /\ ask' = 0
    /\ UNCHANGED <<wk, credit, wend>>

(* The inner poll_write takes some of the caller's own bytes.               *)
Bare ==
    \E k \in 1..ask :
      /\ sent' = sent \o Payload(k, Accepted)
      /\ chunks' = Append(chunks, k)
      /\ call' = "none" /\ ask' = 0
      /\ UNCHANGED <<wk, wbuf, wst, credit, wend>>

Size == IF ask < Chunk THEN ask ELSE Chunk
Body == Payload(Size, Accepted)
Opening == IF wst.pre THEN Preamble(wk) ELSE <<>>

-----------------------------------------------------------------------------
\* Variant with a defect: the first bare bytes overtake the pending frame.
NaiveOvertakes ==
    /\ In({"naive"}, "write")
    /\ \/ Drains
       \/ wst.left = 0 /\ Bare
       \/ /\ wbuf = <<>> /\ wst.left > 0
          /\ Accepts(Size, <<<<"len", Size>>, <<"hdr", 1>>>> \o Body \o <<<<"pad", 0>>>>,
                     [wst EXCEPT !.left = @ - 1])

NaivePollWrite ==
    /\ In({"naive"}, "write")
    /\ \/ Drains
       \/ wbuf = <<>> /\ wst.left = 0 /\ Bare
       \/ /\ wbuf = <<>> /\ wst.left > 0
          /\ Accepts(Size, <<<<"len", Size>>, <<"hdr", 1>>>> \o Body \o <<<<"pad", 0>>>>,
                     [wst EXCEPT !.left = @ - 1])

ChunkedPollWrite ==
    /\ In({"chunked"}, "write")
    /\ \/ Drains
       \/ /\ wbuf = <<>>
          /\ Accepts(Size, <<<<"len", Size>>, <<"cr", 0>>, <<"lf", 0>>>> \o Body
                             \o <<<<"cr", 0>>, <<"lf", 0>>>>, wst)

(* Ss2022TcpWriter: the response salt and the fixed header open the first   *)
(* chunk, a length chunk every later one.                                   *)
Ss2022PollWrite ==
    /\ In({"ss2022"}, "write")
    /\ \/ Drains
       \/ /\ wbuf = <<>>
          /\ Accepts(Size, Opening \o <<<<"len", Size>>, <<"tag", wst.nonce>>>> \o Body
                             \o <<<<"tag", wst.nonce + 1>>>>,
                     [wst EXCEPT !.nonce = @ + 2, !.pre = FALSE])

(* VlessEncryptionStream; after Vision's DIRECT record direct_write is set. *)
RecordPollWrite ==
    /\ In({"record", "direct"}, "write")
    /\ \/ Drains
       \/ wbuf = <<>> /\ wst.direct /\ Bare
       \/ /\ wbuf = <<>> /\ ~wst.direct
          /\ Accepts(Size, Opening \o <<<<"len", Size>>, <<"hdr", 0>>>> \o Body
                             \o <<<<"tag", wst.nonce>>>>,
                     [wst EXCEPT !.nonce = NextRecordNonce(@), !.pre = FALSE])

(* filter_out masks the header it finds behind the bytes it has to skip;    *)
(* the filter is made with the length of pre_write to skip first.           *)
RECURSIVE FilterOut(_, _, _)
FilterOut(done, rest, skip) ==
    LET tail == DropN(rest, skip) IN
    IF Len(rest) <= skip THEN [buf |-> done \o rest, skip |-> skip - Len(rest)]
    ELSE FilterOut(done \o Take(rest, skip) \o Mask(Take(tail, 2)), DropN(tail, 2),
                   HeaderLength(Take(tail, 2)))

XorPollWrite ==
    /\ In({"xor"}, "write")
    /\ \/ Drains
       \/ /\ wbuf = <<>>
          /\ LET f == FilterOut(<<>>, Opening \o <<<<"len", Size>>, <<"hdr", 0>>>> \o Body
                                        \o <<<<"tag", wst.nonce>>>>,
                               IF wst.pre THEN Len(Opening) ELSE wst.words)
             IN  Accepts(Size, f.buf, [wst EXCEPT !.nonce = NextRecordNonce(@), !.pre = FALSE,
                                                  !.words = f.skip])

(* VisionWriter: the whole frame is written and flushed before the next.    *)
(* What the traffic looks like decides when the bare part begins.           *)
VisionWritePayload ==
    /\ In({"vision"}, "write")
    /\ \/ Drains
       \/ wbuf = <<>> /\ wst.direct /\ Bare
       \/ /\ wbuf = <<>> /\ ~wst.direct
          /\ \E app \in BOOLEAN, tls12 \in BOOLEAN :
               LET last == app \/ (~tls12 /\ wst.words >= 2) IN
               Accepts(Size, Opening \o <<<<"len", Size>>, <<"cmd", last>>>> \o Body
                               \o <<<<"pad", 0>>>>,
                       [wst EXCEPT !.pre = FALSE, !.words = @ + 1, !.direct = last])

(* VisionWriter flushes the DIRECT record and sets direct_write before it   *)
(* takes more.                                                              *)
GoesDirect ==
    /\ wk = "direct" /\ wend = "open" /\ call = "none"
    /\ Len(chunks) = 1 /\ wbuf = <<>> /\ ~wst.direct
    /\ wst' = [wst EXCEPT !.direct = TRUE]
    /\ UNCHANGED <<wk, call, ask, chunks, wbuf, sent, credit, wend>>

CamouflagePollWrite ==
    /\ In({"camouflage"}, "write")
    /\ Drains \/ (wbuf = <<>> /\ Bare)

(* The vmess downlink seals what it read and writes all of it.              *)
VmessWrite ==
    /\ In({"vmess"}, "write")
    /\ \/ Drains
       \/ /\ wbuf = <<>>
          /\ Accepts(Size,
               <<<<"len", Size>>, <<"hdr", wst.words + 1>>>> \o Body \o <<<<"tag", wst.nonce>>>>
                 \o [j \in 1..PaddingWord(wst.words) |-> <<"pad", 0>>],
               [wst EXCEPT !.words = @ + 2, !.nonce = @ + 1])

-----------------------------------------------------------------------------
(* SinkWriter over FramedWrite: the buffer takes more until it holds        *)
(* Pressure bytes; all that is offered is split into frames at once.        *)
SinkPiece(i) ==
    LET n == IF Accepted + ask - (Accepted + (i - 1) * Chunk) < Chunk
             THEN ask - (i - 1) * Chunk ELSE Chunk
    IN  [n |-> n, from |-> Accepted + (i - 1) * Chunk]

SinkPieces == [i \in 1..((ask + Chunk - 1) \div Chunk) |-> SinkPiece(i)]

(* The encoders: ShadowsocksEncrypter, TlsResponse, HttpResponse, Verified. *)
AeadEncode(p, i) ==
    (IF i = 1 THEN Opening ELSE <<>>)
      \o <<<<"len", p.n>>, <<"tag", wst.nonce + 2 * i - 2>>>> \o Payload(p.n, p.from)
      \o <<<<"tag", wst.nonce + 2 * i - 1>>>>
TlsResponseEncode(p, i) ==
    (IF i = 1 THEN Opening ELSE <<>>) \o <<<<"len", p.n>>, <<"hdr", 0>>>> \o Payload(p.n, p.from)
VerifiedEncode(p, i) ==
    <<<<"len", p.n>>, <<"hdr", 0>>, <<"tag", wst.nonce + i - 1>>>> \o Payload(p.n, p.from)
GunEncode(p, i) ==
    <<<<"len", p.n>>, <<"hdr", 0>>>> \o Payload(p.n, p.from)
HttpResponseEncode == Opening \o Payload(ask, Accepted)

Queues(sizes, frames, next) ==
    /\ Len(wbuf) < Pressure
    /\ wbuf' = wbuf \o frames
    /\ chunks' = chunks \o sizes
    /\ wst' = next
    /\ call' = "none" /\ ask' = 0
    /\ UNCHANGED <<wk, sent, credit, wend>>

SinkWrite ==
    LET pieces == SinkPieces
        sizes == [i \in 1..Len(pieces) |-> pieces[i].n]
        all(Encode(_, _)) == FlattenSeq([i \in 1..Len(pieces) |-> Encode(pieces[i], i)])
    IN  \/ In({"aead"}, "write")
             /\ Queues(sizes, all(AeadEncode),
                       [wst EXCEPT !.pre = FALSE, !.nonce = @ + 2 * Len(pieces)])
        \/ In({"obfs"}, "write")
             /\ Queues(sizes, all(TlsResponseEncode), [wst EXCEPT !.pre = FALSE])
        \/ In({"shadowtls"}, "write")
             /\ Queues(sizes, all(VerifiedEncode), [wst EXCEPT !.nonce = @ + Len(pieces)])
        \/ In({"gun"}, "write") /\ Queues(<<ask>>, GunEncode([n |-> ask, from |-> Accepted], 1), wst)
        \/ In({"obfs_http"}, "write")
             /\ Queues(<<ask>>, HttpResponseEncode, [wst EXCEPT !.pre = FALSE])
        \/ In({"aead", "obfs", "shadowtls", "obfs_http", "gun"}, "write")
             /\ Len(wbuf) >= Pressure /\ Drains

(* WebSocketStreamWrapper: one message of at most Chunk bytes, flushed as   *)
(* far as it goes.                                                          *)
WsPollWrite ==
    /\ In({"ws"}, "write")
    /\ \/ Drains
       \/ wbuf = <<>> /\ Accepts(Size, Body, wst)

(* The plugin's WebSocket leaves the message to the next flush.             *)
SsWsPollWrite ==
    /\ In({"ss_ws"}, "write")
    /\ \/ Drains
       \/ wbuf = <<>> /\ Queues(<<Size>>, Body, wst)
-----------------------------------------------------------------------------
(* HTTP/2 streams send no more than the peer's credit allows.               *)
WindowGrows ==
    /\ wk \in H2Kinds /\ wend = "open" /\ credit + Len(sent) < 3 * Total
    /\ credit' \in { credit + 1, credit + 2 }
    /\ UNCHANGED <<wk, call, ask, chunks, wbuf, sent, wst, wend>>

SendsData(n, frame) ==
    /\ n > 0
    /\ sent' = sent \o frame
    /\ credit' = credit - Len(frame)
    /\ chunks' = Append(chunks, n)
    /\ call' = "none" /\ ask' = 0
    /\ UNCHANGED <<wk, wbuf, wst, wend>>

Fits(room) == IF room < Size THEN room ELSE Size

(* 16 bytes of the credit are kept for the headers of the message.          *)
GrpcPollWrite ==
    /\ In({"grpc"}, "write") /\ credit > 2
    /\ LET n == Fits(credit - 2) IN
       SendsData(n, <<<<"len", n>>, <<"hdr", 0>>>> \o Payload(n, Accepted))

H2PollWrite ==
    /\ In({"h2"}, "write") /\ credit > 0
    /\ SendsData(Fits(credit), Payload(Fits(credit), Accepted))

SsH2PollWrite ==
    /\ In({"ss_h2"}, "write") /\ credit > 0
    /\ SendsData(Fits(credit), Payload(Fits(credit), Accepted))

XHttpPollWrite ==
    /\ In({"xhttp"}, "write") /\ credit > 0
    /\ SendsData(Fits(credit), Payload(Fits(credit), Accepted))

-----------------------------------------------------------------------------
Returns == call' = "none" /\ ask' = 0

PollFlush ==
    /\ wk # "none" /\ wend = "open" /\ call = "flush"
    /\ \/ Drains
       \/ wbuf = <<>> /\ Returns /\ UNCHANGED <<wk, chunks, wbuf, sent, wst, credit, wend>>

Shuts ==
    /\ Returns /\ wend' = "shut"
    /\ UNCHANGED <<wk, chunks, wbuf, sent, wst, credit>>

(* Most wrappers flush and shut the inner stream down.                      *)
FlushingShutdown ==
    /\ In((PendingKinds \ {"chunked"}) \union SinkKinds, "shutdown")
    /\ Drains \/ (wbuf = <<>> /\ Shuts)

(* The response header that is still pending is not sent.                   *)
CamouflageShutdown == In({"camouflage"}, "shutdown") /\ Shuts

Terminator == <<<<"len", 0>>, <<"cr", 0>>, <<"lf", 0>>, <<"cr", 0>>, <<"lf", 0>>>>

ChunkedShutdown ==
    /\ In({"chunked"}, "shutdown")
    /\ \/ /\ ~wst.ended
          /\ wst' = [wst EXCEPT !.ended = TRUE]
          /\ wbuf' = wbuf \o Terminator
          /\ UNCHANGED <<wk, call, ask, chunks, sent, credit, wend>>
       \/ wst.ended /\ Drains
       \/ wst.ended /\ wbuf = <<>> /\ Shuts

(* The last chunk of a vmess answer is an empty one.                        *)
VmessShutdown ==
    /\ In({"vmess"}, "shutdown")
    /\ \/ /\ ~wst.ended
          /\ wst' = [wst EXCEPT !.ended = TRUE]
          /\ wbuf' = wbuf \o <<<<"len", 0>>, <<"hdr", wst.words + 1>>, <<"tag", wst.nonce>>>>
                          \o [j \in 1..PaddingWord(wst.words) |-> <<"pad", 0>>]
          /\ UNCHANGED <<wk, call, ask, chunks, sent, credit, wend>>
       \/ wst.ended /\ Drains
       \/ wst.ended /\ wbuf = <<>> /\ Shuts

(* grpc-status trailers, or an empty frame that ends the stream.            *)
H2Shutdown ==
    /\ In(H2Kinds, "shutdown")
    /\ sent' = Append(sent, <<"end", 0>>)
    /\ Returns /\ wend' = "shut"
    /\ UNCHANGED <<wk, chunks, wbuf, wst, credit>>

WriteDone == wk # "none" /\ wend # "open" /\ UNCHANGED wvars

WriteNext ==
    \/ Calls \/ Abandons \/ InnerFails \/ NaivePollWrite \/ ChunkedPollWrite
    \/ Ss2022PollWrite \/ RecordPollWrite \/ GoesDirect \/ CamouflagePollWrite
    \/ VmessWrite \/ SinkWrite \/ WsPollWrite \/ WindowGrows \/ GrpcPollWrite
    \/ XorPollWrite \/ VisionWritePayload \/ SsWsPollWrite \/ SsH2PollWrite
    \/ H2PollWrite \/ XHttpPollWrite \/ PollFlush \/ FlushingShutdown
    \/ CamouflageShutdown \/ ChunkedShutdown \/ VmessShutdown \/ H2Shutdown
    \/ WriteDone
-----------------------------------------------------------------------------
WantedVision ==
    FlattenSeq([i \in 1..Len(chunks) |->
      IF i > wst.words THEN Payload(chunks[i], SumTo(chunks, i - 1))
      ELSE <<<<"len", chunks[i]>>, <<"cmd", wst.direct /\ i = wst.words>>>>
             \o Payload(chunks[i], SumTo(chunks, i - 1)) \o <<<<"pad", 0>>>>])

(* The wire a peer that accepted the same pieces would have to see.         *)
Wanted ==
    (IF chunks # <<>> \/ wk = "camouflage" THEN Preamble(wk) ELSE <<>>)
      \o (IF wk = "vision" THEN WantedVision ELSE WireOf(wk, chunks, Len(chunks)))
      \o CASE wk = "chunked" /\ wst.ended -> Terminator
           [] wk = "vmess" /\ wst.ended ->
                Encoded("vmess", Len(chunks) + 1, 0, Accepted, Len(chunks))
           [] wk \in H2Kinds /\ wend = "shut" -> <<<<"end", 0>>>>
           [] OTHER -> <<>>

(* Whatever the inner stream takes, and whichever call is abandoned while   *)
(* it is pending, the bytes handed to the inner stream and the bytes still  *)
(* buffered are together the frames of exactly the payload that was         *)
(* accepted: a piece accepted is never lost, repeated or torn, and the      *)
(* opening and closing bytes go out once.  A shutdown that says Ok leaves   *)
(* nothing behind in the buffer (the HTTP camouflage of tcp.rs leaves its   *)
(* response header there if nothing was written), and an HTTP/2 stream      *)
(* stays within the window it was given.                                    *)
WritesPayload ==
    /\ wk # "none" => sent \o wbuf = Wanted
    /\ wend = "shut" => wbuf = <<>> \/ (wk = "camouflage" /\ chunks = <<>>)
    /\ credit >= 0
=============================================================================
