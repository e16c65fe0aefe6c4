---------------------------- MODULE ProxyHeader ----------------------------
(***************************************************************************)
(* PROXY headers (conn/proxy_protocol.rs): what the reader takes off the    *)
(* front of a connection, whose address it then believes, and what it hands *)
(* on, when the bytes arrive in any portions and may end anywhere.  The     *)
(* headers come from the encoders that the node itself uses, and from       *)
(* others.                                                                  *)
(*                                                                         *)
(* A stream is a sequence of units: the signature and the word PROXY are    *)
(* two each, the rest of the fixed part of version 2 two (command and       *)
(* family; length), a line of version 1 its words and its end.              *)
(***************************************************************************)
EXTENDS Integers, Sequences, SequencesExt

CONSTANTS FirstRead,    \* 1024: the most the first read takes
          LineLimit     \* 108: where the search for the end of a line stops

VARIABLE head     \* the reader, its configuration and the stream it reads
headVars == <<head>>

Sig == <<"sig", "nature">>
Word == <<"PRO", "XY ">>
\* The address families of a pair.
Pairs == [src : {"client4", "client6"}, dst : {"dest4", "dest6"}]
Family(p) == IF p = [src |-> "client4", dst |-> "dest4"] THEN "inet"
             ELSE IF p = [src |-> "client6", dst |-> "dest6"] THEN "inet6" ELSE "unspec"
Lengths == <<"1", "2", "3", "4">>
LengthOf(u) == IF u \in ToSet(Lengths) THEN CHOOSE i \in DOMAIN Lengths : Lengths[i] = u ELSE 0

\* encode_proxy_protocol_v1
EncodeV1(p) ==
    CASE Family(p) = "inet" -> <<"PRO", "XY ", "TCP4", p.src, p.dst, "end">>
      [] Family(p) = "inet6" -> <<"PRO", "XY ", "TCP6", p.src, p.dst, "end">>
      [] OTHER -> <<"PRO", "XY ", "UNKNOWN", "end">>
\* encode_proxy_protocol_v2
EncodeV2(p) ==
    CASE Family(p) = "inet" -> Sig \o <<"proxy inet", "2", p.src, p.dst>>
      [] Family(p) = "inet6" -> Sig \o <<"proxy inet6", "3", p.src, p.dst, "more">>
      [] OTHER -> Sig \o <<"local", "0">>
\* Headers others send: one with an extension, one too short for its family, one of
\* another version, a line that does not parse, one that does not end in time.
Foreign ==
    {Sig \o <<"proxy inet", "3", "client4", "dest4", "extension">>, Sig \o <<"proxy inet", "1", "client4">>,
     Sig \o <<"version 3", "0">>, <<"PRO", "XY ", "TCP4", "client4", "end">>,
     <<"PRO", "XY ", "TCP4", "client4", "dest4", "x", "x", "x", "end">>, <<>>}
OwnHeaders == {EncodeV1(p) : p \in Pairs} \cup {EncodeV2(p) : p \in Pairs}
Payloads == {<<>>, <<"data">>, <<"data", "end", "data">>}
-----------------------------------------------------------------------------
Stop(h, at) == [h EXCEPT !.at = at]
\* PrefixedStream: what was read too much comes before what was not read yet.
Rest(h, from) == SubSeq(h.buf, from, Len(h.buf)) \o h.stream
Pass(h, client, version, from) ==
    [h EXCEPT !.at = "open", !.client = client, !.version = version, !.rest = Rest(h, from), !.stream = <<>>]
\* A header with addresses: believed from a trusted peer, refused from another in
\* strict mode, dropped otherwise.
Believe(h, src, version, from) ==
    IF h.trusted THEN Pass(h, src, version, from)
    ELSE IF h.mode = "strict" THEN Stop(h, "refused")
    ELSE Pass(h, "peer", 0, from)
\* Nothing recognised: the bytes are payload, or the connection is refused.
Unrecognised(h) == IF h.mode = "strict" THEN Stop(h, "refused") ELSE Pass(h, "peer", 0, 1)

HeaderLen(b) == 4 + LengthOf(b[4])
\* The header of version 2 once all of it is there.
ReadV2(h) ==
    LET b == h.buf
        fits == \/ b[3] = "proxy inet" /\ LengthOf(b[4]) >= 2
                \/ b[3] = "proxy inet6" /\ LengthOf(b[4]) >= 3
    IN  IF fits THEN Believe(h, b[5], 2, HeaderLen(b) + 1)
        ELSE Pass(h, "peer", 2, HeaderLen(b) + 1)
\* Variant with a defect: what came with the line is taken for a part of it.
ReadV1Greedy(h) ==
    LET end == CHOOSE i \in DOMAIN h.buf : h.buf[i] = "end" /\ \A j \in 1..(i - 1) : h.buf[j] # "end"
        parts == SubSeq(h.buf, 1, end - 1)
    IN  IF Len(parts) >= 5 /\ parts[3] \in {"TCP4", "TCP6"} THEN Believe(h, parts[4], 1, Len(h.buf) + 1)
        ELSE IF Len(parts) >= 3 /\ parts[3] = "UNKNOWN" THEN Pass(h, "peer", 1, end + 1)
        ELSE Unrecognised(h)
\* The line of version 1 once its end is there.
ReadV1(h) ==
    LET end == CHOOSE i \in DOMAIN h.buf : h.buf[i] = "end" /\ \A j \in 1..(i - 1) : h.buf[j] # "end"
        parts == SubSeq(h.buf, 1, end - 1)
    IN  IF Len(parts) >= 5 /\ parts[3] \in {"TCP4", "TCP6"} THEN Believe(h, parts[4], 1, end + 1)
        ELSE IF Len(parts) >= 3 /\ parts[3] = "UNKNOWN" THEN Pass(h, "peer", 1, end + 1)
        ELSE Unrecognised(h)

\* read_proxy_protocol_with_meta: the first read, of whatever has arrived.
ReadFirst ==
    /\ head.at = "first"
    /\ \/ head.mode = "off" /\ head' = Pass(head, "peer", 0, 1)
       \/ /\ head.mode # "off" /\ head.stream = <<>>
          /\ head' = Pass(head, "peer", 0, 1)
       \/ /\ head.mode # "off"
          /\ \E n \in 1..FirstRead :
               /\ n <= Len(head.stream)
               /\ head' = [head EXCEPT !.at = "parse", !.buf = SubSeq(head.stream, 1, n), !.first = n,
                                       !.stream = SubSeq(head.stream, n + 1, Len(head.stream))]

\* One more unit, where the header is not complete.
More(h) == [h EXCEPT !.buf = Append(@, Head(h.stream)), !.stream = Tail(@)]
IsV2(h) == IsPrefix(Sig, h.buf)
IsV1(h) == IsPrefix(Word, h.buf)
ParseV2 ==
    /\ head.at = "parse" /\ IsV2(head)
    /\ head' =
         IF Len(head.buf) < 4 THEN (IF head.stream = <<>> THEN Stop(head, "refused") ELSE More(head))
         ELSE IF head.buf[3] = "version 3" THEN Unrecognised(head)
         ELSE IF Len(head.buf) < HeaderLen(head.buf) THEN (IF head.stream = <<>> THEN Stop(head, "refused") ELSE More(head))
         ELSE ReadV2(head)
ParseV1 ==
    /\ head.at = "parse" /\ IsV1(head)
    /\ head' =
         IF "end" \in ToSet(head.buf) THEN ReadV1(head)
         ELSE IF Len(head.buf) < LineLimit /\ head.stream # <<>> THEN More(head)
         ELSE Unrecognised(head)
ParseNone ==
    /\ head.at = "parse" /\ ~IsV1(head) /\ ~IsV2(head)
    /\ head' = Unrecognised(head)

\* parse_proxy_protocol_datagram: version 2 only, from anyone.
ParseDatagram ==
    /\ head.at = "datagram"
    /\ LET whole == [head EXCEPT !.buf = head.stream, !.stream = <<>>]
           b == whole.buf
       IN  head' =
             IF head.mode = "off" \/ Len(b) < 4 THEN Pass(whole, "peer", 0, 1)
             ELSE IF ~IsV2(whole) \/ b[3] = "version 3" \/ Len(b) < HeaderLen(b) THEN Unrecognised(whole)
             ELSE ReadV2([whole EXCEPT !.trusted = TRUE])
-----------------------------------------------------------------------------
\* A connection or a datagram, whole or cut short.
HeadInit ==
    \E f \in OwnHeaders \cup Foreign, p \in Payloads, m \in {"off", "auto", "strict"}, t \in BOOLEAN,
       at \in {"first", "datagram"} :
      \E cut \in 0..Len(f \o p) :
        head = [at |-> at, mode |-> m, trusted |-> t, header |-> f, payload |-> p, whole |-> cut >= Len(f),
                sent |-> SubSeq(f \o p, 1, cut), stream |-> SubSeq(f \o p, 1, cut), udp |-> at = "datagram",
                buf |-> <<>>, first |-> 0, client |-> "none", version |-> 0, rest |-> <<>>]
HeadNone == head = [at |-> "none"]
HeadSettled == head.at \in {"open", "refused"}
HeadNext ==
    \/ HeadSettled /\ UNCHANGED head
    \/ ReadFirst \/ ParseV2 \/ ParseV1 \/ ParseNone \/ ParseDatagram
-----------------------------------------------------------------------------
\* What passes the reader: the bytes after the header, all of them, or everything
\* when no header was taken off; an address other than the peer's only from a peer
\* that is trusted (or in a datagram); and a header of the node's own encoders is
\* taken off whole and its address believed, however the connection cuts it, unless
\* the first read ends inside the signature or the word (read_proxy_protocol_with_meta).
HeaderStripped ==
    /\ head.at = "open" =>
         /\ head.rest = head.sent \/ (IsPrefix(head.header, head.sent) /\ head.header \o head.rest = head.sent)
         /\ head.client # "peer" => (head.trusted \/ head.udp) /\ head.mode # "off"
    /\ /\ head.at \in {"open", "refused"} /\ head.mode # "off" /\ head.whole
       /\ head.header \in OwnHeaders /\ Len(head.header) <= LineLimit
       /\ IF head.udp THEN IsPrefix(Sig, head.header) ELSE head.first >= 2
       => /\ head.at = "refused" => ~head.trusted /\ head.mode = "strict" /\ ~head.udp
          /\ head.at = "open" => head.header \o head.rest = head.sent
          /\ head.at = "open" /\ (head.trusted \/ head.udp) =>
               \A p \in Pairs : head.header \in {EncodeV1(p), EncodeV2(p)} =>
                 head.client = IF Family(p) = "unspec" THEN "peer" ELSE p.src
=============================================================================
