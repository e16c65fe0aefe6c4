----------------------------- MODULE StreamRead -----------------------------
(***************************************************************************)
(* The reading half of the stream wrappers: what poll_read of each one     *)
(* makes of the bytes its inner stream hands over.  A peer has framed a    *)
(* payload and closes its side at some point of the wire; the inner stream *)
(* delivers what was sent in segments of any size, so a header, a tag or a *)
(* line end may be split anywhere.  One action is one turn of a wrapper's  *)
(* poll loop: its buffers are all that survives from one turn to the next, *)
(* so a poll that returns Pending and a poll that goes on are the same     *)
(* step here.                                                              *)
(*                                                                         *)
(* A byte is a token <<kind, value>>: "len" opens a header and carries the *)
(* length, "hdr" stands for its other bytes, "d" is payload byte number n, *)
(* "pad" is padding, "tag" is an authentication tag made with counter n,   *)
(* "cr" and "lf" end a line, "x" is a byte of a trailer line.              *)
(***************************************************************************)
EXTENDS Integers, Sequences, SequencesExt

CONSTANTS
    Scripts,    \* payload sizes of the frames a peer sends, as sequences
    Padded,     \* K_FIRST_PADDINGS: frames of a Naive stream that are padded
    MaxNonce,   \* the counter value at which a VLESS record key is replaced
    Segment,    \* the most tokens one inner read hands over
    Room        \* the most tokens the caller's buffer takes

VARIABLES
    rsrc,       \* what was sent: [kind, frames, cut]
    wire,       \* tokens sent and not yet read
    raw,        \* the wrapper's buffer of undecoded tokens
    plain,      \* the wrapper's buffer of decoded tokens
    rst,        \* [mode, n, left, nonce, words, skip, header]: its other fields
    out,        \* tokens handed to the caller
    rend        \* "open", "eof" or "error": what the last poll said

rvars == <<rsrc, wire, raw, plain, rst, out, rend>>

FrameKinds == {"naive", "grpc", "gun", "chunked", "aead", "ss2022", "record", "xor",
               "obfs", "shadowtls", "vision"}
VmessKinds == {"vmess", "vmess_auth"}
DirectKinds == {"direct", "tls"}
PassKinds == {"h2", "ss_h2", "xhttp", "ws", "ss_ws", "prefix", "camouflage"}

Payload(n, from) == [i \in 1..n |-> <<"d", from + i>>]

(* The padding a word of the VMess mask stream asks for.                    *)
PaddingWord(w) == (w \div 2) % 2

(* What the peer's encoder makes of the i-th frame, of n payload bytes that *)
(* follow the first `from`; c is its authentication counter.                *)
Encoded(kind, i, n, from, c) ==
    CASE kind = "naive" ->
           IF i <= Padded
           THEN <<<<"len", n>>, <<"hdr", 1>>>> \o Payload(n, from) \o <<<<"pad", 0>>>>
           ELSE Payload(n, from)
      [] kind = "vision" ->
           (IF i = 1 THEN <<<<"uuid", 0>>>> ELSE <<>>)
             \o IF i <= Padded
                THEN <<<<"len", n>>, <<"cmd", i = Padded>>>> \o Payload(n, from) \o <<<<"pad", 0>>>>
                ELSE Payload(n, from)
      [] kind = "xor" ->
           IF n = 0 THEN <<>>
           ELSE <<<<"xlen", n>>, <<"xhdr", 0>>>> \o Payload(n, from) \o <<<<"tag", c>>>>
      [] kind \in {"grpc", "gun", "obfs"} ->
           <<<<"len", n>>, <<"hdr", 0>>>> \o Payload(n, from)
      [] kind = "chunked" ->
           <<<<"len", n>>, <<"cr", 0>>, <<"lf", 0>>>> \o Payload(n, from)
             \o IF n = 0 THEN <<<<"x", 0>>, <<"cr", 0>>, <<"lf", 0>>, <<"cr", 0>>, <<"lf", 0>>>>
                         ELSE <<<<"cr", 0>>, <<"lf", 0>>>>
      [] kind = "aead" \/ (kind = "ss2022" /\ n > 0) ->
           <<<<"len", n>>, <<"tag", c>>>> \o Payload(n, from) \o <<<<"tag", c + 1>>>>
      [] kind = "ss2022" -> <<<<"len", n>>, <<"tag", c>>>>
      [] kind = "record" ->
           IF n = 0 THEN <<>>
           ELSE <<<<"len", n>>, <<"hdr", 0>>>> \o Payload(n, from) \o <<<<"tag", c>>>>
      [] kind = "shadowtls" ->
           <<<<"len", n>>, <<"hdr", 0>>, <<"tag", c>>>> \o Payload(n, from)
      [] kind = "vmess" ->
           <<<<"len", n>>, <<"hdr", 2 * i - 1>>>> \o Payload(n, from) \o <<<<"tag", i - 1>>>>
             \o [j \in 1..PaddingWord(2 * i - 2) |-> <<"pad", 0>>]
      [] kind = "vmess_auth" ->
           <<<<"len", n>>, <<"tag", i - 1>>>> \o Payload(n, from) \o <<<<"tag", i - 1>>>>
      \* Vision: the first record says DIRECT, what follows is sent bare
      [] kind \in DirectKinds /\ i = 1 ->
           <<<<"len", n>>, <<"hdr", 0>>>> \o Payload(n, from) \o <<<<"tag", c>>>>
      [] OTHER -> Payload(n, from)

Counters(kind, n) ==
    CASE kind = "aead" \/ (kind = "ss2022" /\ n > 0) -> 2
      [] kind \in {"ss2022", "shadowtls"} \/ (kind \in {"record", "xor"} /\ n > 0) -> 1
      [] OTHER -> 0

SumTo(f, i) == FoldLeft(+, 0, SubSeq(f, 1, i))

FrameAt(kind, f, i) ==
    Encoded(kind, i, f[i], SumTo(f, i - 1),
            LET c == SumTo([j \in 1..Len(f) |-> Counters(kind, f[j])], i - 1)
            IN  IF kind \in {"record", "xor"} THEN (c \div (MaxNonce + 1)) * 10 + (c % (MaxNonce + 1)) ELSE c)

WireOf(kind, f, i) == FlattenSeq([j \in 1..i |-> FrameAt(kind, f, j)])

(* Where a peer may close without cutting a frame.                          *)
Boundaries(kind, f) ==
    IF kind \in VmessKinds
    THEN IF Last(f) = 0 THEN { Len(WireOf(kind, f, Len(f) - 1)) + 2 + k : k \in 0..2 } ELSE {}
    ELSE { Len(WireOf(kind, f, i)) : i \in (IF kind = "vision" THEN 1 ELSE 0)..Len(f) }
           \union IF kind = "vision" THEN {1} ELSE {}

RRest(mode) == [mode |-> mode, n |-> 0, left |-> Padded, nonce |-> 0, words |-> 0,
                skip |-> 0, header |-> <<>>]

ReadInit ==
    /\ \E kind \in FrameKinds \union VmessKinds \union DirectKinds \union PassKinds,
         f \in Scripts :
         LET whole == WireOf(kind, f, Len(f)) IN
         \E cut \in 0..Len(whole) :
           /\ rsrc = [kind |-> kind, frames |-> f, cut |-> cut]
           /\ kind \in DirectKinds => f[1] > 0
           \* the empty chunk is the last
           /\ kind \in VmessKinds \union {"chunked"} => \A i \in 1..(Len(f) - 1) : f[i] > 0
           \* the handshake may have read ahead of itself
           /\ \E ahead \in IF kind \in {"prefix", "camouflage"} THEN 0..cut ELSE {0} :
                /\ plain = SubSeq(whole, 1, ahead)
                /\ wire = SubSeq(whole, ahead + 1, cut)
    /\ raw = <<>> /\ out = <<>> /\ rend = "open"
    /\ rst = RRest("length")

ReadNone ==
    /\ rsrc = [kind |-> "none", frames |-> <<>>, cut |-> 0]
    /\ wire = <<>> /\ raw = <<>> /\ plain = <<>> /\ out = <<>> /\ rend = "open"
    /\ rst = RRest("length")

-----------------------------------------------------------------------------
Reading(kind) == rsrc.kind = kind /\ rend = "open"

Take(s, n) == SubSeq(s, 1, n)
DropN(s, n) == SubSeq(s, n + 1, Len(s))

(* The inner poll_read, into the undecoded buffer: some tokens, no more     *)
(* than there is room for.                                                  *)
FetchAtMost(room) ==
    \E k \in 1..Segment :
      /\ k <= Len(wire) /\ k <= room
      /\ raw' = raw \o Take(wire, k)
      /\ wire' = DropN(wire, k)
      /\ UNCHANGED <<rsrc, plain, rst, out, rend>>

Fetch == FetchAtMost(Segment)

(* The inner poll_read with the caller's own buffer.                        *)
PassOn ==
    \E k \in 1..Room :
      /\ k <= Len(wire)
      /\ out' = out \o Take(wire, k)
      /\ wire' = DropN(wire, k)
      /\ UNCHANGED <<rsrc, raw, plain, rst, rend>>

(* A buffered token goes to the caller.                                     *)
Deliver ==
    \E k \in 1..Room :
      /\ k <= Len(plain)
      /\ out' = out \o Take(plain, k)
      /\ plain' = DropN(plain, k)
      /\ UNCHANGED <<rsrc, wire, raw, rst, rend>>

DeliverRaw ==
    \E k \in 1..Room :
      /\ k <= Len(raw)
      /\ out' = out \o Take(raw, k)
      /\ raw' = DropN(raw, k)
      /\ UNCHANGED <<rsrc, wire, plain, rst, rend>>

Says(end) == rend' = end /\ UNCHANGED <<rsrc, wire, raw, plain, rst, out>>

(* Decoding: `used` undecoded tokens become the payload `made`.             *)
Decodes(used, made, next) ==
    /\ raw' = DropN(raw, used)
    /\ plain' = plain \o made
    /\ rst' = next
    /\ UNCHANGED <<rsrc, wire, out, rend>>

Closed == wire = <<>>
EndsIf(clean) == Closed /\ Says(IF clean THEN "eof" ELSE "error")

-----------------------------------------------------------------------------
(* NaivePaddedStream: the first frames carry padding, then raw bytes.       *)
\* Variant with a defect: the padding is not part of the frame.
NaiveUnpadded == 2 + raw[1][2]

\* The length of the frame at the head of the buffer.
NaiveFrame == 2 + raw[1][2] + raw[2][2]
NaiveWhole == Len(raw) >= 2 /\ Len(raw) >= NaiveFrame

NaivePollRead ==
    /\ Reading("naive")
    /\ \/ Deliver
       \/ plain = <<>> /\ rst.left = 0 /\ DeliverRaw
       \/ plain = <<>> /\ rst.left = 0 /\ raw = <<>> /\ (PassOn \/ EndsIf(TRUE))
       \/ /\ plain = <<>> /\ rst.left > 0 /\ NaiveWhole
          /\ Decodes(NaiveFrame, SubSeq(raw, 3, 2 + raw[1][2]),
                     [rst EXCEPT !.left = @ - 1])
       \/ /\ plain = <<>> /\ rst.left > 0 /\ ~NaiveWhole
          /\ Fetch \/ EndsIf(raw = <<>>)

(* GrpcStreamWrapper: length-prefixed messages in HTTP/2 data frames.  At   *)
(* the end of the stream an unfinished message is dropped without a word.   *)
GrpcWhole == Len(raw) >= 2 /\ Len(raw) >= 2 + raw[1][2]

GrpcPollRead ==
    /\ Reading("grpc")
    /\ \/ Deliver
       \/ GrpcWhole /\ Decodes(2 + raw[1][2], SubSeq(raw, 3, 2 + raw[1][2]), rst)
       \/ plain = <<>> /\ ~GrpcWhole /\ (Fetch \/ EndsIf(TRUE))

(* Gun under FramedRead: the same messages, and an unfinished one is an     *)
(* error.                                                                   *)
GunPollRead ==
    /\ Reading("gun")
    /\ \/ Deliver
       \/ plain = <<>> /\ GrpcWhole
            /\ Decodes(2 + raw[1][2], SubSeq(raw, 3, 2 + raw[1][2]), rst)
       \/ plain = <<>> /\ ~GrpcWhole /\ (Fetch \/ EndsIf(raw = <<>>))

(* XHttpChunkedStream: chunked transfer coding, five states.                *)
LineEnd == { i \in 1..(Len(raw) - 1) : raw[i] = <<"cr", 0>> /\ raw[i + 1] = <<"lf", 0>> }

ChunkedReadingLength ==
    \/ /\ LineEnd # {}
       /\ LET p == CHOOSE i \in LineEnd : \A j \in LineEnd : i <= j IN
          IF p = 2 /\ raw[1][1] = "len"
          THEN Decodes(3, <<>>,
                 [rst EXCEPT !.mode = IF raw[1][2] = 0 THEN "trailer" ELSE "data",
                             !.n = raw[1][2]])
          ELSE Says("error")
    \/ LineEnd = {} /\ (Fetch \/ EndsIf(TRUE))

ChunkedReadingData ==
    \/ /\ raw # <<>>
       /\ \E k \in 1..Room :
            /\ k <= Len(raw) /\ k <= rst.n
            /\ out' = out \o Take(raw, k)
            /\ raw' = DropN(raw, k)
            /\ rst' = [rst EXCEPT !.n = @ - k,
                                  !.mode = IF rst.n = k THEN "crlf" ELSE "data"]
            /\ UNCHANGED <<rsrc, wire, plain, rend>>
    \/ raw = <<>> /\ (Fetch \/ EndsIf(FALSE))

ChunkedReadingCrlf ==
    \/ Len(raw) >= 2 /\ Decodes(2, <<>>, [rst EXCEPT !.mode = "length"])
    \/ Len(raw) < 2 /\ (Fetch \/ EndsIf(FALSE))

ChunkedReadingTrailer ==
    \/ /\ LineEnd # {}
       /\ LET p == CHOOSE i \in LineEnd : \A j \in LineEnd : i <= j IN
          /\ raw' = DropN(raw, p + 1)
          /\ rend' = IF p = 1 THEN "eof" ELSE "open"
          /\ rst' = [rst EXCEPT !.mode = IF p = 1 THEN "eof" ELSE "trailer"]
          /\ UNCHANGED <<rsrc, wire, plain, out>>
    \/ LineEnd = {} /\ (Fetch \/ EndsIf(TRUE))

ChunkedPollRead ==
    /\ Reading("chunked")
    /\ CASE rst.mode = "length" -> ChunkedReadingLength
         [] rst.mode = "data" -> ChunkedReadingData
         [] rst.mode = "crlf" -> ChunkedReadingCrlf
         [] OTHER -> ChunkedReadingTrailer

(* ShadowsocksDecrypter under FramedRead and StreamReader: an encrypted     *)
(* length block, then the payload block; the length survives between calls. *)
AeadDecode ==
    IF rst.mode = "length"
    THEN /\ Len(raw) >= 2
         /\ IF raw[2] = <<"tag", rst.nonce>>
            THEN Decodes(2, <<>>, [rst EXCEPT !.mode = "data", !.n = raw[1][2],
                                              !.nonce = @ + 1])
            ELSE Says("error")
    ELSE /\ Len(raw) > rst.n
         /\ IF raw[rst.n + 1] = <<"tag", rst.nonce>>
            THEN Decodes(rst.n + 1, Take(raw, rst.n),
                         [rst EXCEPT !.mode = "length", !.n = 0, !.nonce = @ + 1])
            ELSE Says("error")

AeadWants == IF rst.mode = "length" THEN 2 ELSE rst.n + 1

AeadPollRead ==
    /\ Reading("aead")
    /\ \/ Deliver
       \/ plain = <<>> /\ AeadDecode
       \/ /\ plain = <<>> /\ Len(raw) < AeadWants
          /\ Fetch \/ EndsIf(raw = <<>> /\ rst.mode = "length")

(* Ss2022TcpReader: the same chunks read exactly, an empty chunk skipped.   *)
Ss2022ReadingLength ==
    \/ Len(raw) < 2 /\ (FetchAtMost(2 - Len(raw)) \/ EndsIf(raw = <<>>))
    \/ /\ Len(raw) = 2
       /\ IF raw[2] = <<"tag", rst.nonce>>
          THEN Decodes(2, <<>>, [rst EXCEPT !.mode = IF raw[1][2] = 0 THEN "length" ELSE "data",
                                            !.n = raw[1][2], !.nonce = @ + 1])
          ELSE Says("error")

Ss2022ReadingData ==
    \/ Len(raw) <= rst.n /\ (FetchAtMost(rst.n + 1 - Len(raw)) \/ EndsIf(FALSE))
    \/ /\ Len(raw) = rst.n + 1
       /\ IF raw[rst.n + 1] = <<"tag", rst.nonce>>
          THEN Decodes(rst.n + 1, Take(raw, rst.n),
                       [rst EXCEPT !.mode = "length", !.n = 0, !.nonce = @ + 1])
          ELSE Says("error")

Ss2022PollRead ==
    /\ Reading("ss2022")
    /\ \/ Deliver
       \/ plain = <<>> /\ rst.mode = "length" /\ Ss2022ReadingLength
       \/ plain = <<>> /\ rst.mode = "data" /\ Ss2022ReadingData

(* VlessEncryptionStream: sealed records whose key is replaced once the     *)
(* counter is at its greatest value.                                        *)
NextRecordNonce(c) == IF c % 10 = MaxNonce THEN (c \div 10 + 1) * 10 ELSE c + 1

RecordWants ==
    IF Len(raw) < 2 THEN 2 ELSE 2 + raw[1][2] + 1

RecordDecode ==
    /\ Len(raw) >= RecordWants
    /\ IF raw[RecordWants] = <<"tag", rst.nonce>>
       THEN Decodes(RecordWants, SubSeq(raw, 3, 2 + raw[1][2]),
                    [rst EXCEPT !.nonce = NextRecordNonce(@)])
       ELSE Says("error")

RecordPollRead ==
    /\ Reading("record")
    /\ \/ Deliver
       \/ plain = <<>> /\ RecordDecode
       \/ /\ plain = <<>> /\ Len(raw) < RecordWants
          /\ Fetch \/ EndsIf(raw = <<>>)

(* XorFilter: only the headers of the records are masked, with a key stream *)
(* that is stepped by header bytes alone, so each side has to know where    *)
(* the headers are.  Unmasking any other byte spoils it.                    *)
Mask(s) ==
    [i \in 1..Len(s) |->
       CASE s[i][1] = "xlen" -> <<"len", s[i][2]>> [] s[i][1] = "len" -> <<"xlen", s[i][2]>>
         [] s[i][1] = "xhdr" -> <<"hdr", s[i][2]>> [] s[i][1] = "hdr" -> <<"xhdr", s[i][2]>>
         [] OTHER -> <<"spoilt", 0>>]

(* decode_header: what follows a header up to the next one.                 *)
HeaderLength(h) == IF h[1][1] = "len" /\ h[2][1] = "hdr" THEN h[1][2] + 1 ELSE 0

RECURSIVE FilterIn(_, _, _, _)
FilterIn(done, rest, skip, header) ==
    LET tail == DropN(rest, skip)
        need == 2 - Len(header)
        clear == Mask(IF Len(tail) < need THEN tail ELSE Take(tail, need))
    IN  CASE rest = <<>> -> [buf |-> done, skip |-> skip, header |-> header]
          [] rest # <<>> /\ Len(rest) <= skip ->
               [buf |-> done \o rest, skip |-> skip - Len(rest), header |-> header]
          [] Len(rest) > skip /\ Len(tail) < need ->
               [buf |-> done \o Take(rest, skip) \o clear, skip |-> 0,
                header |-> header \o clear]
          [] OTHER -> FilterIn(done \o Take(rest, skip) \o clear, DropN(tail, need),
                               HeaderLength(header \o clear), <<>>)

FetchFiltered ==
    \E k \in 1..Segment :
      /\ k <= Len(wire)
      /\ LET f == FilterIn(<<>>, Take(wire, k), rst.skip, rst.header) IN
         /\ raw' = raw \o f.buf
         /\ rst' = [rst EXCEPT !.skip = f.skip, !.header = f.header]
      /\ wire' = DropN(wire, k)
      /\ UNCHANGED <<rsrc, plain, out, rend>>

XorPollRead ==
    /\ Reading("xor")
    /\ \/ Deliver
       \/ plain = <<>> /\ RecordDecode
       \/ /\ plain = <<>> /\ Len(raw) < RecordWants
          /\ FetchFiltered \/ EndsIf(raw = <<>>)

(* VisionReader: the user's id once, then frames with padding; END or       *)
(* DIRECT makes the rest bare.  Everything is read exactly, so nothing is   *)
(* read ahead; the payload is handed over after the padding.                *)
VisionWants ==
    CASE rst.mode = "uuid" -> 1
      [] rst.mode = "length" -> 2
      [] OTHER -> rst.n + 1

VisionReadPayload ==
    LET mode == IF rst.mode = "length" /\ rst.words = 0 THEN "uuid" ELSE rst.mode
        wants == IF mode = "uuid" THEN 1 ELSE VisionWants
    IN  /\ Reading("vision")
        /\ \/ Deliver
           \/ plain = <<>> /\ mode = "bare" /\ (PassOn \/ EndsIf(TRUE))
           \/ plain = <<>> /\ mode # "bare" /\ Len(raw) < wants
                /\ (FetchAtMost(wants - Len(raw)) \/ EndsIf(mode = "length" /\ raw = <<>>))
           \/ /\ plain = <<>> /\ mode # "bare" /\ Len(raw) = wants
              /\ CASE mode = "uuid" -> Decodes(1, <<>>, [rst EXCEPT !.words = 1])
                   [] mode = "length" ->
                        Decodes(2, <<>>, [rst EXCEPT !.mode = IF raw[2][2] THEN "last" ELSE "more",
                                                     !.n = raw[1][2]])
                   [] OTHER ->
                        Decodes(wants, Take(raw, rst.n),
                          [rst EXCEPT !.mode = IF mode = "last" THEN "bare" ELSE "length"])

(* Once the caller has read the DIRECT record it sets direct_read.          *)
DirectRead == Len(out) >= rsrc.frames[1]

DirectPollRead ==
    /\ Reading("direct")
    /\ \/ Deliver
       \/ plain = <<>> /\ DirectRead /\ DeliverRaw
       \/ plain = <<>> /\ DirectRead /\ raw = <<>> /\ (PassOn \/ EndsIf(TRUE))
       \/ plain = <<>> /\ ~DirectRead /\ RecordDecode
       \/ /\ plain = <<>> /\ ~DirectRead /\ Len(raw) < RecordWants
          /\ Fetch \/ EndsIf(raw = <<>>)

(* simple-obfs TlsRecords: empty records are skipped.                       *)
ObfsWants == IF Len(raw) < 2 THEN 2 ELSE 2 + raw[1][2]

ObfsPollRead ==
    /\ Reading("obfs")
    /\ \/ Deliver
       \/ /\ plain = <<>> /\ Len(raw) >= ObfsWants
          /\ Decodes(ObfsWants, SubSeq(raw, 3, ObfsWants), rst)
       \/ /\ plain = <<>> /\ Len(raw) < ObfsWants
          /\ Fetch \/ EndsIf(raw = <<>>)

(* ShadowTLS Verified: every record carries a tag chained over the earlier  *)
(* ones.                                                                    *)
ShadowTlsWants == IF Len(raw) < 2 THEN 2 ELSE 3 + raw[1][2]

ShadowTlsPollRead ==
    /\ Reading("shadowtls")
    /\ \/ Deliver
       \/ /\ plain = <<>> /\ Len(raw) >= ShadowTlsWants
          /\ IF raw[3] = <<"tag", rst.nonce>>
             THEN Decodes(ShadowTlsWants, SubSeq(raw, 4, ShadowTlsWants),
                          [rst EXCEPT !.nonce = @ + 1])
             ELSE Says("error")
       \/ /\ plain = <<>> /\ Len(raw) < ShadowTlsWants
          /\ Fetch \/ EndsIf(raw = <<>>)

(* VmessChunkDecrypter: the length is masked with a word of a stream that   *)
(* both ends step in the same order, after the word that gives the padding, *)
(* or sealed with a counter of its own; the empty chunk ends the upload.    *)
VmessLength ==
    LET pad == IF rsrc.kind = "vmess" THEN PaddingWord(rst.words) ELSE 0
        opens == IF rsrc.kind = "vmess" THEN raw[2] = <<"hdr", rst.words + 1>>
                                        ELSE raw[2] = <<"tag", rst.words>>
        next == [rst EXCEPT !.mode = "data", !.n = raw[1][2], !.left = pad,
                            !.words = @ + IF rsrc.kind = "vmess" THEN 2 ELSE 1]
    IN  CASE ~opens -> Says("error")
          [] opens /\ raw[1][2] = 0 -> Says("eof")
          [] OTHER -> Decodes(2, <<>>, next)

VmessPayload ==
    IF raw[rst.n + 1] = <<"tag", rst.nonce>>
    THEN Decodes(rst.n + 1 + rst.left, Take(raw, rst.n),
                 [rst EXCEPT !.mode = "length", !.n = 0, !.nonce = @ + 1])
    ELSE Says("error")

VmessWants == IF rst.mode = "length" THEN 2 ELSE rst.n + 1 + rst.left

VmessRead ==
    /\ rsrc.kind \in VmessKinds /\ rend = "open"
    /\ \/ Deliver
       \/ plain = <<>> /\ Len(raw) < VmessWants
            /\ (FetchAtMost(VmessWants - Len(raw)) \/ EndsIf(FALSE))
       \/ /\ plain = <<>> /\ Len(raw) = VmessWants
          /\ IF rst.mode = "length" THEN VmessLength ELSE VmessPayload
-----------------------------------------------------------------------------
(* Wrappers that add no framing of their own to what they read: H2 and      *)
(* XHTTP data frames, WebSocket messages, bytes read ahead of a handshake.  *)
Buffers ==
    \E k \in 1..Segment :
      /\ plain = <<>> /\ k <= Len(wire)
      /\ plain' = Take(wire, k)
      /\ wire' = DropN(wire, k)
      /\ UNCHANGED <<rsrc, raw, rst, out, rend>>

H2PollRead == Reading("h2") /\ (Deliver \/ Buffers \/ (plain = <<>> /\ EndsIf(TRUE)))

SsH2PollRead == Reading("ss_h2") /\ (Deliver \/ Buffers \/ (plain = <<>> /\ EndsIf(TRUE)))

SsWsPollRead == Reading("ss_ws") /\ (Deliver \/ Buffers \/ (plain = <<>> /\ EndsIf(TRUE)))

XHttpPollRead == Reading("xhttp") /\ (Deliver \/ Buffers \/ (plain = <<>> /\ EndsIf(TRUE)))

WsPollRead == Reading("ws") /\ (Deliver \/ Buffers \/ (plain = <<>> /\ EndsIf(TRUE)))

PrefixedPollRead ==
    Reading("prefix") /\ (Deliver \/ (plain = <<>> /\ (PassOn \/ EndsIf(TRUE))))

CamouflagePollRead ==
    Reading("camouflage") /\ (Deliver \/ (plain = <<>> /\ (PassOn \/ EndsIf(TRUE))))

(* DrainableTlsStream over rustls, which opens every whole record it has    *)
(* read as soon as it has it.  Bare bytes the peer sent after DIRECT are    *)
(* records too, of the inner session: one that is whole before direct_read  *)
(* is set fails to open.                                                    *)
TlsWants ==
    IF raw # <<>> /\ raw[1][1] = "d" THEN 2 ELSE RecordWants

TlsOpens ==
    /\ ~DirectRead /\ Len(raw) >= TlsWants
    /\ IF raw[1][1] = "len"
       THEN Decodes(TlsWants, SubSeq(raw, 3, 2 + raw[1][2]), rst)
       ELSE Says("error")

DrainablePollRead ==
    /\ Reading("tls")
    /\ \/ (DirectRead \/ Len(raw) < TlsWants) /\ Deliver
       \/ TlsOpens
       \/ /\ plain = <<>> /\ ~DirectRead /\ Len(raw) < TlsWants
          /\ Fetch \/ EndsIf(raw = <<>>)
       \/ plain = <<>> /\ DirectRead /\ DeliverRaw
       \/ plain = <<>> /\ DirectRead /\ raw = <<>> /\ (PassOn \/ EndsIf(TRUE))

ReadDone == rsrc.kind # "none" /\ rend # "open" /\ UNCHANGED rvars

ReadNext ==
    \/ NaivePollRead \/ GrpcPollRead \/ ChunkedPollRead \/ AeadPollRead
    \/ Ss2022PollRead \/ RecordPollRead \/ DirectPollRead \/ ObfsPollRead
    \/ ShadowTlsPollRead \/ VmessRead \/ H2PollRead \/ XHttpPollRead \/ WsPollRead
    \/ PrefixedPollRead \/ CamouflagePollRead \/ DrainablePollRead \/ GunPollRead
    \/ XorPollRead \/ VisionReadPayload \/ SsH2PollRead \/ SsWsPollRead
    \/ ReadDone
-----------------------------------------------------------------------------
Sent == WireOf(rsrc.kind, rsrc.frames, Len(rsrc.frames))

(* Payload bytes the peer managed to send before it closed.                 *)
Arrived == Len(SelectSeq(Take(Sent, rsrc.cut), LAMBDA t : t[1] = "d"))

(* The wire may also end anywhere in a part that has no framing.            *)
EndsCleanly ==
    \/ rsrc.cut \in Boundaries(rsrc.kind, rsrc.frames)
    \/ rsrc.kind \in PassKinds
    \/ rsrc.kind \in DirectKinds /\ rsrc.cut > Len(FrameAt(rsrc.kind, rsrc.frames, 1))
    \/ rsrc.kind \in {"naive", "vision"} /\ rsrc.cut > Len(WireOf(rsrc.kind, rsrc.frames,
         IF Len(rsrc.frames) < Padded THEN Len(rsrc.frames) ELSE Padded))

(* However the bytes are cut into segments, the caller of poll_read gets    *)
(* exactly the payload, in order: no header, padding or tag leaks into it,  *)
(* nothing is skipped or repeated, an empty frame is not taken for the end, *)
(* and at a clean end of file all that arrived has been delivered.  A cut   *)
(* inside a frame is reported as an error, never as a clean end, and a peer *)
(* that closed cleanly is never reported as an error.  The exceptions are   *)
(* the code's: a gRPC stream (grpc.rs) drops an unfinished message, chunked *)
(* coding (xhttp.rs) ends cleanly inside a length or trailer line, and a    *)
(* TLS stream that read past Vision's DIRECT record may fail.               *)
ReadsPayload ==
    /\ \A i \in 1..Len(out) : out[i] = <<"d", i>>
    /\ rend = "eof" /\ rsrc.kind # "grpc" => Len(out) = Arrived
    /\ rend = "eof" /\ rsrc.kind \notin {"grpc", "chunked"} => EndsCleanly
    /\ rend = "eof" /\ rsrc.kind = "chunked" => rst.mode \in {"length", "trailer", "eof"}
    /\ rend = "error" /\ rsrc.kind # "tls" => ~EndsCleanly
=============================================================================
