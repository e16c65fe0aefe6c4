--------------------------- MODULE DecoyHandshake ---------------------------
(***************************************************************************)
(* A Shadowsocks node behind ResTLS (protocol/restls) or ShadowTLS          *)
(* (protocol/shadowsocks/shadowtls.rs): the client's TLS handshake is       *)
(* carried, record by record, to a decoy server and back, until the client  *)
(* proves that it knows the password and the node takes the stream over.    *)
(* Anybody else must not notice: their bytes keep flowing to the decoy.     *)
(*                                                                         *)
(* Records are numbered in the order their sender wrote them and reduced to *)
(* a kind.  A read brings several whole records, and maybe the head of one  *)
(* more, which stays in the reader's own buffer.                            *)
(***************************************************************************)
EXTENDS Integers, Sequences

CONSTANTS Batch,          \* most records one read brings
          FromClient,     \* most records the client sends
          FromDecoy       \* most records the decoy sends

ASSUME VeilAssumption == {Batch, FromClient, FromDecoy} \subseteq Nat

VARIABLE veil

Ends == {"client", "decoy"}
Most(p) == IF p = "client" THEN FromClient ELSE FromDecoy
FirstRecords(p) == IF p = "client" THEN {"hello", "badhello", "junk"} ELSE {"hello", "more", "retry", "ccs"}
Later(v, p) ==
    {"hs", "ccs", "app"} \cup IF p = "client" THEN {"badccs", "junk"} ELSE {}
                         \cup IF p = "client" /\ v.phase = "st-frames" /\ v.knows THEN {"data"} ELSE {}
Kinds(v, p) == FirstRecords(p) \cup Later(v, p)
Placed(v, p, i, kind) == kind \in IF i = 1 THEN FirstRecords(p) ELSE Later(v, p)
Handshake == {"hello", "badhello", "more", "retry", "hs"}
AppData == {"app", "data"}

Ids(lo, hi) == [i \in 1..(hi - lo) |-> lo + i]
Len_(v, p) == Len(v.kinds[p])
HasNext(v, p) == v.cursor[p] < Len_(v, p)
Peek(v, p) == v.kinds[p][v.cursor[p] + 1]
NextRecord(v, p) == [v EXCEPT !.cursor[p] = @ + 1]

\* RecordChecker: a client starts with a record of version 3.1 and goes on with
\* version 3.3; one record that breaks this turns the framing off for good.  The
\* decoy is believed.
RecordOk(p, i, kind) ==
    \/ p = "decoy"
    \/ i = 1 /\ kind \in {"hello", "badhello"}
    \/ i > 1 /\ kind \in {"hs", "ccs", "badccs", "app", "data"}

\* One poll of the framed stream.  decode first forgets what it decoded last,
\* then takes every whole record; at the end of the stream there is none.
Decoded(v, p, b, more) ==
    [v EXCEPT !.kinds[p] = @ \o b, !.part[p] = more,
              !.base[p] = Len_(v, p), !.cursor[p] = Len_(v, p),
              !.framed = @ /\ \A i \in 1..Len(b) : RecordOk(p, Len_(v, p) + i, b[i])]
Decode(v, p) ==
    {Decoded(v, p, b, more) :
        b \in {s \in UNION {[1..n -> Kinds(v, p)] : n \in 1..Batch} :
                 /\ Len_(v, p) + Len(s) <= Most(p)
                 /\ \A i \in 1..Len(s) : Placed(v, p, Len_(v, p) + i, s[i])},
        more \in BOOLEAN}
ReadFromStream(v, p) ==
    IF HasNext(v, p) THEN {v} ELSE Decode(v, p) \cup {[v EXCEPT !.eof = TRUE]}
Readable(v, p) == ~v.eof /\ (p = "client" => v.framed)

\* relay_to: the decoded records go to the other side once all of them have been
\* looked at.
Carry(v, p) ==
    IF HasNext(v, p) THEN v
    ELSE [v EXCEPT !.out[p] = @ \o Ids(v.base[p], Len_(v, p)), !.base[p] = Len_(v, p)]

\* Variant with a defect: the bytes before the cursor are taken for bytes already passed on.
BufferedTail(v, p) ==
    Ids(v.cursor[p], Len_(v, p)) \o IF v.part[p] THEN <<Len_(v, p) + 1>> ELSE <<>>

\* What accept still holds of a stream it gives up: the decoded records and the
\* head of the next one.
Buffered(v, p) ==
    Ids(v.base[p], Len_(v, p)) \o IF v.part[p] THEN <<Len_(v, p) + 1>> ELSE <<>>
Fallback(v) ==
    [v EXCEPT !.phase = "fallback", !.held = [p \in Ends |-> Buffered(v, p)]]
-----------------------------------------------------------------------------
\* try_read_client_hello and try_read_server_hello.  A server hello that shares
\* its record with other messages is left in place, to be looked at again.
ParsesClientHello(kind) == kind = "hello"
TryReadClientHello ==
    /\ veil.phase = "chello"
    /\ \E v \in ReadFromStream(veil, "client") :
         veil' = IF ~Readable(v, "client") \/ Peek(v, "client") \notin Handshake
                 THEN Fallback(v)
                 ELSE IF ~ParsesClientHello(Peek(v, "client")) THEN Fallback(NextRecord(v, "client"))
                 ELSE [Carry(NextRecord(v, "client"), "client") EXCEPT !.phase = "shello"]

ParsesServerHello(kind) == kind \in {"hello", "more"}
\* check_tls13_session_id, check_tls12_session_ticket and ClientKeyExchange::check
\* compare a keyed hash with a part of the session id.
SessionIdOk(v) == v.knows
TicketOk(v) == v.knows
KeyExchangeOk(v) == v.knows
TryReadServerHello ==
    /\ veil.phase = "shello"
    /\ \E v \in ReadFromStream(veil, "decoy") :
         veil' = IF ~Readable(v, "decoy") \/ Peek(v, "decoy") \notin Handshake
                      \/ ~ParsesServerHello(Peek(v, "decoy"))
                 THEN Fallback(v)
                 ELSE LET w == IF Peek(v, "decoy") = "more" THEN v ELSE NextRecord(v, "decoy")
                          c == Carry(w, "decoy")
                      IN  IF ~v.tls13 THEN [c EXCEPT !.phase = "tls12"]
                          ELSE IF SessionIdOk(v) THEN [c EXCEPT !.phase = "till17"]
                          ELSE Fallback(c)

\* prepare_server_auth: the node's proof is mixed into the record being read.
PrepareServerAuth(v) == [v EXCEPT !.marked = @ \cup {v.cursor["decoy"] + 1}]

\* try_read_tls13_till_first_0x17: one change of cipher, then application data.
TryReadTls13TillFirst0x17 ==
    /\ veil.phase = "till17"
    /\ \E v \in ReadFromStream(veil, "decoy") :
         LET kind == Peek(v, "decoy")
         IN  veil' =
               CASE ~Readable(v, "decoy") -> Fallback(v)
                 [] Readable(v, "decoy") /\ kind = "ccs" /\ ~v.ccs["decoy"] ->
                      Carry(NextRecord([v EXCEPT !.ccs["decoy"] = TRUE], "decoy"), "decoy")
                 [] Readable(v, "decoy") /\ kind \in AppData /\ v.ccs["decoy"] ->
                      [Carry(NextRecord(PrepareServerAuth(v), "decoy"), "decoy")
                         EXCEPT !.phase = "client13"]
                 [] OTHER -> Fallback(v)

\* try_read_tl13_till_client_application_data, the client's branch: its second
\* record of application data ends the handshake and is not consumed.
Client13 ==
    /\ veil.phase = "client13"
    /\ \E v \in ReadFromStream(veil, "client") :
         LET kind == Peek(v, "client")
             on(w) == Carry(NextRecord(w, "client"), "client")
         IN  veil' =
               CASE ~Readable(v, "client") -> Fallback(v)
                 [] Readable(v, "client") /\ kind = "ccs" /\ ~v.ccs["client"] ->
                      on([v EXCEPT !.ccs["client"] = TRUE])
                 [] Readable(v, "client") /\ kind \in AppData /\ v.ccs["client"] ->
                      IF v.seen = 0 THEN on([v EXCEPT !.seen = 1])
                                    ELSE [v EXCEPT !.phase = "relay"]
                 [] OTHER -> Fallback(v)

\* and the decoy's: whatever it sends is passed on, counted once the client
\* has finished.
Decoy13 ==
    /\ veil.phase = "client13"
    /\ \E v \in ReadFromStream(veil, "decoy") :
         veil' = IF ~Readable(v, "decoy") THEN Fallback(v)
                 ELSE Carry(NextRecord([v EXCEPT !.counter = @ + v.seen], "decoy"), "decoy")
-----------------------------------------------------------------------------
\* TLS12Flow: the order of change-of-cipher and finished records in a full and in
\* a resumed handshake.
CcsFromClient(f) ==
    CASE f = "ckeVerified" -> "fullClientCcs" [] f = "resumeFinished" -> "resumeClientCcs"
      [] OTHER -> "reject"
CcsFromServer(f) ==
    CASE f = "initial" -> "resumeServerCcs" [] f = "fullClientCcs" -> "fullServerCcs"
      [] OTHER -> "reject"
Server0x16(f) ==
    CASE f = "fullServerCcs" -> "fullFinished" [] f = "resumeServerCcs" -> "resumeFinished"
      [] f \in {"fullFinished", "resumeFinished"} -> "reject" [] OTHER -> f
Client0x17(f) == IF f \in {"fullFinished", "resumeClientCcs"} THEN "client0x17" ELSE "reject"
ServerFinished(f) == f \in {"fullFinished", "resumeFinished"}

\* handle_tls12_outbound
HandleTls12Outbound(v) ==
    LET kind == Peek(v, "decoy")
        f == IF kind \in Handshake THEN Server0x16(v.flow)
             ELSE IF kind = "ccs" THEN CcsFromServer(v.flow)
             ELSE IF ServerFinished(v.flow) THEN v.flow ELSE "reject"
        w == [v EXCEPT !.flow = f]
    IN  IF kind \in AppData THEN [w EXCEPT !.counter = @ + 1]
        ELSE IF kind = "ccs" \/ f = "reject" THEN w
        ELSE IF ~ServerFinished(f) THEN [w EXCEPT !.curve = TRUE]
        ELSE IF f = "resumeFinished" /\ ~TicketOk(v) THEN [w EXCEPT !.flow = "reject"]
        ELSE PrepareServerAuth(w)

\* handle_tls12_inbound
HandleTls12Inbound(v) ==
    LET kind == Peek(v, "client")
    IN  [v EXCEPT !.flow =
          CASE kind = "ccs" -> CcsFromClient(@)
            [] kind \in Handshake /\ @ = "initial" ->
                 IF v.curve /\ KeyExchangeOk(v) THEN "ckeVerified" ELSE "reject"
            [] kind \in Handshake /\ @ # "initial" -> @
            [] kind \in AppData -> Client0x17(@)
            [] OTHER -> "reject"]

\* try_read_tls12_till_client_application_data: the two branches of the select.
Tls12(p) ==
    /\ veil.phase = "tls12"
    /\ \E v \in ReadFromStream(veil, p) :
         LET w == IF p = "decoy" THEN HandleTls12Outbound(v) ELSE HandleTls12Inbound(v)
         IN  veil' = IF ~Readable(v, p) THEN Fallback(v)
                     ELSE IF w.flow = "reject" THEN Fallback(w)
                     ELSE IF w.flow = "client0x17" THEN [w EXCEPT !.phase = "relay"]
                     ELSE Carry(NextRecord(w, p), p)
-----------------------------------------------------------------------------
\* ShadowTLS.  read_record takes one record and not a byte more; anything else
\* ends the connection.
ReadRecord(v, p) ==
    {w \in Decode(v, p) : Len_(w, p) = Len_(v, p) + 1 /\ ~w.part[p]}
    \cup {[v EXCEPT !.eof = TRUE]}
Whole(v, p) == ~v.eof /\ Peek(v, p) # "junk"
Refuse(v) == [v EXCEPT !.phase = "refused"]

\* verify_hello: a hello that fills its record and is keyed with the password.
VerifyHello(v) == Peek(v, "client") = "hello" /\ v.knows
\* The client's hello goes to the decoy whatever it proves, the server's to the
\* client; the node steps aside unless both are what it needs.
ShadowHello ==
    /\ veil.phase = "st-hello"
    /\ \E v \in ReadRecord(veil, "client") :
         LET w == Carry(NextRecord(v, "client"), "client")
         IN  veil' = IF ~Whole(v, "client") THEN Refuse(v)
                     ELSE IF VerifyHello(v) THEN [w EXCEPT !.phase = "st-server"] ELSE Fallback(w)
\* tls13: the version is looked for in a hello that fills its record.
Strict13(v) == v.tls13 /\ Peek(v, "decoy") = "hello"
ShadowServerHello ==
    /\ veil.phase = "st-server"
    /\ \E v \in ReadRecord(veil, "decoy") :
         LET w == Carry(NextRecord(v, "decoy"), "decoy")
         IN  veil' = IF ~Whole(v, "decoy") THEN Refuse(v)
                     ELSE IF Peek(v, "decoy") \in {"hello", "more"} /\ (v.strict => Strict13(v))
                          THEN [w EXCEPT !.phase = "st-frames"] ELSE Fallback(w)

\* The frames after them, each passed on by itself.  The decoy's application data
\* is re-keyed; the client's first frame with a good tag ends the handshake.
One(v, p) == [NextRecord(v, p) EXCEPT !.out[p] = Append(@, v.cursor[p] + 1), !.base[p] = @ + 1]
ShadowFrame(p) ==
    /\ veil.phase = "st-frames"
    /\ \E v \in ReadFromStream(veil, p) :
         LET kind == Peek(v, p)
         IN  veil' = IF ~Whole(v, p) THEN Refuse(v)
                     ELSE IF p = "client" /\ kind = "data"
                     THEN [v EXCEPT !.phase = "relay", !.held["client"] = Buffered(v, "client")]
                     ELSE IF p = "decoy" /\ kind = "app"
                     THEN One([v EXCEPT !.marked = @ \cup {v.cursor[p] + 1}], p)
                     ELSE One(v, p)
-----------------------------------------------------------------------------
Veiled(phase, knows, tls13, strict) ==
    [phase |-> phase, knows |-> knows, tls13 |-> tls13, strict |-> strict,
     kinds |-> [p \in Ends |-> <<>>], base |-> [p \in Ends |-> 0], cursor |-> [p \in Ends |-> 0],
     part |-> [p \in Ends |-> FALSE], out |-> [p \in Ends |-> <<>>], held |-> [p \in Ends |-> <<>>],
     framed |-> TRUE, eof |-> FALSE, ccs |-> [p \in Ends |-> FALSE], seen |-> 0, counter |-> 0,
     flow |-> "initial", curve |-> FALSE, marked |-> {}]
VeilInit ==
    \E phase \in {"chello", "st-hello"}, knows, tls13, strict \in BOOLEAN :
        /\ strict => phase = "st-hello"
        /\ veil = Veiled(phase, knows, tls13, strict)
VeilNone == veil = Veiled("none", FALSE, FALSE, FALSE)

VeilEnded == veil.phase \in {"none", "fallback", "relay", "refused"}
VeilNext ==
    \/ VeilEnded /\ veil.phase # "none" /\ UNCHANGED veil
    \/ TryReadClientHello \/ TryReadServerHello \/ TryReadTls13TillFirst0x17
    \/ Client13 \/ Decoy13
    \/ \E p \in Ends : Tls12(p) \/ ShadowFrame(p)
    \/ ShadowHello \/ ShadowServerHello
-----------------------------------------------------------------------------
Single(S) == \E i \in S : S = {i}
\* Each side gets the other's records once, in order and without a gap; whoever is
\* left to the decoy has every byte already read handed on, the head of a record
\* and the records decoded but not yet passed on included; and the node takes a
\* stream over only from a client that knows the password, at a record of
\* application data, with its own proof in exactly one record (accept and
\* try_handshake of ResTLS, accept of ShadowTLS).
VeilKept ==
    /\ \A p \in Ends : veil.out[p] = Ids(0, veil.base[p])
    /\ veil.phase = "fallback" =>
         \A p \in Ends : veil.out[p] \o veil.held[p]
                         = Ids(0, Len_(veil, p) + (IF veil.part[p] THEN 1 ELSE 0))
    /\ veil.phase = "relay" =>
         /\ veil.knows
         /\ Peek(veil, "client") \in AppData
         /\ veil.held["client"] = <<>> => Single(veil.marked)
         /\ veil.held["client"] # <<>> =>
              veil.out["client"] \o veil.held["client"]
              = Ids(0, Len_(veil, "client") + (IF veil.part["client"] THEN 1 ELSE 0))
=============================================================================
