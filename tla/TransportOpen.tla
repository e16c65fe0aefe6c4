--------------------------- MODULE TransportOpen ---------------------------
(***************************************************************************)
(* How a transport opens (src/transport): the HTTP request that disguises   *)
(* or carries the proxied stream is read, judged and answered, and what was *)
(* read past it is handed on.  HTTP/1 requests arrive in pieces; HTTP/2     *)
(* connections bring several requests.                                      *)
(*                                                                          *)
(* A unit stands for a run of bytes.  Paths and hosts are told apart by how *)
(* they relate to the configured ones.                                      *)
(***************************************************************************)
EXTENDS Integers, Sequences, FiniteSets, FiniteSetsExt

CONSTANTS
    HeaderLimit,    \* units after which a header is too long
    ReadUnit,       \* most units a read returns
    BodyLen,        \* units the client sends after the request
    H2Streams       \* requests of an HTTP/2 connection, in order: 1 .. H2Streams

VARIABLES
    opener,     \* transport, serve or apply, path and host wanted; "none"
    request,    \* the first request, and how the client speaks
    opening,    \* "probe", "header", "frames", "open", "raw", "driven", a status, ...
    got,        \* units in header_buf
    handed,     \* what the stream handed on yields before the socket
    reqs,       \* HTTP/2: the requests of the connection
    tasks       \* HTTP/2: streams whose handler runs

openVars == <<opener, request, opening, got, handed, reqs, tasks>>

Transports == {"tcp", "camouflage", "websocket", "httpupgrade", "xhttp", "h2", "grpc"}
Judged == [line : BOOLEAN, path : {"same", "slash", "below", "tun", "other"},
           host : {"same", "case", "other", "absent"}, headers : BOOLEAN,
           early : {"none", "good", "bad"}]
Plain == [line |-> TRUE, path |-> "same", host |-> "same", headers |-> TRUE, early |-> "none"]

\* Trimmed on both ends: equality.  Otherwise the configured path may be a
\* prefix.  The root asks for nothing, or for the root; a service name may be
\* anywhere, and any service's Tun will do.
Equal == {"same", "slash"}
CamouflagePath(r) == r.path \in IF opener.path THEN Equal \cup {"below"} ELSE {"same"}
H2Path(r) == opener.path => r.path \in Equal \cup {"below"}
GrpcPath(r) == opener.path => r.path # "other"
PathOk(t, r) ==
    CASE t \in {"websocket", "httpupgrade"} -> r.path \in Equal
      [] t = "camouflage" -> CamouflagePath(r)
      [] t \in {"xhttp", "h2"} -> H2Path(r)
      [] t = "grpc" -> GrpcPath(r)

\* XHTTP lets a request without Host pass, and so does HTTP/1 under "h2",
\* which also compares case.
HostOk(t, framed, r) ==
    opener.host =>
        CASE t = "h2" /\ ~framed -> r.host \in {"same", "absent"}
          [] t = "xhttp" -> r.host # "other"
          [] OTHER -> r.host \in {"same", "case"}

\* The conditions in the order the code asks them, each with the answer its
\* failure brings; "closed" is no answer at all.
Checks(t, framed, r) ==
    LET path == <<PathOk(t, r), "404">>
        host(status) == <<HostOk(t, framed, r), status>>
        line(status) == <<r.line, status>>
    IN  CASE t = "camouflage" -> <<line("400"), path, host("400")>>
          [] t = "websocket" ->
               <<path, host("404"), <<r.headers, "400">>, <<r.early # "bad", "400">>>>
          [] t = "httpupgrade" -> <<line("closed"), path, <<r.headers, "400">>, host("404")>>
          [] framed -> <<path, host("404")>>
          [] OTHER -> <<line("closed"), path, host("404")>>
Answer(t, framed, r) ==
    LET asked == Checks(t, framed, r)
        failed == {i \in DOMAIN asked : ~asked[i][1]}
    IN  IF failed = {} THEN "200" ELSE asked[Min(failed)][2]

\* What the client sends after the request, numbered; and its early data.
Wire == [i \in 1 .. BodyLen |-> i]
EarlyData(t, r) ==
    IF t \in {"websocket", "httpupgrade"} /\ r.early = "good" THEN <<0>> ELSE <<>>

\* Variant with a defect: early data replaces what was read past the header.
PrefixEarlyOnly(t, r, extra) == IF EarlyData(t, r) # <<>> THEN EarlyData(t, r) ELSE extra
\* Early data, then the bytes read past the header.
Prefix(t, r, extra) == EarlyData(t, r) \o extra

\* Decide on a complete HTTP/1 request.
Judge(t, n) ==
    LET status == Answer(t, FALSE, request.judged)
    IN  IF status = "200"
        THEN /\ opening' = "open"
             /\ handed' = Prefix(t, request.judged, SubSeq(Wire, 1, n - request.head))
        ELSE opening' = status /\ UNCHANGED handed
-----------------------------------------------------------------------------
\* apply_transport and serve_transport: raw TCP is handed on as it is.
OpenTcp ==
    /\ opener.t = "tcp" /\ opening = "probe"
    /\ opening' = "open" /\ UNCHANGED <<opener, request, got, handed, reqs, tasks>>

\* HttpCamouflageStream::server_handshake, apply_httpupgrade_transport: each
\* piece is searched for the end of the header as it arrives.
ReadEagerly(t, n) ==
    /\ opener.t = t /\ opening = "probe"
    /\ got < HeaderLimit /\ got + n <= request.head + BodyLen
    /\ got' = got + n
    /\ IF got + n >= request.head THEN Judge(t, got + n)
       ELSE /\ opening' = IF got + n >= HeaderLimit THEN "long" ELSE opening
            /\ UNCHANGED handed
    /\ UNCHANGED <<opener, request, reqs, tasks>>
CamouflageHandshake == \E n \in 1 .. ReadUnit : ReadEagerly("camouflage", n)
HttpUpgrade == \E n \in 1 .. ReadUnit : ReadEagerly("httpupgrade", n)

\* apply_websocket_transport: the library reads the request, no more.
OpenWebSocket ==
    /\ opener.t = "websocket" /\ opening = "probe"
    /\ got' = request.head /\ Judge("websocket", request.head)
    /\ UNCHANGED <<opener, request, reqs, tasks>>

\* apply_xhttp_transport, apply_h2_transport, serve_h2: four bytes tell
\* HTTP/2 from HTTP/1; "h2" also takes TLS, once more from the start, and
\* anything else as it is.
Probe ==
    /\ opener.t \in {"xhttp", "h2"} /\ opening = "probe"
    /\ IF request.speaks = "frames" THEN opening' = "frames" /\ UNCHANGED <<got, handed>>
       ELSE IF opener.t = "xhttp" \/ request.speaks = "http1"
       THEN opening' = "header" /\ got' = 1 /\ UNCHANGED handed
       ELSE opening' = "raw" /\ handed' = SubSeq(Wire, 1, 1) /\ got' = request.head + 1
    /\ UNCHANGED <<opener, request, reqs, tasks>>
ProbeTls ==
    /\ opener.t = "h2" /\ opening = "probe" /\ request.tls
    /\ \/ request' = [request EXCEPT !.tls = FALSE] /\ UNCHANGED opening
       \/ opening' = "tls failed" /\ UNCHANGED request
    /\ UNCHANGED <<opener, got, handed, reqs, tasks>>

\* apply_xhttp_http1, apply_h2_http1: the limit is asked before the search.
ReadLazily(t) ==
    /\ opener.t = t /\ opening = "header"
    /\ \/ got >= HeaderLimit /\ opening' = "long" /\ UNCHANGED <<got, handed>>
       \/ /\ got < HeaderLimit /\ got >= request.head
          /\ Judge(t, got) /\ UNCHANGED got
       \/ /\ got < HeaderLimit /\ got < request.head
          /\ \E n \in 1 .. ReadUnit :
               got + n <= request.head + BodyLen /\ got' = got + n
          /\ UNCHANGED <<opening, handed>>
    /\ UNCHANGED <<opener, request, reqs, tasks>>
XHttpHttp1 == ReadLazily("xhttp")
H2Http1 == ReadLazily("h2")

\* The client closes before the request is complete.
CloseEarly ==
    /\ opening \in {"probe", "header", "frames"} /\ opener.t # "none"
    /\ opening' = "eof" /\ UNCHANGED <<opener, request, got, handed, reqs, tasks>>
-----------------------------------------------------------------------------
\* The client opens its next HTTP/2 stream.
NextRequest == Len(reqs) + 1
ClientRequest(r) ==
    /\ opening \in {"frames", "driven"} /\ NextRequest <= H2Streams
    /\ reqs' = Append(reqs, [judged |-> r, answer |-> "none"])
    /\ UNCHANGED <<opener, request, opening, got, handed, tasks>>
Unanswered == {i \in DOMAIN reqs : reqs[i].answer = "none"}

\* apply_grpc_transport, apply_h2_framed, apply_xhttp_h2: the first request
\* becomes the stream, or ends the connection; a task drives the rest.
AcceptFirst(t) ==
    /\ opener.t = t /\ opening = "frames" /\ ~opener.serve /\ Unanswered # {}
    /\ LET s == Answer(t, TRUE, reqs[1].judged)
       IN  /\ reqs' = [reqs EXCEPT ![1].answer = s]
           /\ opening' = IF s = "200" THEN "driven" ELSE s
           /\ tasks' = IF s = "200" THEN {1} ELSE {}
    /\ UNCHANGED <<opener, request, got, handed>>
DriveRest(t, status) ==
    /\ opener.t = t /\ opening = "driven" /\ ~opener.serve
    /\ \E i \in Unanswered : reqs' = [reqs EXCEPT ![i].answer = status]
    /\ UNCHANGED <<opener, request, opening, got, handed, tasks>>
ApplyGrpc == AcceptFirst("grpc") \/ DriveRest("grpc", "404")
ApplyH2Framed == AcceptFirst("h2") \/ DriveRest("h2", "404")
ApplyXHttpH2 == AcceptFirst("xhttp") \/ DriveRest("xhttp", "200")

\* serve_grpc, serve_h2_framed: every request is judged; a refused one leaves
\* the connection as it is.
ServeNext(t) ==
    /\ opener.t = t /\ opening = "frames" /\ opener.serve /\ Unanswered # {}
    /\ LET i == Min(Unanswered)
           s == Answer(t, TRUE, reqs[i].judged)
       IN  /\ reqs' = [reqs EXCEPT ![i].answer = s]
           /\ tasks' = IF s = "200" THEN tasks \cup {i} ELSE tasks
    /\ UNCHANGED <<opener, request, opening, got, handed>>
ServeGrpc == ServeNext("grpc")
ServeH2Framed == ServeNext("h2")
HandlerEnds(i) ==
    /\ i \in tasks /\ tasks' = tasks \ {i}
    /\ UNCHANGED <<opener, request, opening, got, handed, reqs>>

\* Accept returned None or an error: wait for the handlers or the connection;
\* dropping the JoinSet aborts the handlers that are left.
ServeEnds ==
    /\ opening = "frames" /\ opener.serve
    /\ opening' = "closing" /\ UNCHANGED <<opener, request, got, handed, reqs, tasks>>
ServeReturns ==
    /\ opening = "closing"
    /\ opening' = "returned" /\ tasks' = {}
    /\ UNCHANGED <<opener, request, got, handed, reqs>>
-----------------------------------------------------------------------------
Speaks(t) ==
    CASE t = "grpc" -> {"frames"}
      [] t \in {"xhttp", "h2"} -> {"frames", "http1", "raw"}
      [] OTHER -> {"http1"}
OpenInit ==
    \E t \in Transports, wantPath, wantHost \in BOOLEAN, serve \in BOOLEAN,
       judged \in Judged, head \in 1 .. HeaderLimit + 1, tls \in BOOLEAN :
      \E speaks \in Speaks(t) :
        /\ serve => t \in {"h2", "grpc"}
        /\ tls => t = "h2"
        /\ speaks # "http1" => judged = Plain /\ head = 1
        /\ t = "tcp" => judged = Plain /\ head = 1 /\ ~wantPath /\ ~wantHost
        /\ judged # Plain => head = 1 + BodyLen
        /\ opener = [t |-> t, path |-> wantPath, host |-> wantHost, serve |-> serve]
        /\ request = [judged |-> judged, head |-> head, speaks |-> speaks, tls |-> tls]
        /\ opening = IF t = "grpc" THEN "frames" ELSE "probe"
        /\ got = 0 /\ handed = <<>> /\ reqs = <<>> /\ tasks = {}
OpenNone ==
    /\ opener = [t |-> "none", path |-> FALSE, host |-> FALSE, serve |-> FALSE]
    /\ request = [judged |-> Plain, head |-> 0, speaks |-> "http1", tls |-> FALSE]
    /\ opening = "none" /\ got = 0 /\ handed = <<>> /\ reqs = <<>> /\ tasks = {}

\* The transport is open, or the connection is over.
Settled ==
    /\ opening \notin {"probe", "header", "frames", "closing", "none"}
    /\ UNCHANGED openVars

OpenNext ==
    \/ Settled
    \/ OpenTcp \/ OpenWebSocket \/ CamouflageHandshake \/ HttpUpgrade
    \/ (Probe /\ ~request.tls) \/ ProbeTls \/ XHttpHttp1 \/ H2Http1
    \/ CloseEarly
    \/ \E r \in {[Plain EXCEPT !.path = p, !.host = h] :
                   p \in {"same", "other"}, h \in {"same", "absent"}} : ClientRequest(r)
    \/ ApplyGrpc \/ ApplyH2Framed \/ ApplyXHttpH2 \/ ServeGrpc \/ ServeH2Framed
    \/ ServeEnds \/ ServeReturns
    \/ \E i \in 1 .. H2Streams : HandlerEnds(i)
-----------------------------------------------------------------------------
\* Whatever the pieces the request came in, the stream handed on yields the
\* early data and then the client's bytes after the request, none lost and
\* none twice; a request is refused for its length only when no end of it was
\* in sight, or, where the limit is asked first, with the limit reached.
\* Over HTTP/2 a handler runs only for a request of its own that was answered
\* 200, one connection has one stream unless it is served, and no handler is
\* left when serving returns.
OpensExactly ==
    /\ opening \in {"open", "raw"} /\ opener.t # "tcp" =>
         handed \o SubSeq(Wire, got - request.head + 1, BodyLen)
           = EarlyData(opener.t, request.judged) \o Wire
    /\ opening = "long" =>
         /\ got >= HeaderLimit
         /\ opener.t \in {"camouflage", "httpupgrade"} => got < request.head
    /\ \A i \in tasks : reqs[i].answer = "200"
    /\ ~opener.serve => Cardinality(tasks) <= 1
    /\ opening = "returned" => tasks = {}
=============================================================================
