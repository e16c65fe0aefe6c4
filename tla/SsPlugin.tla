------------------------------- MODULE SsPlugin ------------------------------
(***************************************************************************)
(* The plugin of a Shadowsocks node (protocol/shadowsocks/transport.rs and  *)
(* the sockets of server.rs): from the panel's options to the listener, and *)
(* how a connection is unwrapped.  Each stage trusts what the one before    *)
(* let through: accept has an unreachable!() for the modes that never get   *)
(* there, start unwraps the sockets the mode is supposed to have.           *)
(***************************************************************************)
EXTENDS Integers, FiniteSets

Absent == "absent"

VARIABLES
    node,       \* plugin, options and TLS of the node
    plugged,    \* what options, new and start made of it
    unwrap      \* stage: "options", "new", "start", "serving", "stopped", ...

plugVars == <<node, plugged, unwrap>>

Plugins == {"none", "restls", "shadowtls", "obfs", "v2ray", "gost", "kcptun", "unknown"}
PluginModes(p) ==
    CASE p = "obfs" -> {Absent, "http", "tls", "junk"}
      [] p = "v2ray" -> {Absent, "ws", "quic", "junk"}
      [] p = "gost" -> {Absent, "tls", "mtls", "ws", "mws", "wss", "h2", "grpc", "quic", "junk"}
      [] OTHER -> {Absent}
Configured ==
    {n \in [plugin : Plugins, broken : BOOLEAN, obfs : {Absent, "http", "tls", "junk"}, mode : UNION {PluginModes(p) : p \in Plugins},
            tls : {Absent, "true", "false", "junk"}, cert : BOOLEAN, key : BOOLEAN,
            server : {Absent, "true", "false"}, mux : {Absent, "0", "1", "junk"},
            service : {Absent, "good", "bad"}, path : {"good", "bad"}, panel : BOOLEAN] :
        /\ n.mode \in PluginModes(n.plugin)
        /\ n.obfs # Absent => n.plugin = "obfs"
        /\ n.broken => n.plugin = "gost" /\ n.mode = Absent
        /\ n.plugin \notin {"v2ray", "gost"} =>
             /\ n.tls = Absent /\ n.mux = Absent /\ n.path = "good"
             /\ n.service = Absent /\ ~n.panel
        /\ n.service # Absent => n.path = "good" /\ n.mux = Absent /\ n.server = Absent
        /\ n.path = "bad" => n.mux = Absent /\ n.server = Absent}

\* The options under their other names: mode and obfs are one option of Simple
\* Obfs, obfs prevails, and http is the default; cert_file and key_file stand
\* for cert and key.  A key twice in the string, or a value that is a list,
\* is an error.
Parsed(n) == ~n.broken
Aliased(n) ==
    LET chosen == IF n.obfs # Absent THEN n.obfs ELSE IF n.mode # Absent THEN n.mode ELSE "http"
    IN  IF n.plugin = "obfs" THEN [n EXCEPT !.mode = chosen] ELSE n

Unbuilt == [mode |-> "none", tls |-> FALSE, alpn |-> Absent, mux |-> Absent,
            cert |-> Absent, listener |-> FALSE, socket |-> FALSE, child |-> FALSE]
-----------------------------------------------------------------------------
\* flag: the spellings of a boolean, or an error.
Flag(v) == v = "true"
FlagOk(v) == v # "junk"

\* The mode of each plugin, and whether its name alone asks for TLS.
PluginMode(n) ==
    CASE n.plugin = "none" -> "none"
      [] n.plugin \in {"restls", "shadowtls", "kcptun"} -> n.plugin
      [] n.plugin = "obfs" -> IF n.mode = "http" THEN "obfs_http" ELSE "obfs_tls"
      [] n.mode = "quic" -> "quic"
      [] n.mode \in {Absent, "ws", "mws", "wss"} -> "websocket"
      [] n.mode \in {"tls", "mtls"} -> "tls"
      [] n.mode \in {"h2", "grpc"} -> "http2"
ModeTls(n) ==
    \/ n.mode = "quic"
    \/ n.plugin = "gost" /\ n.mode \in {"tls", "mtls", "wss", "h2", "grpc"}
UseTls(n) ==
    /\ n.plugin \in {"v2ray", "gost"}
    /\ IF n.tls # Absent THEN Flag(n.tls) ELSE ModeTls(n) \/ n.panel

\* The options a plugin knows, and the errors of options.
Allowed(n) ==
    /\ n.plugin \notin {"v2ray", "gost", "kcptun"} => ~n.cert /\ ~n.key
    /\ n.plugin = "kcptun" => ~n.cert
    /\ n.service # Absent => n.plugin = "gost"
    /\ n.plugin = "none" => n.server = Absent

\* Variant with a defect: a certificate for a plaintext transport is accepted.
ValidAnyCert(n) ==
    /\ n.plugin # "unknown" /\ n.mode # "junk" /\ FlagOk(n.tls) /\ Allowed(n)
    /\ n.plugin = "v2ray" => n.mux # "junk"
    /\ n.server # "false"
    /\ n.plugin # "kcptun" => (n.cert <=> n.key)
    /\ n.service # Absent => n.mode = "grpc"
ValidOptions(n) ==
    /\ n.plugin # "unknown" /\ n.mode # "junk" /\ FlagOk(n.tls) /\ Allowed(n)
    /\ n.plugin = "v2ray" => n.mux # "junk"
    /\ n.server # "false"
    /\ n.plugin # "kcptun" => /\ ~UseTls(n) => ~n.cert /\ ~n.key
                              /\ n.cert <=> n.key
    /\ n.service # Absent => n.mode = "grpc"

\* Restls and ShadowTLS check their own options, which may fail.
Options ==
    /\ unwrap = "options"
    /\ \/ /\ Parsed(node) /\ ValidOptions(Aliased(node))
          /\ unwrap' = "new"
          /\ plugged' = [plugged EXCEPT !.mode = PluginMode(Aliased(node)), !.tls = UseTls(node)]
       \/ /\ ~Parsed(node) \/ ~ValidOptions(Aliased(node)) \/ node.plugin \in {"restls", "shadowtls"}
          /\ unwrap' = "refused" /\ UNCHANGED plugged
    /\ UNCHANGED node

\* The certificate: the plugin's if it loads, the node's, the manager's, or
\* none.
Certificate(n, loads, own, managed) ==
    CASE n.cert /\ loads -> "plugin"
      [] ~(n.cert /\ loads) /\ own -> "node"
      [] ~(n.cert /\ loads) /\ ~own /\ managed -> "manager"
      [] OTHER -> Absent

\* new: the path, then TLS, which wants a certificate.
GoodPath(n) == IF n.mode = "grpc" THEN n.service # "bad" ELSE n.path = "good"
Alpn(m) == CASE m = "websocket" -> "http/1.1" [] m = "http2" -> "h2" [] OTHER -> Absent
MuxOf(n, m) ==
    IF n.plugin = "v2ray" /\ m = "websocket" THEN IF n.mux = "0" THEN Absent ELSE "vmess"
    ELSE IF n.mode \in {"mtls", "mws"} \/ (n.plugin = "gost" /\ n.mux = "1") THEN "smux"
    ELSE Absent
BuildTransport ==
    /\ unwrap = "new"
    /\ \E loads, own, managed \in BOOLEAN :
         LET cert == IF plugged.tls THEN Certificate(node, loads, own, managed) ELSE Absent
         IN  IF GoodPath(node) /\ (plugged.tls => cert # Absent)
             THEN /\ unwrap' = "start"
                  /\ plugged' = [plugged EXCEPT
                        !.alpn = IF plugged.tls THEN Alpn(plugged.mode) ELSE Absent,
                        !.mux = MuxOf(node, plugged.mode),
                        !.cert = cert]
             ELSE unwrap' = "refused" /\ UNCHANGED plugged
    /\ UNCHANGED node

\* start: a listener unless QUIC, a datagram socket unless KCPTun; QUIC wants
\* the TLS configuration; KCPTun's child process speaks to the listener.
QuicEndpoint == plugged.mode = "quic" => plugged.tls
KcptunChild == plugged.mode = "kcptun"
BindSockets ==
    /\ unwrap = "start"
    /\ LET listener == plugged.mode # "quic"
           socket == plugged.mode # "kcptun"
       IN  \/ /\ QuicEndpoint
              /\ plugged' = [plugged EXCEPT !.listener = listener, !.socket = socket,
                                            !.child = KcptunChild]
              /\ unwrap' = IF (plugged.mode = "quic" => socket) /\ (KcptunChild => listener)
                           THEN "serving" ELSE "panic"
           \/ unwrap' = "refused" /\ UNCHANGED plugged
    /\ UNCHANGED node

\* accept: the decoys of ShadowTLS and Restls, TLS, then the mode.
AcceptConnection ==
    /\ unwrap = "serving" /\ plugged.listener
    /\ IF plugged.mode \in {"shadowtls", "restls"}
       THEN unwrap' \in {"session", "fallback", "dropped"}
       ELSE IF plugged.tls THEN unwrap' \in {"tls", "dropped"} ELSE unwrap' = "unwrapping"
    /\ UNCHANGED <<node, plugged>>

\* A TLS client may agree on no protocol at all; HTTP/2 insists.
AcceptTls ==
    /\ unwrap = "tls"
    /\ \E alpn \in {plugged.alpn, Absent} :
         unwrap' = IF plugged.mode = "http2" /\ alpn # "h2" THEN "dropped" ELSE "unwrapping"
    /\ UNCHANGED <<node, plugged>>

\* The last match of accept: a WebSocket upgrade or an obfuscated request may
\* be refused, the modes that were dealt with are unreachable!().
UnwrapMode ==
    /\ unwrap = "unwrapping"
    /\ unwrap' \in
         CASE plugged.mode \in {"none", "tls", "http2", "kcptun"} -> {"stream"}
           [] plugged.mode \in {"obfs_http", "obfs_tls", "websocket"} -> {"stream", "dropped"}
           [] OTHER -> {"panic"}
    /\ UNCHANGED <<node, plugged>>

\* handle_connection: HTTP/2 streams, a multiplexer, or one stream.  Over
\* WebSocket fourteen bytes decide, unless it is smux by configuration.
RouteStream ==
    /\ unwrap = "stream"
    /\ unwrap' \in
         IF plugged.mode = "http2" THEN {"streams"}
         ELSE IF plugged.mode = "websocket" /\ plugged.mux # "smux"
              THEN {"single", "vmess"} \cup (IF node.plugin = "gost" THEN {"smux"} ELSE {})
         ELSE IF plugged.mux # Absent THEN {plugged.mux} ELSE {"single"}
    /\ UNCHANGED <<node, plugged>>

\* A stream of a QUIC connection goes straight to its handler.
QuicStream ==
    /\ unwrap = "serving" /\ plugged.mode = "quic"
    /\ unwrap' = "single" /\ UNCHANGED <<node, plugged>>

\* The child exits by itself, or the inbound is told to stop and kills it.
StopServing ==
    /\ unwrap = "serving"
    /\ unwrap' \in IF plugged.child THEN {"failed", "stopped"} ELSE {"stopped"}
    /\ plugged' = [plugged EXCEPT !.listener = FALSE, !.child = FALSE]
    /\ UNCHANGED node

PlugSettled ==
    /\ unwrap \in {"refused", "panic", "session", "fallback", "dropped", "streams", "single",
                   "vmess", "smux", "failed", "stopped"}
    /\ UNCHANGED plugVars
-----------------------------------------------------------------------------
PlugInit == node \in Configured /\ plugged = Unbuilt /\ unwrap = "options"
NoNode == CHOOSE n \in Configured : n.plugin = "unknown"
PlugNone ==
    /\ node = NoNode
    /\ plugged = Unbuilt /\ unwrap = "none"

PlugNext ==
    \/ Options \/ BuildTransport \/ BindSockets \/ AcceptConnection \/ AcceptTls
    \/ UnwrapMode \/ RouteStream \/ QuicStream \/ StopServing \/ PlugSettled

\* The unwrap states that serve a stream.
Served == {"stream", "streams", "single", "vmess", "smux"}

\* No configuration that options lets through makes the inbound panic, in
\* start or under a connection: not an unwrap of a socket it did not open, not
\* the unreachable!() of accept.  A node configured for TLS never serves a
\* plaintext stream, one configured with a certificate never ignores it, and a
\* multiplexer the options ask for is the one a TLS stream gets; only GOST's
\* WebSocket is ever taken for smux without being configured for it.
PluginHolds ==
    /\ unwrap # "panic"
    /\ unwrap \in Served /\ node.plugin \in {"v2ray", "gost"} =>
         /\ (node.tls = "true" \/ (node.tls = Absent /\ (node.panel \/ ModeTls(node))))
              <=> plugged.tls
         /\ node.cert => plugged.tls
         /\ plugged.tls <=> plugged.cert # Absent
    /\ unwrap = "single" /\ plugged.mode = "tls" => plugged.mux = Absent
    /\ unwrap = "smux" /\ plugged.mux # "smux" => plugged.mode = "websocket" /\ node.plugin = "gost"
=============================================================================
