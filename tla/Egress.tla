------------------------------- MODULE Egress -------------------------------
(***************************************************************************)
(* The way out of the node: the audit rules (security/audit.rs), the router *)
(* (proxy/router/mod.rs, with the routes of config/routes.rs) and the       *)
(* dialer (router/outbound.rs).  One request passes them in turn, waiting   *)
(* for the resolver and for connections in between, while the lists and the *)
(* routes are replaced under it.  The resolver may answer with any          *)
(* addresses here; module Resolver models it.                               *)
(*                                                                         *)
(* A line of a list or of a route is its kind and the set of what it        *)
(* matches: names (keywords, patterns, suffixes, site groups), addresses    *)
(* (networks, countries), ports, nodes, networks; one that does not parse   *)
(* matches nothing.  An outbound is its tag and its type.                   *)
(***************************************************************************)
EXTENDS Integers, Sequences, FiniteSets, FiniteSetsExt, SequencesExt

CONSTANTS Files,          \* contents of the local routes file
          Panels,         \* the panel's routes and outbounds
          Lists           \* contents of the block list and of the white list

VARIABLES
    rules,     \* white, block: the audit lists; banPrivate
    routes,    \* the routes in force, and the panel's part of them
    way        \* the request

outVars == <<rules, routes, way>>

Addresses == {"pub4", "priv4", "pub6"}
Private == {"priv4"}
Targets == {"n1", "n2", "priv4", "unspecified"}
Literal(h) == {h} \cap Addresses
Node == "this node"
-----------------------------------------------------------------------------
\* Whether some line of one kind matches one of the values at hand.
Hit(lines, kind, values) == \E l \in lines : l.kind = kind /\ l.v \cap values # {}

\* RuleMatcher::reload: comments and lines that do not parse are skipped.
Reload(content) == {l \in content : l.kind \notin {"comment", "malformed"}}
\* RuleMatcher::matches_full.  The callers know neither node nor network (None),
\* so that lines about those never match.
MatchesFull(list, host, ip, port, node, network) ==
    \/ \E l \in list : l.kind = "all"
    \/ Hit(list, "name", {host}) \/ Hit(list, "ip", ip) \/ Hit(list, "port", {port})
    \/ Hit(list, "node", node) \/ Hit(list, "network", network \cup {"all" : n \in network})
IsPrivateIp(ip) == ip \cap Private # {}
\* should_block_full: the white list, then what the configuration forbids (private
\* addresses, ports and the names and ports of BitTorrent), then the block list.
ShouldBlock(r, host, ip, port) ==
    /\ ~MatchesFull(r.white, host, ip, port, {}, {})
    /\ \/ r.banPrivate /\ IsPrivateIp(ip)
       \/ port = "forbidden"
       \/ MatchesFull(r.block, host, ip, port, {}, {})
-----------------------------------------------------------------------------
Direct == [tag |-> "direct", type |-> "direct"]
Block == [tag |-> "block", type |-> "block"]
DefaultRoutes == [toml |-> <<>>, rules |-> <<>>, outbounds |-> <<Direct, Block>>, default |-> "direct"]
\* parse_content: a file that is switched off, or is of neither form, gives the
\* defaults; routes of the newer form leave nothing of the older.
ParseContent(f) ==
    CASE f.form = "toml" -> [toml |-> f.routes, rules |-> <<>>, default |-> "direct",
                             outbounds |-> FlattenSeq([i \in DOMAIN f.routes |-> f.routes[i].outs])]
      [] f.form = "rules" -> [toml |-> <<>>, rules |-> f.routes, outbounds |-> f.outbounds, default |-> f.default]
      [] OTHER -> DefaultRoutes

\* The panel's outbounds by tag, the built-in ones where it does not redefine them.
Custom(p) == p.custom \cup {o \in {Direct, Block} : \A q \in p.custom : q.tag # o.tag}
ActionTag(r) ==
    CASE r.action = "block" -> "block" [] r.action = "direct" -> "direct" [] OTHER -> r.value
\* A tag nobody defined is taken for a type.
Converted(p, r) ==
    [rules |-> r.match,
     outs |-> SetToSeq(IF \E o \in Custom(p) : o.tag = ActionTag(r)
                       THEN {o \in Custom(p) : o.tag = ActionTag(r)}
                       ELSE {[tag |-> ActionTag(r), type |-> ActionTag(r)]})]
PanelRoutes(p) ==
    LET asked == SelectSeq(p.routes, LAMBDA r : r.match # {})
    IN  [i \in DOMAIN asked |-> Converted(p, asked[i])]
NewOutbounds(c, p) ==
    SetToSeq({o \in Custom(p) : \A i \in DOMAIN c.outbounds : c.outbounds[i].tag # o.tag})
\* import_panel_routes: the panel's routes go before the file's.
ImportPanelRoutes(c, p) ==
    [c EXCEPT !.toml = PanelRoutes(p) \o @, !.outbounds = @ \o NewOutbounds(c, p)]

\* match_toml_route: the filters of each kind, where there are any, then one of the
\* destinations, where there are any.
MatchTomlRoute(route, ctx) ==
    LET of(kind) == UNION {l.v : l \in {x \in route.rules : x.kind = kind}}
        dest == {l \in route.rules : l.kind \in {"all", "name", "ip"}}
    IN  /\ of("node") # {} => Node \in of("node")
        /\ of("network") # {} => {"all", ctx.net} \cap of("network") # {}
        /\ of("port") # {} => ctx.port \in of("port")
        /\ \/ dest = {}
           \/ \E l \in dest : l.kind = "all"
           \/ Hit(dest, "name", {ctx.host}) \/ Hit(dest, "ip", Literal(ctx.host))
\* A rule of the older form: every condition it states, a missing address meeting
\* none about addresses.
MatchRule(rule, ctx) ==
    /\ rule.node # {} => Node \in rule.node
    /\ rule.network # {} => {"all", ctx.net} \cap rule.network # {}
    /\ rule.port # {} => ctx.port \in rule.port
    /\ \A names \in {rule.domain, rule.suffix, rule.keyword} : names # {} => ctx.host \in names
    /\ rule.ip # {} => Literal(ctx.host) \cap rule.ip # {}

\* match_outbound: the first route that matches and has outbounds, one of them at
\* random; the first rule that matches and whose outbound exists; the default.
MatchOutbound(c, ctx) ==
    LET tagged(t) == SelectSeq(c.outbounds, LAMBDA o : o.tag = t)
        hit == {i \in DOMAIN c.toml : MatchTomlRoute(c.toml[i], ctx) /\ c.toml[i].outs # <<>>}
        old == {i \in DOMAIN c.rules : MatchRule(c.rules[i], ctx) /\ tagged(c.rules[i].outbound) # <<>>}
    IN  IF hit # {} THEN ToSet(c.toml[Min(hit)].outs)
        ELSE IF old # {} THEN {Head(tagged(c.rules[Min(old)].outbound))}
        ELSE IF tagged(c.default) # <<>> THEN {Head(tagged(c.default))} ELSE {Direct}
-----------------------------------------------------------------------------
\* dial_socks5: what the proxy must answer at each of its turns, with credentials
\* and without.
Creds == {"none", "valid", "too long"}
ProxyReplies == [method : {"plain", "password"}, auth : BOOLEAN, granted : BOOLEAN]
DialSocks5(cred, reply) ==
    /\ cred # "too long"
    /\ reply.method = (IF cred = "none" THEN "plain" ELSE "password")
    /\ cred = "valid" => reply.auth
    /\ reply.granted
\* dial_http_connect: one read, which must start with the whole status line.
HttpReplies == {"granted", "refused", "first bytes only"}
DialHttpConnect(reply) == reply = "granted"
\* The source address: the configured one, or with auto_out_ip the one the client
\* came in by; bound only where its family is the destination's.
Sources == [auto : BOOLEAN, inbound : {"none", "own4", "own6"}, v4 : {"none", "own4"}, v6 : {"none", "own6"}]
FirstSet(choices) == LET some == SelectSeq(choices, LAMBDA x : x # "none") IN IF some = <<>> THEN "none" ELSE some[1]
BindIp(s) == FirstSet(IF s.auto THEN <<s.inbound, s.v4, s.v6>> ELSE <<s.v4, s.v6>>)
SameFamily(ip, addr) == (ip = "own6") = (addr = "pub6")
Bound(s, addr) == IF BindIp(s) # "none" /\ SameFamily(BindIp(s), addr) THEN BindIp(s) ELSE "any"
\* The address for datagrams that a SOCKS proxy names: its own when it names none.
RelayAddr(bound) == IF bound = "unspecified" THEN "control peer" ELSE bound
-----------------------------------------------------------------------------
Step(at) == way.at = at
Go(at) == way' = [way EXCEPT !.at = at]

\* A protocol handler audits the target its client asks for.
Ask(host, port, net) ==
    /\ Step("idle") /\ (host = "unspecified" => net = "udp")
    /\ way' = [way EXCEPT !.at = IF ShouldBlock(rules, host, Literal(host), port) THEN "denied" ELSE "match",
                          !.host = host, !.port = port, !.net = net]
    /\ UNCHANGED <<rules, routes>>
\* ... and asks the router.
Match ==
    /\ Step("match")
    /\ \E o \in MatchOutbound(routes.config, way) :
         way' = [way EXCEPT !.at = "dial", !.out = {o}, !.panel = routes.panel]
    /\ UNCHANGED <<rules, routes>>

Type == (CHOOSE o \in way.out : TRUE).type
\* dial and dial_udp_outbound: the types they know; a redirection has a target of
\* its own.
Supported(net) ==
    {"direct", "redirect", "socks"} \cup (IF net = "tcp" THEN {"http"} ELSE {})
Dial ==
    /\ Step("dial")
    /\ IF Type \notin Supported(way.net) THEN Go("denied")
       ELSE way' = [way EXCEPT !.at = "resolve", !.dialled = IF Type = "redirect" THEN "n2" ELSE way.host]
    /\ UNCHANGED <<rules, routes>>

\* dial_udp opens a socket without a destination when the client names none.
DialUnspecified == way.dialled = "unspecified" /\ Type # "socks"
\* resolve_target before it waits: the audit of the name.
ResolveTarget ==
    /\ Step("resolve")
    /\ IF DialUnspecified THEN Go("unconnected")
       ELSE IF ShouldBlock(rules, way.dialled, Literal(way.dialled), way.port) THEN Go("denied")
       ELSE Go("lookup")
    /\ UNCHANGED <<rules, routes>>

\* DNSResolver::resolve
Answers(host) ==
    IF Literal(host) # {} \/ host = "unspecified" THEN {<<host>>}
    ELSE {<<>>} \cup {<<a>> : a \in Addresses} \cup {<<a, b>> : a, b \in Addresses}
\* Variant with a defect: the addresses of a name that passed the audit are not audited again.
RetainAll(addrs) == addrs
\* resolve_target after it: each address is audited, under the lists of now.
Retain(addrs) ==
    SelectSeq(addrs, LAMBDA a : ~ShouldBlock(rules, way.dialled, {a}, way.port))
Resolved ==
    /\ Step("lookup")
    /\ \E addrs \in Answers(way.dialled) :
         way' = [way EXCEPT !.at = IF addrs = <<>> THEN "failed" ELSE IF Retain(addrs) = <<>> THEN "denied" ELSE "connect",
                            !.addrs = Retain(addrs), !.judged = rules]
    /\ UNCHANGED <<rules, routes>>

\* dial_direct tries the addresses in turn; everything else takes the first.
ConnectDirect ==
    /\ Step("connect") /\ Type \in {"direct", "redirect"}
    /\ \/ \E s \in Sources :
            way' = [way EXCEPT !.at = "open", !.peer = Head(way.addrs), !.bound = Bound(s, Head(way.addrs))]
       \/ IF Len(way.addrs) > 1 /\ way.net = "tcp" THEN way' = [way EXCEPT !.addrs = Tail(@)] ELSE Go("failed")
    /\ UNCHANGED <<rules, routes>>
\* The first address goes to the proxy, in a CONNECT or as the destination of each
\* datagram sent through the relay the proxy names.
ConnectSocks ==
    /\ Step("connect") /\ Type = "socks"
    /\ \E cred \in Creds, reply \in ProxyReplies, bound \in {"unspecified", "relay", "port zero"} :
         IF DialSocks5(cred, reply) /\ (way.net = "udp" => RelayAddr(bound) # "port zero")
         THEN way' = [way EXCEPT !.at = "open", !.peer = Head(way.addrs),
                                 !.relay = IF way.net = "udp" THEN RelayAddr(bound) ELSE "none"]
         ELSE Go("failed")
    /\ UNCHANGED <<rules, routes>>
ConnectHttp ==
    /\ Step("connect") /\ Type = "http"
    /\ \E reply \in HttpReplies :
         IF DialHttpConnect(reply) THEN way' = [way EXCEPT !.at = "open", !.peer = Head(way.addrs)]
         ELSE Go("failed")
    /\ UNCHANGED <<rules, routes>>
\* UdpOutbound::send and recv over a SOCKS relay: a packet too large to wrap is an
\* error, and so is one from the relay that is short or a fragment; the end of the
\* control connection ends the association.
Datagram ==
    /\ Step("open") /\ way.relay # "none"
    /\ Go("failed")
    /\ UNCHANGED <<rules, routes>>
-----------------------------------------------------------------------------
\* reload_block_list and reload_white_list
ReloadLists ==
    /\ \E l \in Lists : rules' \in {[rules EXCEPT !.white = Reload(l)], [rules EXCEPT !.block = Reload(l)]}
    /\ UNCHANGED <<routes, way>>
\* Router::reload; only Match reads the routes.
ReloadRoutes ==
    /\ Step("match")
    /\ \E f \in Files, p \in Panels :
         routes' = [config |-> ImportPanelRoutes(ParseContent(f), p), panel |-> p]
    /\ UNCHANGED <<rules, way>>

NoPanel == [routes |-> <<>>, custom |-> {}]
OutState(on) ==
    /\ rules \in [white : {{}}, block : {{}}, banPrivate : IF on THEN BOOLEAN ELSE {FALSE}]
    /\ routes = [config |-> ImportPanelRoutes(DefaultRoutes, NoPanel), panel |-> NoPanel]
    /\ way = [at |-> IF on THEN "idle" ELSE "none", host |-> "none", port |-> "none", net |-> "none",
              out |-> {}, panel |-> NoPanel, dialled |-> "none", addrs |-> <<>>, peer |-> "none",
              relay |-> "none", bound |-> "any", judged |-> [white |-> {}, block |-> {}, banPrivate |-> FALSE]]
OutInit == OutState(TRUE)
OutNone == OutState(FALSE)
OutSettled == way.at \in {"denied", "failed", "open", "unconnected"}
OutNext ==
    \/ OutSettled /\ UNCHANGED outVars
    \/ \E h \in Targets, p \in {"free", "forbidden"}, n \in {"tcp", "udp"} : Ask(h, p, n)
    \/ Match \/ Dial \/ ResolveTarget \/ Resolved
    \/ ConnectDirect \/ ConnectSocks \/ ConnectHttp \/ Datagram
    \/ way.at \in {"idle", "match", "dial", "resolve", "lookup"} /\ ReloadLists
    \/ ReloadRoutes
-----------------------------------------------------------------------------
\* Whether the first of the panel's routes that matches the request blocks it, read
\* off the panel's list alone.
PanelBlocks ==
    LET asked == way.panel.routes
        here == {i \in DOMAIN asked : asked[i].match # {} /\ MatchTomlRoute([rules |-> asked[i].match], way)}
    IN  here # {} /\ asked[Min(here)].action = "block"

\* A request gets out only to an address that the lists in force after the lookup
\* allow under the name it was looked up by, whatever the name had passed before; not
\* at all when the first of the panel's routes that matches blocks it, whatever the
\* local file says; never by another way when its outbound is of an unknown type; and
\* from a source address of the right family (resolve_target, import_panel_routes,
\* dial, dial_udp_outbound, dial_direct).
EgressAllowed ==
    way.at \in {"open", "unconnected"} =>
        /\ way.at = "open" => ~ShouldBlock(way.judged, way.dialled, {way.peer}, way.port)
        /\ PanelBlocks => \E o \in way.panel.custom : o.tag = "block"
        /\ Type \in Supported(way.net)
        /\ way.bound # "any" => SameFamily(way.bound, way.peer)
=============================================================================
