------------------------------- MODULE Codecs -------------------------------
(***************************************************************************)
(* The parts of the system that work by themselves, checked side by side:   *)
(* the codecs, which turn one sequence of bytes or packets into another,    *)
(* the handshakes in front of the protocols, and the way out of the node.   *)
(* A behaviour exercises one part, which the initial state chooses; the     *)
(* others are switched off in it.                                           *)
(***************************************************************************)
EXTENDS StreamWrite, Datagrams, SsIdentity, TransportOpen, SsPlugin,
        DecoyHandshake, RestlsRelay, Egress, Resolver, ProxyHeader

\* Frames of a peer: split anywhere, empty in the middle, more than are padded.
PeerScripts == {<<1, 2>>, <<2, 0, 1>>, <<1, 1, 1>>, <<2, 1, 0>>}
\* The lines of a ResTLS script: a short one that is answered, a long one that is not.
TheLines == <<[len |-> 1, answers |-> 1], [len |-> 4, answers |-> 0]>>

Line(kind, v) == [kind |-> kind, v |-> v]
Out(tag, type) == [tag |-> tag, type |-> type]
Rule(names, ip, tag) ==
    [node |-> {}, network |-> {"all"}, port |-> {}, domain |-> names, suffix |-> {}, keyword |-> {},
     ip |-> ip, outbound |-> tag]
\* Routes files of both forms, with a filter for another node, a route without
\* outbounds, a rule whose outbound is missing.
RouteFiles ==
    {[form |-> "off"],
     [form |-> "toml",
      routes |-> <<[rules |-> {Line("node", {"other node"})}, outs |-> <<Out("b", "block")>>],
                   [rules |-> {Line("port", {"free"}), Line("network", {"tcp"}), Line("name", {"n1"})},
                    outs |-> <<Out("s", "socks"), Out("d", "direct")>>],
                   [rules |-> {Line("all", {}), Line("comment", {})}, outs |-> <<>>]>>],
     [form |-> "rules",
      routes |-> <<Rule({"n1"}, {}, "gone"), Rule({}, {"priv4"}, "r"), Rule({"n2"}, {}, "r")>>,
      outbounds |-> <<Out("r", "redirect"), Out("h", "http")>>, default |-> "h"]}
\* Routes of the panel: none; a block before an outbound nobody defined; one of its own.
PanelFiles ==
    {NoPanel,
     [routes |-> <<[match |-> {}, action |-> "direct", value |-> "direct"],
                   [match |-> {Line("name", {"n1"})}, action |-> "block", value |-> "direct"],
                   [match |-> {Line("ip", {"priv4"})}, action |-> "route", value |-> "ss"]>>, custom |-> {}],
     [routes |-> <<[match |-> {Line("all", {})}, action |-> "route", value |-> "out"]>>,
      custom |-> {Out("out", "socks")}]}
ListFiles ==
    {{}, {Line("name", {"n1"}), Line("node", {"this node"})},
     {Line("ip", {"pub4"}), Line("port", {"forbidden"}), Line("malformed", {"n2"})}}

Server(scheme) == [scheme |-> scheme, rest |-> "host"]
\* DNS rules: with tags and another strategy, with a tag nobody defined, in the short form.
DnsFiles ==
    {[form |-> "full", strategy |-> "ipv6_only", ttl |-> 2,
      servers |-> <<[tag |-> "t", address |-> Server("https")], [tag |-> "none", address |-> Server("tcp")]>>,
      rules |-> <<[domains |-> {"a"}, servers |-> <<[scheme |-> "udp", rest |-> "bad port"]>>, tag |-> "t"],
                  [domains |-> {"a", "b"}, servers |-> <<>>, tag |-> "none"]>>],
     [form |-> "full", strategy |-> "none", ttl |-> 0, servers |-> <<>>,
      rules |-> <<[domains |-> {"a"}, servers |-> <<>>, tag |-> "t"]>>],
     [form |-> "short", rules |-> <<[domains |-> {"b"}, servers |-> <<Server("tls")>>]>>]}

Parts == {"read", "write", "replay", "defragment", "identity", "opening", "plugin",
          "decoy", "session", "egress", "dns", "header"}
Init ==
    \E part \in Parts :
        /\ IF part = "read" THEN ReadInit ELSE ReadNone
        /\ IF part = "write" THEN WriteInit ELSE WriteNone
        /\ ReplayInit(IF part = "replay" THEN "on" ELSE "none")
        /\ \E k \in IF part = "defragment" THEN {"hy", "tuic"} ELSE {"none"} : DefragInit(k)
        /\ IdInit(part = "identity")
        /\ IF part = "opening" THEN OpenInit ELSE OpenNone
        /\ IF part = "plugin" THEN PlugInit ELSE PlugNone
        /\ IF part = "decoy" THEN VeilInit ELSE VeilNone
        /\ IF part = "session" THEN SessInit ELSE SessNone
        /\ IF part = "egress" THEN OutInit ELSE OutNone
        /\ IF part = "dns" THEN DnsInit ELSE DnsNone
        /\ IF part = "header" THEN HeadInit ELSE HeadNone

\* The variables of the parts added to the codecs proper.
edgeVars == <<idVars, openVars, plugVars, veil, sessVars, outVars, dnsVars, headVars>>
codecVars == <<rvars, wvars, replayVars, fragVars>>
Next ==
    \/ ReadNext /\ UNCHANGED <<wvars, replayVars, fragVars, edgeVars>>
    \/ WriteNext /\ UNCHANGED <<rvars, replayVars, fragVars, edgeVars>>
    \/ ReplayNext /\ UNCHANGED <<rvars, wvars, fragVars, edgeVars>>
    \/ DefragNext /\ UNCHANGED <<rvars, wvars, replayVars, edgeVars>>
    \/ IdNext /\ UNCHANGED <<codecVars, openVars, plugVars, veil, sessVars, outVars, dnsVars, headVars>>
    \/ OpenNext /\ UNCHANGED <<codecVars, idVars, plugVars, veil, sessVars, outVars, dnsVars, headVars>>
    \/ PlugNext /\ UNCHANGED <<codecVars, idVars, openVars, veil, sessVars, outVars, dnsVars, headVars>>
    \/ VeilNext /\ UNCHANGED <<codecVars, idVars, openVars, plugVars, sessVars, outVars, dnsVars, headVars>>
    \/ SessNext /\ UNCHANGED <<codecVars, idVars, openVars, plugVars, veil, outVars, dnsVars, headVars>>
    \/ OutNext /\ UNCHANGED <<codecVars, idVars, openVars, plugVars, veil, sessVars, dnsVars, headVars>>
    \/ DnsNext /\ UNCHANGED <<codecVars, idVars, openVars, plugVars, veil, sessVars, outVars, headVars>>
    \/ HeadNext /\ UNCHANGED <<codecVars, idVars, openVars, plugVars, veil, sessVars, outVars, dnsVars>>

Spec == Init /\ [][Next]_<<codecVars, edgeVars>>
=============================================================================
