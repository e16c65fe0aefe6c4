------------------------------ MODULE Resolver ------------------------------
(***************************************************************************)
(* The resolver (dns/resolver.rs) with its cache, the servers it asks       *)
(* (dns/client.rs, dns/wire.rs), the rules that choose them (dns/rules.rs)  *)
(* and the watcher of the rules file (dns/router.rs).  Lookups wait for     *)
(* servers while the watcher replaces the rules and empties the cache.      *)
(*                                                                         *)
(* A server is the scheme of its address and whether the rest parses, a     *)
(* pattern the set of hosts it matches, an address its family.  The         *)
(* versions of the rules are for the property.                              *)
(***************************************************************************)
EXTENDS Integers, Sequences, FiniteSets

CONSTANTS Lookups, MaxClock, MaxEdits,
          CacheCap,       \* MAX_DNS_CACHE_ENTRIES
          HostNames,      \* names that are looked up
          RuleFiles       \* contents of the rules file

ASSUME ResolverAssumption == CacheCap \in Nat

VARIABLES
    dns,       \* strategy, ttl, servers: default_dns, table; mtime: last_mtime; version
    file,      \* the rules file: {} or {[content, mtime]}; edits
    cache,     \* host -> [ips, expires, born, put]
    look,      \* the lookups
    now        \* the clock

dnsVars == <<dns, file, cache, look, now>>

Families == {"v4", "v6"}
-----------------------------------------------------------------------------
\* parse_yaml: the full form, whose rules may name a server by its tag; the short
\* form, a server and its patterns; anything else is an error.
None == "none"
TagOk(c) ==
    /\ \A i, j \in DOMAIN c.servers : i # j /\ c.servers[i].tag # None => c.servers[i].tag # c.servers[j].tag
    /\ \A i \in DOMAIN c.rules : c.rules[i].tag # None => \E j \in DOMAIN c.servers : c.servers[j].tag = c.rules[i].tag
ByTag(c, tag) == LET hit == SelectSeq(c.servers, LAMBDA s : s.tag = tag) IN IF tag = None THEN <<>> ELSE <<hit[1].address>>
ParseYaml(c) ==
    CASE c.form = "full" /\ TagOk(c) ->
           {[strategy |-> c.strategy, ttl |-> c.ttl,
             servers |-> LET plain == SelectSeq(c.servers, LAMBDA s : s.tag = None)
                         IN  [i \in DOMAIN plain |-> plain[i].address],
             rules |-> [i \in DOMAIN c.rules |->
                          [domains |-> c.rules[i].domains, servers |-> c.rules[i].servers \o ByTag(c, c.rules[i].tag)]]]}
      [] c.form = "short" -> {[strategy |-> None, ttl |-> 0, servers |-> <<>>, rules |-> c.rules]}
      [] OTHER -> {}

\* match_servers: those of the first rule with a matching pattern.
MatchServers(table, host) ==
    LET all == UNION {{t.rules[i].servers : i \in {k \in DOMAIN t.rules :
                          host \in t.rules[k].domains /\ \A j \in 1..(k - 1) : host \notin t.rules[j].domains}} : t \in table}
    IN  IF all = {} THEN <<>> ELSE CHOOSE s \in all : TRUE

\* parse_response: an error code or no answers give no address; what follows a cut
\* is dropped; the records of both families count, whichever was asked for.
Messages == [id : {"ours", "other"}, code : {"ok", "error"}, answers : {<<>>, <<"v4">>, <<"v6">>, <<"v4", "v6">>}, cut : 0..2]
ParseResponse(m) ==
    IF m.code = "error" THEN {} ELSE {m.answers[i] : i \in {k \in DOMAIN m.answers : k <= 2 - m.cut}}
\* The answer must bear the number of the query.
ById(m) == IF m.id = "ours" THEN ParseResponse(m) ELSE {}
\* query_udp: the first datagram is the answer.
QueryUdp == {ById(m) : m \in Messages}
\* query_tcp, query_dot: the whole message, or an error; over TLS the certificate is
\* not verified.
QueryTcp == {{}} \cup {ById(m) : m \in Messages}
QueryDot == QueryTcp
\* query_doh: a second try where the first got no response; the number is not
\* looked at.
QueryDoh ==
    LET try == {"no response", "not 200"} \cup {"message"}
    IN  UNION {IF "message" \in {t, IF t = "no response" THEN u ELSE t}
               THEN {ParseResponse(m) : m \in Messages} ELSE {{}} : t, u \in try}
\* query: no answer within DNS_TIMEOUT is an error, and so no address.
Query(transport) ==
    {{}} \cup CASE transport = "udp" -> QueryUdp [] transport = "tcp" -> QueryTcp
                 [] transport = "dot" -> QueryDot [] transport = "doh" -> QueryDoh
\* parse_dns_endpoint, parse_host_port: the transport by the scheme; an empty host
\* or a port that is no number is refused, except in a URL.
ParseEndpoint(server) ==
    CASE server.scheme = "https" -> {"doh"}
      [] server.rest # "host" -> {}
      [] server.scheme \in {"tcp-tls", "tls", "dot"} -> {"dot"}
      [] server.scheme = "tcp" -> {"tcp"}
      [] OTHER -> {"udp"}
\* resolve_with_servers, one server: it is asked for the families the strategy
\* wants, for both at once unless it wants one; one that does not parse is skipped.
ServerAnswers(server, strategy) ==
    UNION ({{{}}} \cup {IF strategy \in {"ipv4_only", "ipv6_only"} THEN Query(t)
                       ELSE {x \cup y : x, y \in Query(t)} : t \in ParseEndpoint(server)})

\* apply_strategy: the addresses of a family, an address being its family; then
\* which of the two, in which order.
OfFamily(family, ips) == IF family \in ips THEN <<family>> ELSE <<>>
ApplyStrategy(ips, strategy) ==
    LET four == OfFamily("v4", ips)
        six == OfFamily("v6", ips)
    IN  CASE strategy = "ipv4_only" -> four
          [] strategy = "ipv6_only" -> six
          [] strategy = "ipv6_first" -> six \o four
          [] OTHER -> four \o six
-----------------------------------------------------------------------------
\* Variant with a defect: the answers of the old rules stay.
SetRulesTableKeeps(table) ==
    /\ dns' = LET given(field, none) == {t[field] : t \in table} \ {none}
                  new(field, none) == IF given(field, none) = {} THEN dns[field] ELSE CHOOSE v \in given(field, none) : TRUE
              IN  [dns EXCEPT !.strategy = new("strategy", None), !.ttl = new("ttl", 0),
                              !.servers = new("servers", <<>>), !.table = table,
                              !.mtime = {f.mtime : f \in file.at}, !.version = @ + 1]
    /\ UNCHANGED cache

\* set_rules_table: what the table says replaces strategy, lifetime and default
\* servers, and what it does not say, or no table at all, leaves them; the cache is
\* emptied.
SetRulesTable(table) ==
    /\ dns' = LET given(field, none) == {t[field] : t \in table} \ {none}
                  new(field, none) == IF given(field, none) = {} THEN dns[field] ELSE CHOOSE v \in given(field, none) : TRUE
              IN  [dns EXCEPT !.strategy = new("strategy", None), !.ttl = new("ttl", 0),
                              !.servers = new("servers", <<>>), !.table = table,
                              !.mtime = {f.mtime : f \in file.at}, !.version = @ + 1]
    /\ cache' = <<>>

\* check_and_reload, every ten seconds: the file is gone, or its time is another;
\* one that does not parse counts as none.
CheckAndReload ==
    /\ {f.mtime : f \in file.at} # dns.mtime
    /\ SetRulesTable(UNION {ParseYaml(f.content) : f \in file.at})
    /\ UNCHANGED <<file, look, now>>
\* Someone edits or removes the file.
EditFile ==
    /\ file.edits < MaxEdits
    /\ file' \in [at : {{}} \cup {{[content |-> c, mtime |-> now]} : c \in RuleFiles}, edits : {file.edits + 1}]
    /\ UNCHANGED <<dns, cache, look, now>>
-----------------------------------------------------------------------------
Set(l, fields) == look' = [look EXCEPT ![l] = [f \in DOMAIN @ |-> IF f \in DOMAIN fields THEN fields[f] ELSE @[f]]]

\* resolve_with_runtime up to its first wait: the cache, or the servers of the rule
\* that matches.
Lookup(l, host) ==
    /\ look[l].at = "idle"
    /\ IF host \in DOMAIN cache /\ now < cache[host].expires
       THEN Set(l, [at |-> "done", host |-> host, strategy |-> dns.strategy,
                    addrs |-> ApplyStrategy(cache[host].ips, dns.strategy)])
       ELSE Set(l, [at |-> "rule", host |-> host, strategy |-> dns.strategy, started |-> now,
                    born |-> dns.version, servers |-> MatchServers(dns.table, host)])
    /\ UNCHANGED <<dns, file, cache, now>>

\* The cache with a new entry: at its limit what has expired goes first, then any
\* one entry.
CacheWith(host, entry, at) ==
    LET kept == IF Cardinality(DOMAIN cache) < CacheCap THEN DOMAIN cache
                ELSE {h \in DOMAIN cache : at < cache[h].expires}
        left == IF Cardinality(kept) < CacheCap THEN {kept} ELSE {kept \ {h} : h \in kept}
    IN  {[h \in k \cup {host} |-> IF h = host THEN entry ELSE cache[h]] : k \in left}
\* resolve_with_runtime after the answer
Answered(l, ips) ==
    LET addrs == ApplyStrategy(ips, look[l].strategy)
    IN  /\ IF ips = {} THEN UNCHANGED cache
           ELSE cache' \in CacheWith(look[l].host, [ips |-> ips, expires |-> look[l].started + dns.ttl,
                                                    born |-> look[l].born, put |-> dns.version], look[l].started)
        /\ Set(l, [at |-> IF addrs = <<>> THEN "failed" ELSE "done", addrs |-> addrs, servers |-> <<>>])

\* resolve_four_levels: the servers of the rule one after the other, then the default
\* ones, then the system.  Each level reads its servers when it is reached.
AskServer(l) ==
    /\ look[l].at \in {"rule", "default"} /\ look[l].servers # <<>>
    /\ \E ips \in ServerAnswers(Head(look[l].servers), look[l].strategy) :
         IF ips = {} THEN Set(l, [servers |-> Tail(look[l].servers)]) /\ UNCHANGED cache ELSE Answered(l, ips)
    /\ UNCHANGED <<dns, file, now>>
NextLevel(l) ==
    /\ look[l].at \in {"rule", "default"} /\ look[l].servers = <<>>
    /\ IF look[l].at = "rule" THEN Set(l, [at |-> "default", servers |-> dns.servers]) ELSE Set(l, [at |-> "system"])
    /\ UNCHANGED <<dns, file, cache, now>>
AskSystem(l) ==
    /\ look[l].at = "system"
    /\ \/ Set(l, [at |-> "failed"]) /\ UNCHANGED cache
       \/ \E ips \in SUBSET Families : Answered(l, ips)
    /\ UNCHANGED <<dns, file, now>>
ClockTick ==
    /\ now < MaxClock /\ now' = now + 1
    /\ UNCHANGED <<dns, file, cache, look>>
-----------------------------------------------------------------------------
DnsState(on) ==
    /\ dns = [strategy |-> "ipv4_first", ttl |-> 1, servers |-> <<[scheme |-> "udp", rest |-> "host"]>>, table |-> {}, mtime |-> {}, version |-> 0]
    /\ file = [at |-> {}, edits |-> 0]
    /\ cache = <<>> /\ now = 0
    /\ look = [l \in Lookups |-> [at |-> IF on THEN "idle" ELSE "none", host |-> None, strategy |-> None,
                                  started |-> 0, born |-> 0, servers |-> <<>>, addrs |-> <<>>]]
DnsInit == DnsState(TRUE)
DnsNone == DnsState(FALSE)
DnsSettled == \A l \in Lookups : look[l].at \in {"done", "failed"}
DnsNext ==
    \/ DnsSettled /\ UNCHANGED dnsVars
    \/ \E l \in Lookups :
         (\E h \in HostNames : Lookup(l, h)) \/ AskServer(l) \/ NextLevel(l) \/ AskSystem(l)
    \/ (\E l \in Lookups : look[l].at \notin {"none", "done", "failed"}) /\ (CheckAndReload \/ EditFile \/ ClockTick)
-----------------------------------------------------------------------------
\* What the resolver remembers and says: never more names than the limit; of the time
\* before a change of the rules only what was being looked up during the change; and
\* only addresses of the families that the strategy allowed when the question was
\* put, whatever strategy they were looked up under (set_rules_table,
\* resolve_with_runtime).
AnswersFresh ==
    /\ Cardinality(DOMAIN cache) <= CacheCap
    /\ \A h \in DOMAIN cache : cache[h].born # dns.version => cache[h].put = dns.version
    /\ \A l \in Lookups : look[l].at = "done" =>
         \A i \in DOMAIN look[l].addrs :
            /\ look[l].strategy = "ipv4_only" => look[l].addrs[i] = "v4"
            /\ look[l].strategy = "ipv6_only" => look[l].addrs[i] = "v6"
=============================================================================
