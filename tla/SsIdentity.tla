----------------------------- MODULE SsIdentity -----------------------------
(***************************************************************************)
(* Whose key sealed this packet?  The credentials of the Shadowsocks        *)
(* inbound (server.rs, ss2022.rs): how the panel's users become an index,   *)
(* how a TCP header and a UDP packet find their user in it, and which salts *)
(* are spent.                                                               *)
(*                                                                          *)
(* A key stands for the bytes decode_key makes of a password; a packet is   *)
(* described by the key that sealed it, since nothing else opens it.  The   *)
(* replay filter behind check_nonce_replay is a library's: a set of salts.  *)
(***************************************************************************)
EXTENDS Integers, Sequences, SequencesExt, FiniteSets

CONSTANTS
    Accounts,       \* users the panel may list
    Passwords,      \* what it may give them
    Malformed,      \* the passwords decode_key rejects
    ServerKey,      \* the node's server_key, when it has one
    Salts           \* salts of the packets in a run

Nobody == "nobody"

VARIABLES
    method,     \* "none", "legacy", "aes" or "chacha"; "off" when not exercised
    keyed,      \* the node has a server_key
    panel,      \* the users last handed over
    table,      \* ShadowsocksInbound::users: password -> user
    index,      \* UserIndex::credentials
    known,      \* ip_user_cache of the one client address
    spent,      \* salts the replay filter has
    verdict     \* the last packet and what became of it

idVars == <<method, keyed, panel, table, index, known, spent, verdict>>

Methods == {"none", "legacy", "aes", "chacha"}
Is2022(m) == m \in {"aes", "chacha"}
Listed == {s \in SeqOf([user : Accounts, key : Passwords], 2) :
             Len(s) = 2 => s[1].user # s[2].user}
NoVerdict == [pkt |-> {}, user |-> Nobody, answer |-> Nobody]

\* Credential::new: no key without a cipher; decode_key may refuse a password
\* of the 2022 methods, evp_bytes_to_key takes anything.
Valid(c, m) == ~(Is2022(m) /\ c.key \in Malformed)
Credential(c, m) == [c EXCEPT !.key = IF m = "none" THEN "" ELSE @]

\* A key two users share identifies neither.
RetainUnique(creds) ==
    SelectSeq(creds, LAMBDA c : Cardinality({i \in DOMAIN creds : creds[i].key = c.key}) = 1)

UpdateUsers(list, m) ==
    LET usable == SelectSeq(list, LAMBDA c : Valid(c, m))
        last(k) == SelectLastInSeq(usable, LAMBDA c : c.key = k)
    IN  /\ table' = [k \in {usable[i].key : i \in DOMAIN usable} |-> usable[last(k)].user]
        /\ index' = RetainUnique([i \in DOMAIN usable |-> Credential(usable[i], m)])

\* The panel hands over its users; before start the method is the default.
PanelUpdate(list) ==
    /\ method # "off" /\ list # panel
    /\ panel' = list
    /\ UpdateUsers(list, method)
    /\ verdict' = NoVerdict
    /\ UNCHANGED <<method, keyed, known, spent>>

\* start: the cipher of the node, then the users of the table again, in the
\* order the map gives them.
Started == known # "idle"
Start(m) ==
    /\ method # "off" /\ ~Started
    /\ \E list \in SetToSeqs({[user |-> table[k], key |-> k] : k \in DOMAIN table}) :
         UpdateUsers(list, m)
    /\ method' = m /\ known' = Nobody
    /\ UNCHANGED <<keyed, panel, spent, verdict>>

\* A packet: the key that sealed its header, the user key its identity header
\* names (EIH), whether type, timestamp, padding and address pass.
Sealers == (Passwords \ Malformed) \cup {ServerKey}
Packets == [udp : BOOLEAN, key : Sealers, eih : (Passwords \ Malformed) \cup {Nobody},
            good : BOOLEAN, salt : Salts]

HolderOf(k) == {i \in DOMAIN index : index[i].key = k}
FirstOf(S) == CHOOSE i \in S : \A j \in S : i <= j
Default == IF index = <<>> THEN {} ELSE {1}
CachedOrFirst ==
    LET cached == {i \in DOMAIN index : index[i].user = known}
    IN  IF cached = {} THEN Default ELSE {FirstOf(cached)}
OpenedBy(S, p) == {i \in S : index[i].key = p.key}

\* handshake, first on the header where it stands: every user's key, then the
\* server key, which stands for the first user.
ByKey(p) ==
    IF HolderOf(p.key) # {} THEN {FirstOf(HolderOf(p.key))}
    ELSE IF keyed /\ p.key = ServerKey THEN Default ELSE {}
ResolveDirect(p) == IF p.eih = Nobody THEN ByKey(p) ELSE {}

\* Then 16 bytes on: the identity header looked up in identity_map (the last
\* credential of a key), every user's key, the server key.
ResolveShifted(p) ==
    LET named == IF keyed THEN OpenedBy(HolderOf(p.eih), p) ELSE {}
    IN  IF p.eih = Nobody THEN {} ELSE IF named # {} THEN named ELSE ByKey(p)
Resolve2022(p) == IF ResolveDirect(p) # {} THEN ResolveDirect(p) ELSE ResolveShifted(p)

\* Legacy AEAD, TCP and UDP: the cached user's keys first, then the others'.
ResolveLegacy(p) ==
    LET cached == OpenedBy({i \in DOMAIN index : index[i].user = known}, p)
        others == OpenedBy({i \in DOMAIN index : index[i].user # known}, p)
    IN  IF cached # {} THEN {FirstOf(cached)}
        ELSE IF others # {} THEN {FirstOf(others)} ELSE {}

\* decrypt_udp_with_cache: ChaCha20 and a node without server key try one
\* credential; with a server key the identity header alone decides.
ResolveUdp(p) ==
    IF method = "aes" /\ keyed THEN OpenedBy(HolderOf(p.eih), p)
    ELSE OpenedBy(CachedOrFirst, p)

Resolve(p) ==
    CASE method = "none" -> Default
      [] method = "legacy" -> ResolveLegacy(p)
      [] Is2022(method) -> IF p.udp THEN ResolveUdp(p) ELSE Resolve2022(p)

\* The replay filter is asked about TCP salts and legacy datagrams; 2022
\* datagrams have their window (Datagrams).
Salted(p) == method # "none" /\ (~p.udp \/ ~Is2022(method))

\* Variant with a defect: the salt is spent as soon as a key opens the header.
SaltSpentEarly(p, hit) == Salted(p) /\ hit # {}
\* The filter is asked last, after type, timestamp and padding; a legacy
\* stream's salt as soon as a key opens its length block.
SaltSpent(p, hit) ==
    Salted(p) /\ hit # {} /\ (p.good \/ (method = "legacy" /\ ~p.udp))

\* Which part of a packet a client of this method sends.
WellFormed(p) ==
    /\ method = "none" => p.udp
    /\ p.eih # Nobody => Is2022(method)
    /\ p.eih # Nobody /\ p.udp => method = "aes" /\ keyed
    /\ p.key = ServerKey => Is2022(method) /\ keyed /\ ~p.udp

\* The answer of a stream and of encrypt_udp.
AnswerKey(i) == index[i].key

\* A packet arrives; accepted, its user is cached for the address and the
\* answer is sealed with the key of the credential.
Arrive(p) ==
    /\ method # "off" /\ Started /\ WellFormed(p)
    /\ LET hit == Resolve(p)
           i == FirstOf(hit)
           replay == Salted(p) /\ p.salt \in spent
           ok == hit # {} /\ p.good /\ ~replay
       IN  /\ spent' = IF SaltSpent(p, hit) THEN spent \cup {p.salt} ELSE spent
           /\ known' = IF ok THEN index[i].user ELSE known
           /\ verdict' = [pkt |-> {p},
                          user |-> IF ok THEN index[i].user ELSE Nobody,
                          answer |-> IF ok THEN AnswerKey(i) ELSE Nobody]
    /\ UNCHANGED <<method, keyed, panel, table, index>>

IdInit(on) ==
    /\ method = IF on THEN "legacy" ELSE "off"
    /\ keyed \in (IF on THEN BOOLEAN ELSE {FALSE})
    /\ panel = <<>> /\ table = <<>> /\ index = <<>>
    /\ known = "idle" /\ spent = {} /\ verdict = NoVerdict

IdNext ==
    \/ \E list \in Listed : PanelUpdate(list)
    \/ \E m \in Methods : Start(m)
    \/ \E p \in Packets : Arrive(p)
-----------------------------------------------------------------------------
\* What the verdict u on the packet p may be.
Attributed(p, u) ==
    /\ u # Nobody /\ method # "none" =>
         \/ [user |-> u, key |-> p.key] \in Range(panel) /\ verdict'.answer = p.key
         \/ keyed /\ p.key = ServerKey /\ u = index[1].user
    /\ u # Nobody /\ Salted(p) => p.salt \notin spent /\ p.salt \in spent'
    /\ u = Nobody /\ Is2022(method) => spent' = spent
    /\ u = Nobody /\ p.good /\ HolderOf(p.key) # {} =>
         \/ Salted(p) /\ p.salt \in spent
         \/ p.udp /\ (method = "chacha" \/ ~keyed) /\ HolderOf(p.key) # CachedOrFirst
         \/ p.udp /\ method = "aes" /\ keyed /\ p.eih # p.key

\* One arrival, decided exactly.  An accepted packet belongs to a user the
\* panel gave the key that sealed it, and is answered under that key; only the
\* server key, and no cipher at all, stand for the first user.  A salt is
\* accepted once, and a packet that fails its timestamp, type or padding does
\* not spend the salt of the genuine one (2022).  A good packet under a key of
\* the index is refused only as a replay, or when the method tries a single
\* credential: UDP of ChaCha20 and of AES without a server key.
SsAttributes ==
    [][verdict' # verdict => \A p \in verdict'.pkt : Attributed(p, verdict'.user)]_idVars
=============================================================================
