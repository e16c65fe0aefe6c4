----------------------------- MODULE Datagrams ------------------------------
(* What is made of datagrams that come late, twice or in fragments: the      *)
(* replay window of Shadowsocks 2022 and the reassembly of Hysteria and TUIC. *)
EXTENDS Integers, FiniteSets, FiniteSetsExt

-----------------------------------------------------------------------------
\* The replay filter of Shadowsocks 2022 UDP: a sliding bitmap per client
\* session, the timestamp check that precedes it, and the sweep that drops
\* a bitmap nobody used for a while.  The network delivers a datagram any
\* number of times, in any order.
\* A word is the set of its bits; the code has 16 words of 64 bits.

CONSTANTS
    Words, Bits,    \* size of the bitmap
    LastPacket,     \* highest packet id in a run
    Skew,           \* MAX_TIMESTAMP_SKEW_SECS
    Keep,           \* seconds an unused window is kept
    Ahead           \* how far a client's clock may run ahead

ASSUME ReplayAssumption ==
    {Words, Bits} \subseteq Nat \ {0} /\ {LastPacket, Skew, Keep, Ahead} \subseteq Nat

VARIABLES
    filter,     \* "on", or "none" when this part is not exercised
    window,     \* the ReplayWindow of the session, if there is one
    age,        \* age of each datagram's timestamp; Unsent before it is sent
    taken       \* how often each datagram was accepted

replayVars == <<filter, window, age, taken>>

Packets64 == 0 .. LastPacket
Unsent == Skew + 2
NoWindow == [open |-> FALSE, highest |-> 0, bitmap |-> [i \in 0 .. Words - 1 |-> {}],
             seen |-> 0, busy |-> FALSE, mine |-> {}]

ReplayInit(on) ==
    /\ filter = on
    /\ window = NoWindow
    /\ age = [p \in Packets64 |-> Unsent]
    /\ taken = [p \in Packets64 |-> 0]

\* The shifts of an unsigned word.
Shl(word, n) == {b + n : b \in word} \cap 0 .. Bits - 1
Shr(word, n) == {b - n : b \in word} \cap 0 .. Bits - 1

\* Variant with a defect: the bits that leave a word are lost.
SlideNoCarry(bitmap, n) ==
    LET skip == n \div Bits
        by == n % Bits
    IN  [i \in 0 .. Words - 1 |-> IF i < skip THEN {} ELSE Shl(bitmap[i - skip], by)]

\* The bitmap moved by n < Words * Bits places, word by word.
Slide(bitmap, n) ==
    LET skip == n \div Bits
        by == n % Bits
    IN  [i \in 0 .. Words - 1 |->
            IF i < skip THEN {}
            ELSE Shl(bitmap[i - skip], by)
                 \cup (IF by > 0 /\ i > skip THEN Shr(bitmap[i - skip - 1], Bits - by) ELSE {})]

\* ReplayWindow::accept for a packet above the highest, and below it.
Advance(p) ==
    LET n == p - window.highest
        moved == IF n >= Words * Bits THEN [i \in 0 .. Words - 1 |-> {}] ELSE Slide(window.bitmap, n)
    IN  [moved EXCEPT ![0] = @ \cup {0}]

Unseen(p) ==
    LET n == window.highest - p
    IN  n < Words * Bits /\ n % Bits \notin window.bitmap[n \div Bits]

Mark(p) ==
    LET n == window.highest - p
    IN  [window.bitmap EXCEPT ![n \div Bits] = @ \cup {n % Bits}]

\* The client sends its next datagram, stamped with its own clock.
SendNext ==
    /\ filter = "on"
    /\ \E p \in Packets64 :
         /\ age[p] = Unsent /\ \A q \in Packets64 : q < p => age[q] # Unsent
         /\ \E a \in 0 .. Ahead : age' = [age EXCEPT ![p] = -a]
    /\ UNCHANGED <<filter, window, taken>>

\* A datagram arrives: the timestamp, then the window, made on first use.  A
\* refused datagram keeps the window alive all the same.
Arrives(p) ==
    /\ filter = "on" /\ age[p] <= Skew
    /\ LET kept == [window EXCEPT !.open = TRUE, !.seen = 0]
       IN  \/ /\ ~window.open
              /\ window' = [kept EXCEPT !.highest = p, !.bitmap[0] = {0}, !.mine = {p},
                                        !.busy = TRUE]
              /\ taken' = [taken EXCEPT ![p] = @ + 1]
           \/ /\ window.open /\ p > window.highest
              /\ window' = [kept EXCEPT !.highest = p, !.bitmap = Advance(p),
                                        !.mine = @ \cup {p}, !.busy = TRUE]
              /\ taken' = [taken EXCEPT ![p] = @ + 1]
           \/ /\ window.open /\ p <= window.highest /\ Unseen(p)
              /\ window' = [kept EXCEPT !.bitmap = Mark(p), !.mine = @ \cup {p}, !.busy = TRUE]
              /\ taken' = [taken EXCEPT ![p] = @ + 1]
           \/ /\ window.open /\ p <= window.highest /\ ~Unseen(p)
              /\ window' = kept /\ UNCHANGED taken
    /\ UNCHANGED <<filter, age>>

\* The workers of the session end: nobody else holds the ResponseSession.
SessionEnds ==
    /\ filter = "on" /\ window.busy
    /\ window' = [window EXCEPT !.busy = FALSE]
    /\ UNCHANGED <<filter, age, taken>>

Stale == window.open /\ ~window.busy /\ window.seen >= Keep

\* The sweep drops the window.
SweepWindow ==
    /\ filter = "on" /\ Stale /\ window' = NoWindow
    /\ UNCHANGED <<filter, age, taken>>

\* A second passes.
Second ==
    /\ filter = "on"
    /\ age' = [p \in Packets64 |-> IF age[p] > Skew THEN age[p] ELSE age[p] + 1]
    /\ window' = [window EXCEPT !.seen = IF window.open /\ @ < Keep THEN @ + 1 ELSE @]
    /\ UNCHANGED <<filter, taken>>

ReplayNext ==
    SendNext \/ SessionEnds \/ SweepWindow \/ Second \/ \E p \in Packets64 : Arrives(p)
-----------------------------------------------------------------------------
\* The window holds exactly the datagrams it let pass that are within its
\* reach, across its word boundaries and jumps (ReplayWindow::accept); and no
\* datagram is relayed twice, even when the sweep drops the window meanwhile,
\* as long as the client's clock is less than the skew ahead.
RelayedOnce ==
    filter = "on" =>
        /\ \A p \in Packets64 : taken[p] <= 1
        /\ window.open =>
             {window.highest - (Bits * i + b) : i \in 0 .. Words - 1, b \in 0 .. Bits - 1}
               \cap window.mine
             = UNION {{window.highest - (Bits * i + b) : b \in window.bitmap[i]} : i \in 0 .. Words - 1}

-----------------------------------------------------------------------------
\* Reassembly of UDP packets sent in fragments over QUIC datagrams:
\* Hy1Defragmenter and Hy2Defragmenter ("hy"), V5Defragmenter of TUIC
\* ("tuic").  The network delivers any fragment of any packet in any order
\* and any number of times.  Packet ids are 16 bits and come round again,
\* so packets may share a key.  Every fragment is one unit of memory.

CONSTANTS
    EntryCap,       \* 512 entries
    MemCap,         \* 16 MiB
    Life,           \* 8 s (Hysteria) or 10 s (TUIC), in ticks
    Lost            \* no fragment, no entry

VARIABLES
    frag,       \* the defragmenter, "none" when this part is not exercised
    pool,       \* its entries
    memory,     \* total_memory
    outcome     \* what the last fragment led to

fragVars == <<frag, pool, memory, outcome>>

\* The packets a client may send.  The first three share a key: the second has
\* another destination, the third another number of fragments.
Packet == 1 .. 6
Key(p) == IF p <= 3 THEN 1 ELSE p - 2
Count(p) == CASE p = 3 -> 3 [] p = 5 -> 1 [] OTHER -> 2
Dest(p) == IF p = 2 THEN "b" ELSE "a"
Keys == {Key(p) : p \in Packet}

Got(e) == {i \in DOMAIN e.part : e.part[i] # Lost}
Bytes(P) == MapThenSumSet(LAMBDA k : IF P[k] = Lost THEN 0 ELSE Cardinality(Got(P[k])), Keys)
Used(P) == {k \in Keys : P[k] # Lost}
Fresh(P) == [k \in Keys |-> IF P[k] # Lost /\ P[k].age >= Life THEN Lost ELSE P[k]]
Drop(P, k) == [P EXCEPT ![k] = Lost]

DefragInit(k) ==
    /\ frag = k /\ pool = [j \in Keys |-> Lost] /\ memory = 0
    /\ outcome = [is |-> "kept", part |-> <<>>, room |-> 0]

\* The outcome of a fragment, and the memory given back to it.
Result(P, m, is, part) ==
    /\ pool' = P /\ memory' = m
    /\ outcome' = [is |-> is, part |-> part, room |-> Bytes(Fresh(pool))]

\* The fragment's place in entry e of P, which is complete or not afterwards.
Place(P, m, p, i) ==
    LET k == Key(p)
        part == IF P[k].part[i] = Lost THEN [P[k].part EXCEPT ![i] = p] ELSE P[k].part
        m2 == IF P[k].part[i] = Lost THEN m + 1 ELSE m
    IN  IF \A j \in DOMAIN part : part[j] # Lost
        THEN Result(Drop(P, k), m2 - Cardinality(DOMAIN part), "whole", part)
        ELSE Result([P EXCEPT ![k].part = part], m2, "kept", <<>>)
New(p) == [n |-> Count(p), dest |-> Dest(p), age |-> 0,
           part |-> [j \in 1 .. Count(p) |-> Lost]]

\* Variant with a defect: the destination is not compared.
PushAnyDest(p, i) ==
    LET P == Fresh(pool)  m == memory - (Bytes(pool) - Bytes(P))  k == Key(p)
    IN  IF P[k] # Lost
        THEN IF P[k].n # Count(p) THEN Result(Drop(P, k), m - Cardinality(Got(P[k])), "kept", <<>>)
             ELSE IF P[k].part[i] = Lost /\ m + 1 > MemCap THEN Result(P, m, "full", <<>>)
             ELSE Place(P, m, p, i)
        ELSE IF Cardinality(Used(P)) >= EntryCap \/ m + 1 > MemCap THEN Result(P, m, "full", <<>>)
        ELSE Place([P EXCEPT ![k] = New(p)], m, p, i)
\* push_fragment: expired entries go; a fragment that does not fit its entry's
\* count or destination takes the entry with it; a repeated one changes nothing.
PushFragment(p, i) ==
    LET P == Fresh(pool)  m == memory - (Bytes(pool) - Bytes(P))  k == Key(p)
    IN  IF P[k] # Lost
        THEN IF P[k].n # Count(p) \/ P[k].dest # Dest(p)
             THEN Result(Drop(P, k), m - Cardinality(Got(P[k])), "kept", <<>>)
             ELSE IF P[k].part[i] = Lost /\ m + 1 > MemCap THEN Result(P, m, "full", <<>>)
             ELSE Place(P, m, p, i)
        ELSE IF Cardinality(Used(P)) >= EntryCap \/ m + 1 > MemCap THEN Result(P, m, "full", <<>>)
        ELSE Place([P EXCEPT ![k] = New(p)], m, p, i)

\* V5Defragmenter::insert: the memory is looked at first, the destination is
\* the one of the fragment with index 0, a different count is ignored.
Insert(p, i) ==
    LET P == Fresh(pool)  m == memory - (Bytes(pool) - Bytes(P))  k == Key(p)
    IN  IF memory + 1 > MemCap THEN Result(pool, memory, "early", <<>>)
        ELSE IF Cardinality(Used(P)) >= EntryCap /\ P[k] = Lost THEN Result(P, m, "full", <<>>)
        ELSE IF P[k] = Lost THEN Place([P EXCEPT ![k] = New(p)], m, p, i)
        ELSE IF P[k].n # Count(p) THEN Result(P, m, "kept", <<>>)
        ELSE Place(P, m, p, i)

\* A packet in one piece is not stored.
Fragment(p, i) ==
    IF Count(p) = 1 THEN Result(pool, memory, "whole", <<p>>)
    ELSE IF frag = "hy" THEN PushFragment(p, i) ELSE Insert(p, i)

Age ==
    /\ pool' = [k \in Keys |->
           IF pool[k] = Lost THEN Lost ELSE [pool[k] EXCEPT !.age = IF @ < Life THEN @ + 1 ELSE @]]
    /\ outcome' = [is |-> "kept", part |-> <<>>, room |-> 0]
    /\ UNCHANGED memory

DefragNext ==
    /\ frag # "none" /\ UNCHANGED frag
    /\ Age \/ \E p \in Packet : \E i \in 1 .. Count(p) : Fragment(p, i)
-----------------------------------------------------------------------------
\* A packet that comes out was put together from fragments of one packet, or of
\* packets the check cannot tell apart: the same count and, in Hysteria, the
\* same destination.  The memory counter is what the entries hold, neither limit
\* is passed, and Hysteria refuses a fragment for want of room only when entries
\* that have not expired take it (TUIC looks before it sweeps).
Reassembles ==
    /\ outcome.is = "whole" =>
        \A i, j \in DOMAIN outcome.part :
            LET p == outcome.part[i]  q == outcome.part[j]
            IN  Key(p) = Key(q) /\ Count(p) = Count(q) /\ Count(p) = Cardinality(DOMAIN outcome.part)
                /\ (frag = "hy" => Dest(p) = Dest(q))
    /\ memory = Bytes(pool) /\ memory <= MemCap /\ Cardinality(Used(pool)) <= EntryCap
    /\ outcome.is = "full" => outcome.room = MemCap \/ Cardinality(Used(Fresh(pool))) = EntryCap
=============================================================================
