--------------------------- MODULE OutboundProofs ---------------------------
(***************************************************************************)
(* Theorems about the way out of a node.  Relays: what a relay reports and *)
(* delivers and which sessions a UDP table has, for any number of chunks,  *)
(* targets and workers.  Resolver: what a name is resolved to and what the *)
(* cache remembers, for any number of lookups, names and rules files.      *)
(***************************************************************************)
EXTENDS Relays, Resolver, FiniteSetTheorems, TLAPS

-----------------------------------------------------------------------------
(* The inductive invariants.                                               *)

Stage == {"hello", "first", "read", "write", "flush", "shut", "done"}
WayType == [pc : Stage, left : Nat, got : Nat, shut : BOOLEAN]
BookType == [counted : [Ways -> Nat], paid : [Ways -> Nat], over : BOOLEAN, fault : BOOLEAN]

RelayType ==
    /\ relay \in Relays \cup {"none"}
    /\ way \in [Ways -> WayType]
    /\ book \in BookType

\* The chunk in hand: read but not written.
InHand(d) == IF way[d].pc \in {"first", "write"} THEN 1 ELSE 0
\* The chunk between the write and the flush after which it is counted.
Uncounted(d) == IF way[d].pc = "flush" /\ relay # "copy" THEN 1 ELSE 0
\* The chunk MonitoredStream has counted when it was read.
Early(d) == IF way[d].pc = "write" /\ relay = "copy" /\ d = "up" THEN 1 ELSE 0

\* What is counted of a direction is what it has delivered, but for the chunk
\* that is between its stages; a direction that broke off may have lost one.
Counted(d) ==
    IF way[d].pc \in {"shut", "done"}
    THEN book.counted[d] <= way[d].got /\ way[d].got <= book.counted[d] + 1
    ELSE book.counted[d] + Uncounted(d) = way[d].got + Early(d)

\* Until something fails every chunk is delivered, in hand or still to come,
\* and a direction that is past reading has none left.
Delivering(d) ==
    /\ way[d].got + InHand(d) + way[d].left = Chunks
    /\ way[d].pc \in {"shut", "done"} => way[d].left = 0
    /\ way[d].pc = "done" /\ relay \notin Raced => way[d].shut

\* Vision relays nothing down before the first payload is written up.
FirstUp ==
    \A d \in Ways : way[d].pc \in {"hello", "first"} =>
        way["up"].pc \in {"hello", "first"} /\ way["down"].pc = "hello" /\ way[d].got = 0

RelayInv ==
    /\ RelayType
    /\ FirstUp
    /\ \A d \in Ways : Counted(d)
    /\ book.over => book.paid = book.counted
    /\ ~book.fault => \A d \in Ways : Delivering(d)
    /\ relay \in Copies \cup Joined /\ book.over /\ ~book.fault =>
          \A d \in Ways : way[d].pc = "done"

WorkerType ==
    [st : {"free", "dial", "wait", "reply", "ended"}, key : Targets \cup {Nobody},
     q : Nat, cancel : BOOLEAN]

UdpType ==
    /\ reader \in [pc : {"read", "dial", "push"}, key : Targets \cup {Nobody}]
    /\ reader.pc # "read" => reader.key \in Targets
    /\ entry \in [Targets -> Workers \cup {Nobody}]
    /\ worker \in [Workers -> WorkerType]

Live == {w \in Alive : ~worker[w].cancel}
\* No live session answers to k.
Vacant(k) == entry[k] # Nobody => worker[entry[k]].st \in {"free", "ended"}

\* A live session is the one its table names, a target being dialled has no
\* live session, and the room found by the check for the limit is still there
\* when the dial returns.
UdpInv ==
    /\ UdpType
    /\ \A w \in Live : worker[w].key \in Targets /\ entry[worker[w].key] = w
    /\ assoc = "open" /\ reader.pc = "dial" => Vacant(reader.key)
    /\ udp \in {"trojan", "ss"} => Cardinality(Live) <= MaxSessions
    /\ udp = "trojan" /\ assoc = "open" /\ reader.pc = "dial" => Cardinality(Live) < MaxSessions

RelaysInv == RelayInv /\ UdpInv

-----------------------------------------------------------------------------
(* Facts about the operators.                                              *)

\* A direction is one of two, and the other is the other one.
LEMMA TwoWays ==
  /\ Ways = {"up", "down"}
  /\ \A d \in Ways : Other(d) \in Ways /\ Other(d) # d /\ Other(Other(d)) = d
  /\ \A d, e \in Ways : e = d \/ e = Other(d)
  BY Zenon DEF Ways, Other

\* The relay kinds are told apart.
LEMMA Kinds ==
  /\ relay \in Copies <=> relay = "copy"
  /\ relay \in Joined <=> relay \in {"vmess_tcp", "vision"}
  /\ relay \in Raced <=> relay \in {"vmess_udp", "vless_udp"}
  /\ relay \in Copies \cup Joined => relay \notin Raced
  BY Zenon DEF Copies, Joined, Raced

\* Close reports what was counted and ends the relay.
LEMMA CloseBooks ==
  ASSUME book \in BookType, NEW fault \in BOOLEAN, Close(fault)
  PROVE  /\ book' \in BookType /\ book'.over /\ book'.counted = book.counted
         /\ book'.paid = book.counted /\ (book'.fault <=> book.fault \/ fault)
  BY Zenon DEF Close, BookType

\* Count books one chunk of one direction.
LEMMA CountBooks ==
  ASSUME book \in BookType, NEW d \in Ways, Count(d)
  PROVE  /\ book' \in BookType /\ book'.over = book.over /\ book'.fault = book.fault
         /\ book'.paid = book.paid
         /\ book'.counted[d] = book.counted[d] + 1
         /\ book'.counted[Other(d)] = book.counted[Other(d)]
  BY TwoWays DEF Count, BookType

\* Finish ends the relay or leaves it to the other direction.
LEMMA FinishBooks ==
  ASSUME book \in BookType, NEW d \in Ways, NEW fault \in BOOLEAN, Finish(d, fault)
  PROVE  /\ book' \in BookType /\ book'.counted = book.counted
         /\ book'.fault <=> book.fault \/ fault
         /\ relay \in Raced \/ way[Other(d)].pc = "done" =>
               book'.over /\ book'.paid = book.counted
         /\ ~(relay \in Raced \/ way[Other(d)].pc = "done") =>
               book'.over = book.over /\ book'.paid = book.paid
  <1>1. CASE relay \in Raced \/ way[Other(d)].pc = "done"
    BY <1>1, CloseBooks, Zenon DEF Finish
  <1>2. CASE ~(relay \in Raced \/ way[Other(d)].pc = "done")
    BY <1>2, Zenon DEF Finish, BookType
  <1> QED
    BY <1>1, <1>2, Zenon

\* One direction steps and the other stays.
LEMMA WaySteps ==
  ASSUME way \in [Ways -> WayType], NEW d \in Ways, NEW r \in WayType,
         way' = [way EXCEPT ![d] = r]
  PROVE  way' \in [Ways -> WayType] /\ way'[d] = r /\ way'[Other(d)] = way[Other(d)]
  BY TwoWays, Zenon

\* The relay as it starts.
LEMMA RelayStarts == ASSUME NEW k \in Relays \cup {"none"}, RelayInit(k) PROVE RelayInv
  <1>1. RelayType /\ ~book.over
    BY RelayAssumption, Zenon DEF RelayInit, RelayType, WayType, BookType, NoBook, Stage, Ways
  <1>2. \A d \in Ways : /\ way[d].pc \in {"hello", "read"} /\ way[d].left = Chunks
                        /\ way[d].got = 0 /\ book.counted[d] = 0
    BY Zenon DEF RelayInit, NoBook
  <1>3. FirstUp
    BY <1>2, Zenon DEF FirstUp, RelayInit, Ways
  <1>4. \A d \in Ways : Counted(d) /\ Delivering(d)
    BY <1>2, RelayAssumption DEF Counted, Delivering, InHand, Uncounted, Early
  <1> QED
    BY <1>1, <1>3, <1>4, Zenon DEF RelayInv

-----------------------------------------------------------------------------
(* The steps of a relay.                                                   *)

\* While one direction relays, neither is before its first payload.
LEMMA Relaying ==
  ASSUME RelayInv, NEW d \in Ways, way[d].pc \notin {"hello", "first"}
  PROVE  way[Other(d)].pc \notin {"hello", "first"}
  BY TwoWays, Zenon DEF RelayInv, FirstUp

\* What a step of one direction has to show for the whole invariant.
LEMMA OneWaySteps ==
  ASSUME RelayInv, NEW d \in Ways, RelayType', relay' = relay,
         way'[Other(d)] = way[Other(d)],
         book'.counted[Other(d)] = book.counted[Other(d)],
         way[d].pc \notin {"hello", "first"}, way'[d].pc \notin {"hello", "first"},
         Counted(d)',
         book'.over => book'.paid = book'.counted,
         ~book'.fault => ~book.fault /\ Delivering(d)',
         relay \notin Raced /\ book'.over /\ ~book'.fault =>
             way'[d].pc = "done" /\ way[Other(d)].pc = "done"
  PROVE  RelayInv'
  <1>1. \A e \in Ways : e = d \/ e = Other(d)
    BY TwoWays, Zenon
  <1>2. Other(d) \in Ways /\ way[Other(d)].pc \notin {"hello", "first"}
    BY TwoWays, Relaying, Zenon
  <1>3. FirstUp'
    BY <1>1, <1>2, Zenon DEF FirstUp
  <1>4. \A e \in Ways : Counted(e)'
    <2>1. Counted(Other(d))
      BY <1>2, Zenon DEF RelayInv
    <2>2. Counted(Other(d))'
      BY <2>1, TwoWays, ZenonT(30) DEF Counted, Uncounted, Early
    <2> QED
      BY <1>1, <2>2, Zenon
  <1>5. ~book'.fault => \A e \in Ways : Delivering(e)'
    <2>1. ASSUME ~book'.fault PROVE Delivering(Other(d))'
      <3>1. Delivering(Other(d))
        BY <2>1, <1>2, Zenon DEF RelayInv
      <3> QED
        BY <3>1, Zenon DEF Delivering, InHand
    <2> QED
      BY <1>1, <2>1, Zenon
  <1>6. (relay \in Copies \cup Joined /\ book.over /\ ~book.fault =>
            \A e \in Ways : way[e].pc = "done")'
    BY <1>1, Kinds, Zenon
  <1> QED
    BY <1>3, <1>4, <1>5, <1>6, Zenon DEF RelayInv

\* A direction that breaks off leaves the books in order, wherever it was.
LEMMA BreakKeeps ==
  ASSUME RelayInv, NEW d \in Ways, At(d, {"read", "write", "flush", "shut"}),
         relay \notin Copies => way[d].pc # "shut",
         Break(d), relay' = relay
  PROVE  RelayInv'
  <1>0. /\ RelayType /\ book \in BookType /\ way[d] \in WayType /\ Other(d) \in Ways
        /\ way[d].pc \in {"read", "write", "flush", "shut"} /\ ~book.over /\ Counted(d)
        /\ way[d].got \in Nat /\ book.counted[d] \in Nat
    BY TwoWays, Zenon DEF RelayInv, RelayType, WayType, BookType, At
  <1>1. CASE relay \in Copies
    <2>1. way' = way /\ Close(TRUE)
      BY <1>1, Zenon DEF Break
    <2>2. /\ book' \in BookType /\ book'.counted = book.counted /\ book'.fault
          /\ book'.paid = book'.counted
      BY <1>0, <2>1, CloseBooks, Zenon
    <2>3. RelayType' /\ Counted(d)'
      BY <1>0, <2>1, <2>2, Zenon DEF RelayType, Counted, Uncounted, Early
    <2> QED
      BY <1>0, <2>1, <2>2, <2>3, OneWaySteps, Zenon
  <1>2. CASE relay \notin Copies
    <2>1. \E p \in {"done", "shut"} : way' = [way EXCEPT ![d].pc = p]
      BY <1>2, Zenon DEF Break
    <2>2. PICK p \in {"done", "shut"} : way' = [way EXCEPT ![d].pc = p]
      BY <2>1, Zenon
    <2>3. /\ way' \in [Ways -> WayType] /\ way'[d].pc = p /\ way'[d].got = way[d].got
          /\ way'[Other(d)] = way[Other(d)]
      BY <2>2, <1>0, TwoWays, Zenon DEF RelayType, WayType, Stage
    <2>4. /\ book' \in BookType /\ book'.counted = book.counted /\ book'.fault
          /\ book'.over => book'.paid = book'.counted
      <3>1. CASE d = "up" /\ relay \in Raced
        BY <3>1, <1>0, <1>2, FinishBooks, Zenon DEF Break
      <3>2. CASE ~(d = "up" /\ relay \in Raced)
        <4>1. book' = [book EXCEPT !.fault = TRUE]
          BY <3>2, <1>2, Zenon DEF Break
        <4> QED
          BY <4>1, <1>0, Zenon DEF BookType
      <3> QED
        BY <3>1, <3>2, Zenon
    <2>5. Counted(d)'
      BY <1>0, <1>2, <2>3, <2>4, Kinds DEF Counted, Uncounted, Early
    <2> QED
      BY <1>0, <2>3, <2>4, <2>5, OneWaySteps, Zenon DEF RelayType
  <1> QED
    BY <1>1, <1>2, Zenon

\* A chunk is read, and counted by the monitored stream of the client.
LEMMA ReadKeeps == ASSUME RelayInv, NEW d \in Ways, Read(d) PROVE RelayInv'
  <1>0. /\ RelayType /\ book \in BookType /\ way[d] \in WayType /\ Other(d) \in Ways
        /\ way[d].pc = "read" /\ ~book.over /\ Counted(d) /\ way[d].left > 0 /\ relay' = relay
        /\ way[d].got \in Nat /\ way[d].left \in Nat /\ book.counted[d] \in Nat
    BY TwoWays, Zenon DEF RelayInv, RelayType, WayType, BookType, At, Read
  <1>1. /\ way' \in [Ways -> WayType] /\ way'[d].pc = "write"
        /\ way'[d].left = way[d].left - 1 /\ way'[d].got = way[d].got
        /\ way'[Other(d)] = way[Other(d)]
    BY <1>0, TwoWays DEF Read, RelayType, WayType, Stage
  <1>2. /\ book' \in BookType /\ book'.over = book.over /\ book'.fault = book.fault
        /\ book'.counted[Other(d)] = book.counted[Other(d)]
        /\ book'.counted[d] = book.counted[d] + Early(d)'
    <2>1. CASE relay = "copy" /\ d = "up"
      BY <2>1, <1>0, <1>1, CountBooks, Zenon DEF Read, Early
    <2>2. CASE ~(relay = "copy" /\ d = "up")
      BY <2>2, <1>0, <1>1 DEF Read, Early
    <2> QED
      BY <2>1, <2>2, Zenon
  <1>3. Counted(d)'
    BY <1>0, <1>1, <1>2 DEF Counted, Uncounted, Early
  <1>4. ~book.fault => Delivering(d)'
    BY <1>0, <1>1, RelayAssumption DEF RelayInv, Delivering, InHand
  <1> QED
    BY <1>0, <1>1, <1>2, <1>3, <1>4, OneWaySteps, Zenon DEF RelayType

\* The source is at its end: nothing is left to read.
LEMMA EofKeeps == ASSUME RelayInv, NEW d \in Ways, Eof(d) PROVE RelayInv'
  <1>0. /\ RelayType /\ book \in BookType /\ way[d] \in WayType /\ Other(d) \in Ways
        /\ way[d].pc = "read" /\ ~book.over /\ Counted(d) /\ way[d].left = 0 /\ relay' = relay
        /\ way[d].got \in Nat /\ book.counted[d] \in Nat
    BY TwoWays, Zenon DEF RelayInv, RelayType, WayType, BookType, At, Eof
  <1>1. \E p \in {"done", "shut"} :
           way' = [way EXCEPT ![d].pc = p] /\ (p = "done" => relay \in Raced)
    BY Zenon DEF Eof
  <1>2. PICK p \in {"done", "shut"} :
           way' = [way EXCEPT ![d].pc = p] /\ (p = "done" => relay \in Raced)
    BY <1>1, Zenon
  <1>3. /\ way' \in [Ways -> WayType] /\ way'[d].pc = p
        /\ way'[d].left = way[d].left /\ way'[d].got = way[d].got
        /\ way'[Other(d)] = way[Other(d)]
    BY <1>0, <1>2, TwoWays, Zenon DEF RelayType, WayType, Stage
  <1>4. /\ book' \in BookType /\ book'.fault = book.fault /\ book'.counted = book.counted
        /\ book'.over => relay \in Raced /\ book'.paid = book'.counted
    <2>1. CASE relay \in Raced /\ d = "up"
      BY <2>1, <1>0, FinishBooks, Zenon DEF Eof, BookType
    <2>2. CASE ~(relay \in Raced /\ d = "up")
      BY <2>2, <1>0, Zenon DEF Eof
    <2> QED
      BY <2>1, <2>2, Zenon
  <1>5. Counted(d)'
    BY <1>0, <1>3, <1>4 DEF Counted, Uncounted, Early
  <1>6. ~book.fault => Delivering(d)'
    BY <1>0, <1>2, <1>3, RelayAssumption, Zenon DEF RelayInv, Delivering, InHand
  <1> QED
    BY <1>0, <1>3, <1>4, <1>5, <1>6, OneWaySteps, Zenon DEF RelayType

\* A chunk is written, and counted now, earlier or after the flush.
LEMMA WriteKeeps == ASSUME RelayInv, NEW d \in Ways, Write(d) PROVE RelayInv'
  <1>0. /\ RelayType /\ book \in BookType /\ way[d] \in WayType /\ Other(d) \in Ways
        /\ way[d].pc = "write" /\ ~book.over /\ Counted(d) /\ relay' = relay
        /\ way[d].got \in Nat /\ way[d].left \in Nat /\ book.counted[d] \in Nat
    BY TwoWays, Zenon DEF RelayInv, RelayType, WayType, BookType, At, Write
  <1>1. /\ way' \in [Ways -> WayType] /\ way'[d].pc = (IF Flushed(d) THEN "flush" ELSE "read")
        /\ way'[d].left = way[d].left /\ way'[d].got = way[d].got + 1
        /\ way'[Other(d)] = way[Other(d)]
    BY <1>0, TwoWays DEF Write, RelayType, WayType, Stage
  <1>2. /\ book' \in BookType /\ book'.over = book.over /\ book'.fault = book.fault
        /\ book'.counted[Other(d)] = book.counted[Other(d)]
        /\ book'.counted[d] =
              IF ~Flushed(d) \/ (relay = "copy" /\ d = "down")
              THEN book.counted[d] + 1 ELSE book.counted[d]
    <2>1. CASE ~Flushed(d) \/ (relay = "copy" /\ d = "down")
      BY <2>1, <1>0, CountBooks, Zenon DEF Write
    <2>2. CASE ~(~Flushed(d) \/ (relay = "copy" /\ d = "down"))
      BY <2>2, <1>0, Zenon DEF Write
    <2> QED
      BY <2>1, <2>2, Zenon
  <1>3. Counted(d)'
    <2>1. relay = "copy" => Flushed(d)
      BY Zenon DEF Flushed
    <2>2. d = "up" \/ d = "down"
      BY TwoWays, Zenon
    <2> QED
      BY <1>0, <1>1, <1>2, <2>1, <2>2 DEF Counted, Uncounted, Early
  <1>4. ~book.fault => Delivering(d)'
    BY <1>0, <1>1, RelayAssumption DEF RelayInv, Delivering, InHand
  <1> QED
    BY <1>0, <1>1, <1>2, <1>3, <1>4, OneWaySteps, Zenon DEF RelayType

\* The chunk is flushed, or the flush given up: it is counted all the same.
LEMMA FlushKeeps ==
  ASSUME RelayInv, NEW d \in Ways, At(d, {"flush"}), relay' = relay,
         way' = [way EXCEPT ![d].pc = "read"],
         IF relay = "copy" THEN UNCHANGED book ELSE Count(d)
  PROVE  RelayInv'
  <1>0. /\ RelayType /\ book \in BookType /\ way[d] \in WayType /\ Other(d) \in Ways
        /\ way[d].pc = "flush" /\ ~book.over /\ Counted(d)
        /\ way[d].got \in Nat /\ way[d].left \in Nat /\ book.counted[d] \in Nat
    BY TwoWays, Zenon DEF RelayInv, RelayType, WayType, BookType, At
  <1>1. /\ way' \in [Ways -> WayType] /\ way'[d].pc = "read"
        /\ way'[d].left = way[d].left /\ way'[d].got = way[d].got
        /\ way'[Other(d)] = way[Other(d)]
    BY <1>0, TwoWays, Zenon DEF RelayType, WayType, Stage
  <1>2. /\ book' \in BookType /\ book'.over = book.over /\ book'.fault = book.fault
        /\ book'.counted[Other(d)] = book.counted[Other(d)]
        /\ book'.counted[d] = book.counted[d] + Uncounted(d)
    <2>1. CASE relay = "copy"
      BY <2>1, <1>0 DEF Uncounted
    <2>2. CASE relay # "copy"
      BY <2>2, <1>0, CountBooks, Zenon DEF Uncounted
    <2> QED
      BY <2>1, <2>2, Zenon
  <1>3. Counted(d)'
    BY <1>0, <1>1, <1>2 DEF Counted, Uncounted, Early
  <1>4. ~book.fault => Delivering(d)'
    BY <1>0, <1>1, RelayAssumption, Zenon DEF RelayInv, Delivering, InHand
  <1> QED
    BY <1>0, <1>1, <1>2, <1>3, <1>4, OneWaySteps, Zenon DEF RelayType

\* The sink is told of the end; the relay is over with its second direction.
LEMMA ShutKeeps == ASSUME RelayInv, NEW d \in Ways, Shut(d) PROVE RelayInv'
  <1> DEFINE failed == peer[Sink(d)] = "gone"
  <1>0. /\ RelayType /\ book \in BookType /\ way[d] \in WayType /\ Other(d) \in Ways
        /\ way[d].pc = "shut" /\ ~book.over /\ Counted(d) /\ relay' = relay
        /\ way[d].got \in Nat /\ way[d].left \in Nat /\ book.counted[d] \in Nat
    BY TwoWays, Zenon DEF RelayInv, RelayType, WayType, BookType, At, Shut
  <1>1. CASE relay \in Copies /\ failed
    <2>1. Break(d)
      BY <1>1, Zenon DEF Shut, Break
    <2>2. At(d, {"read", "write", "flush", "shut"})
      BY <1>0, Zenon DEF At
    <2> QED
      BY <1>0, <1>1, <2>1, <2>2, BreakKeeps, Zenon
  <1>2. CASE ~(relay \in Copies /\ failed)
    <2>1. /\ way' = [way EXCEPT ![d].pc = "done", ![d].shut = ~failed]
          /\ Finish(d, failed)
      BY <1>2, Zenon DEF Shut
    <2>2. /\ way' \in [Ways -> WayType] /\ way'[d].pc = "done" /\ way'[d].shut = ~failed
          /\ way'[d].left = way[d].left /\ way'[d].got = way[d].got
          /\ way'[Other(d)] = way[Other(d)]
      BY <1>0, <2>1, TwoWays, Zenon DEF RelayType, WayType, Stage
    <2>3. /\ book' \in BookType /\ book'.counted = book.counted
          /\ book'.fault <=> book.fault \/ failed
          /\ book'.over => book'.paid = book'.counted
          /\ book'.over => relay \in Raced \/ way[Other(d)].pc = "done"
      <3> HIDE DEF failed
      <3>1. failed \in BOOLEAN
        BY Zenon DEF failed
      <3> QED
        BY <1>0, <2>1, <3>1, FinishBooks, Zenon
    <2>4. Counted(d)'
      BY <1>0, <2>2, <2>3, Zenon DEF Counted, Uncounted, Early
    <2>5. ~book.fault /\ ~failed => Delivering(d)'
      BY <1>0, <2>2, RelayAssumption, Zenon DEF RelayInv, Delivering, InHand
    <2> QED
      BY <1>0, <2>2, <2>3, <2>4, <2>5, OneWaySteps, Zenon DEF RelayType
  <1> QED
    BY <1>1, <1>2, Zenon

\* A call on a peer that is gone fails.
LEMMA ErrorKeeps == ASSUME RelayInv, NEW d \in Ways, Error(d) PROVE RelayInv'
  <1>1. /\ At(d, {"read", "write", "flush", "shut"}) /\ way[d].pc # "shut"
        /\ Break(d) /\ relay' = relay
    BY Zenon DEF Error, At
  <1> QED
    BY <1>1, BreakKeeps, Zenon

\* The idle timer fires at one of the stages it covers.
LEMMA ExpireKeeps == ASSUME RelayInv, NEW d \in Ways, Expire(d) PROVE RelayInv'
  <1>1. CASE way[d].pc = "flush" /\ relay \in Joined /\ d = "up"
    <2>1. /\ At(d, {"flush"}) /\ relay' = relay /\ relay # "copy"
          /\ way' = [way EXCEPT ![d].pc = "read"] /\ Count(d)
      BY <1>1, Kinds, Zenon DEF Expire, Timed, At
    <2> QED
      BY <2>1, FlushKeeps, Zenon
  <1>2. CASE ~(way[d].pc = "flush" /\ relay \in Joined /\ d = "up")
    <2>1. /\ At(d, {"read", "write", "flush", "shut"}) /\ Break(d) /\ relay' = relay
          /\ relay \notin Copies => way[d].pc # "shut"
      BY <1>2, Zenon DEF Expire, Timed, At
    <2> QED
      BY <2>1, BreakKeeps, Zenon
  <1> QED
    BY <1>1, <1>2, Zenon

\* The guard is dropped wherever the two directions are.
LEMMA AbortKeeps == ASSUME RelayInv, Close(TRUE), UNCHANGED <<relay, way>> PROVE RelayInv'
  <1>1. RelayType /\ book \in BookType
    BY Zenon DEF RelayInv, RelayType
  <1>2. /\ book' \in BookType /\ book'.counted = book.counted /\ book'.fault
        /\ book'.paid = book'.counted
    BY <1>1, CloseBooks, Zenon
  <1>3. RelayType' /\ FirstUp'
    BY <1>1, <1>2, Zenon DEF RelayInv, RelayType, FirstUp
  <1>4. \A d \in Ways : Counted(d)'
    BY <1>2, Zenon DEF RelayInv, Counted, Uncounted, Early
  <1> QED
    BY <1>2, <1>3, <1>4, Zenon DEF RelayInv

\* Vision: the first payload is read.
LEMMA HelloKeeps == ASSUME RelayInv, VisionHello PROVE RelayInv'
  <1>1. CASE Close(TRUE) /\ UNCHANGED <<way, quiet>>
    BY <1>1, AbortKeeps, Zenon DEF VisionHello
  <1>2. CASE ~(Close(TRUE) /\ UNCHANGED <<way, quiet>>)
    <2>0. /\ RelayType /\ ~book.over /\ way["up"].pc = "hello" /\ way["up"].left > 0
          /\ way["up"] \in WayType /\ way["down"] \in WayType
          /\ way["up"].left \in Nat /\ relay' = relay /\ book' = book
          /\ way["down"].pc = "hello" /\ way["up"].got = 0
      BY <1>2, TwoWays, Zenon DEF VisionHello, RelayInv, RelayType, FirstUp, At, WayType
    <2>1. /\ way' \in [Ways -> WayType] /\ way'["up"].pc = "first"
          /\ way'["up"].left = way["up"].left - 1 /\ way'["up"].got = way["up"].got
          /\ way'["down"] = way["down"]
      <3>1. way' = [way EXCEPT !["up"].pc = "first", !["up"].left = @ - 1]
        BY <1>2, Zenon DEF VisionHello
      <3> QED
        BY <3>1, <2>0, TwoWays DEF RelayType, WayType, Stage
    <2>2. FirstUp'
      BY <2>0, <2>1, TwoWays DEF RelayInv, FirstUp
    <2>3. \A d \in Ways : Counted(d)'
      BY <2>0, <2>1, TwoWays DEF RelayInv, Counted, Uncounted, Early
    <2>4. ~book.fault => \A d \in Ways : Delivering(d)'
      BY <2>0, <2>1, TwoWays, RelayAssumption DEF RelayInv, Delivering, InHand
    <2> QED
      BY <2>0, <2>1, <2>2, <2>3, <2>4, Zenon DEF RelayInv, RelayType
  <1> QED
    BY <1>1, <1>2, Zenon

\* Vision: the first payload is written and both directions start.
LEMMA FirstKeeps == ASSUME RelayInv, VisionFirst PROVE RelayInv'
  <1>1. CASE Close(TRUE) /\ UNCHANGED <<way, quiet>>
    BY <1>1, AbortKeeps, Zenon DEF VisionFirst
  <1>2. CASE ~(Close(TRUE) /\ UNCHANGED <<way, quiet>>)
    <2>0. /\ RelayType /\ ~book.over /\ way["up"].pc = "first" /\ relay' = relay
          /\ way["up"] \in WayType /\ way["down"] \in WayType /\ book \in BookType
          /\ way["up"].left \in Nat /\ way["down"].left \in Nat
          /\ way["down"].pc = "hello" /\ way["up"].got = 0 /\ way["down"].got = 0
      BY <1>2, TwoWays, Zenon DEF VisionFirst, RelayInv, RelayType, FirstUp, At, WayType
    <2>1. /\ way' \in [Ways -> WayType] /\ way'["up"].pc = "read" /\ way'["down"].pc = "read"
          /\ way'["up"].left = way["up"].left /\ way'["up"].got = 1
          /\ way'["down"].left = way["down"].left /\ way'["down"].got = way["down"].got
      <3>1. way' = [way EXCEPT !["up"].pc = "read", !["down"].pc = "read", !["up"].got = 1]
        BY <1>2, Zenon DEF VisionFirst
      <3> QED
        BY <3>1, <2>0, TwoWays, Zenon DEF RelayType, WayType, Stage
    <2>2. /\ book' \in BookType /\ book'.over = book.over /\ book'.fault = book.fault
          /\ book'.counted["up"] = book.counted["up"] + 1
          /\ book'.counted["down"] = book.counted["down"]
      BY <1>2, <2>0, TwoWays, CountBooks, Zenon DEF VisionFirst, Other
    <2>3. FirstUp'
      BY <2>1, TwoWays, Zenon DEF FirstUp
    <2>4. \A d \in Ways : Counted(d)'
      <3>1. book.counted["up"] = 0 /\ book.counted["down"] = 0
        BY <2>0, TwoWays DEF RelayInv, Counted, Uncounted, Early, BookType
      <3> QED
        BY <2>0, <2>1, <2>2, <3>1, TwoWays DEF Counted, Uncounted, Early
    <2>5. ~book.fault => \A d \in Ways : Delivering(d)'
      BY <2>0, <2>1, TwoWays, RelayAssumption DEF RelayInv, Delivering, InHand
    <2> QED
      BY <2>0, <2>1, <2>2, <2>3, <2>4, <2>5, Zenon DEF RelayInv, RelayType
  <1> QED
    BY <1>1, <1>2, Zenon

\* Every step of a relay keeps its invariant.
LEMMA RelaySteps == RelayInv /\ [RelayNext]_relayVars => RelayInv'
  <1> SUFFICES ASSUME RelayInv PROVE [RelayNext]_relayVars => RelayInv'
    BY Zenon
  <1>1. ASSUME NEW d \in Ways, Move(d) PROVE RelayInv'
    <2>1. CASE Flush(d)
      BY <2>1, FlushKeeps, Zenon DEF Flush
    <2> QED
      BY <1>1, <2>1, ReadKeeps, EofKeeps, WriteKeeps, ShutKeeps, ErrorKeeps, ExpireKeeps, Zenon DEF Move
  <1>2. ASSUME UNCHANGED <<relay, way, book>> PROVE RelayInv'
    BY <1>2, ZenonT(30) DEF RelayInv, RelayType, FirstUp, Counted, Uncounted, Early, Delivering, InHand
  <1>3. CASE Tick \/ PeerFails
    BY <1>2, <1>3, Zenon DEF Tick, PeerFails
  <1>4. CASE Abort
    BY <1>4, AbortKeeps, Zenon DEF Abort
  <1>5. CASE UNCHANGED relayVars
    BY <1>2, <1>5, Zenon DEF relayVars
  <1> QED
    BY <1>1, <1>3, <1>4, <1>5, HelloKeeps, FirstKeeps, Zenon DEF RelayNext

-----------------------------------------------------------------------------
(* The session tables of the UDP relays.                                   *)

\* There are finitely many live sessions, and they are among the workers.
LEMMA LiveFinite == Live \subseteq Workers /\ IsFiniteSet(Live) /\ Cardinality(Live) \in Nat
  <1>1. Live \in SUBSET Workers
    BY Zenon DEF Live, Alive
  <1>2. IsFiniteSet(Live)
    BY <1>1, FS_Subset, UdpAssumption, Zenon
  <1> QED
    BY <1>1, <1>2, FS_CardinalityType, Zenon

\* Live sessions have different targets, so they are no more than the targets
\* they serve.
LEMMA LiveFit ==
  ASSUME UdpInv, NEW S \in SUBSET Targets, \A w \in Live : worker[w].key \in S
  PROVE  Cardinality(Live) <= Cardinality(S)
  <1> DEFINE f == [w \in Live |-> worker[w].key]
  <1>1. f \in [Live -> S]
    BY Zenon
  <1>2. \A v, w \in Live : f[v] = f[w] => v = w
    BY Zenon DEF UdpInv
  <1> HIDE DEF f
  <1>3. f \in Injection(Live, S)
    BY <1>1, <1>2, Zenon DEF Injection, IsInjective
  <1>4. IsFiniteSet(S)
    BY FS_Subset, UdpAssumption, Zenon
  <1> QED
    BY <1>3, <1>4, FS_Injection, Zenon

\* A step after which there are at most the live sessions of before, each
\* still in its place in the table, and no dial begins.
LEMMA TableShrinks ==
  ASSUME UdpInv, UdpType', udp' = udp, Live' \subseteq Live,
         \A w \in Live' : worker'[w].key = worker[w].key
                          /\ entry'[worker[w].key] = entry[worker[w].key],
         assoc' = "open" /\ reader'.pc = "dial" =>
             assoc = "open" /\ reader' = reader /\ (Vacant(reader.key) => Vacant(reader.key)')
  PROVE  UdpInv'
  <1>1. \A w \in Live' : worker'[w].key \in Targets /\ entry'[worker'[w].key] = w
    BY Zenon DEF UdpInv
  <1>2. assoc' = "open" /\ reader'.pc = "dial" => Vacant(reader.key)'
    BY Zenon DEF UdpInv
  <1>3. Cardinality(Live') <= Cardinality(Live) /\ Cardinality(Live') \in Nat
    <2>1. IsFiniteSet(Live) /\ Live' \in SUBSET Live
      BY LiveFinite, Zenon
    <2> HIDE DEF Live
    <2>2. IsFiniteSet(Live') /\ Cardinality(Live') <= Cardinality(Live)
      BY <2>1, FS_Subset, Zenon
    <2> QED
      BY <2>2, FS_CardinalityType, Zenon
  <1>4. Cardinality(Live) \in Nat /\ MaxSessions \in Nat
    BY LiveFinite, UdpAssumption, Zenon
  <1> QED
    BY <1>1, <1>2, <1>3, <1>4 DEF UdpInv

\* A new session for a target that has none, while there is room.
LEMMA EnlistKeeps ==
  ASSUME UdpInv, NEW k \in Targets, NEW w \in Workers, NEW st \in {"dial", "wait"}, NEW q \in Nat,
         Enlist(w, k, st, q), worker[w].st = "free", Vacant(k), udp' = udp,
         reader' \in [pc : {"read", "push"}, key : Targets \cup {Nobody}],
         reader'.pc = "push" => reader'.key \in Targets,
         udp \in {"trojan", "ss"} => Cardinality(Live) < MaxSessions
  PROVE  UdpInv'
  <1> DEFINE new == [NoWorker EXCEPT !.st = st, !.key = k, !.q = q]
  <1>0. UdpType
    BY Zenon DEF UdpInv
  <1>1. new \in WorkerType /\ new.st = st /\ new.key = k /\ ~new.cancel
    BY Zenon DEF NoWorker, WorkerType
  <1>2. NoWorker \in WorkerType /\ NoWorker.st = "free"
    BY Zenon DEF NoWorker, WorkerType
  <1>3. Cleared({entry[k]}) \in [Workers -> WorkerType]
    BY <1>0, <1>2, Zenon DEF Cleared, UdpType
  <1> HIDE DEF new
  <1>4. /\ worker' \in [Workers -> WorkerType] /\ worker'[w] = new
        /\ \A v \in Workers \ {w} :
              \/ worker'[v] = worker[v]
              \/ worker[v].st = "ended" /\ worker'[v] = NoWorker
    BY <1>1, <1>3, Zenon DEF Enlist, new, Cleared
  <1>5. /\ entry' \in [Targets -> Workers \cup {Nobody}] /\ entry'[k] = w
        /\ \A j \in Targets \ {k} : entry'[j] = entry[j]
    BY <1>0, Zenon DEF Enlist, UdpType
  <1>6. UdpType'
    BY <1>4, <1>5, Zenon DEF UdpType
  <1>7. Live' = Live \cup {w} /\ w \notin Live
    <2>1. w \notin Live
      BY Zenon DEF Live, Alive
    <2>2. w \in Live'
      BY <1>1, <1>4, Zenon DEF Live, Alive
    <2>3. \A v \in Workers \ {w} : v \in Live' <=> v \in Live
      BY <1>2, <1>4, Zenon DEF Live, Alive
    <2>4. Live \subseteq Workers /\ Live' \subseteq Workers
      BY Zenon DEF Live, Alive
    <2> QED
      BY <2>1, <2>2, <2>3, <2>4, Zenon
  <1>8. ASSUME NEW v \in Live' PROVE worker'[v].key \in Targets /\ entry'[worker'[v].key] = v
    <2>1. CASE v = w
      BY <2>1, <1>1, <1>4, <1>5, Zenon
    <2>2. CASE v # w
      <3>1. v \in Live /\ v \in Workers
        BY <2>2, <1>7, LiveFinite, Zenon
      <3>2. worker[v].st \notin {"free", "ended"} /\ worker[v].key \in Targets /\ entry[worker[v].key] = v
        BY <3>1, Zenon DEF UdpInv, Live, Alive
      <3>3. worker'[v] = worker[v]
        BY <2>2, <3>1, <3>2, <1>4, Zenon
      <3>4. worker[v].key # k
        BY <3>1, <3>2, UdpAssumption, Zenon DEF Vacant
      <3> QED
        BY <3>2, <3>3, <3>4, <1>5, ZenonT(30)
    <2> QED
      BY <2>1, <2>2, Zenon
  <1>9. udp \in {"trojan", "ss"} => Cardinality(Live') <= MaxSessions
    <2>1. Cardinality(Live \cup {w}) = Cardinality(Live) + 1
      BY <1>7, LiveFinite, FS_AddElement, Zenon
    <2> QED
      BY <2>1, <1>7, LiveFinite, UdpAssumption
  <1>10. reader'.pc # "dial"
    BY Zenon
  <1> QED
    BY <1>6, <1>8, <1>9, <1>10, Zenon DEF UdpInv

\* A worker steps, on its own or because a request reaches it.
LEMMA PutKeeps ==
  ASSUME UdpInv, NEW w \in Workers, NEW r \in WorkerType, Put(w, r),
         worker[w].st \notin {"free", "ended"}, UNCHANGED <<udp, assoc, reader, entry>>,
         r.st \in {"free", "ended"} \/ (r.key = worker[w].key /\ r.cancel = worker[w].cancel)
  PROVE  UdpInv'
  <1>1. UdpType' /\ worker'[w] = r /\ \A v \in Workers \ {w} : worker'[v] = worker[v]
    BY Zenon DEF UdpInv, UdpType, Put
  <1>2. ASSUME NEW v \in Live' PROVE v \in Live /\ worker'[v].key = worker[v].key
    BY <1>1, <1>2, Zenon DEF Live, Alive
  <1>3. assoc = "open" /\ reader.pc = "dial" /\ Vacant(reader.key) => Vacant(reader.key)'
    BY <1>1, UdpAssumption, Zenon DEF UdpInv, UdpType, Vacant
  <1> QED
    BY <1>1, <1>2, <1>3, TableShrinks, Zenon

\* A worker takes a request, answers or is answered.
LEMMA WorkerKeeps ==
  ASSUME UdpInv, NEW w \in Workers,
         Request(w) \/ Answer(w) \/ Push(w) \/ SsConnect(w) \/ SsReply(w)
  PROVE  UdpInv'
  <1>0. worker[w] \in WorkerType
    BY Zenon DEF UdpInv, UdpType
  <1>1. ASSUME NEW st \in {"wait", "reply"}, Put(w, [worker[w] EXCEPT !.st = st]),
               worker[w].st \notin {"free", "ended"}, UNCHANGED <<udp, assoc, reader, entry>>
        PROVE  UdpInv'
    <2> DEFINE r == [worker[w] EXCEPT !.st = st]
    <2>1. r \in WorkerType /\ r.key = worker[w].key /\ r.cancel = worker[w].cancel
      BY <1>0, Zenon DEF WorkerType
    <2> HIDE DEF r
    <2> QED
      BY <1>1, <2>1, PutKeeps, Zenon DEF r
  <1>2. CASE Request(w)
    <2> DEFINE r == [worker[w] EXCEPT !.q = @ - 1]
    <2>1. r \in WorkerType /\ r.key = worker[w].key /\ r.cancel = worker[w].cancel
      BY <1>0, <1>2 DEF WorkerType, Request
    <2>2. Put(w, r) /\ worker[w].st \notin {"free", "ended"} /\ UNCHANGED <<udp, assoc, reader, entry>>
      BY <1>2, Zenon DEF Request
    <2> HIDE DEF r
    <2> QED
      BY <2>1, <2>2, PutKeeps, Zenon
  <1>3. CASE Answer(w)
    BY <1>1, <1>3, Zenon DEF Answer
  <1>4. CASE Push(w)
    BY <1>1, <1>4, Zenon DEF Push
  <1>5. CASE SsConnect(w)
    BY <1>1, <1>5, Zenon DEF SsConnect
  <1>6. CASE SsReply(w)
    BY <1>1, <1>6, Zenon DEF SsReply
  <1> QED
    BY <1>2, <1>3, <1>4, <1>5, <1>6, Zenon

\* A worker returns, at one of the stages of a worker that runs.
LEMMA EndKeeps ==
  ASSUME UdpInv, NEW w \in Workers, NEW stages, stages \subseteq {"dial", "wait", "reply"},
         End(w, stages)
  PROVE  UdpInv'
  <1>0. worker[w] \in WorkerType
    BY Zenon DEF UdpInv, UdpType
  <1> DEFINE r == IF w \in {entry[k] : k \in Targets}
                  THEN [NoWorker EXCEPT !.st = "ended", !.key = worker[w].key] ELSE NoWorker
  <1>1. r \in WorkerType /\ r.st \in {"free", "ended"}
    BY <1>0, Zenon DEF WorkerType, NoWorker
  <1>2. Put(w, r) /\ worker[w].st \notin {"free", "ended"} /\ UNCHANGED <<udp, assoc, reader, entry>>
    BY Zenon DEF End
  <1> HIDE DEF r
  <1> QED
    BY <1>1, <1>2, PutKeeps, Zenon

\* A datagram for a session reaches its queue or is dropped.
LEMMA TrySendKeeps ==
  ASSUME UdpInv, NEW w \in Workers, TrySend(w), worker[w].st # "ended",
         udp' = udp, assoc' = assoc, entry' = entry,
         reader' \in [pc : {"read"}, key : Targets \cup {Nobody}]
  PROVE  UdpInv'
  <1> DEFINE r == [worker[w] EXCEPT !.q = IF @ < QueueCap THEN @ + 1 ELSE @]
  <1>0. worker[w] \in WorkerType
    BY Zenon DEF UdpInv, UdpType
  <1>1. /\ r \in WorkerType /\ r.st = worker[w].st
        /\ r.key = worker[w].key /\ r.cancel = worker[w].cancel
    BY <1>0 DEF WorkerType
  <1>2. UdpType' /\ worker'[w] = r /\ \A v \in Workers \ {w} : worker'[v] = worker[v]
    BY <1>1, Zenon DEF TrySend, Put, UdpInv, UdpType
  <1> HIDE DEF r
  <1>3. ASSUME NEW v \in Live' PROVE v \in Live /\ worker'[v].key = worker[v].key
    BY <1>1, <1>2, <1>3, Zenon DEF Live, Alive
  <1> QED
    BY <1>2, <1>3, TableShrinks, Zenon

\* Only workers that ended lose their slots with their entries.
LEMMA ClearedKeeps ==
  ASSUME UdpInv, NEW gone,
         entry' \in [Targets -> Workers \cup {Nobody}],
         \A k \in Targets : entry'[k] = entry[k] \/ (Vacant(k) /\ entry'[k] = Nobody),
         worker' = Cleared(gone), udp' = udp,
         reader' \in [pc : {"read", "dial", "push"}, key : Targets \cup {Nobody}],
         reader'.pc # "read" => reader'.key \in Targets
  PROVE  /\ UdpType' /\ Live' = Live
         /\ \A w \in Live : worker'[w].key = worker[w].key
                            /\ entry'[worker[w].key] = entry[worker[w].key]
  <1>1. NoWorker \in WorkerType /\ NoWorker.st = "free"
    BY Zenon DEF NoWorker, WorkerType
  <1>2. /\ worker' \in [Workers -> WorkerType]
        /\ \A v \in Workers :
              \/ worker'[v] = worker[v]
              \/ worker[v].st = "ended" /\ worker'[v] = NoWorker
    BY <1>1, Zenon DEF Cleared, UdpInv, UdpType
  <1>3. UdpType'
    BY <1>2, Zenon DEF UdpType
  <1>4. \A v \in Workers : v \in Live' <=> v \in Live
    BY <1>1, <1>2, Zenon DEF Live, Alive
  <1>5. Live' = Live
    BY <1>4, Zenon DEF Live, Alive
  <1>6. ASSUME NEW w \in Live
        PROVE  worker'[w].key = worker[w].key /\ entry'[worker[w].key] = entry[worker[w].key]
    <2>1. /\ w \in Workers /\ worker[w].st \notin {"free", "ended"}
          /\ worker[w].key \in Targets /\ entry[worker[w].key] = w
      BY Zenon DEF UdpInv, Live, Alive
    <2> QED
      BY <2>1, <1>2, UdpAssumption, Zenon DEF Vacant
  <1> QED
    BY <1>3, <1>5, <1>6, Zenon

\* A Trojan datagram: to its session, to the dial, or nowhere.
LEMMA TrojanPacketKeeps ==
  ASSUME UdpInv, udp = "trojan", NEW k \in Targets, TrojanPacket(k) PROVE UdpInv'
  <1>0. /\ UdpType /\ reader.pc = "read" /\ assoc' = assoc /\ udp' = udp
        /\ reader \in [pc : {"read"}, key : Targets \cup {Nobody}]
    BY Zenon DEF UdpInv, UdpType, TrojanPacket, Reading
  <1>1. CASE entry[k] # Nobody /\ ~IsClosed(k)
    <2>1. /\ TrySend(entry[k]) /\ reader' = reader /\ entry' = entry
          /\ entry[k] \in Workers /\ worker[entry[k]].st # "ended"
      BY <1>0, <1>1, Zenon DEF TrojanPacket, IsClosed, UdpType
    <2> QED
      BY <1>0, <2>1, TrySendKeeps, Zenon
  <1>2. CASE ~(entry[k] # Nobody /\ ~IsClosed(k))
    <2> DEFINE gone == IF Cardinality(Sessions) >= MaxSessions
                       THEN {s \in Sessions : IsClosed(s)} ELSE {}
    <2>1. /\ entry' = [s \in Targets |-> IF s \in gone THEN Nobody ELSE entry[s]]
          /\ worker' = Cleared({entry[s] : s \in gone})
          /\ reader' = IF TrojanFull THEN reader ELSE [pc |-> "dial", key |-> k]
      BY <1>2, Zenon DEF TrojanPacket
    <2>2. gone \subseteq Targets /\ \A s \in gone : Vacant(s)
      BY Zenon DEF Sessions, IsClosed, Vacant
    <2> HIDE DEF gone
    <2>3. /\ entry' \in [Targets -> Workers \cup {Nobody}]
          /\ \A s \in Targets : entry'[s] = entry[s] \/ (Vacant(s) /\ entry'[s] = Nobody)
      BY <1>0, <2>1, <2>2, Zenon DEF UdpType
    <2>4. /\ reader' \in [pc : {"read", "dial", "push"}, key : Targets \cup {Nobody}]
          /\ reader'.pc # "read" => ~TrojanFull /\ reader'.pc = "dial" /\ reader'.key = k
      BY <1>0, <2>1, Zenon
    <2>5. /\ UdpType' /\ Live' = Live
          /\ \A w \in Live : worker'[w].key = worker[w].key
                             /\ entry'[worker[w].key] = entry[worker[w].key]
      BY <1>0, <2>1, <2>3, <2>4, ClearedKeeps, Zenon
    <2>6. Vacant(k)'
      <3>1. CASE entry'[k] = Nobody
        BY <3>1, Zenon DEF Vacant
      <3>2. CASE entry'[k] # Nobody
        <4>1. entry'[k] = entry[k] /\ entry[k] \in Workers /\ worker[entry[k]].st = "ended"
          BY <1>0, <1>2, <2>1, <3>2, UdpAssumption, Zenon DEF UdpType, IsClosed
        <4> QED
          BY <4>1, <2>1, Zenon DEF Vacant, Cleared, NoWorker
      <3> QED
        BY <3>1, <3>2, Zenon
    <2>7. ~TrojanFull => Cardinality(Live) < MaxSessions
      <3> DEFINE S == {j \in Sessions : ~IsClosed(j)}
      <3>1. S \in SUBSET Targets
        BY Zenon DEF Sessions
      <3>2. \A w \in Live : worker[w].key \in S
        BY UdpAssumption, ZenonT(30) DEF UdpInv, Live, Alive, Sessions, IsClosed
      <3>3. Cardinality(Live) <= Cardinality(S)
        BY <3>1, <3>2, LiveFit, Zenon
      <3>4. Cardinality(S) \in Nat
        BY <3>1, FS_Subset, FS_CardinalityType, UdpAssumption, Zenon
      <3> QED
        BY <3>3, <3>4, LiveFinite, UdpAssumption DEF TrojanFull
    <2> QED
      BY <1>0, <2>4, <2>5, <2>6, <2>7, Zenon DEF UdpInv
  <1> QED
    BY <1>1, <1>2, Zenon

\* The dial returns: the target has still no session, and there is still room.
LEMMA TrojanDialKeeps == ASSUME UdpInv, udp = "trojan", TrojanDial PROVE UdpInv'
  <1>0. /\ UdpType /\ reader.pc = "dial" /\ assoc = "open" /\ udp' = udp /\ assoc' = assoc
        /\ reader' = [pc |-> "read", key |-> Nobody] /\ reader.key \in Targets
        /\ Vacant(reader.key) /\ Cardinality(Live) < MaxSessions
    BY Zenon DEF UdpInv, UdpType, TrojanDial, Reading
  <1>1. ASSUME NEW w \in Workers, Free(w), Enlist(w, reader.key, "wait", 1) PROVE UdpInv'
    BY <1>0, <1>1, EnlistKeeps, Zenon DEF Free
  <1>2. CASE UNCHANGED <<worker, entry>>
    BY <1>0, <1>2, TableShrinks, Zenon DEF UdpType, Live, Alive
  <1> QED
    BY <1>1, <1>2, Zenon DEF TrojanDial

\* An association that is over leaves no live session.
LEMMA TrojanOverKeeps == ASSUME UdpInv, NEW up, NEW down, TrojanOver(up, down) PROVE UdpInv'
  <1>0. UdpType /\ udp' = udp /\ assoc' = "closed" /\ reader' = reader
    BY Zenon DEF UdpInv, TrojanOver
  <1>1. \A w \in Workers : [worker[w] EXCEPT !.cancel = TRUE] \in WorkerType
                           /\ [worker[w] EXCEPT !.cancel = TRUE].cancel
    BY <1>0, ZenonT(30) DEF UdpType, WorkerType
  <1>2. NoWorker \in WorkerType /\ NoWorker.st = "free"
    BY Zenon DEF NoWorker, WorkerType
  <1>3. UdpType'
    BY <1>0, <1>1, <1>2, Zenon DEF TrojanOver, UdpType
  <1>4. \A w \in Workers : worker'[w].st = "free" \/ worker'[w].cancel
    BY <1>1, <1>2, Zenon DEF TrojanOver
  <1>5. Live' = {}
    BY <1>4, Zenon DEF Live, Alive
  <1> QED
    BY <1>0, <1>3, <1>5, TableShrinks, Zenon

\* What the workers and the queues do not see changes nothing.
LEMMA TableStays ==
  ASSUME UdpInv, UNCHANGED <<udp, entry, worker>>,
         assoc' = "open" => assoc = "open",
         reader' = reader \/ reader' \in [pc : {"read"}, key : Targets \cup {Nobody}]
  PROVE  UdpInv'
  <1>1. UdpType' /\ Live' = Live
    BY Zenon DEF UdpInv, UdpType, Live, Alive
  <1> QED
    BY <1>1, TableShrinks, Zenon DEF Vacant

\* Every step of a Trojan association.
LEMMA TrojanKeeps == ASSUME UdpInv, TrojanUdpNext PROVE UdpInv'
  <1>0. udp = "trojan"
    BY Zenon DEF TrojanUdpNext
  <1>1. CASE TrojanReadEnds \/ TrojanAbort
    BY <1>1, TrojanOverKeeps, Zenon DEF TrojanReadEnds, TrojanAbort
  <1>2. CASE TrojanWrite
    BY <1>2, TrojanOverKeeps, TableStays, Zenon DEF TrojanWrite
  <1>3. ASSUME NEW w \in Workers, TrojanEnd(w) PROVE UdpInv'
    BY <1>3, EndKeeps, Zenon DEF TrojanEnd
  <1> QED
    BY <1>0, <1>1, <1>2, <1>3, TrojanPacketKeeps, TrojanDialKeeps, WorkerKeeps, Zenon DEF TrojanUdpNext

\* A SOCKS5 datagram whose target has no session is dialled.
LEMMA SocksPacketKeeps ==
  ASSUME UdpInv, udp = "socks", NEW k \in Targets, SocksPacket(k) PROVE UdpInv'
  <1>1. /\ UNCHANGED <<udp, assoc, entry, worker>>
        /\ reader' = [pc |-> IF entry[k] = Nobody THEN "dial" ELSE "push", key |-> k]
    BY Zenon DEF SocksPacket
  <1>2. UdpType' /\ Live' = Live
    BY <1>1, Zenon DEF UdpInv, UdpType, Live, Alive
  <1>3. reader'.pc = "dial" => Vacant(reader.key)'
    BY <1>1, Zenon DEF Vacant
  <1> QED
    BY <1>1, <1>2, <1>3, Zenon DEF UdpInv

\* The SOCKS5 reading task waits for the dial: the target is as it was.
LEMMA SocksDialKeeps == ASSUME UdpInv, udp = "socks", SocksDial PROVE UdpInv'
  <1>0. /\ UdpType /\ reader.pc = "dial" /\ assoc = "open" /\ udp' = udp /\ assoc' = assoc
        /\ reader.key \in Targets /\ Vacant(reader.key)
    BY Zenon DEF UdpInv, UdpType, SocksDial, Reading
  <1>1. ASSUME NEW w \in Workers, Free(w), Enlist(w, reader.key, "wait", 0),
               reader' = [reader EXCEPT !.pc = "push"]
        PROVE  UdpInv'
    <2>1. /\ reader' \in [pc : {"read", "push"}, key : Targets \cup {Nobody}]
          /\ reader'.key \in Targets
      BY <1>0, <1>1, Zenon DEF UdpType
    <2> QED
      BY <1>0, <1>1, <2>1, EnlistKeeps, Zenon DEF Free
  <1>2. CASE reader' = [pc |-> "read", key |-> Nobody] /\ UNCHANGED <<worker, entry>>
    BY <1>0, <1>2, TableStays, Zenon
  <1> QED
    BY <1>1, <1>2, Zenon DEF SocksDial

\* A request waits for room in the queue of its worker.
LEMMA SocksPushKeeps == ASSUME UdpInv, udp = "socks", SocksPush PROVE UdpInv'
  <1> DEFINE w == entry[reader.key]
  <1>0. /\ UdpType /\ reader.key \in Targets /\ w \in Workers \cup {Nobody}
        /\ reader' = [pc |-> "read", key |-> Nobody] /\ UNCHANGED <<udp, assoc, entry>>
    BY Zenon DEF UdpInv, UdpType, SocksPush, Reading
  <1>1. CASE UNCHANGED worker
    BY <1>0, <1>1, TableStays, Zenon
  <1>2. CASE TrySend(w) /\ worker[w].st # "ended"
    <2>1. CASE w \in Workers
      BY <1>0, <1>2, <2>1, TrySendKeeps, Zenon
    <2>2. CASE w \notin Workers
      <3>1. worker' = worker
        BY <1>0, <1>2, <2>2, Zenon DEF TrySend, Put, UdpType
      <3> QED
        BY <1>0, <3>1, TableStays, Zenon
    <2> QED
      BY <2>1, <2>2, Zenon
  <1> QED
    BY <1>1, <1>2, Zenon DEF SocksPush

\* A worker that ended is joined and forgotten.
LEMMA SocksReapKeeps ==
  ASSUME UdpInv, udp = "socks", NEW w \in Workers, SocksReap(w) PROVE UdpInv'
  <1>0. /\ UdpType /\ reader.pc = "read" /\ worker[w].st = "ended"
        /\ UNCHANGED <<udp, assoc, reader>>
    BY Zenon DEF UdpInv, SocksReap, Reading
  <1>1. NoWorker \in WorkerType /\ NoWorker.st = "free"
    BY Zenon DEF NoWorker, WorkerType
  <1>2. /\ UdpType' /\ worker'[w] = NoWorker
        /\ \A v \in Workers \ {w} : worker'[v] = worker[v]
        /\ \A k \in Targets : entry[k] # w => entry'[k] = entry[k]
    BY <1>0, <1>1, Zenon DEF SocksReap, Put, UdpType
  <1>3. ASSUME NEW v \in Live'
        PROVE  /\ v \in Live /\ worker'[v].key = worker[v].key
               /\ entry'[worker[v].key] = entry[worker[v].key]
    <2>1. v # w /\ v \in Workers /\ v \in Live /\ worker'[v] = worker[v]
      BY <1>1, <1>2, <1>3, Zenon DEF Live, Alive
    <2>2. worker[v].key \in Targets /\ entry[worker[v].key] = v
      BY <2>1, Zenon DEF UdpInv
    <2> QED
      BY <2>1, <2>2, <1>2, Zenon
  <1> QED
    BY <1>0, <1>2, <1>3, TableShrinks, Zenon

\* Every step of a SOCKS5 association.
LEMMA SocksKeeps == ASSUME UdpInv, SocksUdpNext PROVE UdpInv'
  <1>0. udp = "socks"
    BY Zenon DEF SocksUdpNext
  <1>1. CASE SocksReturn
    BY <1>1, TableStays, Zenon DEF SocksReturn
  <1>2. CASE SocksClose
    <2>1. UdpType' /\ Live' = {}
      BY <1>2, Zenon DEF SocksClose, UdpInv, UdpType, NoWorker, WorkerType, Live, Alive
    <2> QED
      BY <1>2, <2>1, TableShrinks, Zenon DEF SocksClose
  <1>3. ASSUME NEW w \in Workers, End(w, {"wait"}) PROVE UdpInv'
    BY <1>3, EndKeeps, Zenon
  <1> QED
    BY <1>0, <1>1, <1>2, <1>3, SocksPacketKeeps, SocksDialKeeps, SocksPushKeeps, SocksReapKeeps,
       WorkerKeeps, Zenon DEF SocksUdpNext

\* A Shadowsocks datagram: to its session, to a new one, or nowhere.
LEMMA SsPacketKeeps ==
  ASSUME UdpInv, udp = "ss", NEW k \in Targets, SsPacket(k) PROVE UdpInv'
  <1>0. /\ UdpType /\ reader.pc = "read" /\ UNCHANGED <<udp, assoc, reader>>
        /\ reader \in [pc : {"read"}, key : Targets \cup {Nobody}]
    BY Zenon DEF UdpInv, UdpType, SsPacket, Reading
  <1>1. CASE ~listed
    BY <1>0, <1>1, TableStays, Zenon DEF SsPacket
  <1>2. CASE listed /\ entry[k] # Nobody /\ ~IsClosed(k)
    <2>1. /\ TrySend(entry[k]) /\ entry' = entry
          /\ entry[k] \in Workers /\ worker[entry[k]].st # "ended"
      BY <1>0, <1>2, Zenon DEF SsPacket, IsClosed, UdpType
    <2> QED
      BY <1>0, <2>1, TrySendKeeps, Zenon
  <1>3. CASE listed /\ ~(entry[k] # Nobody /\ ~IsClosed(k))
    <2>0. Vacant(k)
      BY <1>3, Zenon DEF Vacant, IsClosed
    <2>1. CASE Cardinality(Sessions \ {k}) >= MaxSessions
      <3>1. entry' = [entry EXCEPT ![k] = Nobody] /\ worker' = Cleared({entry[k]})
        BY <1>3, <2>1, Zenon DEF SsPacket
      <3>2. /\ entry' \in [Targets -> Workers \cup {Nobody}]
            /\ \A s \in Targets : entry'[s] = entry[s] \/ (Vacant(s) /\ entry'[s] = Nobody)
        BY <1>0, <2>0, <3>1, Zenon DEF UdpType
      <3>3. /\ UdpType' /\ Live' = Live
            /\ \A w \in Live : worker'[w].key = worker[w].key
                               /\ entry'[worker[w].key] = entry[worker[w].key]
        BY <1>0, <3>1, <3>2, ClearedKeeps, Zenon
      <3> QED
        BY <1>0, <3>3, TableShrinks, Zenon
    <2>2. CASE ~(Cardinality(Sessions \ {k}) >= MaxSessions)
      <3>1. PICK w \in Workers : Free(w) /\ Enlist(w, k, "dial", 1)
        BY <1>3, <2>2, Zenon DEF SsPacket
      <3> DEFINE S == Sessions \ {k}
      <3>2. S \in SUBSET Targets
        BY Zenon DEF Sessions
      <3>3. \A v \in Live : worker[v].key \in S
        BY <2>0, UdpAssumption DEF UdpInv, Live, Alive, Sessions, Vacant
      <3>4. Cardinality(Live) <= Cardinality(S)
        BY <3>2, <3>3, LiveFit, Zenon
      <3>5. Cardinality(S) \in Nat
        BY <3>2, FS_Subset, FS_CardinalityType, UdpAssumption, Zenon
      <3>6. Cardinality(Live) < MaxSessions
        BY <2>2, <3>4, <3>5, LiveFinite, UdpAssumption
      <3> QED
        BY <1>0, <2>0, <3>1, <3>6, EnlistKeeps, Zenon DEF Free
    <2> QED
      BY <2>1, <2>2, Zenon
  <1> QED
    BY <1>1, <1>2, <1>3, Zenon

\* The sweep cancels what it forgets.
LEMMA SsSweepKeeps == ASSUME UdpInv, udp = "ss", SsSweep PROVE UdpInv'
  <1> DEFINE gone == {k \in Sessions : ~listed \/ IsClosed(k)}
  <1>0. UdpType /\ UNCHANGED <<udp, assoc, reader>>
    BY Zenon DEF UdpInv, SsSweep
  <1>1. /\ entry' = [k \in Targets |-> IF k \in gone THEN Nobody ELSE entry[k]]
        /\ worker' = [w \in Workers |->
              IF w \in {entry[k] : k \in gone}
              THEN IF worker[w].st = "ended" THEN NoWorker ELSE [worker[w] EXCEPT !.cancel = TRUE]
              ELSE worker[w]]
    BY Zenon DEF SsSweep
  <1> HIDE DEF gone
  <1>2. \A w \in Workers :
           /\ [worker[w] EXCEPT !.cancel = TRUE] \in WorkerType
           /\ [worker[w] EXCEPT !.cancel = TRUE].cancel
           /\ [worker[w] EXCEPT !.cancel = TRUE].st = worker[w].st
    BY <1>0, ZenonT(30) DEF UdpType, WorkerType
  <1>3. NoWorker \in WorkerType /\ NoWorker.st = "free"
    BY Zenon DEF NoWorker, WorkerType
  <1>4. UdpType'
    BY <1>0, <1>1, <1>2, <1>3, Zenon DEF UdpType
  <1>5. ASSUME NEW w \in Live'
        PROVE  /\ w \in Live /\ worker'[w].key = worker[w].key
               /\ entry'[worker[w].key] = entry[worker[w].key]
    <2>1. w \in Workers /\ worker'[w].st \notin {"free", "ended"} /\ ~worker'[w].cancel
      BY <1>5, Zenon DEF Live, Alive
    <2>2. w \notin {entry[k] : k \in gone} /\ worker'[w] = worker[w]
      BY <2>1, <1>1, <1>2, <1>3, Zenon
    <2>3. w \in Live
      BY <2>1, <2>2, Zenon DEF Live, Alive
    <2>4. worker[w].key \in Targets /\ entry[worker[w].key] = w
      BY <2>3, Zenon DEF UdpInv
    <2> QED
      BY <2>2, <2>3, <2>4, <1>1, Zenon
  <1>6. ASSUME reader.key \in Targets, Vacant(reader.key) PROVE Vacant(reader.key)'
    BY <1>0, <1>1, <1>2, <1>3, <1>6, UdpAssumption, Zenon DEF Vacant, UdpType
  <1> QED
    BY <1>0, <1>4, <1>5, <1>6, TableShrinks, Zenon DEF UdpType

\* The stop of the inbound cancels every session.
LEMMA SsStopKeeps == ASSUME UdpInv, udp = "ss", SsStop PROVE UdpInv'
  <1>0. UdpType /\ UNCHANGED <<udp, reader, entry>> /\ assoc' = "closing"
    BY Zenon DEF UdpInv, SsStop
  <1>1. \A w \in Workers :
           LET r == [worker[w] EXCEPT !.cancel = worker[w].st # "free"]
           IN  r \in WorkerType /\ (r.st = "free" \/ r.cancel)
    BY <1>0, Zenon DEF UdpType, WorkerType
  <1>2. UdpType' /\ \A w \in Workers : worker'[w].st = "free" \/ worker'[w].cancel
    BY <1>0, <1>1, Zenon DEF SsStop, UdpType
  <1>3. Live' = {}
    BY <1>2, Zenon DEF Live, Alive
  <1> QED
    BY <1>0, <1>2, <1>3, TableShrinks, Zenon

\* Every step of a Shadowsocks inbound's UDP loop and sessions.
LEMMA SsKeeps == ASSUME UdpInv, SsUdpNext PROVE UdpInv'
  <1>0. udp = "ss"
    BY Zenon DEF SsUdpNext
  <1>1. CASE SsUsers \/ SsDrained
    BY <1>1, TableStays, Zenon DEF SsUsers, SsDrained
  <1>2. ASSUME NEW w \in Workers, SsEnd(w) PROVE UdpInv'
    BY <1>2, EndKeeps, Zenon DEF SsEnd
  <1> QED
    BY <1>0, <1>1, <1>2, SsPacketKeeps, SsSweepKeeps, SsStopKeeps, WorkerKeeps, Zenon DEF SsUdpNext

-----------------------------------------------------------------------------
(* The relays together.                                                    *)

\* Both invariants hold when a relay or an association begins.
LEMMA RelaysStart == RelaysInit => RelaysInv
  <1> SUFFICES ASSUME RelaysInit PROVE RelaysInv
    BY Zenon
  <1>1. RelayInv
    BY RelayStarts, Zenon DEF RelaysInit
  <1>2. PICK k : UdpInit(k)
    BY Zenon DEF RelaysInit
  <1>3. UdpType /\ reader.pc = "read"
    BY <1>2, Zenon DEF UdpInit, UdpType, NoWorker, WorkerType
  <1>4. Live = {}
    BY <1>2, Zenon DEF UdpInit, NoWorker, Live, Alive
  <1>5. Cardinality(Live) = 0
    BY <1>4, FS_EmptySet, Zenon
  <1> QED
    BY <1>1, <1>3, <1>4, <1>5, UdpAssumption DEF RelaysInv, UdpInv

\* Both are kept by every step.
LEMMA RelaysStep == RelaysInv /\ [RelaysNext]_vars => RelaysInv'
  <1> SUFFICES ASSUME RelayInv, UdpInv PROVE [RelaysNext]_vars => RelayInv' /\ UdpInv'
    BY Zenon DEF RelaysInv
  <1>1. ASSUME UNCHANGED udpVars PROVE UdpInv'
    BY <1>1, TableStays, Zenon DEF udpVars
  <1>2. ASSUME UNCHANGED relayVars PROVE RelayInv'
    BY <1>2, RelaySteps, Zenon
  <1>3. ASSUME RelayNext PROVE RelayInv'
    BY <1>3, RelaySteps, Zenon
  <1> QED
    BY <1>1, <1>2, <1>3, TrojanKeeps, SocksKeeps, SsKeeps, Zenon DEF RelaysNext, vars

\* The invariants give the three parts of RelaysSound.
LEMMA RelaysInvSound == RelaysInv => RelaysSound
  <1> SUFFICES ASSUME RelayInv, UdpInv PROVE RelaysSound
    BY Zenon DEF RelaysInv
  <1>1. RelayPaid
    <2> SUFFICES ASSUME book.over, NEW d \in Ways
                 PROVE  book.paid[d] <= way[d].got + 1 /\ way[d].got <= book.paid[d] + 1
      BY Zenon DEF RelayPaid
    <2>1. /\ Counted(d) /\ book.paid[d] = book.counted[d]
          /\ way[d].got \in Nat /\ book.counted[d] \in Nat
      BY Zenon DEF RelayInv, RelayType, WayType, BookType
    <2> QED
      BY <2>1 DEF Counted, Uncounted, Early
  <1>2. HalfCloseDelivers
    <2> SUFFICES ASSUME relay \in Copies \cup Joined, book.over, ~book.fault, NEW d \in Ways
                 PROVE  way[d].got = Chunks /\ way[d].shut
      BY Zenon DEF HalfCloseDelivers
    <2>1. Delivering(d) /\ way[d].pc = "done" /\ way[d].got \in Nat
      BY Zenon DEF RelayInv, RelayType, WayType
    <2> QED
      BY <2>1, Kinds, RelayAssumption DEF Delivering, InHand
  <1>3. SessionsBounded
    BY Zenon DEF SessionsBounded, UdpInv, Live
  <1> QED
    BY <1>1, <1>2, <1>3, Zenon DEF RelaysSound

\* Every relay, whatever its kind and however it ends, reports what it relayed
\* give or take the chunks in hand (TrafficGuard), a TCP relay in which nothing
\* failed has delivered both directions in full before it ends (try_join of the
\* two copies), and the live sessions of a UDP table are distinct, known to the
\* table and within its limit (the sessions.len() checks of Trojan's and
\* Shadowsocks' UDP loops).
THEOREM RelaysKeptSound == RelaysSafety => []RelaysSound
  <1>1. RelaysSafety => []RelaysInv
    BY RelaysStart, RelaysStep, PTL DEF RelaysSafety
  <1> QED
    BY <1>1, RelaysInvSound, PTL

-----------------------------------------------------------------------------
(* Resolver: the cache and what a lookup answers.                          *)

DnsSpec == (DnsInit \/ DnsNone) /\ [][DnsNext]_dnsVars

LookFields == {"at", "host", "strategy", "started", "born", "servers", "addrs"}

\* A lookup is a record of its fields.
LookShape == DOMAIN look = Lookups /\ \A l \in Lookups : DOMAIN look[l] = LookFields

\* The cache is within its limit and everything in it was put there under the
\* present rules.
CacheInv ==
    /\ IsFiniteSet(DOMAIN cache) /\ Cardinality(DOMAIN cache) <= CacheCap
    /\ \A h \in DOMAIN cache : cache[h].put = dns.version

Allowed(k) ==
    k.at = "done" => \A i \in DOMAIN k.addrs :
        /\ k.strategy = "ipv4_only" => k.addrs[i] = "v4"
        /\ k.strategy = "ipv6_only" => k.addrs[i] = "v6"

DnsInv == LookShape /\ CacheInv /\ \A l \in Lookups : Allowed(look[l])

\* apply_strategy leaves one family where only one is wanted.
LEMMA StrategyKept ==
  ASSUME NEW ips, NEW strategy, NEW i \in DOMAIN ApplyStrategy(ips, strategy)
  PROVE  /\ strategy = "ipv4_only" => ApplyStrategy(ips, strategy)[i] = "v4"
         /\ strategy = "ipv6_only" => ApplyStrategy(ips, strategy)[i] = "v6"
  <1>1. ASSUME NEW f, NEW k \in DOMAIN OfFamily(f, ips) PROVE OfFamily(f, ips)[k] = f
    BY <1>1 DEF OfFamily
  <1>2. strategy = "ipv4_only" => ApplyStrategy(ips, strategy) = OfFamily("v4", ips)
    BY Zenon DEF ApplyStrategy
  <1>3. strategy = "ipv6_only" => ApplyStrategy(ips, strategy) = OfFamily("v6", ips)
    BY Zenon DEF ApplyStrategy
  <1> QED
    BY <1>1, <1>2, <1>3, Zenon

\* A lookup that moves on keeps its shape, and the others are left alone.
LEMMA SetKeeps ==
  ASSUME LookShape, NEW l \in Lookups, NEW fields, Set(l, fields)
  PROVE  /\ LookShape'
         /\ \A m \in Lookups \ {l} : look'[m] = look[m]
         /\ \A f \in LookFields : look'[l][f] = IF f \in DOMAIN fields THEN fields[f] ELSE look[l][f]
  BY Zenon DEF LookShape, Set

\* A new row finds its place: whatever it displaces, the limit is kept.
LEMMA CacheGrows ==
  ASSUME CacheInv, NEW host, NEW row, NEW time, NEW c \in CacheWith(host, row, time)
  PROVE  /\ IsFiniteSet(DOMAIN c) /\ Cardinality(DOMAIN c) <= CacheCap
         /\ \A h \in DOMAIN c : c[h] = row \/ (h \in DOMAIN cache /\ c[h] = cache[h])
  <1> DEFINE kept == IF Cardinality(DOMAIN cache) < CacheCap THEN DOMAIN cache
                     ELSE {h \in DOMAIN cache : time < cache[h].expires}
             left == IF Cardinality(kept) < CacheCap THEN {kept} ELSE {kept \ {h} : h \in kept}
  <1>1. PICK k \in left : c = [h \in k \cup {host} |-> IF h = host THEN row ELSE cache[h]]
    BY Zenon DEF CacheWith
  <1>2. kept \in SUBSET DOMAIN cache
    BY Zenon
  <1>3. IsFiniteSet(kept) /\ Cardinality(kept) <= Cardinality(DOMAIN cache)
    BY <1>2, FS_Subset, Zenon DEF CacheInv
  <1>4. Cardinality(kept) \in Nat /\ Cardinality(DOMAIN cache) \in Nat
    BY <1>3, FS_CardinalityType, Zenon DEF CacheInv
  <1>5. Cardinality(kept) <= CacheCap
    BY <1>3, <1>4, ResolverAssumption DEF CacheInv
  <1> HIDE DEF kept
  <1>6. k \in SUBSET kept /\ IsFiniteSet(k) /\ Cardinality(k) \in Nat /\ Cardinality(k) + 1 <= CacheCap
    <2>1. CASE Cardinality(kept) < CacheCap
      <3>1. k = kept
        BY <2>1, <1>1, Zenon
      <3> QED
        BY <3>1, <2>1, <1>3, <1>4, ResolverAssumption, SMTT(30)
    <2>2. CASE ~(Cardinality(kept) < CacheCap)
      <3>1. PICK h \in kept : k = kept \ {h}
        BY <2>2, <1>1, Zenon
      <3>2. IsFiniteSet(k) /\ Cardinality(k) = Cardinality(kept) - 1
        BY <3>1, <1>3, FS_RemoveElement, Zenon
      <3>3. Cardinality(k) \in Nat
        BY <3>2, FS_CardinalityType, Zenon
      <3>4. k \in SUBSET kept
        BY <3>1, Zenon
      <3> QED
        BY <3>2, <3>3, <3>4, <1>4, <1>5, ResolverAssumption, SMTT(30)
    <2> QED
      BY <2>1, <2>2, Zenon
  <1> HIDE DEF left
  <1>7. DOMAIN c = k \cup {host}
    BY <1>1, Zenon
  <1>8. IsFiniteSet(k \cup {host}) /\ Cardinality(k \cup {host}) \in {Cardinality(k), Cardinality(k) + 1}
    BY <1>6, FS_AddElement, Zenon
  <1>9. Cardinality(DOMAIN c) <= CacheCap
    BY <1>6, <1>7, <1>8, ResolverAssumption
  <1>10. \A h \in DOMAIN c : c[h] = row \/ (h \in DOMAIN cache /\ c[h] = cache[h])
    BY <1>1, <1>2, <1>6, <1>7, Zenon
  <1> QED
    BY <1>7, <1>8, <1>9, <1>10, Zenon

\* A step that leaves the lookups and the cache alone keeps the invariant.
LEMMA DnsFrame ==
  ASSUME DnsInv, UNCHANGED <<cache, look>>, dns'.version = dns.version
  PROVE  DnsInv'
  BY Zenon DEF DnsInv, LookShape, CacheInv, Allowed

\* A lookup that moves on with the cache as it is, or one row richer.
LEMMA DnsMoves ==
  ASSUME DnsInv, NEW l \in Lookups, NEW fields, Set(l, fields), Allowed(look'[l]), CacheInv'
  PROVE  DnsInv'
  <1>1. LookShape' /\ \A m \in Lookups \ {l} : look'[m] = look[m]
    BY SetKeeps, Zenon DEF DnsInv
  <1>2. \A m \in Lookups : Allowed(look'[m])
    BY <1>1, Zenon DEF DnsInv
  <1> QED
    BY <1>1, <1>2, Zenon DEF DnsInv, Allowed

\* resolve_with_runtime after the answer: the strategy is the one the lookup was
\* asked under.
LEMMA AnsweredKeeps ==
  ASSUME DnsInv, NEW l \in Lookups, NEW ips, Answered(l, ips), UNCHANGED dns
  PROVE  DnsInv'
  <1> DEFINE addrs == ApplyStrategy(ips, look[l].strategy)
             fields == [at |-> IF addrs = <<>> THEN "failed" ELSE "done", addrs |-> addrs, servers |-> <<>>]
  <1>1. Set(l, fields)
    BY Zenon DEF Answered
  <1>2. DOMAIN fields = {"at", "addrs", "servers"} /\ fields["addrs"] = addrs
    OBVIOUS
  <1> HIDE DEF fields
  <1>3. \A f \in LookFields : look'[l][f] = IF f \in DOMAIN fields THEN fields[f] ELSE look[l][f]
    BY <1>1, SetKeeps, Zenon DEF DnsInv
  <1>4. look'[l].addrs = addrs /\ look'[l].strategy = look[l].strategy
    BY <1>2, <1>3 DEF LookFields
  <1>5. Allowed(look'[l])
    <2>1. \A i \in DOMAIN addrs :
            /\ look[l].strategy = "ipv4_only" => addrs[i] = "v4"
            /\ look[l].strategy = "ipv6_only" => addrs[i] = "v6"
      BY StrategyKept, Zenon
    <2> HIDE DEF addrs
    <2> QED
      BY <1>4, <2>1, Zenon DEF Allowed
  <1>6. CacheInv'
    <2>1. CASE UNCHANGED cache
      BY <2>1, Zenon DEF DnsInv, CacheInv
    <2>2. CASE ~UNCHANGED cache
      <3> DEFINE row == [ips |-> ips, expires |-> look[l].started + dns.ttl,
                           born |-> look[l].born, put |-> dns.version]
      <3>1. cache' \in CacheWith(look[l].host, row, look[l].started)
        BY <2>2, Zenon DEF Answered
      <3>2. row.put = dns.version
        OBVIOUS
      <3> HIDE DEF row
      <3>3. /\ IsFiniteSet(DOMAIN cache') /\ Cardinality(DOMAIN cache') <= CacheCap
            /\ \A h \in DOMAIN cache' : cache'[h] = row \/ (h \in DOMAIN cache /\ cache'[h] = cache[h])
        <4>1. CacheInv
          BY Zenon DEF DnsInv
        <4> QED
          BY ONLY <3>1, <4>1, CacheGrows
      <3> QED
        BY <3>2, <3>3, Zenon DEF DnsInv, CacheInv
    <2> QED
      BY <2>1, <2>2, Zenon
  <1> QED
    BY <1>1, <1>5, <1>6, DnsMoves, Zenon

\* resolve_with_runtime up to its first wait: an answer from the cache is put in
\* the order of the present strategy.
LEMMA LookupKeeps ==
  ASSUME DnsInv, NEW l \in Lookups, NEW host, Lookup(l, host)
  PROVE  DnsInv'
  <1>0. CacheInv' /\ LookShape
    BY Zenon DEF Lookup, DnsInv, CacheInv
  <1>1. CASE host \in DOMAIN cache /\ now < cache[host].expires
    <2> DEFINE addrs == ApplyStrategy(cache[host].ips, dns.strategy)
               fields == [at |-> "done", host |-> host, strategy |-> dns.strategy, addrs |-> addrs]
    <2>1. Set(l, fields)
      BY <1>1, Zenon DEF Lookup
    <2>2. /\ DOMAIN fields = {"at", "host", "strategy", "addrs"}
          /\ fields["addrs"] = addrs /\ fields["strategy"] = dns.strategy
      OBVIOUS
    <2> HIDE DEF fields
    <2>3. \A f \in LookFields : look'[l][f] = IF f \in DOMAIN fields THEN fields[f] ELSE look[l][f]
      BY <1>0, <2>1, SetKeeps, ZenonT(30)
    <2>4. look'[l].addrs = addrs /\ look'[l].strategy = dns.strategy
      BY <2>2, <2>3 DEF LookFields
    <2>5. Allowed(look'[l])
      <3>1. \A i \in DOMAIN addrs :
              /\ dns.strategy = "ipv4_only" => addrs[i] = "v4"
              /\ dns.strategy = "ipv6_only" => addrs[i] = "v6"
        BY StrategyKept, ZenonT(30)
      <3> HIDE DEF addrs
      <3> QED
        BY <2>4, <3>1, Zenon DEF Allowed
    <2> QED
      BY <1>0, <2>1, <2>5, DnsMoves, Zenon
  <1>2. CASE ~(host \in DOMAIN cache /\ now < cache[host].expires)
    <2> DEFINE fields == [at |-> "rule", host |-> host, strategy |-> dns.strategy, started |-> now,
                          born |-> dns.version, servers |-> MatchServers(dns.table, host)]
    <2>1. Set(l, fields)
      BY <1>2, Zenon DEF Lookup
    <2>2. "at" \in DOMAIN fields /\ fields["at"] = "rule"
      OBVIOUS
    <2> HIDE DEF fields
    <2>3. look'[l].at = "rule"
      BY <1>0, <2>1, <2>2, SetKeeps DEF LookFields
    <2> QED
      BY <1>0, <2>1, <2>3, DnsMoves, Zenon DEF Allowed
  <1> QED
    BY <1>1, <1>2, Zenon

\* resolve_four_levels: one server after the other, one level after the other.
LEMMA LevelsKeep ==
  ASSUME DnsInv, NEW l \in Lookups, AskServer(l) \/ NextLevel(l) \/ AskSystem(l)
  PROVE  DnsInv'
  <1>0. LookShape /\ look[l].at \in {"rule", "default", "system"} /\ UNCHANGED dns
    BY Zenon DEF DnsInv, AskServer, NextLevel, AskSystem
  <1>1. ASSUME UNCHANGED cache PROVE CacheInv'
    BY <1>0, <1>1, Zenon DEF DnsInv, CacheInv
  <1>2. ASSUME NEW fields, Set(l, fields), UNCHANGED cache,
               "at" \in DOMAIN fields => fields["at"] # "done"
        PROVE  DnsInv'
    <2>1. look'[l].at # "done"
      BY <1>0, <1>2, SetKeeps DEF LookFields
    <2> QED
      BY <1>1, <1>2, <2>1, DnsMoves, ZenonT(30) DEF Allowed
  <1>3. CASE AskServer(l)
    <2> DEFINE fields == [servers |-> Tail(look[l].servers)]
    <2>1. PICK ips \in ServerAnswers(Head(look[l].servers), look[l].strategy) :
            IF ips = {} THEN Set(l, fields) /\ UNCHANGED cache ELSE Answered(l, ips)
      BY <1>3, Zenon DEF AskServer
    <2>2. "at" \notin DOMAIN fields
      OBVIOUS
    <2> HIDE DEF fields
    <2> QED
      BY <1>0, <1>2, <2>1, <2>2, AnsweredKeeps, Zenon
  <1>4. CASE NextLevel(l)
    <2> DEFINE one == [at |-> "default", servers |-> dns.servers]
               two == [at |-> "system"]
    <2>1. (Set(l, one) \/ Set(l, two)) /\ UNCHANGED cache
      BY <1>4, Zenon DEF NextLevel
    <2>2. one["at"] # "done" /\ two["at"] # "done"
      OBVIOUS
    <2> HIDE DEF one, two
    <2> QED
      BY <1>2, <2>1, <2>2, Zenon
  <1>5. CASE AskSystem(l)
    <2> DEFINE fields == [at |-> "failed"]
    <2>1. \/ Set(l, fields) /\ UNCHANGED cache
          \/ \E ips \in SUBSET Families : Answered(l, ips)
      BY <1>5, Zenon DEF AskSystem
    <2>2. fields["at"] # "done"
      OBVIOUS
    <2> HIDE DEF fields
    <2> QED
      BY <1>0, <1>2, <2>1, <2>2, AnsweredKeeps, Zenon
  <1> QED
    BY <1>3, <1>4, <1>5, Zenon

\* set_rules_table leaves an empty cache.
LEMMA ReloadKeeps == ASSUME DnsInv, CheckAndReload PROVE DnsInv'
  <1>1. cache' = <<>> /\ UNCHANGED look
    BY Zenon DEF CheckAndReload, SetRulesTable
  <1>2. DOMAIN cache' = {}
    BY <1>1
  <1>3. CacheInv'
    BY <1>2, FS_EmptySet, ResolverAssumption DEF CacheInv
  <1> QED
    BY <1>1, <1>3, Zenon DEF DnsInv, LookShape, Allowed

\* What the resolver remembers and says, for any number of lookups, names, rules
\* files and edits and any size of the cache: the cache keeps its limit, a change of
\* the rules leaves nothing in it but what was being looked up during the change,
\* and no lookup gets an address of a family that the strategy it was asked under
\* excludes (resolve_with_runtime, set_rules_table, apply_strategy).
THEOREM AnswersFreshHolds == DnsSpec => []AnswersFresh
  <1>1. DnsInit \/ DnsNone => DnsInv
    <2> SUFFICES ASSUME NEW on, DnsState(on) PROVE DnsInv
      BY Zenon DEF DnsInit, DnsNone
    <2>1. DOMAIN look = Lookups /\ \A l \in Lookups : DOMAIN look[l] = LookFields
      BY DEF DnsState, LookFields
    <2>2. \A l \in Lookups : look[l].at # "done"
      BY DEF DnsState
    <2>3. DOMAIN cache = {}
      BY DEF DnsState
    <2>4. CacheInv
      BY <2>3, FS_EmptySet, ResolverAssumption DEF CacheInv
    <2> QED
      BY <2>1, <2>2, <2>4, Zenon DEF DnsInv, LookShape, Allowed
  <1>2. DnsInv /\ [DnsNext]_dnsVars => DnsInv'
    <2> SUFFICES ASSUME DnsInv, [DnsNext]_dnsVars PROVE DnsInv'
      BY Zenon
    <2>1. CASE UNCHANGED dnsVars
      BY <2>1, DnsFrame, Zenon DEF dnsVars
    <2>2. CASE EditFile \/ ClockTick
      BY <2>2, DnsFrame, Zenon DEF EditFile, ClockTick
    <2> QED
      BY <2>1, <2>2, LookupKeeps, LevelsKeep, ReloadKeeps, Zenon DEF DnsNext
  <1>3. DnsInv => AnswersFresh
    BY Zenon DEF DnsInv, CacheInv, Allowed, AnswersFresh
  <1> QED
    BY <1>1, <1>2, <1>3, PTL DEF DnsSpec

=============================================================================
