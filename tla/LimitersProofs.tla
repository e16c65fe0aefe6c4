-------------------------- MODULE LimitersProofs ---------------------------
(***************************************************************************)
(* The connection limiter counts exactly and stays within its limit, for   *)
(* any number of threads and any limits; the device limiter keeps every    *)
(* node and the shared set within the limits, for any number of nodes,     *)
(* devices and concurrent calls.                                           *)
(***************************************************************************)
EXTENDS ConnLimiter, DeviceLimiter, FiniteSetTheorems, TLAPS

-----------------------------------------------------------------------------
(* ConnLimiter                                                             *)

\* A thread has a clone of the counter exactly where the code has one, what it
\* has is the map's, and the limit it read was set at some time.
LocalInv ==
    /\ \A t \in Thread :
          /\ ref[t] # NoCounter <=> pc[t] \in {"load", "try", "guard", "dropping"}
          /\ limit[t] <= topLimit
    /\ prune = "count" => entry # NoCounter
    /\ maxConns <= topLimit

IInv == TypeOK /\ LocalInv /\ OneCounter /\ CountsGuards /\ WithinLimit

\* A grant adds a guard, a release removes one.
LEMMA GuardAdded ==
  ASSUME TypeOK, NEW t \in Thread, pc[t] # "guard", pc' = [pc EXCEPT ![t] = "guard"]
  PROVE  Cardinality(Guards') = Cardinality(Guards) + 1
  <1>1. Guards' = Guards \cup {t} /\ t \notin Guards
    BY Zenon DEF Guards, TypeOK
  <1>2. IsFiniteSet(Guards)
    BY ConnAssumption, FS_Subset, Zenon DEF Guards
  <1> QED
    BY ZenonT(30), <1>1, <1>2, FS_AddElement

\* The drop of a ConnGuard removes one guard.
LEMMA GuardRemoved ==
  ASSUME TypeOK, NEW t \in Thread, pc[t] = "guard", pc' = [pc EXCEPT ![t] = "dropping"]
  PROVE  Cardinality(Guards') = Cardinality(Guards) - 1
  <1>1. Guards' = Guards \ {t} /\ t \in Guards
    BY Zenon DEF Guards, TypeOK
  <1>2. IsFiniteSet(Guards)
    BY ConnAssumption, FS_Subset, Zenon DEF Guards
  <1> QED
    BY <1>1, <1>2, FS_RemoveElement, Zenon

\* No other step changes the guards.
LEMMA GuardsSame ==
  ASSUME TypeOK, NEW t \in Thread, NEW s, pc[t] # "guard", s # "guard",
         pc' = [pc EXCEPT ![t] = s]
  PROVE  Guards' = Guards
  BY Zenon DEF Guards, TypeOK

\* The guards can be counted: there are finitely many threads.
LEMMA GuardsCard == Cardinality(Guards) \in Nat
  <1>1. IsFiniteSet(Guards)
    BY ConnAssumption, FS_Subset, Zenon DEF Guards
  <1> QED
    BY <1>1, FS_CardinalityType, Zenon

\* A new ConnectionLimiter, with no counter and no guard, has the invariant.
LEMMA InitInv == Init => IInv
  <1> SUFFICES ASSUME Init PROVE IInv
    BY Zenon
  <1>1. Guards = {}
    BY Zenon DEF Init, Guards
  <1>2. Cardinality(Guards) = 0
    BY <1>1, FS_EmptySet, Zenon
  <1> QED
    BY <1>2, ConnAssumption DEF Init, IInv, TypeOK, LocalInv, OneCounter, CountsGuards, WithinLimit

\* Every step keeps the invariant.
LEMMA StepInv == IInv /\ [Next]_vars => IInv'
  <1> SUFFICES ASSUME IInv, [Next]_vars PROVE IInv'
    BY Zenon
  <1> USE ConnAssumption, GuardsCard
      DEF IInv, TypeOK, LocalInv, OneCounter, CountsGuards, WithinLimit, vars, Locals
  <1>1. ASSUME NEW l \in Limits, SetUserLimit(l) PROVE IInv'
    BY <1>1 DEF SetUserLimit, Guards
  <1>2. ASSUME NEW t \in Thread, ReadLimit(t) PROVE IInv'
    BY ZenonT(30), <1>2, GuardsSame DEF ReadLimit
  <1>3. ASSUME NEW t \in Thread, Lookup(t) PROVE IInv'
    BY ZenonT(30), <1>3, GuardsSame DEF Lookup
  <1>4. ASSUME NEW t \in Thread, Insert(t) PROVE IInv'
    <2>1. Guards' = Guards /\ pc[t] = "insert" /\ ref[t] = NoCounter
      BY ZenonT(30), <1>4, GuardsSame DEF Insert
    <2>2. CASE entry # NoCounter
      BY <1>4, <2>1, <2>2 DEF Insert
    <2>3. CASE entry = NoCounter
      <3>1. PICK c \in Counter : entry' = c /\ value' = [value EXCEPT ![c] = 0]
                                 /\ ref' = [ref EXCEPT ![t] = c]
        BY <1>4, <2>3, Zenon DEF Insert
      <3>2. \A q \in Thread : ref[q] = NoCounter
        BY <2>3, Zenon
      <3>3. (TypeOK /\ LocalInv /\ OneCounter)'
        BY <1>4, <2>1, <3>1, <3>2, Zenon DEF Insert
      <3>4. (CountsGuards /\ WithinLimit)'
        BY <1>4, <2>1, <2>3, <3>1, Zenon DEF Insert
      <3> QED
        BY <3>3, <3>4, Zenon
    <2> QED
      BY <2>2, <2>3, Zenon
  <1>5. ASSUME NEW t \in Thread, Load(t) PROVE IInv'
    BY ZenonT(30), <1>5, GuardsSame DEF Load
  <1>6. ASSUME NEW t \in Thread, Refuse(t) PROVE IInv'
    <2>1. Guards' = Guards
      BY ZenonT(30), <1>6, GuardsSame DEF Refuse
    <2>2. (TypeOK /\ LocalInv /\ OneCounter)'
      BY <1>6 DEF Refuse
    <2>3. (CountsGuards /\ WithinLimit)'
      BY <1>6, <2>1, Zenon DEF Refuse
    <2> QED
      BY <2>2, <2>3, Zenon
  <1>7. ASSUME NEW t \in Thread, CompareExchange(t) PROVE IInv'
    <2>1. pc[t] = "try" /\ ref[t] = entry /\ entry \in Counter
      BY <1>7, Zenon DEF CompareExchange
    <2>2. CASE pc' = pc
      BY <1>7, <2>1, <2>2, Zenon DEF CompareExchange, Guards
    <2>3. CASE pc' # pc
      <3>1. /\ value[entry] = cur[t] /\ cur[t] < limit[t]
            /\ value' = [value EXCEPT ![entry] = value[entry] + 1]
            /\ pc' = [pc EXCEPT ![t] = "guard"]
            /\ UNCHANGED <<maxConns, entry, limit, ref, prune, topLimit>>
        BY <1>7, <2>1, <2>3, Zenon DEF CompareExchange
      <3>2. Cardinality(Guards') = Cardinality(Guards) + 1
        BY ZenonT(30), <2>1, <3>1, GuardAdded
      <3>3. value'[entry] = Cardinality(Guards') /\ value'[entry] <= topLimit
        BY <2>1, <3>1, <3>2
      <3>4. (TypeOK /\ LocalInv /\ OneCounter)'
        BY <1>7, <2>1, <3>1 DEF CompareExchange
      <3> QED
        BY <2>1, <3>1, <3>3, <3>4, Zenon
    <2> QED
      BY <2>2, <2>3, Zenon
  <1>8. ASSUME NEW t \in Thread, Release(t) PROVE IInv'
    <2>1. pc[t] = "guard" /\ ref[t] = entry /\ entry \in Counter
      BY <1>8, Zenon DEF Release
    <2>2. /\ value' = [value EXCEPT ![entry] = value[entry] - 1]
          /\ pc' = [pc EXCEPT ![t] = "dropping"]
          /\ UNCHANGED <<maxConns, entry, limit, ref, cur, prune, topLimit>>
      BY <1>8, <2>1, Zenon DEF Release
    <2>3. Cardinality(Guards') = Cardinality(Guards) - 1 /\ Cardinality(Guards') \in Nat
      <3>1. Cardinality(Guards') = Cardinality(Guards) - 1
        BY ZenonT(30), <2>1, <2>2, GuardRemoved
      <3>2. IsFiniteSet(Guards')
        BY FS_Subset, Zenon DEF Guards
      <3> QED
        BY <3>1, <3>2, FS_CardinalityType, Zenon
    <2>4. value'[entry] = Cardinality(Guards') /\ value'[entry] \in Nat
      BY <2>1, <2>2, <2>3, Zenon
    <2>5. (TypeOK /\ LocalInv /\ OneCounter)'
      BY <2>1, <2>2, <2>4, Zenon
    <2> QED
      BY <2>1, <2>2, <2>3, <2>4, <2>5
  <1>9. ASSUME NEW t \in Thread, DropArc(t) PROVE IInv'
    <2>1. Guards' = Guards
      BY ZenonT(30), <1>9, GuardsSame DEF DropArc
    <2>2. (TypeOK /\ LocalInv /\ OneCounter)'
      BY <1>9 DEF DropArc
    <2>3. (CountsGuards /\ WithinLimit)'
      BY <1>9, <2>1, Zenon DEF DropArc
    <2> QED
      BY <2>2, <2>3, Zenon
  <1>10. ASSUME NEW t \in Thread, DropFree(t) PROVE IInv'
    BY ZenonT(30), <1>10, GuardsSame DEF DropFree
  <1>11. CASE PruneLoad
    BY <1>11, Zenon DEF PruneLoad, Guards
  <1>12. CASE PruneCount
    <2>1. entry \in Counter /\ Guards' = Guards
      BY <1>12, Zenon DEF PruneCount, Guards
    <2>2. CASE entry' = entry
      BY <1>12, <2>1, <2>2, Zenon DEF PruneCount
    <2>3. CASE entry' # entry
      <3>1. entry' = NoCounter /\ Cardinality(Held(entry)) = 0
        <4>1. Cardinality(Held(entry)) \in Nat
          BY FS_Subset, FS_CardinalityType, Zenon DEF Held
        <4> QED
          BY <1>12, <2>3, <4>1 DEF PruneCount, StrongCount
      <3>2. Held(entry) = {}
        BY <3>1, FS_Subset, FS_EmptySet, Zenon DEF Held
      <3>3. \A t \in Thread : ref[t] = NoCounter
        BY <3>2, Zenon DEF Held
      <3>4. Guards = {} /\ Cardinality(Guards) = 0
        BY <3>3, FS_EmptySet, Zenon DEF Guards
      <3> QED
        BY <1>12, <2>1, <3>1, <3>3, <3>4, Zenon DEF PruneCount
    <2> QED
      BY <2>2, <2>3, Zenon
  <1>13. CASE UNCHANGED vars
    BY <1>13, Zenon DEF Guards
  <1> HIDE DEF IInv
  <1> QED
    BY <1>1, <1>2, <1>3, <1>4, <1>5, <1>6, <1>7, <1>8, <1>9, <1>10, <1>11, <1>12, <1>13, Zenon DEF Next
-----------------------------------------------------------------------------
\* IInv is inductive.
LEMMA Inductive == Spec => []IInv
  BY InitInv, StepInv, PTL DEF Spec

\* try_acquire, the drop of a guard, set_user_limit and prune_idle keep the
\* state well typed: in particular no fetch_sub takes a counter below zero.
THEOREM TypeCorrect == Spec => []TypeOK
  <1>1. IInv => TypeOK
    BY Zenon DEF IInv
  <1> QED
    BY Inductive, <1>1, PTL

\* However many threads acquire, release and prune at once, the counter of the
\* map equals the number of guards.
THEOREM CountExact == Spec => []CountsGuards
  <1>1. IInv => CountsGuards
    BY Zenon DEF IInv
  <1> QED
    BY Inductive, <1>1, PTL

\* There are never more counted guards than the largest limit set.
THEOREM NeverOverLimit == Spec => []WithinLimit
  <1>1. IInv => WithinLimit
    BY Zenon DEF IInv
  <1> QED
    BY Inductive, <1>1, PTL

-----------------------------------------------------------------------------
(* DeviceLimiter                                                           *)

Members == {d \in Device : zset[d] # Gone}
\* A limit that some node has had.
Given(l) == \E n \in Node : AsBound(l) <= top[n]

\* Before the first fault every record of a node is one that Redis has admitted.
Shared ==
    /\ late = {}
    /\ \A c \in Call : at[c] \notin {"local", "locked"}
    /\ \A c \in Call : at[c] \in {"record", "relocked"} /\ Expiry > 0 => zset[dev[c]] = 0
    /\ \A n \in Node, d \in Device : devices[n][d] < Expiry => zset[d] <= devices[n][d]

\* A limit that is read, sent or on its way is one that was given.
CallOK(c) ==
    /\ at[c] # "idle" => node[c] \in Node /\ dev[c] \in Device
    /\ at[c] \in {"locked", "relocked"} => AsBound(arg[c]) <= top[node[c]]
    /\ at[c] = "redis" => Given(arg[c])
GivenLimits ==
    /\ \A n \in Node : AsBound(userLimits[n]) <= top[n]
    /\ \A c \in Call : CallOK(c)
    /\ \A s \in late : Given(s[2])

\* The set is bounded with the members it has not yet dropped, and the key
\* outlives every member that is not expired.
SetOK ==
    /\ \E n \in Node : Cardinality(Members) <= top[n]
    /\ \A d \in Members : zset[d] + ttl >= Expiry

DeviceInv ==
    /\ DeviceTypeOK /\ GivenLimits /\ SetOK
    /\ \A n \in Node : Cardinality(InWindow(n)) <= top[n]
    /\ faults = 0 /\ useRedis => Shared

\* Ages and bounds are numbers.
LEMMA AgeFacts ==
  /\ Window \in Nat /\ Expiry \in Nat /\ MaxLate \in Nat /\ MaxFaults \in Nat /\ MaxChanges \in Nat
  /\ Oldest \in Nat /\ Gone = Oldest + 1 /\ Age = 0..Gone
  /\ Oldest >= Window /\ Oldest >= Expiry /\ Oldest >= MaxLate
  /\ None = "none"
  /\ \A a \in Age :
        /\ Older(a) \in Age /\ a <= Older(a) /\ Older(a) <= a + 1
        /\ a < Oldest => Older(a) = a + 1
        /\ Older(a) = Gone <=> a = Gone
  BY DeviceAssumption DEF Oldest, Gone, Age, Older, None

\* A limit and no limit compare as numbers of devices.
LEMMA BoundFacts ==
  /\ Unlimited = Cardinality(Device) + 1 /\ Unlimited \in Nat
  /\ \A l \in DeviceLimits \cup {0} :
        AsBound(l) \in Nat /\ l \in Nat /\ (l # 0 => AsBound(l) = l)
  /\ AsBound(0) = Unlimited
  /\ \A a, b \in Nat : /\ Larger(a, b) \in Nat
                       /\ a <= Larger(a, b) /\ b <= Larger(a, b)
  <1>1. Cardinality(Device) \in Nat
    BY DeviceAssumption, FS_CardinalityType, Zenon
  <1>2. Unlimited = Cardinality(Device) + 1 /\ Unlimited \in Nat
    BY <1>1 DEF Unlimited
  <1>3. ASSUME NEW l \in DeviceLimits \cup {0}
        PROVE  AsBound(l) \in Nat /\ l \in Nat /\ (l # 0 => AsBound(l) = l)
    BY <1>2, <1>3, DeviceAssumption DEF AsBound
  <1>4. AsBound(0) = Unlimited
    BY Zenon DEF AsBound
  <1>5. ASSUME NEW a \in Nat, NEW b \in Nat
        PROVE  /\ Larger(a, b) \in Nat
               /\ a <= Larger(a, b) /\ b <= Larger(a, b)
    BY <1>5 DEF Larger
  <1> QED
    BY <1>2, <1>3, <1>4, <1>5, Zenon

\* Sets of devices can be counted, and count no more than the devices.
LEMMA Countable ==
  ASSUME NEW S \in SUBSET Device
  PROVE  /\ IsFiniteSet(S) /\ Cardinality(S) \in Nat /\ Cardinality(S) < Unlimited
         /\ \A T \in SUBSET S : Cardinality(T) <= Cardinality(S) /\ Cardinality(T) \in Nat
         /\ \A d \in Device : /\ Cardinality(S \cup {d}) \in Nat
                              /\ Cardinality(S \cup {d}) <= Cardinality(S) + 1
  <1>1. IsFiniteSet(S) /\ Cardinality(S) <= Cardinality(Device) /\ IsFiniteSet(Device)
    BY DeviceAssumption, FS_Subset, Zenon
  <1>2. Cardinality(S) \in Nat /\ Cardinality(Device) \in Nat
    BY <1>1, FS_CardinalityType, Zenon
  <1>3. ASSUME NEW T \in SUBSET S PROVE Cardinality(T) <= Cardinality(S) /\ Cardinality(T) \in Nat
    BY <1>1, FS_Subset, FS_CardinalityType, Zenon
  <1>4. ASSUME NEW d \in Device
        PROVE  Cardinality(S \cup {d}) \in Nat /\ Cardinality(S \cup {d}) <= Cardinality(S) + 1
    <2>1. Cardinality(S \cup {d}) = IF d \in S THEN Cardinality(S) ELSE Cardinality(S) + 1
      BY <1>1, FS_AddElement, Zenon
    <2> QED
      BY <2>1, <1>2
  <1>5. Cardinality(S) < Unlimited
    BY <1>1, <1>2, BoundFacts
  <1> QED
    BY <1>1, <1>2, <1>3, <1>4, <1>5, Zenon

\* The Lua script: what stays is not expired, what comes is within the limit
\* it was sent with, and the key lives as long as a member that is not expired.
LEMMA LuaKeeps ==
  ASSUME DeviceTypeOK, NEW d \in Device, NEW l \in DeviceLimits \cup {0}, NEW a \in 0..MaxLate,
         LuaEffect(d, l, a), Given(l), SetOK, top' = top
  PROVE  zset' \in [Device -> Age] /\ ttl' \in 0..Expiry /\ SetOK'
  <1> DEFINE K == Kept(a)
  <1> DEFINE ok == LuaAdmits(d, l, a)
  <1>0. /\ zset \in [Device -> Age] /\ ttl \in 0..Expiry /\ top \in [Node -> Nat]
    BY Zenon DEF DeviceTypeOK
  <1>b. a \in Age /\ a # Gone
    BY AgeFacts
  <1>1. K \subseteq Members /\ K \in SUBSET Device /\ Members \in SUBSET Device
    BY Zenon DEF Kept, Members
  <1>2. /\ zset' = [e \in Device |-> IF e = d /\ ok THEN a ELSE IF e \in K THEN zset[e] ELSE Gone]
        /\ ttl' = IF ok THEN Expiry ELSE ttl
    BY Zenon DEF LuaEffect
  <1>a. ok <=> d \in K \/ l = 0 \/ Cardinality(K) < l
    BY Zenon DEF LuaAdmits
  <1> HIDE DEF K, ok
  <1>3. zset' \in [Device -> Age] /\ ttl' \in 0..Expiry
    <2>1. Gone \in Age
      BY AgeFacts
    <2>2. zset' \in [Device -> Age]
      BY <1>0, <1>b, <1>2, <2>1, Zenon
    <2>3. ttl' \in 0..Expiry
      BY <1>0, <1>2, AgeFacts
    <2> QED
      BY <2>2, <2>3, Zenon
  <1>4. Members' = IF ok THEN K \cup {d} ELSE K
    BY <1>0, <1>b, <1>1, <1>2, Zenon DEF Members
  <1>5. PICK m \in Node : Cardinality(Members) <= top[m]
    BY Zenon DEF SetOK
  <1>6. /\ Cardinality(K) \in Nat /\ Cardinality(Members) \in Nat
        /\ Cardinality(K) <= Cardinality(Members)
        /\ Cardinality(K \cup {d}) <= Cardinality(K) + 1 /\ Cardinality(K \cup {d}) \in Nat
    BY <1>1, Countable, Zenon
  <1>7. \E n \in Node : Cardinality(Members') <= top[n]
    <2>1. CASE ~ok \/ d \in K
      <3>1. Members' = K
        BY <1>4, <2>1, Zenon
      <3> QED
        BY <3>1, <1>0, <1>5, <1>6
    <2>2. CASE ok /\ d \notin K
      <3>1. PICK n \in Node : AsBound(l) <= top[n]
        BY Zenon DEF Given
      <3>2. Cardinality(K \cup {d}) < Unlimited
        BY <1>1, Countable, Zenon
      <3>3. /\ AsBound(l) \in Nat /\ l \in Nat /\ Unlimited \in Nat
            /\ l # 0 => AsBound(l) = l
            /\ l = 0 => AsBound(l) = Unlimited
        BY BoundFacts, Zenon
      <3>4. Cardinality(K \cup {d}) <= AsBound(l)
        BY <1>a, <1>6, <2>2, <3>2, <3>3
      <3>5. top[n] \in Nat /\ Members' = K \cup {d}
        BY <1>0, <1>4, <2>2, Zenon
      <3>6. Cardinality(Members') <= top[n]
        BY <1>6, <3>1, <3>3, <3>4, <3>5
      <3> QED
        BY <3>6, Zenon
    <2> QED
      BY <2>1, <2>2, Zenon
  <1>8. ASSUME NEW e \in Members' PROVE zset'[e] + ttl' >= Expiry
    <2>1. CASE ok
      BY SMTT(20), <1>3, <2>1, <1>2, AgeFacts DEF Members
    <2>2. CASE ~ok
      <3>1. e \in K /\ e \in Members /\ zset'[e] = zset[e] /\ ttl' = ttl
        BY <2>2, <1>1, <1>2, <1>4, Zenon
      <3> QED
        BY <3>1, Zenon DEF SetOK
    <2> QED
      BY <2>1, <2>2, Zenon
  <1> QED
    BY <1>3, <1>7, <1>8, Zenon DEF SetOK

\* What was given stays given when the largest limits only grow.
LEMMA GivenGrows ==
  ASSUME DeviceTypeOK, DeviceTypeOK', \A n \in Node : top[n] <= top'[n]
  PROVE  /\ \A l \in DeviceLimits \cup {0} : Given(l) => Given(l)'
         /\ \A l \in DeviceLimits \cup {0}, n \in Node :
               AsBound(l) <= top[n] => AsBound(l) <= top'[n]
  <1>1. top \in [Node -> Nat] /\ top' \in [Node -> Nat]
    BY Zenon DEF DeviceTypeOK
  <1>2. \A l \in DeviceLimits \cup {0} : AsBound(l) \in Nat
    BY BoundFacts, Zenon
  <1>3. ASSUME NEW l \in DeviceLimits \cup {0}, NEW n \in Node, AsBound(l) <= top[n]
        PROVE  AsBound(l) <= top'[n]
    <2>1. AsBound(l) \in Nat /\ top[n] \in Nat /\ top'[n] \in Nat /\ top[n] <= top'[n]
      BY <1>1, <1>2, Zenon
    <2> QED
      BY <2>1, <1>3
  <1> QED
    BY <1>3, Zenon DEF Given

\* set_user_limit raises the largest limit to the one it is given.
LEMMA DeviceBySetLimit ==
  ASSUME DeviceInv, NEW n \in Node, NEW l \in DeviceLimits, SetDeviceLimit(n, l)
  PROVE  DeviceInv'
  <1> USE DEF DeviceInv
  <1>1. /\ top \in [Node -> Nat] /\ userLimits \in [Node -> DeviceLimits]
        /\ userLimits' = [userLimits EXCEPT ![n] = l]
        /\ top' = [top EXCEPT ![n] = Larger(top[n], AsBound(l))]
        /\ changes' = changes + 1 /\ changes < MaxChanges /\ changes \in 0..MaxChanges
    BY Zenon DEF DeviceTypeOK, SetDeviceLimit
  <1>2. UNCHANGED <<useRedis, alive, devices, zset, ttl, at, node, dev, arg, late, faults>>
    BY Zenon DEF SetDeviceLimit, callVars
  <1>3. /\ top[n] \in Nat /\ AsBound(l) \in Nat
        /\ Larger(top[n], AsBound(l)) \in Nat
        /\ top[n] <= Larger(top[n], AsBound(l))
        /\ AsBound(l) <= Larger(top[n], AsBound(l))
    BY <1>1, BoundFacts, Zenon
  <1>4. /\ top' \in [Node -> Nat] /\ \A m \in Node : top[m] <= top'[m]
        /\ userLimits' \in [Node -> DeviceLimits] /\ changes' \in 0..MaxChanges
        /\ AsBound(l) <= top'[n]
    BY <1>1, <1>3, AgeFacts
  <1>5. DeviceTypeOK'
    BY <1>2, <1>4, Zenon DEF DeviceTypeOK
  <1>6. GivenLimits'
    <2>1. ASSUME NEW m \in Node PROVE AsBound(userLimits[m])' <= top'[m]
      BY <1>1, <1>3, <1>4, <1>5, GivenGrows, Zenon DEF GivenLimits, AsBound, Unlimited
    <2>2. ASSUME NEW c \in Call PROVE CallOK(c)'
      <3>1. arg[c] \in DeviceLimits \cup {0} /\ CallOK(c)
        BY Zenon DEF GivenLimits, DeviceTypeOK
      <3>2. at[c] \in {"locked", "relocked"} => node[c] \in Node
        BY <3>1, Zenon DEF CallOK
      <3>3. /\ at[c] \in {"locked", "relocked"} => AsBound(arg[c]) <= top'[node[c]]
            /\ at[c] = "redis" => Given(arg[c])'
        BY <1>2, <1>4, <1>5, <3>1, <3>2, GivenGrows, Zenon DEF CallOK, Given
      <3> QED
        BY <1>2, <3>1, <3>3, Zenon DEF CallOK, AsBound, Unlimited
    <2>3. ASSUME NEW s \in late PROVE Given(s[2])'
      <3>1. s[2] \in DeviceLimits \cup {0} /\ Given(s[2])
        BY Zenon DEF GivenLimits, DeviceTypeOK
      <3> QED
        BY <1>4, <1>5, <3>1, GivenGrows, Zenon
    <2> QED
      BY <1>2, <2>1, <2>2, <2>3, Zenon DEF GivenLimits
  <1>7. \A m \in Node : Cardinality(InWindow(m))' <= top'[m]
    <2> SUFFICES ASSUME NEW m \in Node PROVE Cardinality(InWindow(m))' <= top'[m]
      BY Zenon
    <2>1. InWindow(m)' = InWindow(m) /\ InWindow(m) \in SUBSET Device
      BY <1>2, Zenon DEF InWindow
    <2>2. Cardinality(InWindow(m)) \in Nat
      BY <2>1, Countable, Zenon
    <2> QED
      BY <1>1, <1>4, <2>1, <2>2
  <1>8. SetOK'
    <2>1. Members' = Members /\ Members \in SUBSET Device
      BY <1>2, Zenon DEF Members, Gone, Oldest
    <2>2. Cardinality(Members) \in Nat
      BY <2>1, Countable, Zenon
    <2>3. PICK m \in Node : Cardinality(Members) <= top[m]
      BY Zenon DEF SetOK
    <2>4. Cardinality(Members') <= top'[m]
      BY <1>1, <1>4, <2>1, <2>2, <2>3
    <2> QED
      BY <1>2, <2>1, <2>4, Zenon DEF SetOK
  <1>9. faults' = 0 /\ useRedis' => Shared'
    BY <1>2, Zenon DEF Shared
  <1> QED
    BY <1>5, <1>6, <1>7, <1>8, <1>9, Zenon

\* What a step leaves alone stays within the limits.
LEMMA DeviceFrame ==
  ASSUME DeviceInv, UNCHANGED <<userLimits, top>>
  PROVE  /\ \A n \in Node : AsBound(userLimits[n])' <= top'[n]
         /\ \A l : Given(l) => Given(l)'
         /\ UNCHANGED <<zset, ttl>> => SetOK'
         /\ UNCHANGED devices => \A n \in Node : Cardinality(InWindow(n))' <= top'[n]
         /\ \A c \in Call : at'[c] = at[c] /\ node'[c] = node[c] /\ dev'[c] = dev[c] /\ arg'[c] = arg[c]
                               => CallOK(c)'
  <1> USE DEF DeviceInv
  <1>1. \A n \in Node : AsBound(userLimits[n])' <= top'[n]
    BY Zenon DEF GivenLimits, AsBound, Unlimited
  <1>2. \A l : Given(l) => Given(l)'
    BY Zenon DEF Given
  <1>3. UNCHANGED <<zset, ttl>> => SetOK'
    BY Zenon DEF SetOK, Members, Gone, Oldest
  <1>4. UNCHANGED devices => \A n \in Node : Cardinality(InWindow(n))' <= top'[n]
    BY Zenon DEF InWindow
  <1>5. ASSUME NEW c \in Call,
               at'[c] = at[c] /\ node'[c] = node[c] /\ dev'[c] = dev[c] /\ arg'[c] = arg[c]
        PROVE  CallOK(c)'
    BY <1>5, Zenon DEF GivenLimits, CallOK, Given, AsBound, Unlimited
  <1> QED
    BY <1>1, <1>2, <1>3, <1>4, <1>5, Zenon

\* update_global_alive changes no bound.
LEMMA DeviceByAlive ==
  ASSUME DeviceInv, NEW n \in Node, NEW a \in Alive, UpdateGlobalAlive(n, a)
  PROVE  DeviceInv'
  <1> USE DEF DeviceInv
  <1>1. UNCHANGED <<useRedis, userLimits, devices, zset, ttl, at, node, dev, arg, late, faults, top>>
    BY Zenon DEF UpdateGlobalAlive, callVars
  <1>2. /\ alive \in [Node -> Alive \cup {0}] /\ alive' = [alive EXCEPT ![n] = a]
        /\ changes' = changes + 1 /\ changes < MaxChanges /\ changes \in 0..MaxChanges
    BY Zenon DEF DeviceTypeOK, UpdateGlobalAlive
  <1>3. alive' \in [Node -> Alive \cup {0}] /\ changes' \in 0..MaxChanges
    BY <1>2, AgeFacts
  <1>4. DeviceTypeOK'
    BY <1>1, <1>3, Zenon DEF DeviceTypeOK
  <1>5. GivenLimits'
    BY <1>1, DeviceFrame, Zenon DEF GivenLimits
  <1>6. faults' = 0 /\ useRedis' => Shared'
    BY <1>1, Zenon DEF Shared
  <1> QED
    BY <1>1, <1>4, <1>5, <1>6, DeviceFrame, Zenon

\* prune_expired only drops records.
LEMMA DeviceByPrune ==
  ASSUME DeviceInv, NEW n \in Node, PruneExpired(n)
  PROVE  DeviceInv'
  <1> USE DEF DeviceInv
  <1>1. UNCHANGED <<useRedis, userLimits, alive, zset, ttl, at, node, dev, arg, late, faults, changes, top>>
    BY Zenon DEF PruneExpired, callVars, bounds
  <1>2. /\ devices \in [Node -> [Device -> Age]] /\ top \in [Node -> Nat]
        /\ devices' = [devices EXCEPT ![n] = [d \in Device |->
              IF d \in InWindow(n) THEN devices[n][d] ELSE Gone]]
    BY Zenon DEF DeviceTypeOK, PruneExpired
  <1>3. Gone \in Age
    BY AgeFacts
  <1>4. /\ devices' \in [Node -> [Device -> Age]]
        /\ \A m \in Node, d \in Device : devices'[m][d] \in {devices[m][d], Gone}
    BY <1>2, <1>3, Zenon
  <1>5. DeviceTypeOK'
    BY <1>1, <1>4, Zenon DEF DeviceTypeOK
  <1>6. GivenLimits'
    BY <1>1, DeviceFrame, Zenon DEF GivenLimits
  <1>7. \A m \in Node : Cardinality(InWindow(m))' <= top'[m]
    <2> SUFFICES ASSUME NEW m \in Node PROVE Cardinality(InWindow(m))' <= top'[m]
      BY Zenon
    <2>1. /\ InWindow(m)' \in SUBSET InWindow(m)
          /\ InWindow(m) \in SUBSET Device
      <3>1. \A d \in Device : devices'[m][d] <= Window => devices[m][d] <= Window
        <4>1. Gone > Window
          BY AgeFacts
        <4>2. Gone \in Nat /\ Window \in Nat
          BY AgeFacts
        <4> QED
          BY ONLY <4>1, <4>2, <1>4, m \in Node
      <3> QED
        BY <3>1, Zenon DEF InWindow
    <2>2. /\ Cardinality(InWindow(m)) \in Nat /\ Cardinality(InWindow(m)') \in Nat
          /\ Cardinality(InWindow(m)') <= Cardinality(InWindow(m))
      BY <2>1, Countable, Zenon
    <2> QED
      BY <1>1, <1>2, <2>2
  <1>8. faults' = 0 /\ useRedis' => Shared'
    <2> SUFFICES ASSUME faults = 0, useRedis PROVE Shared'
      BY <1>1, Zenon
    <2>1. ASSUME NEW m \in Node, NEW d \in Device, devices'[m][d] < Expiry
          PROVE  zset[d] <= devices'[m][d]
      <3>0. ~(Gone < Expiry)
        BY AgeFacts
      <3>1. devices'[m][d] = devices[m][d]
        BY <1>4, <2>1, <3>0, Zenon
      <3> QED
        BY <2>1, <3>1, Zenon DEF Shared
    <2> QED
      BY <1>1, <2>1, Zenon DEF Shared
  <1> QED
    BY <1>1, <1>5, <1>6, <1>7, <1>8, DeviceFrame, Zenon

\* The call reads the limit of its node for the script.
LEMMA DeviceByCheck ==
  ASSUME DeviceInv, NEW c \in Call, NEW n \in Node, NEW d \in Device,
         CheckAndRecordAsync(c, n, d)
  PROVE  DeviceInv'
  <1> USE DEF DeviceInv
  <1>1. UNCHANGED <<useRedis, userLimits, alive, devices, zset, ttl, late, faults, changes, top>>
    BY Zenon DEF CheckAndRecordAsync, bounds
  <1>2. /\ node' = [node EXCEPT ![c] = n] /\ dev' = [dev EXCEPT ![c] = d]
        /\ useRedis => /\ at' = [at EXCEPT ![c] = "redis"]
                       /\ arg' = [arg EXCEPT ![c] = userLimits[n]]
        /\ ~useRedis => at' = [at EXCEPT ![c] = "local"] /\ arg' = arg
    BY Zenon DEF CheckAndRecordAsync
  <1>3. /\ at \in [Call -> {"idle", "redis", "local", "record", "locked", "relocked", "admitted", "refused"}]
        /\ node \in [Call -> Node \cup {None}] /\ dev \in [Call -> Device \cup {None}]
        /\ arg \in [Call -> DeviceLimits \cup {0}] /\ userLimits[n] \in DeviceLimits /\ useRedis \in BOOLEAN
    BY Zenon DEF DeviceTypeOK
  <1>4. /\ at' \in [Call -> {"idle", "redis", "local", "record", "locked", "relocked", "admitted", "refused"}]
        /\ node' \in [Call -> Node \cup {None}] /\ dev' \in [Call -> Device \cup {None}]
        /\ arg' \in [Call -> DeviceLimits \cup {0}]
    BY <1>2, <1>3, Zenon
  <1>5. /\ node'[c] = n /\ dev'[c] = d /\ at'[c] \in {"redis", "local"}
        /\ at'[c] = "redis" <=> useRedis
        /\ useRedis => arg'[c] = userLimits[n]
        /\ \A e \in Call \ {c} : at'[e] = at[e] /\ node'[e] = node[e] /\ dev'[e] = dev[e] /\ arg'[e] = arg[e]
    BY <1>2, <1>3, Zenon
  <1>6. DeviceTypeOK'
    BY <1>1, <1>4, Zenon DEF DeviceTypeOK
  <1>7. GivenLimits'
    <2>1. CallOK(c)'
      <3>1. useRedis => Given(arg[c])'
        BY <1>1, <1>5, Zenon DEF GivenLimits, Given, AsBound, Unlimited
      <3> QED
        BY <1>5, <3>1, Zenon DEF CallOK
    <2>2. \A e \in Call : CallOK(e)'
      BY <1>1, <1>5, <2>1, DeviceFrame, Zenon
    <2> QED
      BY <1>1, <2>2, DeviceFrame, Zenon DEF GivenLimits
  <1>8. faults' = 0 /\ useRedis' => Shared'
    BY <1>1, <1>5, Zenon DEF Shared
  <1> QED
    BY <1>1, <1>6, <1>7, <1>8, DeviceFrame, Zenon

\* The reply of the script: the set stays within the limits, and the device
\* that was admitted is in it with the newest score.
LEMMA DeviceByReply ==
  ASSUME DeviceInv, NEW c \in Call, RedisReply(c)
  PROVE  DeviceInv'
  <1> USE DEF DeviceInv
  <1> DEFINE ok == LuaAdmits(dev[c], arg[c], 0)
  <1>1. /\ UNCHANGED <<useRedis, userLimits, alive, devices, node, dev, arg, late, faults, changes, top>>
        /\ at[c] = "redis" /\ LuaEffect(dev[c], arg[c], 0)
        /\ at' = [at EXCEPT ![c] = IF ok THEN "record" ELSE "refused"]
    BY Zenon DEF RedisReply, bounds
  <1>2. /\ at \in [Call -> {"idle", "redis", "local", "record", "locked", "relocked", "admitted", "refused"}]
        /\ zset \in [Device -> Age] /\ arg[c] \in DeviceLimits \cup {0}
        /\ devices \in [Node -> [Device -> Age]]
    BY Zenon DEF DeviceTypeOK
  <1>3. dev[c] \in Device /\ Given(arg[c])
    BY <1>1, Zenon DEF GivenLimits, CallOK
  <1>4. zset' \in [Device -> Age] /\ ttl' \in 0..Expiry /\ SetOK'
    <2>1. 0 \in 0..MaxLate
      BY AgeFacts
    <2> QED
      BY <1>1, <1>2, <1>3, <2>1, LuaKeeps, Zenon
  <1>5. zset' = [e \in Device |-> IF e = dev[c] /\ ok THEN 0
                                  ELSE IF e \in Kept(0) THEN zset[e] ELSE Gone]
    BY <1>1, Zenon DEF LuaEffect
  <1> HIDE DEF ok
  <1>6. /\ at' \in [Call -> {"idle", "redis", "local", "record", "locked", "relocked", "admitted", "refused"}]
        /\ at'[c] = IF ok THEN "record" ELSE "refused"
        /\ \A e \in Call \ {c} : at'[e] = at[e]
    BY <1>1, <1>2, Zenon
  <1>7. DeviceTypeOK'
    BY <1>1, <1>4, <1>6, Zenon DEF DeviceTypeOK
  <1>8. GivenLimits'
    <2>1. CallOK(c)'
      BY <1>1, <1>6, Zenon DEF GivenLimits, CallOK
    <2>2. \A e \in Call : CallOK(e)'
      BY <1>1, <1>6, <2>1, DeviceFrame, Zenon
    <2> QED
      BY <1>1, <2>2, DeviceFrame, Zenon DEF GivenLimits
  <1>9. faults' = 0 /\ useRedis' => Shared'
    <2> SUFFICES ASSUME faults = 0, useRedis PROVE Shared'
      BY <1>1, Zenon
    <2>1. Shared
      BY Zenon
    <2>2. ASSUME NEW e \in Device, zset[e] < Expiry
          PROVE  zset'[e] = IF e = dev[c] /\ ok THEN 0 ELSE zset[e]
      <3>0. zset[e] \in Nat /\ Expiry \in Nat /\ Gone \in Nat /\ Gone > Expiry
        BY <1>2, AgeFacts
      <3>1. zset[e] # Gone /\ zset[e] - 0 = zset[e]
        BY <2>2, <3>0
      <3> QED
        BY <1>5, <2>2, <3>1, Zenon DEF Kept
    <2>3. ASSUME NEW e \in Call, at'[e] \in {"record", "relocked"}, Expiry > 0 PROVE zset'[dev[e]] = 0
      <3>1. CASE e = c
        BY <1>3, <1>5, <1>6, <2>3, <3>1, Zenon
      <3>2. CASE e # c
        <4>1. zset[dev[e]] = 0 /\ dev[e] \in Device
          BY <1>6, <2>1, <2>3, <3>2, Zenon DEF Shared, GivenLimits, CallOK
        <4> QED
          BY <2>2, <2>3, <4>1, AgeFacts, Zenon
      <3> QED
        BY <3>1, <3>2, Zenon
    <2>4. ASSUME NEW n \in Node, NEW e \in Device, devices[n][e] < Expiry
          PROVE  zset'[e] <= devices[n][e]
      <3>1. zset[e] <= devices[n][e]
        BY <2>1, <2>4, Zenon DEF Shared
      <3>2. zset[e] \in Nat /\ devices[n][e] \in Nat /\ Expiry \in Nat
        BY <1>2, AgeFacts
      <3>3. zset'[e] = IF e = dev[c] /\ ok THEN 0 ELSE zset[e]
        BY <2>2, <2>4, <3>1, <3>2
      <3> QED
        BY <3>1, <3>2, <3>3
    <2>5. \A e \in Call : at'[e] \notin {"local", "locked"}
      BY <1>6, <2>1, Zenon DEF Shared
    <2> QED
      BY <1>1, <2>1, <2>3, <2>4, <2>5, Zenon DEF Shared
  <1> QED
    BY <1>1, <1>4, <1>7, <1>8, <1>9, DeviceFrame, Zenon

\* The script fails or is late: the call goes on with the node's own records.
LEMMA DeviceByFail ==
  ASSUME DeviceInv, NEW c \in Call, RedisFail(c)
  PROVE  DeviceInv'
  <1> USE DEF DeviceInv
  <1>1. /\ UNCHANGED <<useRedis, userLimits, alive, devices, node, dev, arg, changes, top>>
        /\ at[c] = "redis" /\ at' = [at EXCEPT ![c] = "local"]
        /\ faults < MaxFaults /\ faults' = faults + 1
        /\ \/ LuaEffect(dev[c], arg[c], 0) /\ late' = late
           \/ late' = late \cup {<<dev[c], arg[c], 0>>} /\ UNCHANGED <<zset, ttl>>
           \/ UNCHANGED <<zset, ttl, late>>
    BY Zenon DEF RedisFail, bounds
  <1>2. /\ at \in [Call -> {"idle", "redis", "local", "record", "locked", "relocked", "admitted", "refused"}]
        /\ arg[c] \in DeviceLimits \cup {0} /\ faults \in 0..MaxFaults
        /\ late \subseteq Device \X (DeviceLimits \cup {0}) \X (0..MaxLate)
        /\ zset \in [Device -> Age] /\ ttl \in 0..Expiry
    BY Zenon DEF DeviceTypeOK
  <1>3. dev[c] \in Device /\ Given(arg[c])
    BY <1>1, Zenon DEF GivenLimits, CallOK
  <1>a. 0 \in 0..MaxLate
    BY AgeFacts
  <1>4. zset' \in [Device -> Age] /\ ttl' \in 0..Expiry /\ SetOK'
    <2>1. CASE LuaEffect(dev[c], arg[c], 0)
      BY <1>1, <1>2, <1>3, <1>a, <2>1, LuaKeeps, Zenon
    <2>2. CASE UNCHANGED <<zset, ttl>>
      BY <1>1, <1>2, <2>2, DeviceFrame, Zenon
    <2> QED
      BY <1>1, <2>1, <2>2, Zenon
  <1>5. /\ late' \subseteq Device \X (DeviceLimits \cup {0}) \X (0..MaxLate)
        /\ \A s \in late' : s \in late \/ s = <<dev[c], arg[c], 0>>
    <2>1. <<dev[c], arg[c], 0>> \in Device \X (DeviceLimits \cup {0}) \X (0..MaxLate)
      BY <1>2, <1>3, <1>a, Zenon
    <2>2. late' = late \/ late' = late \cup {<<dev[c], arg[c], 0>>}
      BY <1>1, Zenon
    <2> QED
      BY <2>1, <2>2, <1>2, Zenon
  <1>b. faults' \in 0..MaxFaults /\ faults' # 0
    <2>1. MaxFaults \in Nat
      BY AgeFacts, Zenon
    <2> QED
      BY <1>1, <1>2, <2>1
  <1>6. /\ at' \in [Call -> {"idle", "redis", "local", "record", "locked", "relocked", "admitted", "refused"}]
        /\ at'[c] = "local" /\ \A e \in Call \ {c} : at'[e] = at[e]
    BY <1>1, <1>2, Zenon
  <1>7. DeviceTypeOK'
    BY <1>1, <1>4, <1>5, <1>6, <1>b, Zenon DEF DeviceTypeOK
  <1>8. GivenLimits'
    <2>1. CallOK(c)'
      BY <1>1, <1>6, Zenon DEF GivenLimits, CallOK
    <2>2. \A e \in Call : CallOK(e)'
      BY <1>1, <1>6, <2>1, DeviceFrame, Zenon
    <2>3. ASSUME NEW s \in late' PROVE Given(s[2])'
      <3>1. Given(s[2])
        BY <1>3, <1>5 DEF GivenLimits
      <3> QED
        BY <1>1, <3>1, DeviceFrame, Zenon
    <2> QED
      BY <1>1, <2>2, <2>3, DeviceFrame, Zenon DEF GivenLimits
  <1> QED
    BY <1>1, <1>4, <1>b, <1>7, <1>8, DeviceFrame, Zenon

\* A script that Redis runs after its call gave up.
LEMMA DeviceByLate ==
  ASSUME DeviceInv, NEW s \in late, LateScript(s)
  PROVE  DeviceInv'
  <1> USE DEF DeviceInv
  <1>1. /\ UNCHANGED <<useRedis, userLimits, alive, devices, at, node, dev, arg, faults, changes, top>>
        /\ late' = late \ {s} /\ LuaEffect(s[1], s[2], s[3])
    BY Zenon DEF LateScript, bounds, callVars
  <1>2. s[1] \in Device /\ s[2] \in DeviceLimits \cup {0} /\ s[3] \in 0..MaxLate /\ Given(s[2])
    BY Zenon DEF DeviceTypeOK, GivenLimits
  <1>3. zset' \in [Device -> Age] /\ ttl' \in 0..Expiry /\ SetOK'
    BY <1>1, <1>2, LuaKeeps, Zenon
  <1>4. DeviceTypeOK'
    BY <1>1, <1>3, Zenon DEF DeviceTypeOK
  <1>5. GivenLimits'
    BY <1>1, DeviceFrame, Zenon DEF GivenLimits
  <1>6. ~(faults' = 0 /\ useRedis')
    BY <1>1, Zenon DEF Shared
  <1> QED
    BY <1>1, <1>3, <1>4, <1>5, <1>6, DeviceFrame, Zenon

\* check_and_record reads the limit of its node.
LEMMA DeviceByReadLimit ==
  ASSUME DeviceInv, NEW c \in Call, ReadDeviceLimit(c)
  PROVE  DeviceInv'
  <1> USE DEF DeviceInv
  <1>1. /\ UNCHANGED <<useRedis, userLimits, alive, devices, zset, ttl, node, dev, late, faults, changes, top>>
        /\ at[c] \in {"local", "record"} /\ arg' = [arg EXCEPT ![c] = userLimits[node[c]]]
        /\ at' = [at EXCEPT ![c] = IF at[c] = "local" THEN "locked" ELSE "relocked"]
    BY Zenon DEF ReadDeviceLimit, bounds
  <1>2. /\ at \in [Call -> {"idle", "redis", "local", "record", "locked", "relocked", "admitted", "refused"}]
        /\ arg \in [Call -> DeviceLimits \cup {0}] /\ userLimits \in [Node -> DeviceLimits]
    BY Zenon DEF DeviceTypeOK
  <1>3. node[c] \in Node /\ dev[c] \in Device
    BY <1>1, Zenon DEF GivenLimits, CallOK
  <1>4. /\ at' \in [Call -> {"idle", "redis", "local", "record", "locked", "relocked", "admitted", "refused"}]
        /\ arg' \in [Call -> DeviceLimits \cup {0}] /\ arg'[c] = userLimits[node[c]]
        /\ at'[c] = IF at[c] = "local" THEN "locked" ELSE "relocked"
        /\ \A e \in Call \ {c} : at'[e] = at[e] /\ arg'[e] = arg[e]
    BY <1>1, <1>2, <1>3, Zenon
  <1>5. DeviceTypeOK'
    BY <1>1, <1>4, Zenon DEF DeviceTypeOK
  <1>6. GivenLimits'
    <2>1. CallOK(c)'
      BY <1>1, <1>3, <1>4, Zenon DEF GivenLimits, CallOK, AsBound, Unlimited
    <2>2. \A e \in Call : CallOK(e)'
      BY <1>1, <1>4, <2>1, DeviceFrame, Zenon
    <2> QED
      BY <1>1, <2>2, DeviceFrame, Zenon DEF GivenLimits
  <1>7. faults' = 0 /\ useRedis' => Shared'
    <2> SUFFICES ASSUME faults = 0, useRedis PROVE Shared'
      BY <1>1, Zenon
    <2>1. Shared
      BY Zenon
    <2>2. at[c] = "record"
      BY <1>1, <2>1, Zenon DEF Shared
    <2>3. /\ \A e \in Call : at'[e] \notin {"local", "locked"}
          /\ \A e \in Call : at'[e] \in {"record", "relocked"} => at[e] \in {"record", "relocked"}
      BY <1>4, <2>1, <2>2, Zenon DEF Shared
    <2> QED
      BY <1>1, <2>1, <2>3, Zenon DEF Shared
  <1> QED
    BY <1>1, <1>5, <1>6, <1>7, DeviceFrame, Zenon

\* The locked part of check_and_record counts the devices in the window before
\* it adds one.
LEMMA DeviceByRecord ==
  ASSUME DeviceInv, NEW c \in Call, Record(c)
  PROVE  DeviceInv'
  <1> USE DEF DeviceInv
  <1> DEFINE n == node[c]
  <1> DEFINE W == InWindow(n)
  <1> DEFINE no == Refuses(c)
  <1>1. /\ UNCHANGED <<useRedis, userLimits, alive, zset, ttl, node, dev, arg, late, faults, changes, top>>
        /\ at[c] \in {"locked", "relocked"}
        /\ at' = [at EXCEPT ![c] = IF at[c] = "relocked" \/ ~no THEN "admitted" ELSE "refused"]
        /\ devices' = [devices EXCEPT ![n] = [d \in Device |->
              IF d = dev[c] /\ ~no THEN 0 ELSE IF d \in W THEN devices[n][d] ELSE Gone]]
    BY Zenon DEF Record, bounds
  <1>2. /\ at \in [Call -> {"idle", "redis", "local", "record", "locked", "relocked", "admitted", "refused"}]
        /\ devices \in [Node -> [Device -> Age]] /\ zset \in [Device -> Age]
        /\ top \in [Node -> Nat] /\ alive \in [Node -> Alive \cup {0}] /\ arg[c] \in DeviceLimits \cup {0}
    BY Zenon DEF DeviceTypeOK
  <1>3. n \in Node /\ dev[c] \in Device /\ AsBound(arg[c]) <= top[n]
    BY <1>1, Zenon DEF GivenLimits, CallOK
  <1>4. no <=> arg[c] > 0 /\ dev[c] \notin W /\ Cardinality(W) + alive[n] >= arg[c]
    BY Zenon DEF Refuses
  <1>a. W \in SUBSET Device /\ Cardinality(W) <= top[n]
    BY <1>3, Zenon DEF InWindow
  <1>b. \A d \in Device : d \in W <=> devices[n][d] <= Window
    BY Zenon DEF InWindow
  <1> HIDE DEF no, W, n
  <1>5. 0 \in Age /\ Gone \in Age
    BY AgeFacts
  <1>6. /\ devices' \in [Node -> [Device -> Age]]
        /\ \A m \in Node \ {n} : devices'[m] = devices[m]
        /\ \A d \in Device : devices'[n][d] =
              IF d = dev[c] /\ ~no THEN 0 ELSE IF d \in W THEN devices[n][d] ELSE Gone
    BY <1>1, <1>2, <1>3, <1>5, Zenon
  <1>7. /\ at' \in [Call -> {"idle", "redis", "local", "record", "locked", "relocked", "admitted", "refused"}]
        /\ at'[c] \in {"admitted", "refused"} /\ \A e \in Call \ {c} : at'[e] = at[e]
    BY <1>1, <1>2, Zenon
  <1>8. DeviceTypeOK'
    BY <1>1, <1>6, <1>7, Zenon DEF DeviceTypeOK
  <1>9. GivenLimits'
    <2>1. CallOK(c)'
      BY <1>1, <1>7, Zenon DEF GivenLimits, CallOK
    <2>2. \A e \in Call : CallOK(e)'
      BY <1>1, <1>7, <2>1, DeviceFrame, Zenon
    <2> QED
      BY <1>1, <2>2, DeviceFrame, Zenon DEF GivenLimits
  <1>10. Cardinality(InWindow(n)') <= top[n]
    <2>1. InWindow(n)' = IF no THEN W ELSE W \cup {dev[c]}
      <3>1. \A d \in Device : devices'[n][d] <= Window <=> d \in W \/ (d = dev[c] /\ ~no)
        <4>1. 0 <= Window /\ ~(Gone <= Window)
          BY AgeFacts
        <4> QED
          BY <1>6, <1>b, <4>1, Zenon
      <3>2. InWindow(n)' = {d \in Device : devices'[n][d] <= Window}
        BY <1>1, Zenon DEF InWindow, n
      <3> QED
        BY <1>3, <1>a, <3>1, <3>2, Zenon
    <2>2. /\ Cardinality(W) \in Nat /\ Cardinality(W \cup {dev[c]}) \in Nat
          /\ Cardinality(W \cup {dev[c]}) <= Cardinality(W) + 1
      BY <1>3, <1>a, Countable, Zenon
    <2>3. CASE no \/ dev[c] \in W
      <3>1. InWindow(n)' = W
        BY <2>1, <2>3, Zenon
      <3> QED
        BY <3>1, <1>a, Zenon
    <2>4. CASE ~no /\ dev[c] \notin W
      <3>1. /\ AsBound(arg[c]) \in Nat /\ arg[c] \in Nat /\ Unlimited \in Nat
            /\ arg[c] # 0 => AsBound(arg[c]) = arg[c]
            /\ arg[c] = 0 => AsBound(arg[c]) = Unlimited
        BY <1>2, BoundFacts, Zenon
      <3>2. Cardinality(W \cup {dev[c]}) < Unlimited
        <4>1. W \cup {dev[c]} \in SUBSET Device
          BY <1>3, <1>a, Zenon
        <4> QED
          BY <4>1, Countable, Zenon
      <3>3. alive[n] \in Nat /\ top[n] \in Nat
        <4>1. Alive \cup {0} \subseteq Nat
          BY DeviceAssumption
        <4> QED
          BY <1>2, <1>3, <4>1, Zenon
      <3>4. Cardinality(W \cup {dev[c]}) <= AsBound(arg[c])
        BY <1>4, <2>2, <2>4, <3>1, <3>2, <3>3
      <3>5. Cardinality(W \cup {dev[c]}) <= top[n]
        BY <1>3, <2>2, <3>1, <3>3, <3>4
      <3> QED
        BY <2>1, <2>4, <3>5, Zenon
    <2> QED
      BY <2>3, <2>4, Zenon
  <1>11. \A m \in Node : Cardinality(InWindow(m))' <= top'[m]
    <2> SUFFICES ASSUME NEW m \in Node PROVE Cardinality(InWindow(m))' <= top'[m]
      BY Zenon
    <2>1. CASE m = n
      <3>1. InWindow(m)' = InWindow(n)'
        BY <1>1, <2>1, Zenon DEF n, InWindow
      <3> QED
        BY <1>1, <1>10, <2>1, <3>1, Zenon
    <2>2. CASE m # n
      <3>1. InWindow(m)' = InWindow(m)
        BY <1>6, <2>2, Zenon DEF InWindow
      <3> QED
        BY <1>1, <3>1, Zenon
    <2> QED
      BY <2>1, <2>2, Zenon
  <1>12. faults' = 0 /\ useRedis' => Shared'
    <2> SUFFICES ASSUME faults = 0, useRedis PROVE Shared'
      BY <1>1, Zenon
    <2>1. Shared
      BY Zenon
    <2>2. at[c] = "relocked"
      BY <1>1, <2>1, Zenon DEF Shared
    <2>3. ASSUME NEW m \in Node, NEW d \in Device, devices'[m][d] < Expiry
          PROVE  zset[d] <= devices'[m][d]
      <3>1. CASE devices'[m][d] = devices[m][d]
        BY <2>1, <2>3, <3>1, Zenon DEF Shared
      <3>2. CASE devices'[m][d] # devices[m][d]
        <4>1. ~(Gone < Expiry)
          BY AgeFacts
        <4>2. m = n /\ d = dev[c] /\ devices'[m][d] = 0
          BY <1>6, <2>3, <3>2, <4>1, Zenon
        <4>3. zset[d] = 0
          BY SMTT(20), <2>1, <2>2, <2>3, <4>2, AgeFacts DEF Shared
        <4> QED
          BY <4>2, <4>3
      <3> QED
        BY <3>1, <3>2, Zenon
    <2>4. /\ \A e \in Call : at'[e] \notin {"local", "locked"}
          /\ \A e \in Call : at'[e] \in {"record", "relocked"} => at[e] \in {"record", "relocked"}
      BY <1>7, <2>1, Zenon DEF Shared
    <2> QED
      BY <1>1, <2>1, <2>3, <2>4, Zenon DEF Shared
  <1> QED
    BY <1>1, <1>8, <1>9, <1>11, <1>12, DeviceFrame, Zenon

\* The call returns.
LEMMA DeviceByReturn ==
  ASSUME DeviceInv, NEW c \in Call, Return(c)
  PROVE  DeviceInv'
  <1> USE DEF DeviceInv
  <1>1. /\ UNCHANGED <<useRedis, userLimits, alive, devices, zset, ttl, late, faults, changes, top>>
        /\ at' = [at EXCEPT ![c] = "idle"] /\ node' = [node EXCEPT ![c] = None]
        /\ dev' = [dev EXCEPT ![c] = None] /\ arg' = [arg EXCEPT ![c] = 0]
    BY Zenon DEF Return, bounds
  <1>2. /\ at \in [Call -> {"idle", "redis", "local", "record", "locked", "relocked", "admitted", "refused"}]
        /\ node \in [Call -> Node \cup {None}] /\ dev \in [Call -> Device \cup {None}]
        /\ arg \in [Call -> DeviceLimits \cup {0}]
    BY Zenon DEF DeviceTypeOK
  <1>3. /\ at' \in [Call -> {"idle", "redis", "local", "record", "locked", "relocked", "admitted", "refused"}]
        /\ node' \in [Call -> Node \cup {None}] /\ dev' \in [Call -> Device \cup {None}]
        /\ arg' \in [Call -> DeviceLimits \cup {0}] /\ at'[c] = "idle"
        /\ \A e \in Call \ {c} : at'[e] = at[e] /\ node'[e] = node[e] /\ dev'[e] = dev[e] /\ arg'[e] = arg[e]
    BY <1>1, <1>2, Zenon
  <1>4. DeviceTypeOK'
    BY <1>1, <1>3, Zenon DEF DeviceTypeOK
  <1>5. GivenLimits'
    <2>1. CallOK(c)'
      BY <1>3, Zenon DEF CallOK
    <2>2. \A e \in Call : CallOK(e)'
      BY <1>1, <1>3, <2>1, DeviceFrame, Zenon
    <2> QED
      BY <1>1, <2>2, DeviceFrame, Zenon DEF GivenLimits
  <1>6. faults' = 0 /\ useRedis' => Shared'
    BY <1>1, <1>3, Zenon DEF Shared
  <1> QED
    BY <1>1, <1>4, <1>5, <1>6, DeviceFrame, Zenon

\* A second passes: records and scores age alike, and the key expires only
\* with its last member.
LEMMA DeviceByTick ==
  ASSUME DeviceInv, Tick
  PROVE  DeviceInv'
  <1> USE DEF DeviceInv
  <1>1. /\ UNCHANGED <<useRedis, userLimits, alive, at, node, dev, arg, faults, changes, top>>
        /\ \A c \in Call : at[c] = "idle"
        /\ \A s \in late : s[3] < MaxLate
        /\ devices' = [n \in Node |-> [d \in Device |-> Older(devices[n][d])]]
        /\ zset' = [d \in Device |-> IF ttl <= 1 THEN Gone ELSE Older(zset[d])]
        /\ ttl' = IF ttl = 0 THEN 0 ELSE ttl - 1
        /\ late' = {<<s[1], s[2], s[3] + 1>> : s \in late}
    BY Zenon DEF Tick, bounds, callVars
  <1>2. /\ devices \in [Node -> [Device -> Age]] /\ zset \in [Device -> Age]
        /\ ttl \in 0..Expiry /\ top \in [Node -> Nat]
        /\ late \subseteq Device \X (DeviceLimits \cup {0}) \X (0..MaxLate)
    BY Zenon DEF DeviceTypeOK
  <1>3. /\ Gone \in Age /\ Gone \in Nat /\ Oldest \in Nat
        /\ Expiry \in Nat /\ Window \in Nat /\ MaxLate \in Nat /\ Age = 0..Gone
        /\ Gone > Expiry /\ Gone > Window /\ Oldest >= Expiry
    BY AgeFacts
  <1>4. \A a \in Age :
           /\ Older(a) \in Age /\ a <= Older(a)
           /\ a < Oldest => Older(a) = a + 1
           /\ Older(a) = Gone <=> a = Gone
    BY AgeFacts, Zenon
  <1>5. /\ devices' \in [Node -> [Device -> Age]] /\ zset' \in [Device -> Age]
        /\ \A n \in Node, d \in Device : devices'[n][d] = Older(devices[n][d])
        /\ \A d \in Device : zset'[d] = IF ttl <= 1 THEN Gone ELSE Older(zset[d])
    BY <1>1, <1>2, <1>3, <1>4, SMTT(30)
  <1>6. ttl' \in 0..Expiry
    BY <1>1, <1>2, <1>3
  <1>7. ASSUME NEW s \in late'
        PROVE  /\ s \in Device \X (DeviceLimits \cup {0}) \X (0..MaxLate)
               /\ \E r \in late : s[2] = r[2]
    <2>1. PICK r \in late : s = <<r[1], r[2], r[3] + 1>>
      BY <1>1, <1>7, Zenon
    <2>2. r[1] \in Device /\ r[2] \in DeviceLimits \cup {0} /\ r[3] \in 0..MaxLate /\ r[3] < MaxLate
      BY <1>1, <1>2, Zenon
    <2>3. r[3] + 1 \in 0..MaxLate
      BY <1>3, <2>2
    <2> QED
      BY <2>1, <2>2, <2>3, Zenon
  <1>8. DeviceTypeOK'
    <2>1. late' \subseteq Device \X (DeviceLimits \cup {0}) \X (0..MaxLate)
      BY <1>7, Zenon
    <2> QED
      BY <1>1, <1>5, <1>6, <2>1, Zenon DEF DeviceTypeOK
  <1>9. GivenLimits'
    <2>1. ASSUME NEW s \in late' PROVE Given(s[2])'
      <3>1. Given(s[2])
        BY <1>7, Zenon DEF GivenLimits
      <3> QED
        BY <1>1, <3>1, DeviceFrame, Zenon
    <2> QED
      BY <1>1, <2>1, DeviceFrame, Zenon DEF GivenLimits
  <1>10. \A n \in Node : Cardinality(InWindow(n))' <= top'[n]
    <2> SUFFICES ASSUME NEW n \in Node PROVE Cardinality(InWindow(n))' <= top'[n]
      BY Zenon
    <2>1. ASSUME NEW d \in Device, devices'[n][d] <= Window PROVE devices[n][d] <= Window
      <3>1. devices[n][d] \in Age /\ devices[n][d] <= devices'[n][d]
        BY <1>2, <1>4, <1>5, Zenon
      <3>2. devices'[n][d] \in Age
        BY <1>5, Zenon
      <3> QED
        BY <1>3, <2>1, <3>1, <3>2
    <2>2. /\ InWindow(n)' \in SUBSET InWindow(n)
          /\ InWindow(n) \in SUBSET Device
      BY <2>1, Zenon DEF InWindow
    <2>3. /\ Cardinality(InWindow(n)) \in Nat /\ Cardinality(InWindow(n)') \in Nat
          /\ Cardinality(InWindow(n)') <= Cardinality(InWindow(n))
      BY <2>2, Countable, Zenon
    <2> QED
      BY <1>1, <1>2, <2>3
  <1>11. SetOK'
    <2>1. Members' = {d \in Device : zset'[d] # Gone}
      BY Zenon DEF Members, Gone, Oldest
    <2>2. Members' \in SUBSET Members /\ Members \in SUBSET Device /\ (Members' # {} => ttl > 1)
      BY <1>2, <1>4, <1>5, <2>1 DEF Members
    <2>3. /\ Cardinality(Members) \in Nat /\ Cardinality(Members') \in Nat
          /\ Cardinality(Members') <= Cardinality(Members)
      BY <2>2, Countable, Zenon
    <2>4. PICK m \in Node : Cardinality(Members) <= top[m]
      BY Zenon DEF SetOK
    <2>5. Cardinality(Members') <= top'[m]
      BY <1>1, <1>2, <2>3, <2>4
    <2>6. ASSUME NEW d \in Members' PROVE zset'[d] + ttl' >= Expiry
      <3>1. /\ d \in Members /\ d \in Device /\ ttl > 1 /\ zset'[d] = Older(zset[d])
            /\ zset[d] \in Age /\ ttl' = ttl - 1
        BY <1>1, <1>2, <1>5, <2>2
      <3>2. zset[d] + ttl >= Expiry
        BY <3>1, Zenon DEF SetOK
      <3>3. CASE zset[d] < Oldest
        BY SMTT(20), <1>2, <1>3, <1>4, <3>1, <3>2, <3>3
      <3>4. CASE ~(zset[d] < Oldest)
        BY <1>2, <1>3, <1>4, <3>1, <3>4, SMTT(30)
      <3> QED
        BY <3>3, <3>4, Zenon
    <2> QED
      BY <2>5, <2>6, Zenon DEF SetOK
  <1>12. faults' = 0 /\ useRedis' => Shared'
    <2> SUFFICES ASSUME faults = 0, useRedis PROVE Shared'
      BY <1>1, Zenon
    <2>1. Shared
      BY Zenon
    <2>2. ASSUME NEW n \in Node, NEW d \in Device, devices'[n][d] < Expiry
          PROVE  zset'[d] <= devices'[n][d]
      <3>1. devices[n][d] \in Age /\ zset[d] \in Age /\ devices'[n][d] = Older(devices[n][d])
        BY <1>2, <1>5, Zenon
      <3>2. devices[n][d] < Oldest
        BY <1>3, <1>4, <2>2, <3>1, SMTT(30)
      <3>3. devices'[n][d] = devices[n][d] + 1
        BY <1>4, <3>1, <3>2, Zenon
      <3>4. devices[n][d] < Expiry
        BY <1>3, <2>2, <3>1, <3>3
      <3>5. zset[d] <= devices[n][d]
        BY <2>1, <3>4, Zenon DEF Shared
      <3>6. zset[d] # Gone /\ zset[d] < Oldest
        BY <1>3, <3>1, <3>2, <3>4, <3>5
      <3>7. zset[d] + ttl >= Expiry
        BY <3>6, Zenon DEF SetOK, Members
      <3>8. ttl > 1
        BY <1>2, <1>3, <2>2, <3>1, <3>3, <3>5, <3>7
      <3>9. zset'[d] = zset[d] + 1
        BY <1>2, <1>4, <1>5, <3>1, <3>6, <3>8
      <3> QED
        BY <1>3, <3>1, <3>3, <3>5, <3>9
    <2>3. late' = {}
      BY <1>1, <2>1, Zenon DEF Shared
    <2> QED
      BY <1>1, <2>2, <2>3, Zenon DEF Shared
  <1> QED
    BY <1>8, <1>9, <1>10, <1>11, <1>12, Zenon

\* The limiter starts within its limits.
LEMMA DeviceStart == DeviceInit => DeviceInv
  <1> SUFFICES ASSUME DeviceInit PROVE DeviceInv
    BY Zenon
  <1>1. /\ useRedis \in BOOLEAN /\ userLimits \in [Node -> DeviceLimits \ {0}]
        /\ alive = [n \in Node |-> 0] /\ devices = [n \in Node |-> [d \in Device |-> Gone]]
        /\ zset = [d \in Device |-> Gone] /\ ttl = 0
        /\ at = [c \in Call |-> "idle"] /\ node = [c \in Call |-> None]
        /\ dev = [c \in Call |-> None] /\ arg = [c \in Call |-> 0]
        /\ late = {} /\ faults = 0 /\ changes = 0 /\ top = [n \in Node |-> userLimits[n]]
    BY Zenon DEF DeviceInit
  <1>2. /\ Gone \in Age /\ Gone > Window /\ ~(Gone < Expiry)
        /\ 0 \in 0..Expiry /\ 0 \in 0..MaxFaults /\ 0 \in 0..MaxChanges
    BY AgeFacts
  <1>3. /\ DeviceLimits \subseteq Nat
        /\ \A l \in DeviceLimits \ {0} : AsBound(l) = l /\ l \in Nat
    BY DeviceAssumption, BoundFacts, Zenon
  <1>4. top \in [Node -> Nat] /\ \A n \in Node : top[n] = userLimits[n] /\ userLimits[n] \in DeviceLimits \ {0}
    BY <1>1, <1>3, Zenon
  <1>5. DeviceTypeOK
    BY <1>1, <1>2, <1>4, Zenon DEF DeviceTypeOK
  <1>6. GivenLimits
    <2>1. ASSUME NEW n \in Node PROVE AsBound(userLimits[n]) <= top[n]
      BY <1>3, <1>4
    <2> QED
      BY <1>1, <2>1, Zenon DEF GivenLimits, CallOK
  <1>7. Members = {} /\ \A n \in Node : InWindow(n) = {}
    BY <1>1, <1>2, AgeFacts DEF Members, InWindow
  <1>8. Cardinality({}) = 0
    BY FS_EmptySet, Zenon
  <1>9. SetOK
    <2>1. PICK n \in Node : TRUE
      BY DeviceAssumption, Zenon
    <2>2. Cardinality(Members) <= top[n]
      BY <1>4, <1>7, <1>8
    <2> QED
      BY <1>7, <2>2, Zenon DEF SetOK
  <1>10. \A n \in Node : Cardinality(InWindow(n)) <= top[n]
    BY <1>4, <1>7, <1>8
  <1>11. Shared
    BY <1>1, <1>2, Zenon DEF Shared
  <1> QED
    BY <1>5, <1>6, <1>9, <1>10, <1>11, Zenon DEF DeviceInv

\* DeviceInv says what the device limit means.
LEMMA DeviceMeaning == DeviceInv => DevicesWithinLimit
  <1> SUFFICES ASSUME DeviceInv PROVE DevicesWithinLimit
    BY Zenon
  <1>1. LocalWithinLimit
    BY Zenon DEF DeviceInv, LocalWithinLimit
  <1>2. SharedWithinLimit
    <2>1. PICK n \in Node : Cardinality(Members) <= top[n]
      BY Zenon DEF DeviceInv, SetOK
    <2>2. Kept(0) \in SUBSET Members /\ Members \in SUBSET Device /\ top[n] \in Nat
      BY Zenon DEF Kept, Members, DeviceInv, DeviceTypeOK
    <2>3. /\ Cardinality(Kept(0)) <= Cardinality(Members)
          /\ Cardinality(Members) \in Nat /\ Cardinality(Kept(0)) \in Nat
      BY <2>2, Countable, Zenon
    <2>4. Cardinality(Kept(0)) <= top[n]
      BY <2>1, <2>2, <2>3
    <2> QED
      BY <2>4, Zenon DEF SharedWithinLimit
  <1>3. SharedCoversLocal
    BY Zenon DEF DeviceInv, Shared, SharedCoversLocal
  <1> QED
    BY <1>1, <1>2, <1>3, Zenon DEF DevicesWithinLimit, DeviceInv

\* The device limit holds for any number of nodes, devices and concurrent
\* calls: on a node never more devices in the window than its largest limit,
\* in the shared set never more than the largest limit of any node, late and
\* repeated scripts included, and while Redis answers the shared set covers
\* what every node has recorded.
THEOREM DevicesKeptWithinLimit == DeviceSpec => []DevicesWithinLimit
  <1>1. DeviceInit => DeviceInv
    BY DeviceStart, Zenon
  <1>2. DeviceInv /\ [DeviceNext]_deviceVars => DeviceInv'
    <2> SUFFICES ASSUME DeviceInv, [DeviceNext]_deviceVars PROVE DeviceInv'
      BY Zenon
    <2>1. CASE DeviceNext
      BY <2>1, DeviceBySetLimit, DeviceByAlive, DeviceByPrune, DeviceByCheck, DeviceByReply,
          DeviceByFail,
         DeviceByReadLimit, DeviceByRecord, DeviceByReturn, DeviceByLate, DeviceByTick, Zenon DEF DeviceNext
    <2>2. CASE UNCHANGED deviceVars
      <3>1. UNCHANGED <<useRedis, userLimits, alive, devices, zset, ttl, at, node, dev, arg, late, faults, changes, top>>
        BY <2>2, Zenon DEF deviceVars
      <3>2. DeviceTypeOK'
        BY <3>1, Zenon DEF DeviceInv, DeviceTypeOK
      <3>3. GivenLimits' /\ SetOK' /\ \A n \in Node : Cardinality(InWindow(n))' <= top'[n]
        BY <3>1, DeviceFrame, Zenon DEF DeviceInv, GivenLimits
      <3>4. faults' = 0 /\ useRedis' => Shared'
        BY <3>1, Zenon DEF DeviceInv, Shared
      <3> QED
        BY <3>2, <3>3, <3>4, Zenon DEF DeviceInv
    <2> QED
      BY <2>1, <2>2, Zenon
  <1> QED
    BY <1>1, <1>2, DeviceMeaning, PTL DEF DeviceSpec
=============================================================================
