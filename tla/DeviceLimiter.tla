--------------------------- MODULE DeviceLimiter ---------------------------
(***************************************************************************)
(* DeviceLimiter of src/limiter/device.rs, for one user on several nodes   *)
(* that share a Redis set.  A device is a normalised address.  Records age *)
(* in ticks of one second: an age above Window (local) or of Expiry and    *)
(* more (Redis) is expired.                                                *)
(*                                                                         *)
(* Calls of check_and_record_async run concurrently.  The Lua script is    *)
(* atomic; its reply may be lost or late, in which case the call falls     *)
(* back to the node's own records and the script may still be run.         *)
(***************************************************************************)
EXTENDS Integers, FiniteSets

CONSTANTS
    Node,
    Device,
    Call,       \* concurrent calls of check_and_record_async
    DeviceLimits, \* what set_user_limit is called with; 0 removes the limit
    Alive,      \* counts the panel's alive list may hold for the user
    Window,     \* device_limit_window
    Expiry,     \* conn_limit_expiry
    MaxLate,    \* bound on how many ticks late a script is run
    MaxFaults,  \* bound on failed and timed-out scripts
    MaxChanges  \* bound on changes of the limit and of the alive list

ASSUME DeviceAssumption ==
    /\ Node # {} /\ IsFiniteSet(Device) /\ "none" \notin Node \cup Device
    /\ DeviceLimits \subseteq Nat /\ Alive \subseteq Nat
    /\ {Window, Expiry, MaxLate, MaxFaults, MaxChanges} \subseteq Nat

VARIABLES
    useRedis,   \* redis_url is set
    userLimits, \* user_limits of each node, 0 when there is no entry
    alive,      \* global_alive of each node, 0 when there is no entry
    devices,    \* user_devices: age of the last sighting, or Gone
    zset,       \* the Redis set: age of the score, or Gone
    ttl,        \* ticks until EXPIRE removes the key
    at,         \* where the call is
    node,       \* its node
    dev,        \* its device
    arg,        \* the limit it has read
    late,       \* <<device, limit, age>> of scripts Redis may still run
    faults,
    changes,
    top         \* history: the largest limit, Unlimited once there was none

deviceVars ==
    <<useRedis, userLimits, alive, devices, zset, ttl, at, node, dev, arg, late, faults, changes, top>>
callVars == <<at, node, dev, arg>>
bounds == <<useRedis, changes>>

Oldest == MaxLate + (IF Window > Expiry THEN Window ELSE Expiry)
Gone == Oldest + 1
Age == 0..Gone
None == "none"
Unlimited == Cardinality(Device) + 1

\* Devices of a node that are in the window.
InWindow(n) == {d \in Device : devices[n][d] <= Window}

\* Members that ZREMRANGEBYSCORE leaves in the Redis set when the script's
\* time stamp is a ticks old.
Kept(a) == {d \in Device : zset[d] # Gone /\ zset[d] - a < Expiry}

Older(age) == IF age >= Oldest THEN age ELSE age + 1

Larger(a, b) == IF a < b THEN b ELSE a
AsBound(l) == IF l = 0 THEN Unlimited ELSE l

DeviceInit ==
    /\ useRedis \in BOOLEAN
    /\ userLimits \in [Node -> DeviceLimits \ {0}]
    /\ alive = [n \in Node |-> 0]
    /\ devices = [n \in Node |-> [d \in Device |-> Gone]]
    /\ zset = [d \in Device |-> Gone]
    /\ ttl = 0
    /\ at = [c \in Call |-> "idle"]
    /\ node = [c \in Call |-> None]
    /\ dev = [c \in Call |-> None]
    /\ arg = [c \in Call |-> 0]
    /\ late = {}
    /\ faults = 0
    /\ changes = 0
    /\ top = [n \in Node |-> userLimits[n]]

-----------------------------------------------------------------------------
\* set_user_limit.
SetDeviceLimit(n, l) ==
    /\ changes < MaxChanges
    /\ changes' = changes + 1
    /\ userLimits' = [userLimits EXCEPT ![n] = l]
    /\ top' = [top EXCEPT ![n] = Larger(@, AsBound(l))]
    /\ UNCHANGED <<useRedis, alive, devices, zset, ttl, callVars, late, faults>>

\* update_global_alive; sync_users keeps the old counts when the list is empty.
UpdateGlobalAlive(n, a) ==
    /\ changes < MaxChanges
    /\ changes' = changes + 1
    /\ alive' = [alive EXCEPT ![n] = a]
    /\ UNCHANGED <<useRedis, userLimits, devices, zset, ttl, callVars, late, faults, top>>

\* A connection of the device reaches the node.
CheckAndRecordAsync(c, n, d) ==
    /\ at[c] = "idle"
    /\ node' = [node EXCEPT ![c] = n]
    /\ dev' = [dev EXCEPT ![c] = d]
    /\ IF useRedis
       THEN /\ at' = [at EXCEPT ![c] = "redis"]
            /\ arg' = [arg EXCEPT ![c] = userLimits[n]]
       ELSE /\ at' = [at EXCEPT ![c] = "local"]
            /\ UNCHANGED arg
    /\ UNCHANGED <<bounds, userLimits, alive, devices, zset, ttl, late, faults, top>>

\* The Lua script's answer.
LuaAdmits(d, l, a) ==
    d \in Kept(a) \/ l = 0 \/ Cardinality(Kept(a)) < l

\* Variant with a defect: a known device does not get the new score.
LuaEffectNoRefresh(d, l, a) ==
    /\ zset' = [e \in Device |->
          IF e \in Kept(a) THEN zset[e]
          ELSE IF e = d /\ LuaAdmits(d, l, a) THEN a ELSE Gone]
    /\ ttl' = IF LuaAdmits(d, l, a) THEN Expiry ELSE ttl

\* Its effect: expired members go; an admitted device gets the script's time
\* stamp as its score, even over a newer one, and the key lives on.
LuaEffect(d, l, a) ==
    /\ zset' = [e \in Device |->
          IF e = d /\ LuaAdmits(d, l, a) THEN a
          ELSE IF e \in Kept(a) THEN zset[e] ELSE Gone]
    /\ ttl' = IF LuaAdmits(d, l, a) THEN Expiry ELSE ttl

\* The script is run and its reply arrives.
RedisReply(c) ==
    /\ at[c] = "redis"
    /\ LuaEffect(dev[c], arg[c], 0)
    /\ at' = [at EXCEPT ![c] = IF LuaAdmits(dev[c], arg[c], 0) THEN "record" ELSE "refused"]
    /\ UNCHANGED <<bounds, userLimits, alive, devices, node, dev, arg, late, faults, top>>

\* The timeout or an error: fall back to the local check.  The script may
\* have been run, may be run later, or never is.
RedisFail(c) ==
    /\ at[c] = "redis"
    /\ faults < MaxFaults
    /\ faults' = faults + 1
    /\ at' = [at EXCEPT ![c] = "local"]
    /\ \/ LuaEffect(dev[c], arg[c], 0) /\ UNCHANGED late
       \/ late' = late \cup {<<dev[c], arg[c], 0>>} /\ UNCHANGED <<zset, ttl>>
       \/ UNCHANGED <<zset, ttl, late>>
    /\ UNCHANGED <<bounds, userLimits, alive, devices, node, dev, arg, top>>

LateScript(s) ==
    /\ late' = late \ {s}
    /\ LuaEffect(s[1], s[2], s[3])
    /\ UNCHANGED <<bounds, userLimits, alive, devices, callVars, faults, top>>

\* check_and_record reads the limit before it takes the lock of the records,
\* as the result of the call ("local") or after Redis admitted ("record").
ReadDeviceLimit(c) ==
    /\ at[c] \in {"local", "record"}
    /\ arg' = [arg EXCEPT ![c] = userLimits[node[c]]]
    /\ at' = [at EXCEPT ![c] = IF at[c] = "local" THEN "locked" ELSE "relocked"]
    /\ UNCHANGED <<bounds, userLimits, alive, devices, zset, ttl, node, dev, late, faults, top>>

Refuses(c) ==
    LET n == node[c]
    IN /\ arg[c] > 0
       /\ dev[c] \notin InWindow(n)
       /\ Cardinality(InWindow(n)) + alive[n] >= arg[c]

\* The locked part of check_and_record: expired records go, a new device is
\* refused when the limit is reached, an admitted one is recorded.  Once Redis
\* has admitted the device the local result is ignored.
Record(c) ==
    LET n == node[c]
    IN /\ at[c] \in {"locked", "relocked"}
       /\ devices' = [devices EXCEPT ![n] = [d \in Device |->
              IF d = dev[c] /\ ~Refuses(c) THEN 0
              ELSE IF d \in InWindow(n) THEN devices[n][d] ELSE Gone]]
       /\ at' = [at EXCEPT ![c] = IF at[c] = "relocked" \/ ~Refuses(c) THEN "admitted" ELSE "refused"]
       /\ UNCHANGED <<bounds, userLimits, alive, zset, ttl, node, dev, arg, late, faults, top>>

\* The caller has its answer.
Return(c) ==
    /\ at[c] \in {"admitted", "refused"}
    /\ at' = [at EXCEPT ![c] = "idle"]
    /\ node' = [node EXCEPT ![c] = None]
    /\ dev' = [dev EXCEPT ![c] = None]
    /\ arg' = [arg EXCEPT ![c] = 0]
    /\ UNCHANGED <<bounds, userLimits, alive, devices, zset, ttl, late, faults, top>>

\* prune_expired and get_all_online_devices drop the expired records.
PruneExpired(n) ==
    /\ devices' = [devices EXCEPT ![n] = [d \in Device |->
          IF d \in InWindow(n) THEN devices[n][d] ELSE Gone]]
    /\ UNCHANGED <<bounds, userLimits, alive, zset, ttl, callVars, late, faults, top>>

\* A second passes.  No call is under way: redis_timeout is a fraction of it.
Tick ==
    /\ \A c \in Call : at[c] = "idle"
    /\ \A s \in late : s[3] < MaxLate
    /\ devices' = [n \in Node |-> [d \in Device |-> Older(devices[n][d])]]
    /\ zset' = [d \in Device |-> IF ttl <= 1 THEN Gone ELSE Older(zset[d])]
    /\ ttl' = IF ttl = 0 THEN 0 ELSE ttl - 1
    /\ late' = {<<s[1], s[2], s[3] + 1>> : s \in late}
    /\ UNCHANGED <<bounds, userLimits, alive, callVars, faults, top>>

-----------------------------------------------------------------------------
DeviceNext ==
    \/ \E n \in Node :
          \/ \E l \in DeviceLimits : SetDeviceLimit(n, l)
          \/ \E a \in Alive : UpdateGlobalAlive(n, a)
          \/ PruneExpired(n)
    \/ \E c \in Call :
          \/ \E n \in Node, d \in Device : CheckAndRecordAsync(c, n, d)
          \/ RedisReply(c) \/ RedisFail(c)
          \/ ReadDeviceLimit(c) \/ Record(c) \/ Return(c)
    \/ \E s \in late : LateScript(s)
    \/ Tick

DeviceSpec == DeviceInit /\ [][DeviceNext]_deviceVars

-----------------------------------------------------------------------------
\* The type invariant of the limiter.
DeviceTypeOK ==
    /\ useRedis \in BOOLEAN
    /\ userLimits \in [Node -> DeviceLimits]
    /\ alive \in [Node -> Alive \cup {0}]
    /\ devices \in [Node -> [Device -> Age]]
    /\ zset \in [Device -> Age]
    /\ ttl \in 0..Expiry
    /\ at \in [Call -> {"idle", "redis", "local", "record", "locked", "relocked", "admitted", "refused"}]
    /\ node \in [Call -> Node \cup {None}]
    /\ dev \in [Call -> Device \cup {None}]
    /\ arg \in [Call -> DeviceLimits \cup {0}]
    /\ late \subseteq Device \X (DeviceLimits \cup {0}) \X (0..MaxLate)
    /\ faults \in 0..MaxFaults
    /\ changes \in 0..MaxChanges
    /\ top \in [Node -> Nat]

\* A node never has more devices in the window than the largest limit it was
\* given, although the limit is read outside the lock and calls for several
\* new devices run at once.
LocalWithinLimit ==
    \A n \in Node : Cardinality(InWindow(n)) <= top[n]

\* The shared set never holds more than the largest limit any node has sent,
\* late and repeated scripts included.
SharedWithinLimit ==
    \E n \in Node : Cardinality(Kept(0)) <= top[n]

\* As long as Redis answers, what a node has recorded within the expiry is in
\* the shared set too, so the devices of all nodes together are within the
\* limit.  (After a fallback this is not promised.)
SharedCoversLocal ==
    faults = 0 /\ useRedis =>
        \A n \in Node, d \in Device : devices[n][d] < Expiry => zset[d] <= devices[n][d]

\* The device limit holds on each node and over all of them.
DevicesWithinLimit == DeviceTypeOK /\ LocalWithinLimit /\ SharedWithinLimit /\ SharedCoversLocal
=============================================================================
