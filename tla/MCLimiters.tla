---------------------------- MODULE MCLimiters -----------------------------
(* The limits on a user's connections and devices, for TLC.  A behaviour   *)
(* is one of the connection limiter or one of the device limiter.          *)
EXTENDS ConnLimiter, DeviceLimiter, TLC

CONSTANTS t1, t2, t3, a1, a2, n1, n2, d1, d2, c1, c2

VARIABLE about

LimitersInit ==
    /\ about \in {"connections", "devices"}
    /\ Init /\ DeviceInit
    /\ about = "connections" => ~useRedis

LimitersNext ==
    /\ \/ about = "connections" /\ Next /\ UNCHANGED deviceVars
       \/ about = "devices" /\ DeviceNext /\ UNCHANGED vars
    /\ UNCHANGED about

LimitersSpec == LimitersInit /\ [][LimitersNext]_<<vars, deviceVars, about>>

Symmetry == Permutations({n1, n2}) \cup Permutations({d1, d2}) \cup Permutations({c1, c2})
=============================================================================
