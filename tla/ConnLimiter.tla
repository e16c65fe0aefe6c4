---------------------------- MODULE ConnLimiter ----------------------------
(***************************************************************************)
(* ConnectionLimiter of src/limiter/connection.rs, for one user (the       *)
(* entries of different users share the two locks and nothing else).       *)
(*                                                                         *)
(* Threads run try_acquire and drop the guards it returned, while the user *)
(* sync calls set_user_limit and the cleanup task calls prune_idle.  Every *)
(* lock acquisition and every atomic operation is a step of its own.  An   *)
(* Arc<AtomicU32> is a member of Counter; its strong count is the number   *)
(* of threads that hold a clone, plus one for the map.                     *)
(***************************************************************************)
EXTENDS Naturals, FiniteSets

CONSTANTS
    Thread,
    Counter,    \* the Arc<AtomicU32> values that can exist at a time
    Limits,     \* what set_user_limit is called with; 0 removes the limit
    NoCounter

ASSUME ConnAssumption ==
    /\ IsFiniteSet(Thread)
    /\ NoCounter \notin Counter
    /\ Limits \subseteq Nat
    /\ 0 \in Limits

VARIABLES
    maxConns,   \* max_conns of the user, 0 when there is no entry
    entry,      \* active_conns of the user
    value,      \* the value of each counter
    pc,         \* where the thread is in try_acquire, or what guard it has
    limit,      \* `limit` of the thread
    ref,        \* the clone of the Arc the thread holds
    cur,        \* `cur` of the thread
    prune,      \* where prune_idle is: it holds the write lock except when idle
    topLimit    \* history: the largest limit set so far

vars == <<maxConns, entry, value, pc, limit, ref, cur, prune, topLimit>>

Locals == <<limit, ref, cur>>

\* The threads that hold a guard with a counter that is not yet decremented.
Guards == {t \in Thread : pc[t] = "guard"}

Held(c) == {t \in Thread : ref[t] = c}

\* Arc::strong_count.
StrongCount(c) == Cardinality(Held(c)) + (IF entry = c THEN 1 ELSE 0)

Init ==
    /\ maxConns = 0
    /\ entry = NoCounter
    /\ value = [c \in Counter |-> 0]
    /\ pc = [t \in Thread |-> "idle"]
    /\ limit = [t \in Thread |-> 0]
    /\ ref = [t \in Thread |-> NoCounter]
    /\ cur = [t \in Thread |-> 0]
    /\ prune = "idle"
    /\ topLimit = 0

-----------------------------------------------------------------------------
SetUserLimit(l) ==
    /\ maxConns' = l
    /\ topLimit' = IF l > topLimit THEN l ELSE topLimit
    /\ UNCHANGED <<entry, value, pc, Locals, prune>>

\* The limit is read; without one the guard has no counter.
ReadLimit(t) ==
    /\ pc[t] = "idle"
    /\ limit' = [limit EXCEPT ![t] = maxConns]
    /\ pc' = [pc EXCEPT ![t] = IF maxConns > 0 THEN "lookup" ELSE "free"]
    /\ UNCHANGED <<maxConns, entry, value, ref, cur, prune, topLimit>>

\* Clone the counter of the map under the read lock.
Lookup(t) ==
    /\ pc[t] = "lookup"
    /\ prune = "idle"
    /\ ref' = [ref EXCEPT ![t] = entry]
    /\ pc' = [pc EXCEPT ![t] = IF entry = NoCounter THEN "insert" ELSE "load"]
    /\ UNCHANGED <<maxConns, entry, value, limit, cur, prune, topLimit>>

\* entry().or_insert_with() under the write lock.
Insert(t) ==
    /\ pc[t] = "insert"
    /\ prune = "idle"
    /\ \/ /\ entry # NoCounter
          /\ ref' = [ref EXCEPT ![t] = entry]
          /\ UNCHANGED <<entry, value>>
       \/ /\ entry = NoCounter
          /\ \E c \in Counter :
                /\ StrongCount(c) = 0
                /\ entry' = c
                /\ value' = [value EXCEPT ![c] = 0]
                /\ ref' = [ref EXCEPT ![t] = c]
    /\ pc' = [pc EXCEPT ![t] = "load"]
    /\ UNCHANGED <<maxConns, limit, cur, prune, topLimit>>

Load(t) ==
    /\ pc[t] = "load"
    /\ cur' = [cur EXCEPT ![t] = value[ref[t]]]
    /\ pc' = [pc EXCEPT ![t] = "try"]
    /\ UNCHANGED <<maxConns, entry, value, limit, ref, prune, topLimit>>

\* The limit is reached: None is returned and the clone dropped.
Refuse(t) ==
    /\ pc[t] = "try"
    /\ cur[t] >= limit[t]
    /\ ref' = [ref EXCEPT ![t] = NoCounter]
    /\ pc' = [pc EXCEPT ![t] = "idle"]
    /\ cur' = [cur EXCEPT ![t] = 0]
    /\ limit' = [limit EXCEPT ![t] = 0]
    /\ UNCHANGED <<maxConns, entry, value, prune, topLimit>>

\* Variant with a defect: the limit itself is still let in.
CompareExchangeAtLimit(t) ==
    /\ pc[t] = "try"
    /\ cur[t] <= limit[t]
    /\ value[ref[t]] = cur[t]
    /\ value' = [value EXCEPT ![ref[t]] = @ + 1]
    /\ pc' = [pc EXCEPT ![t] = "guard"]
    /\ cur' = [cur EXCEPT ![t] = 0]
    /\ UNCHANGED <<maxConns, entry, limit, ref, prune, topLimit>>

\* compare_exchange_weak, which may also fail when the value is as expected.
CompareExchange(t) ==
    /\ pc[t] = "try"
    /\ cur[t] < limit[t]
    /\ \/ /\ value[ref[t]] = cur[t]
          /\ value' = [value EXCEPT ![ref[t]] = @ + 1]
          /\ pc' = [pc EXCEPT ![t] = "guard"]
          /\ cur' = [cur EXCEPT ![t] = 0]
       \/ /\ cur' = [cur EXCEPT ![t] = value[ref[t]]]
          /\ UNCHANGED <<value, pc>>
    /\ UNCHANGED <<maxConns, entry, limit, ref, prune, topLimit>>

\* Drop of a ConnGuard: fetch_sub first, ...
Release(t) ==
    /\ pc[t] = "guard"
    /\ value' = [value EXCEPT ![ref[t]] = @ - 1]
    /\ pc' = [pc EXCEPT ![t] = "dropping"]
    /\ UNCHANGED <<maxConns, entry, Locals, prune, topLimit>>

\* ... then the field, and with it the clone of the Arc.
DropArc(t) ==
    /\ pc[t] = "dropping"
    /\ ref' = [ref EXCEPT ![t] = NoCounter]
    /\ limit' = [limit EXCEPT ![t] = 0]
    /\ pc' = [pc EXCEPT ![t] = "idle"]
    /\ UNCHANGED <<maxConns, entry, value, cur, prune, topLimit>>

\* Drop of a guard without a counter.
DropFree(t) ==
    /\ pc[t] = "free"
    /\ pc' = [pc EXCEPT ![t] = "idle"]
    /\ UNCHANGED <<maxConns, entry, value, Locals, prune, topLimit>>

\* Variant with a defect: prune_idle looks at the value alone.
PruneLoadOnly ==
    /\ prune = "idle"
    /\ entry # NoCounter
    /\ entry' = IF value[entry] > 0 THEN entry ELSE NoCounter
    /\ UNCHANGED <<maxConns, value, pc, Locals, prune, topLimit>>

\* prune_idle takes the write lock and loads the counter; a positive one is
\* retained.
PruneLoad ==
    /\ prune = "idle"
    /\ entry # NoCounter
    /\ prune' = IF value[entry] > 0 THEN "idle" ELSE "count"
    /\ UNCHANGED <<maxConns, entry, value, pc, Locals, topLimit>>

\* Then it looks at the strong count.
PruneCount ==
    /\ prune = "count"
    /\ entry' = IF StrongCount(entry) > 1 THEN entry ELSE NoCounter
    /\ prune' = "idle"
    /\ UNCHANGED <<maxConns, value, pc, Locals, topLimit>>

-----------------------------------------------------------------------------
Next ==
    \/ \E l \in Limits : SetUserLimit(l)
    \/ \E t \in Thread :
          \/ ReadLimit(t) \/ Lookup(t) \/ Insert(t) \/ Load(t)
          \/ Refuse(t) \/ CompareExchange(t)
          \/ Release(t) \/ DropArc(t) \/ DropFree(t)
    \/ PruneLoad
    \/ PruneCount

Spec == Init /\ [][Next]_vars

-----------------------------------------------------------------------------
\* The type invariant of the limiter.
TypeOK ==
    /\ maxConns \in Nat
    /\ entry \in Counter \cup {NoCounter}
    /\ value \in [Counter -> Nat]
    /\ pc \in [Thread -> {"idle", "free", "lookup", "insert", "load", "try", "guard", "dropping"}]
    /\ limit \in [Thread -> Nat]
    /\ ref \in [Thread -> Counter \cup {NoCounter}]
    /\ cur \in [Thread -> Nat]
    /\ prune \in {"idle", "count"}
    /\ topLimit \in Nat

\* The counter of the map is the number of guards of the user, at every
\* moment: no guard was counted on an Arc that prune_idle removed or that
\* another thread's insert replaced, so get_total_active tells the truth and
\* fetch_sub never underflows.
CountsGuards ==
    Cardinality(Guards) = (IF entry = NoCounter THEN 0 ELSE value[entry])

\* There are never more counted guards than the largest limit that was set,
\* whatever the interleaving with prune_idle ("never exceeds limit" of the
\* unit test).
WithinLimit == Cardinality(Guards) <= topLimit

\* All clones of the user's Arc are clones of the one in the map, from the
\* moment a thread takes one until it drops it: neither prune_idle between two
\* steps of try_acquire nor two threads inserting at once splits the count
\* over two Arcs.
OneCounter ==
    \A t \in Thread : ref[t] # NoCounter => ref[t] = entry
=============================================================================
