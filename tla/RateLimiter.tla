---------------------------- MODULE RateLimiter ----------------------------
(***************************************************************************)
(* RateLimiter of src/limiter/rate.rs, for one user: a token bucket that   *)
(* is replenished only when it is looked at, and the tasks that wait in    *)
(* throttle() for tokens while the user sync changes the limit.            *)
(*                                                                         *)
(* Time passes in ticks and rates are tokens per tick.  `age` is the time  *)
(* since last_update; beyond MaxAge, which fills every bucket, more of it  *)
(* adds nothing.                                                           *)
(***************************************************************************)
EXTENDS Integers

CONSTANTS
    Task,       \* tasks that call throttle
    Rates,      \* what set_user_limit is called with; 0 removes the bucket
    Sizes,      \* what throttle and allow are called with
    Floor,      \* the least capacity, 65536 in the code
    MaxAge,     \* bound of age
    MaxSets,    \* bound on the calls of set_user_limit
    MaxCalls    \* bound on the calls of throttle and allow

VARIABLES
    rate,       \* rate_per_sec, 0 when the user has no bucket
    tokens,
    age,
    at,         \* where the task is in throttle
    remaining,
    sleep,      \* what is left of the task's sleep
    notified,   \* the task's Notified has fired
    notifying,  \* set_user_limit has not called notify_waiters yet
    sets,
    calls,
    fair        \* history: a bucket replenished at every tick

rateVars == <<rate, tokens, age, at, remaining, sleep, notified, notifying, sets, calls, fair>>
bucket == <<rate, tokens, age>>
tasks == <<at, remaining, sleep, notified>>

MinOf(a, b) == IF a < b THEN a ELSE b
MaxOf(a, b) == IF a < b THEN b ELSE a

Capacity(r) == MaxOf(2 * r, Floor)

ASSUME RateAssumption ==
    /\ Rates \subseteq Nat /\ 0 \in Rates
    /\ Sizes \subseteq Nat /\ Sizes # {}
    /\ Floor \in Nat \ {0} /\ {MaxAge, MaxSets, MaxCalls} \subseteq Nat
    /\ \A r \in Rates \ {0} : MaxAge * r >= Capacity(r)

\* TokenBucket::replenish: the tokens after `elapsed` more ticks.
Replenish(elapsed) == MinOf(tokens + elapsed * rate, Capacity(rate))

\* Round up: sleep() never ends early.
CeilDiv(a, b) == (a + b - 1) \div b

RateInit ==
    /\ rate = 0
    /\ tokens = 0
    /\ age = 0
    /\ at = [t \in Task |-> "idle"]
    /\ remaining = [t \in Task |-> 0]
    /\ sleep = [t \in Task |-> 0]
    /\ notified = [t \in Task |-> FALSE]
    /\ notifying = FALSE
    /\ sets = 0
    /\ calls = 0
    /\ fair = 0

-----------------------------------------------------------------------------
\* Variant with a defect: the time that has passed is not settled at the old
\* rate.
SetUserLimitUnsettled(r) ==
    /\ sets < MaxSets
    /\ ~notifying
    /\ sets' = sets + 1
    /\ notifying' = TRUE
    /\ rate' = r
    /\ \/ /\ r > 0 /\ rate > 0
          /\ tokens' = MinOf(tokens, Capacity(r))
          /\ fair' = MinOf(fair, Capacity(r))
          /\ age' = age
       \/ /\ r > 0 /\ rate = 0
          /\ tokens' = Capacity(r)
          /\ fair' = Capacity(r)
          /\ age' = 0
       \/ /\ r = 0
          /\ tokens' = 0 /\ fair' = 0 /\ age' = 0
    /\ UNCHANGED <<tasks, calls>>

\* Under the lock of the shard: an existing bucket is settled and adapted, a
\* missing one created full, and rate 0 removes it.
SetUserLimit(r) ==
    /\ sets < MaxSets
    /\ ~notifying
    /\ sets' = sets + 1
    /\ notifying' = TRUE
    /\ rate' = r
    /\ \/ /\ r > 0 /\ rate > 0
          /\ tokens' = MinOf(Replenish(age), Capacity(r))
          /\ fair' = MinOf(fair, Capacity(r))
       \/ /\ r > 0 /\ rate = 0
          /\ tokens' = Capacity(r)
          /\ fair' = Capacity(r)
       \/ /\ r = 0
          /\ tokens' = 0 /\ fair' = 0
    /\ age' = 0
    /\ UNCHANGED <<tasks, calls>>

\* notify_waiters: every Notified that is enabled fires.
NotifyWaiters ==
    /\ notifying
    /\ notifying' = FALSE
    /\ notified' = [t \in Task |-> notified[t] \/ at[t] \in {"check", "sleep"}]
    /\ UNCHANGED <<bucket, at, remaining, sleep, sets, calls, fair>>

-----------------------------------------------------------------------------
\* A task calls throttle(user_id, n).
Throttle(t, n) ==
    /\ at[t] = "idle"
    /\ calls < MaxCalls
    /\ calls' = calls + 1
    /\ remaining' = [remaining EXCEPT ![t] = n]
    /\ at' = [at EXCEPT ![t] = IF n > 0 THEN "loop" ELSE "idle"]
    /\ UNCHANGED <<bucket, sleep, notified, notifying, sets, fair>>

\* The head of the loop: the Notified is enabled before the bucket is read.
Enable(t) ==
    /\ at[t] = "loop"
    /\ notified' = [notified EXCEPT ![t] = FALSE]
    /\ at' = [at EXCEPT ![t] = "check"]
    /\ UNCHANGED <<bucket, remaining, sleep, notifying, sets, calls, fair>>

Amount(t) == MinOf(remaining[t], Capacity(rate))

\* There is no bucket: the loop is left.
Unlimited(t) ==
    /\ at[t] = "check"
    /\ rate = 0
    /\ at' = [at EXCEPT ![t] = "idle"]
    /\ remaining' = [remaining EXCEPT ![t] = 0]
    /\ notified' = [notified EXCEPT ![t] = FALSE]
    /\ UNCHANGED <<bucket, sleep, notifying, sets, calls, fair>>

\* try_consume succeeds.
Consume(t) ==
    /\ at[t] = "check"
    /\ rate > 0
    /\ Replenish(age) >= Amount(t)
    /\ tokens' = Replenish(age) - Amount(t)
    /\ age' = 0
    /\ fair' = fair - Amount(t)
    /\ remaining' = [remaining EXCEPT ![t] = @ - Amount(t)]
    /\ at' = [at EXCEPT ![t] = IF remaining[t] > Amount(t) THEN "loop" ELSE "idle"]
    /\ notified' = [notified EXCEPT ![t] = FALSE]
    /\ UNCHANGED <<rate, sleep, notifying, sets, calls>>

\* try_consume fails: it has replenished the bucket, and the task sleeps until
\* the missing tokens will be there.
Wait(t) ==
    /\ at[t] = "check"
    /\ rate > 0
    /\ Replenish(age) < Amount(t)
    /\ tokens' = Replenish(age)
    /\ age' = 0
    /\ sleep' = [sleep EXCEPT ![t] = CeilDiv(Amount(t) - Replenish(age), rate)]
    /\ at' = [at EXCEPT ![t] = "sleep"]
    /\ UNCHANGED <<rate, remaining, notified, notifying, sets, calls, fair>>

\* Variant with a defect: only a change of the limit ends the wait.
WakeOnChange(t) ==
    /\ at[t] = "sleep"
    /\ notified[t]
    /\ at' = [at EXCEPT ![t] = "loop"]
    /\ sleep' = [sleep EXCEPT ![t] = 0]
    /\ notified' = [notified EXCEPT ![t] = FALSE]
    /\ UNCHANGED <<bucket, remaining, notifying, sets, calls, fair>>

\* The select: the sleep is over or the limit has changed.
Wake(t) ==
    /\ at[t] = "sleep"
    /\ sleep[t] = 0 \/ notified[t]
    /\ at' = [at EXCEPT ![t] = "loop"]
    /\ sleep' = [sleep EXCEPT ![t] = 0]
    /\ notified' = [notified EXCEPT ![t] = FALSE]
    /\ UNCHANGED <<bucket, remaining, notifying, sets, calls, fair>>

\* The future is dropped where it waits (its connection ended).
Cancel(t) ==
    /\ at[t] = "sleep"
    /\ at' = [at EXCEPT ![t] = "idle"]
    /\ remaining' = [remaining EXCEPT ![t] = 0]
    /\ sleep' = [sleep EXCEPT ![t] = 0]
    /\ notified' = [notified EXCEPT ![t] = FALSE]
    /\ UNCHANGED <<bucket, notifying, sets, calls, fair>>

\* allow(user_id, n) with a bucket, in one go.
Allow(n) ==
    /\ rate > 0
    /\ calls < MaxCalls
    /\ calls' = calls + 1
    /\ tokens' = IF Replenish(age) >= n THEN Replenish(age) - n ELSE Replenish(age)
    /\ fair' = IF Replenish(age) >= n THEN fair - n ELSE fair
    /\ age' = 0
    /\ UNCHANGED <<rate, tasks, notifying, sets>>

\* prune_idle replenishes every bucket.
PruneIdle ==
    /\ rate > 0
    /\ tokens' = Replenish(age)
    /\ age' = 0
    /\ UNCHANGED <<rate, tasks, notifying, sets, calls, fair>>

Tick ==
    /\ age' = IF rate > 0 THEN MinOf(age + 1, MaxAge) ELSE 0
    /\ fair' = IF rate > 0 THEN MinOf(fair + rate, Capacity(rate)) ELSE 0
    /\ sleep' = [t \in Task |-> MaxOf(sleep[t] - 1, 0)]
    /\ UNCHANGED <<rate, tokens, at, remaining, notified, notifying, sets, calls>>

-----------------------------------------------------------------------------
TaskStep(t) == Enable(t) \/ Unlimited(t) \/ Consume(t) \/ Wait(t) \/ Wake(t)

RateNext ==
    \/ \E r \in Rates : SetUserLimit(r)
    \/ NotifyWaiters
    \/ \E t \in Task : TaskStep(t) \/ Cancel(t) \/ \E n \in Sizes : Throttle(t, n)
    \/ \E n \in Sizes : Allow(n)
    \/ PruneIdle
    \/ Tick

RateSpec == RateInit /\ [][RateNext]_rateVars

(***************************************************************************)
(* Fairness: time passes, woken tasks are polled, and set_user_limit goes  *)
(* on to notify_waiters.  Tokens go to whoever looks first, so nothing     *)
(* bounds the time a task waits while others keep consuming: MaxCalls      *)
(* bounds the consumers.                                                   *)
(***************************************************************************)
TasksPolled ==
    /\ WF_rateVars(Tick)
    /\ WF_rateVars(NotifyWaiters)
    /\ \A t \in Task : WF_rateVars(TaskStep(t))

-----------------------------------------------------------------------------
\* The type invariant of the bucket and its waiters.
RateTypeOK ==
    /\ rate \in Rates
    /\ tokens \in 0..Capacity(rate)
    /\ age \in 0..MaxAge
    /\ at \in [Task -> {"idle", "loop", "check", "sleep"}]
    /\ remaining \in [Task -> UNION {0..n : n \in Sizes}]
    /\ sleep \in [Task -> Nat]
    /\ notified \in [Task -> BOOLEAN]
    /\ notifying \in BOOLEAN
    /\ sets \in 0..MaxSets
    /\ calls \in 0..MaxCalls

\* The bucket, replenished only when it is looked at, is worth what a bucket
\* replenished at every tick would hold: neither a change of the limit, a
\* failed attempt, prune_idle nor a cancelled wait creates or loses tokens.
LazyIsEager ==
    rate > 0 => MinOf(tokens + age * rate, Capacity(rate)) = fair

\* A task asleep knows of the present limit: its sleep is not longer than the
\* present rate needs to fill the bucket for it, or it is about to be woken.
\* No change of the limit, and in particular its removal, is slept through.
NoStaleSleep ==
    \A t \in Task :
        at[t] = "sleep" /\ ~notified[t] /\ ~notifying =>
            rate > 0 /\ sleep[t] <= CeilDiv(Capacity(rate), rate)

\* The bucket and its waiters are right together.
ThrottleSound == RateTypeOK /\ LazyIsEager /\ NoStaleSleep

\* A throttle ends: the amount asked of the bucket fits it, the sleep is long
\* enough, and the removal of the limit ends it too (once the others' calls
\* are over: the bucket is not fair between its waiters).
ThrottleEnds == \A t \in Task : []<>(at[t] = "idle")
=============================================================================
