----------------------------- MODULE RateLimit -----------------------------
(***************************************************************************)
(* The throttling of requests that share a key prefix: RateLimitMiddleware *)
(* (src/app/rate_limit.py) and check_rate_limit (src/app/cache.py).        *)
(*                                                                         *)
(* A call names the counter of the current minute, increments it and asks  *)
(* for its time to live in one MULTI, and sets the expiry in a call of its *)
(* own if it was the first or found none.  Any Redis error lets the call   *)
(* pass.  The client repeats a command whose answer has timed out.         *)
(***************************************************************************)
EXTENDS Naturals, FiniteSets

CONSTANTS
  Calls,      \* calls of clients whose keys share a prefix
  Limit,      \* calls allowed per minute
  Minute,     \* ticks per minute
  LastTick,   \* bound: the clock stops there
  MaxFaults   \* bound: Redis errors, lost answers, evictions and crashes

ASSUME RateConstants ==
  /\ IsFiniteSet(Calls)
  /\ Limit \in Nat /\ Minute \in Nat \ {0} /\ LastTick \in Nat /\ MaxFaults \in Nat

VARIABLES
  now,      \* the clock of the API and of Redis
  pc,       \* call -> how far it is
  minute,   \* call -> the minute in the name of its counter
  since,    \* call -> when it arrived
  got,      \* call -> the count it was answered
  counter,  \* minute -> the counter in Redis, 0 if absent
  expiry,   \* minute -> when the counter expires, 0 if never
  extra,    \* minute -> increments beyond one per call (history)
  late,     \* calls counted after their minute was over (history)
  evicted,  \* minutes whose counter Redis has evicted (history)
  faults

vars == <<now, pc, minute, since, got, counter, expiry, extra, late, evicted, faults>>
redis == <<counter, expiry>>
callVars == <<minute, since>>

Minutes == 0..(LastTick \div Minute)
Stages == {"new", "sent", "first", "allowed", "refused", "open", "dead"}

TypeOK ==
  /\ now \in 0..LastTick
  /\ pc \in [Calls -> Stages]
  /\ minute \in [Calls -> Minutes]
  /\ since \in [Calls -> 0..LastTick]
  /\ got \in [Calls -> Nat]
  /\ counter \in [Minutes -> Nat]
  /\ expiry \in [Minutes -> 0..(LastTick + Minute)]
  /\ extra \in [Minutes -> Nat]
  /\ late \subseteq Calls
  /\ evicted \subseteq Minutes
  /\ faults \in 0..MaxFaults

Init ==
  /\ now = 0
  /\ pc = [c \in Calls |-> "new"]
  /\ minute = [c \in Calls |-> 0]
  /\ since = [c \in Calls |-> 0]
  /\ got = [c \in Calls |-> 0]
  /\ counter = [m \in Minutes |-> 0]
  /\ expiry = [m \in Minutes |-> 0]
  /\ extra = [m \in Minutes |-> 0]
  /\ late = {}
  /\ evicted = {}
  /\ faults = 0

InRedis(c) == pc[c] \in {"sent", "first"}

(***************************************************************************)
(* What a call computes.  An operator called X_Slip is a variant of X with *)
(* a plausible slip: no run uses it as it stands; put in the place of X,   *)
(* it makes a property fail that holds of X.                               *)
(***************************************************************************)

\* Only the call that made the counter sets its expiry.
SetsExpiry_Once(count, expires) == count = 1

\* "count == 1 or ttl == -1"
SetsExpiry(count, expires) == count = 1 \/ expires = 0

\* The limit is compared with < instead of <=.
Verdict_OffByOne(count) == IF count < Limit THEN "allowed" ELSE "refused"

Verdict(count) == IF count <= Limit THEN "allowed" ELSE "refused"

\* The window is half as long.
ExpiresAt_Half(t) == t + Minute \div 2

\* EXPIRE at time t, with window_seconds=60.
ExpiresAt(t) == t + Minute

(***************************************************************************)
(* The calls.                                                              *)
(***************************************************************************)

\* A call arrives: the name of its counter is int(time // 60).
Arrive(c) ==
  /\ pc[c] = "new"
  /\ pc' = [pc EXCEPT ![c] = "sent"]
  /\ minute' = [minute EXCEPT ![c] = now \div Minute]
  /\ since' = [since EXCEPT ![c] = now]
  /\ UNCHANGED <<now, got, redis, extra, late, evicted, faults>>

\* INCR and TTL, in one transaction of Redis, with their answers.
Count(c) ==
  LET m == minute[c]
      count == counter[m] + 1
  IN
  /\ pc[c] = "sent"
  /\ counter' = [counter EXCEPT ![m] = count]
  /\ got' = [got EXCEPT ![c] = count]
  /\ pc' = [pc EXCEPT ![c] = IF SetsExpiry(count, expiry[m]) THEN "first" ELSE Verdict(count)]
  /\ late' = IF now \div Minute = m THEN late ELSE late \cup {c}
  /\ UNCHANGED <<now, callVars, expiry, extra, evicted, faults>>

\* EXPIRE.
Expire(c) ==
  LET m == minute[c] IN
  /\ pc[c] = "first"
  /\ expiry' = IF counter[m] > 0 THEN [expiry EXCEPT ![m] = ExpiresAt(now)] ELSE expiry
  /\ pc' = [pc EXCEPT ![c] = Verdict(got[c])]
  /\ UNCHANGED <<now, callVars, got, counter, extra, late, evicted, faults>>

Fault == faults < MaxFaults /\ faults' = faults + 1

\* The answer of INCR times out, and the client sends it again.
Repeat(c) ==
  LET m == minute[c] IN
  /\ Fault
  /\ pc[c] = "sent"
  /\ counter' = [counter EXCEPT ![m] = @ + 1]
  /\ extra' = [extra EXCEPT ![m] = @ + 1]
  /\ UNCHANGED <<now, pc, callVars, got, expiry, late, evicted>>

\* Any error of Redis: the middleware lets the call pass.
FailOpen(c) ==
  /\ Fault
  /\ InRedis(c)
  /\ pc' = [pc EXCEPT ![c] = "open"]
  /\ UNCHANGED <<now, callVars, got, redis, extra, late, evicted>>

\* The API process dies.
Crash(c) ==
  /\ Fault
  /\ InRedis(c)
  /\ pc' = [pc EXCEPT ![c] = "dead"]
  /\ UNCHANGED <<now, callVars, got, redis, extra, late, evicted>>

\* Redis evicts a counter (--maxmemory-policy allkeys-lru).
Evict(m) ==
  /\ Fault
  /\ counter[m] > 0
  /\ counter' = [counter EXCEPT ![m] = 0]
  /\ expiry' = [expiry EXCEPT ![m] = 0]
  /\ evicted' = evicted \cup {m}
  /\ UNCHANGED <<now, pc, callVars, got, extra, late>>

\* Time passes, and Redis drops what has expired.  A call to Redis is
\* answered, or times out, within socket_timeout: less than a minute.
Tick ==
  LET gone(m) == expiry[m] # 0 /\ expiry[m] <= now + 1 IN
  /\ now < LastTick
  /\ \A c \in Calls : InRedis(c) => since[c] = now
  /\ now' = now + 1
  /\ counter' = [m \in Minutes |-> IF gone(m) THEN 0 ELSE counter[m]]
  /\ expiry' = [m \in Minutes |-> IF gone(m) THEN 0 ELSE expiry[m]]
  /\ UNCHANGED <<pc, callVars, got, extra, late, evicted, faults>>

Next ==
  \/ \E c \in Calls :
       Arrive(c) \/ Count(c) \/ Expire(c) \/ Repeat(c) \/ FailOpen(c) \/ Crash(c)
  \/ \E m \in Minutes : Evict(m)
  \/ Tick

Spec == Init /\ [][Next]_vars

(***************************************************************************)
(* Properties                                                              *)
(***************************************************************************)

\* No more calls than the limit are let through in a minute by the counter,
\* unless Redis evicts it; a call that is counted after its minute is over
\* may find the counter expired, and does not count.
WithinLimit ==
  \A m \in Minutes \ evicted :
    Cardinality({c \in Calls \ late : minute[c] = m /\ pc[c] = "allowed"}) <= Limit

\* A call is refused only if more calls than the limit were made in its minute,
\* those that the client has sent twice counted twice.
RefusedOverLimit ==
  \A c \in Calls : pc[c] = "refused" =>
    Cardinality({d \in Calls : minute[d] = minute[c] /\ pc[d] # "new"})
      + extra[minute[c]] > Limit

\* No call is answered while its counter would live for ever: a call that died
\* between INCR and EXPIRE leaves the expiry to the next one.
AnsweredCountersExpire ==
  [][\A c \in Calls :
       InRedis(c) /\ pc'[c] \in {"allowed", "refused"} =>
         counter'[minute[c]] = 0 \/ expiry'[minute[c]] # 0]_vars

(***************************************************************************)
(* The inductive invariant behind them.                                    *)
(***************************************************************************)

Counted(c) == pc[c] \in {"first", "allowed", "refused"}

\* Minutes begin before their calls are made, and counters outlive them.
Clocked ==
  /\ \A c \in Calls : pc[c] # "new" => minute[c] <= now \div Minute
  /\ \A m \in Minutes : expiry[m] # 0 => m < expiry[m] \div Minute

\* The calls of minute m that have been counted, or will not be any more.
Past(m) == {c \in Calls : minute[c] = m /\ pc[c] \notin {"new", "sent"}}

\* A counter is not ahead of the calls, nor is an answer.
Backed ==
  /\ \A m \in Minutes : counter[m] <= Cardinality(Past(m)) + extra[m]
  /\ \A c \in Calls : Counted(c) =>
       got[c] <= Cardinality(Past(minute[c])) + extra[minute[c]]

\* The calls of minute m that have been counted in time.
InTime(m) == {c \in Calls \ late : minute[c] = m /\ Counted(c)}

\* In a minute whose counter is not evicted no two of them are answered the
\* same, and while it lasts the counter is not behind them.
Distinct ==
  \A m \in Minutes \ evicted :
    /\ \A c, d \in InTime(m) : got[c] = got[d] => c = d
    /\ \A c \in InTime(m) : got[c] > 0 /\ (now \div Minute <= m => got[c] <= counter[m])

Judged ==
  \A c \in Calls : /\ pc[c] = "allowed" => got[c] <= Limit
                   /\ pc[c] = "refused" => got[c] > Limit

RateInv == TypeOK /\ Clocked /\ Backed /\ Distinct /\ Judged
=============================================================================
