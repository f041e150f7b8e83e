--------------------------- MODULE RateLimit_proofs ---------------------------
(***************************************************************************)
(* Proofs about RateLimit for any number of calls and faults, any limit    *)
(* and any length of a minute.                                             *)
(***************************************************************************)
EXTENDS RateLimit, FiniteSetTheorems, TLAPS

USE RateConstants

(***************************************************************************)
(* Minutes.                                                                *)
(***************************************************************************)

\* What division does.
LEMMA Division ==
  ASSUME NEW a \in Nat, NEW d \in Nat, d > 0
  PROVE  a \div d \in Nat /\ (a \div d) * d <= a /\ a < (a \div d) * d + d
<1>1. a \div d \in Nat
  OBVIOUS
<1>2. (a \div d) * d <= a
  OBVIOUS
<1>3. a < (a \div d) * d + d
  OBVIOUS
<1>4. QED
  BY <1>1, <1>2, <1>3

\* So do minutes.
LEMMA Quotient ==
  ASSUME NEW a \in Nat
  PROVE  /\ a \div Minute \in Nat
         /\ (a \div Minute) * Minute <= a
         /\ a < (a \div Minute) * Minute + Minute
<1>1. Minute \in Nat /\ Minute > 0
  OBVIOUS
<1>2. QED
  BY <1>1, Division

\* Later times are not in earlier minutes.
LEMMA QuotientGrows ==
  ASSUME NEW a \in Nat, NEW b \in Nat, a <= b
  PROVE  a \div Minute <= b \div Minute
<1> DEFINE p == a \div Minute
           q == b \div Minute
<1>1. /\ p \in Nat /\ q \in Nat
      /\ p * Minute <= a /\ b < q * Minute + Minute
  BY Quotient
<1> HIDE DEF p, q
<1>2. p * Minute < (q + 1) * Minute
  BY <1>1
<1>3. p < q + 1
  BY <1>1, <1>2
<1>4. QED
  BY <1>1, <1>3 DEF p, q

\* A minute later it is the next one.
LEMMA QuotientNext ==
  ASSUME NEW a \in Nat
  PROVE  a \div Minute < (a + Minute) \div Minute
<1> DEFINE p == a \div Minute
           q == (a + Minute) \div Minute
<1>1. /\ p \in Nat /\ q \in Nat
      /\ p * Minute <= a /\ a + Minute < q * Minute + Minute
  BY Quotient
<1> HIDE DEF p, q
<1>2. p * Minute < q * Minute
  BY <1>1
<1>3. p < q
  BY <1>1, <1>2
<1>4. QED
  BY <1>1, <1>3 DEF p, q

\* The minute of a time the clock can show.
LEMMA MinuteOf ==
  ASSUME NEW t \in 0..LastTick
  PROVE  t \div Minute \in Minutes
BY Quotient, QuotientGrows DEF Minutes

(***************************************************************************)
(* The invariant, conjunct by conjunct.                                    *)
(***************************************************************************)

\* The first minute and the time zero are on the clock.
LEMMA Zeros == 0 \in Minutes /\ 0 \in 0..LastTick /\ 0 \in 0..(LastTick + Minute)
               /\ 0 \in 0..MaxFaults
<1>1. 0 \in 0..LastTick /\ 0 \in 0..(LastTick + Minute) /\ 0 \in 0..MaxFaults
  OBVIOUS
<1>2. LastTick \div Minute \in Nat
  BY Quotient
<1>3. QED
  BY <1>1, <1>2 DEF Minutes

\* The clock shows a number.
LEMMA Now ==
  ASSUME TypeOK
  PROVE  now \in Nat /\ now + 1 \in Nat /\ now + Minute \in Nat
<1>1. now \in Nat
  BY DEF TypeOK
<1>2. QED
  BY <1>1

\* Every step keeps the types.
LEMMA TypeStep ==
  ASSUME TypeOK, [Next]_vars
  PROVE  TypeOK'
<1> USE DEF TypeOK, Stages, redis, callVars, Fault
<1>1. ASSUME NEW c \in Calls, Arrive(c) PROVE TypeOK'
  <2>1. now \div Minute \in Minutes
    BY MinuteOf
  <2>2. QED
    BY <1>1, <2>1 DEF Arrive
<1>2. ASSUME NEW c \in Calls, Count(c) PROVE TypeOK'
  <2>1. minute[c] \in Minutes /\ counter[minute[c]] + 1 \in Nat
    OBVIOUS
  <2>2. \A n : Verdict(n) \in {"allowed", "refused"}
    BY DEF Verdict
  <2>3. pc' \in [Calls -> Stages]
    BY <1>2, <2>2 DEF Count
  <2>4. counter' \in [Minutes -> Nat] /\ got' \in [Calls -> Nat]
    BY <1>2, <2>1 DEF Count
  <2>5. QED
    BY <1>2, <2>3, <2>4 DEF Count
<1>3. ASSUME NEW c \in Calls, Expire(c) PROVE TypeOK'
  <2>1. Verdict(got[c]) \in {"allowed", "refused"}
    BY DEF Verdict
  <2>2. now + Minute \in 0..(LastTick + Minute)
    OBVIOUS
  <2>3. QED
    BY <1>3, <2>1, <2>2 DEF Expire, ExpiresAt
<1>4. ASSUME NEW c \in Calls, Repeat(c) PROVE TypeOK'
  BY <1>4 DEF Repeat
<1>5. ASSUME NEW c \in Calls, FailOpen(c) \/ Crash(c) PROVE TypeOK'
  BY <1>5 DEF FailOpen, Crash
<1>6. ASSUME NEW m \in Minutes, Evict(m) PROVE TypeOK'
  BY <1>6, Zeros DEF Evict
<1>7. CASE Tick
  <2>1. now + 1 \in 0..LastTick
    BY <1>7 DEF Tick
  <2>2. counter' \in [Minutes -> Nat] /\ expiry' \in [Minutes -> 0..(LastTick + Minute)]
    BY <1>7, Zeros DEF Tick
  <2>3. QED
    BY <1>7, <2>1, <2>2 DEF Tick
<1>8. CASE UNCHANGED vars
  BY <1>8 DEF vars
<1>9. QED
  BY <1>1, <1>2, <1>3, <1>4, <1>5, <1>6, <1>7, <1>8 DEF Next

\* The clock and the counters' expiries move on.
LEMMA ClockedStep ==
  ASSUME TypeOK, Clocked, [Next]_vars
  PROVE  Clocked'
<1> USE DEF TypeOK, Clocked, redis, callVars, InRedis
<1>1. ASSUME NEW c \in Calls, Arrive(c) PROVE Clocked'
  <2>1. minute'[c] = now \div Minute /\ now \div Minute \in Nat
    BY <1>1, Quotient DEF Arrive
  <2>2. QED
    BY <1>1, <2>1 DEF Arrive
<1>2. ASSUME NEW c \in Calls, Count(c) PROVE Clocked'
  BY <1>2 DEF Count
<1>3. ASSUME NEW c \in Calls, Expire(c) PROVE Clocked'
  <2>1. minute[c] < (now + Minute) \div Minute
    <3>1. now \div Minute < (now + Minute) \div Minute /\ now \div Minute \in Nat
      BY Now, QuotientNext, Quotient
    <3>2. (now + Minute) \div Minute \in Nat
      BY Quotient
    <3>3. minute[c] \in Nat /\ minute[c] <= now \div Minute
      BY <1>3 DEF Expire, Minutes
    <3>4. QED
      BY <3>1, <3>2, <3>3
  <2>2. \A m \in Minutes :
          expiry'[m] = expiry[m] \/ (m = minute[c] /\ expiry'[m] = now + Minute)
    BY <1>3 DEF Expire, ExpiresAt
  <2>3. \A d \in Calls : pc'[d] # "new" => pc[d] # "new"
    BY <1>3 DEF Expire
  <2>4. QED
    BY <1>3, <2>1, <2>2, <2>3 DEF Expire
<1>4. ASSUME NEW c \in Calls, Repeat(c) \/ FailOpen(c) \/ Crash(c) PROVE Clocked'
  BY <1>4 DEF Repeat, FailOpen, Crash
<1>5. ASSUME NEW m \in Minutes, Evict(m) PROVE Clocked'
  BY <1>5 DEF Evict
<1>6. CASE Tick
  <2>1. now \div Minute <= (now + 1) \div Minute
    <3>1. now \in Nat /\ now + 1 \in Nat /\ now <= now + 1
      BY Now
    <3>2. QED
      BY <3>1, QuotientGrows
  <2>2. now \div Minute \in Nat /\ (now + 1) \div Minute \in Nat
    BY Now, Quotient
  <2>3. \A c \in Calls : minute[c] \in Nat
    BY DEF Minutes
  <2>4. \A m \in Minutes : expiry'[m] # 0 => expiry'[m] = expiry[m]
    BY <1>6 DEF Tick
  <2>5. \A c \in Calls : pc'[c] # "new" => minute'[c] <= now' \div Minute
    BY <1>6, <2>1, <2>2, <2>3 DEF Tick
  <2>6. QED
    BY <2>4, <2>5
<1>7. CASE UNCHANGED vars
  BY <1>7 DEF vars
<1>8. QED
  BY <1>1, <1>2, <1>3, <1>4, <1>5, <1>6, <1>7 DEF Next

\* Sets of calls are finite.
LEMMA Sizes ==
  ASSUME NEW S \in SUBSET Calls
  PROVE  IsFiniteSet(S) /\ Cardinality(S) \in Nat
BY FS_Subset, FS_CardinalityType

\* The larger of two sets of calls has more members.
LEMMA Larger ==
  ASSUME NEW S \in SUBSET Calls, NEW T \in SUBSET Calls, S \subseteq T
  PROVE  Cardinality(S) <= Cardinality(T)
BY Sizes, FS_Subset

\* A call that has been counted stays so, and no minute loses a call.
LEMMA PastGrows ==
  ASSUME TypeOK, [Next]_vars
  PROVE  /\ \A m \in Minutes : Past(m) \subseteq Past(m)' /\ extra'[m] >= extra[m]
         /\ \A c \in Calls : pc[c] # "new" => minute'[c] = minute[c]
<1> USE DEF TypeOK, Past, InRedis, callVars, redis
<1>1. ASSUME NEW c \in Calls, Arrive(c)
      PROVE  /\ \A m \in Minutes : Past(m) \subseteq Past(m)' /\ extra'[m] >= extra[m]
             /\ \A d \in Calls : pc[d] # "new" => minute'[d] = minute[d]
  BY <1>1 DEF Arrive
<1>2. ASSUME NEW c \in Calls, Count(c)
      PROVE  /\ \A m \in Minutes : Past(m) \subseteq Past(m)' /\ extra'[m] >= extra[m]
             /\ \A d \in Calls : pc[d] # "new" => minute'[d] = minute[d]
  <2>1. UNCHANGED <<minute, extra>> /\ \A d \in Calls \ {c} : pc'[d] = pc[d]
    BY <1>2 DEF Count
  <2>2. pc[c] = "sent"
    BY <1>2 DEF Count
  <2>3. QED
    BY <2>1, <2>2
<1>3. ASSUME NEW c \in Calls, Expire(c)
      PROVE  /\ \A m \in Minutes : Past(m) \subseteq Past(m)' /\ extra'[m] >= extra[m]
             /\ \A d \in Calls : pc[d] # "new" => minute'[d] = minute[d]
  <2>1. UNCHANGED <<minute, extra>> /\ \A d \in Calls \ {c} : pc'[d] = pc[d]
    BY <1>3 DEF Expire
  <2>2. pc'[c] \in {"allowed", "refused"}
    BY <1>3 DEF Expire, Verdict
  <2>3. QED
    BY <2>1, <2>2
<1>4. ASSUME NEW c \in Calls, FailOpen(c) \/ Crash(c)
      PROVE  /\ \A m \in Minutes : Past(m) \subseteq Past(m)' /\ extra'[m] >= extra[m]
             /\ \A d \in Calls : pc[d] # "new" => minute'[d] = minute[d]
  BY <1>4 DEF FailOpen, Crash
<1>5. ASSUME NEW c \in Calls, Repeat(c)
      PROVE  /\ \A m \in Minutes : Past(m) \subseteq Past(m)' /\ extra'[m] >= extra[m]
             /\ \A d \in Calls : pc[d] # "new" => minute'[d] = minute[d]
  BY <1>5 DEF Repeat
<1>6. CASE Tick \/ UNCHANGED vars \/ \E m \in Minutes : Evict(m)
  BY <1>6 DEF Tick, vars, Evict
<1>7. QED
  BY <1>1, <1>2, <1>3, <1>4, <1>5, <1>6 DEF Next

\* A call that is counted is one more, a repetition is one extra.
LEMMA BackedStep ==
  ASSUME TypeOK, Backed, [Next]_vars
  PROVE  Backed'
<1>1. TypeOK'
  BY TypeStep
<1>2. \A m \in Minutes :
        Cardinality(Past(m)) <= Cardinality(Past(m)') /\ extra'[m] >= extra[m]
  <2>1. \A m \in Minutes : Past(m) \in SUBSET Calls /\ Past(m)' \in SUBSET Calls
    BY DEF Past
  <2>2. QED
    BY <2>1, PastGrows, Larger
<1>3. \A m \in Minutes : /\ Cardinality(Past(m)) \in Nat /\ Cardinality(Past(m)') \in Nat
                         /\ extra[m] \in Nat /\ extra'[m] \in Nat
                         /\ counter[m] \in Nat /\ counter'[m] \in Nat
  <2>1. \A m \in Minutes : Past(m) \in SUBSET Calls /\ Past(m)' \in SUBSET Calls
    BY DEF Past
  <2>2. QED
    BY <1>1, <2>1, Sizes DEF TypeOK
<1>4. ASSUME NEW m \in Minutes
      PROVE  counter'[m] <= Cardinality(Past(m)') + extra'[m]
  <2>1. CASE \E c \in Calls : Count(c) /\ minute[c] = m
    <3>1. PICK c \in Calls : Count(c) /\ minute[c] = m
      BY <2>1
    <3>2. pc[c] = "sent" /\ counter'[m] = counter[m] + 1 /\ extra' = extra
      BY <3>1 DEF Count, TypeOK
    <3>3. pc'[c] \in {"first", "allowed", "refused"} /\ minute' = minute
      BY <3>1 DEF Count, TypeOK, Verdict, callVars
    <3>4. Past(m) \subseteq Past(m)' \ {c} /\ c \in Past(m)'
      <4>1. Past(m) \subseteq Past(m)'
        BY PastGrows
      <4>2. c \notin Past(m) /\ c \in Past(m)'
        BY <3>1, <3>2, <3>3 DEF Past
      <4>3. QED
        BY <4>1, <4>2
    <3>5. Cardinality(Past(m)) + 1 <= Cardinality(Past(m)')
      <4>1. Past(m)' \in SUBSET Calls /\ Past(m)' \ {c} \in SUBSET Calls
            /\ Past(m) \in SUBSET Calls
        BY DEF Past
      <4>2. Cardinality(Past(m)) <= Cardinality(Past(m)' \ {c})
        BY <3>4, <4>1, Larger
      <4>3. Cardinality(Past(m)' \ {c}) = Cardinality(Past(m)') - 1
        BY <3>4, <4>1, Sizes, FS_RemoveElement
      <4>4. QED
        BY <1>3, <4>1, <4>2, <4>3, Sizes
    <3>6. QED
      BY <1>3, <3>2, <3>5 DEF Backed
  <2>2. CASE \E c \in Calls : Repeat(c) /\ minute[c] = m
    <3>1. counter'[m] = counter[m] + 1 /\ extra'[m] = extra[m] + 1
      BY <2>2 DEF Repeat, TypeOK
    <3>2. QED
      BY <1>2, <1>3, <3>1 DEF Backed
  <2>3. CASE ~\E c \in Calls : (Count(c) \/ Repeat(c)) /\ minute[c] = m
    <3>1. counter'[m] = counter[m] \/ counter'[m] = 0
      <4>1. ASSUME NEW c \in Calls, Count(c) \/ Repeat(c) PROVE counter'[m] = counter[m]
        BY <2>3, <4>1 DEF Count, Repeat, TypeOK
      <4>2. ASSUME NEW c \in Calls, Arrive(c) \/ Expire(c) \/ FailOpen(c) \/ Crash(c)
            PROVE  counter' = counter
        BY <4>2 DEF Arrive, Expire, FailOpen, Crash, redis
      <4>3. ASSUME NEW n \in Minutes, Evict(n)
            PROVE  counter'[m] = counter[m] \/ counter'[m] = 0
        BY <4>3 DEF Evict, TypeOK
      <4>4. CASE Tick
        BY <4>4 DEF Tick
      <4>5. CASE UNCHANGED vars
        BY <4>5 DEF vars
      <4>6. QED
        BY <4>1, <4>2, <4>3, <4>4, <4>5 DEF Next
    <3>2. QED
      BY <1>2, <1>3, <3>1 DEF Backed
  <2>4. QED
    BY <2>1, <2>2, <2>3
<1>5. ASSUME NEW c \in Calls, Counted(c)'
      PROVE  got'[c] <= Cardinality(Past(minute[c])') + extra'[minute[c]]
             /\ minute'[c] = minute[c]
  <2>1. pc[c] # "new" /\ minute[c] \in Minutes
    <3>1. ASSUME pc[c] = "new" PROVE pc'[c] \in {"new", "sent"}
      BY <3>1 DEF Next, vars, Arrive, Count, Expire, Repeat, FailOpen, Crash, Evict, Tick,
         InRedis, TypeOK
    <3>2. QED
      BY <1>5, <3>1 DEF Counted, TypeOK
  <2>2. minute'[c] = minute[c]
    BY <2>1, PastGrows
  <2>3. CASE Count(c)
    <3>1. got'[c] = counter'[minute[c]]
      BY <2>1, <2>3 DEF Count, TypeOK
    <3>2. QED
      BY <1>4, <2>1, <2>2, <3>1
  <2>4. CASE ~Count(c)
    <3>1. got'[c] = got[c] /\ Counted(c)
      <4>1. ASSUME NEW d \in Calls, Count(d) PROVE got'[c] = got[c] /\ pc'[c] = pc[c]
        BY <2>4, <4>1 DEF Count, TypeOK
      <4>2. ASSUME NEW d \in Calls, Arrive(d) \/ FailOpen(d) \/ Crash(d)
            PROVE  got'[c] = got[c] /\ pc'[c] = pc[c]
        BY <1>5, <4>2 DEF Arrive, FailOpen, Crash, Counted, TypeOK
      <4>3. ASSUME NEW d \in Calls, Expire(d) PROVE got'[c] = got[c] /\ Counted(c)
        BY <1>5, <4>3 DEF Expire, Counted, TypeOK
      <4>4. ASSUME NEW d \in Calls, Repeat(d) PROVE got'[c] = got[c] /\ pc'[c] = pc[c]
        BY <4>4 DEF Repeat
      <4>5. CASE Tick \/ UNCHANGED vars \/ \E m \in Minutes : Evict(m)
        BY <1>5, <4>5 DEF Tick, vars, Evict, Counted, callVars
      <4>6. QED
        BY <1>5, <4>1, <4>2, <4>3, <4>4, <4>5 DEF Next, Counted
    <3>2. got[c] <= Cardinality(Past(minute[c])) + extra[minute[c]] /\ got[c] \in Nat
      BY <3>1 DEF Backed, TypeOK
    <3>3. QED
      BY <1>2, <1>3, <2>1, <2>2, <3>1, <3>2
  <2>5. QED
    BY <2>3, <2>4
<1>6. QED
  <2>1. \A c \in Calls : Counted(c)' =>
          got'[c] <= (Cardinality(Past(minute[c])) + extra[minute[c]])'
    BY <1>5
  <2>2. QED
    BY <1>4, <2>1 DEF Backed

\* While a minute lasts its counter does not expire.
LEMMA CounterLasts ==
  ASSUME TypeOK, Clocked, Tick, NEW m \in Minutes, (now + 1) \div Minute <= m
  PROVE  counter'[m] = counter[m] /\ now \div Minute <= m
<1>1. now \in Nat /\ now + 1 \in Nat /\ now <= now + 1 /\ m \in Nat
  BY Now DEF Minutes
<1>2. /\ now \div Minute <= (now + 1) \div Minute
      /\ now \div Minute \in Nat /\ (now + 1) \div Minute \in Nat
  BY <1>1, QuotientGrows, Quotient
<1>3. ~(expiry[m] # 0 /\ expiry[m] <= now + 1)
  <2> SUFFICES ASSUME expiry[m] # 0, expiry[m] <= now + 1 PROVE FALSE
    OBVIOUS
  <2>1. expiry[m] \in Nat
    BY DEF TypeOK
  <2>2. expiry[m] \div Minute <= (now + 1) \div Minute /\ expiry[m] \div Minute \in Nat
    BY <1>1, <2>1, QuotientGrows, Quotient
  <2>3. m < expiry[m] \div Minute
    BY DEF Clocked
  <2>4. QED
    BY <1>1, <1>2, <2>2, <2>3
<1>4. counter'[m] = counter[m]
  BY <1>3 DEF Tick
<1>5. QED
  BY <1>1, <1>2, <1>4

\* A call that is counted in time is answered more than those before it.
LEMMA DistinctStep ==
  ASSUME TypeOK, Clocked, Distinct, [Next]_vars
  PROVE  Distinct'
<1> USE DEF TypeOK, InTime, Counted, InRedis, callVars, redis
<1>1. ASSUME NEW c \in Calls, Count(c) PROVE Distinct'
  <2>1. /\ pc[c] = "sent" /\ UNCHANGED <<now, minute, evicted>>
        /\ counter'[minute[c]] = counter[minute[c]] + 1
        /\ got'[c] = counter[minute[c]] + 1
        /\ \A m \in Minutes \ {minute[c]} : counter'[m] = counter[m]
        /\ \A d \in Calls \ {c} : got'[d] = got[d] /\ pc'[d] = pc[d]
    BY <1>1 DEF Count
  <2>2. minute[c] \in Minutes /\ counter[minute[c]] \in Nat
        /\ \A d \in Calls : got[d] \in Nat
    OBVIOUS
  <2>3. \A m \in Minutes : \A d \in InTime(m)' : d # c => d \in InTime(m)
    BY <1>1, <2>1 DEF Count
  <2>4. \A m \in Minutes : c \in InTime(m)' => m = minute[c] /\ now \div Minute = m
    BY <1>1, <2>1 DEF Count
  <2>5. SUFFICES ASSUME NEW m \in Minutes \ evicted
                 PROVE  /\ \A d, e \in InTime(m)' : got'[d] = got'[e] => d = e
                        /\ \A d \in InTime(m)' :
                             got'[d] > 0 /\ (now \div Minute <= m => got'[d] <= counter'[m])
    BY <2>1 DEF Distinct
  <2>6. now \div Minute \in Nat
    BY Now, Quotient
  <2>7. ASSUME NEW d \in InTime(m)', d # c
        PROVE  /\ d \in InTime(m) /\ got'[d] = got[d] /\ got[d] \in Nat /\ got[d] > 0
               /\ now \div Minute <= m => got[d] <= counter[m]
    BY <2>1, <2>2, <2>3, <2>7 DEF Distinct
  <2>8. counter[m] <= counter'[m] /\ counter[m] \in Nat
    BY <2>1, <2>2
  <2>9. ASSUME NEW d \in InTime(m)', NEW e \in InTime(m)', got'[d] = got'[e] PROVE d = e
    <3>1. CASE d # c /\ e # c
      BY <2>7, <2>9, <3>1 DEF Distinct
    <3>2. CASE d = c /\ e # c
      <4>1. m = minute[c] /\ now \div Minute <= m
        BY <2>4, <2>6, <2>9, <3>2
      <4>2. QED
        BY <2>1, <2>2, <2>7, <2>9, <3>2, <4>1
    <3>3. CASE d # c /\ e = c
      <4>1. m = minute[c] /\ now \div Minute <= m
        BY <2>4, <2>6, <2>9, <3>3
      <4>2. QED
        BY <2>1, <2>2, <2>7, <2>9, <3>3, <4>1
    <3>4. QED
      BY <3>1, <3>2, <3>3
  <2>10. ASSUME NEW d \in InTime(m)'
         PROVE  got'[d] > 0 /\ (now \div Minute <= m => got'[d] <= counter'[m])
    <3>1. CASE d = c
      BY <2>1, <2>2, <2>4, <2>10, <3>1
    <3>2. CASE d # c
      <4>1. got'[d] = got[d] /\ got[d] \in Nat /\ got[d] > 0
            /\ (now \div Minute <= m => got[d] <= counter[m])
        BY <2>7, <3>2
      <4>2. counter'[m] \in Nat
        BY <2>1, <2>2
      <4>3. QED
        BY <2>8, <4>1, <4>2
    <3>3. QED
      BY <3>1, <3>2
  <2>11. QED
    BY <2>9, <2>10
<1>2. ASSUME \A m \in Minutes : InTime(m)' \subseteq InTime(m), UNCHANGED <<got, now>>,
             evicted \subseteq evicted',
             \A m \in Minutes \ evicted' : counter[m] <= counter'[m],
             \A m \in Minutes : counter'[m] \in Nat
      PROVE  Distinct'
  <2>1. SUFFICES ASSUME NEW m \in Minutes \ evicted'
                 PROVE  /\ \A d, e \in InTime(m)' : got[d] = got[e] => d = e
                        /\ \A d \in InTime(m)' :
                             got[d] > 0 /\ (now \div Minute <= m => got[d] <= counter'[m])
    BY <1>2 DEF Distinct
  <2>2. m \in Minutes \ evicted
    BY <1>2
  <2>3. \A d \in InTime(m)' : d \in InTime(m) /\ got[d] \in Nat
    BY <1>2
  <2>4. counter[m] <= counter'[m] /\ counter[m] \in Nat /\ counter'[m] \in Nat
    BY <1>2
  <2>5. QED
    BY <2>2, <2>3, <2>4 DEF Distinct
<1>3. \A m \in Minutes : counter'[m] \in Nat
  BY TypeStep
<1>4. ASSUME NEW c \in Calls, Arrive(c) PROVE Distinct'
  <2>1. \A m \in Minutes : InTime(m)' \subseteq InTime(m)
    BY <1>4 DEF Arrive
  <2>2. QED
    BY <1>2, <1>3, <1>4, <2>1 DEF Arrive
<1>5. ASSUME NEW c \in Calls, Expire(c) PROVE Distinct'
  <2>1. UNCHANGED <<minute, late>> /\ \A d \in Calls \ {c} : pc'[d] = pc[d]
    BY <1>5 DEF Expire
  <2>2. pc[c] = "first"
    BY <1>5 DEF Expire
  <2>3. \A m \in Minutes : InTime(m)' \subseteq InTime(m)
    BY <2>1, <2>2
  <2>4. QED
    BY <1>2, <1>3, <1>5, <2>3 DEF Expire
<1>6. ASSUME NEW c \in Calls, FailOpen(c) \/ Crash(c) PROVE Distinct'
  <2>1. \A m \in Minutes : InTime(m)' \subseteq InTime(m)
    BY <1>6 DEF FailOpen, Crash
  <2>2. QED
    BY <1>2, <1>3, <1>6, <2>1 DEF FailOpen, Crash
<1>7. ASSUME NEW c \in Calls, Repeat(c) PROVE Distinct'
  <2>1. \A m \in Minutes : InTime(m)' \subseteq InTime(m)
    BY <1>7 DEF Repeat
  <2>2. \A m \in Minutes : counter[m] <= counter'[m]
    BY <1>7 DEF Repeat
  <2>3. QED
    BY <1>2, <1>3, <1>7, <2>1, <2>2 DEF Repeat
<1>8. ASSUME NEW n \in Minutes, Evict(n) PROVE Distinct'
  <2>1. \A m \in Minutes : InTime(m)' \subseteq InTime(m)
    BY <1>8 DEF Evict
  <2>2. \A m \in Minutes \ evicted' : counter[m] <= counter'[m]
    BY <1>8 DEF Evict
  <2>3. QED
    BY <1>2, <1>3, <1>8, <2>1, <2>2 DEF Evict
<1>9. CASE Tick
  <2>1. UNCHANGED <<got, evicted>> /\ \A m \in Minutes : InTime(m)' = InTime(m)
    BY <1>9 DEF Tick
  <2>2. now' = now + 1
    BY <1>9 DEF Tick
  <2>3. \A m \in Minutes : now' \div Minute <= m =>
          counter'[m] = counter[m] /\ now \div Minute <= m
    BY <1>9, <2>2, CounterLasts
  <2>4. QED
    BY <2>1, <2>3 DEF Distinct
<1>10. CASE UNCHANGED vars
  BY <1>10 DEF vars, Distinct
<1>11. QED
  BY <1>1, <1>4, <1>5, <1>6, <1>7, <1>8, <1>9, <1>10 DEF Next

\* A verdict is what the answer said.
LEMMA JudgedStep ==
  ASSUME TypeOK, Judged, [Next]_vars
  PROVE  Judged'
<1> USE DEF TypeOK, Judged, InRedis, callVars, redis
<1>1. ASSUME NEW c \in Calls, Count(c) PROVE Judged'
  <2>1. counter[minute[c]] + 1 \in Nat
    OBVIOUS
  <2>2. QED
    BY <1>1, <2>1 DEF Count, Verdict
<1>2. ASSUME NEW c \in Calls, Expire(c) PROVE Judged'
  BY <1>2 DEF Expire, Verdict
<1>3. ASSUME NEW c \in Calls, Arrive(c) \/ Repeat(c) \/ FailOpen(c) \/ Crash(c)
      PROVE  Judged'
  BY <1>3 DEF Arrive, Repeat, FailOpen, Crash
<1>4. CASE Tick \/ UNCHANGED vars \/ \E m \in Minutes : Evict(m)
  BY <1>4 DEF Tick, vars, Evict
<1>5. QED
  BY <1>1, <1>2, <1>3, <1>4 DEF Next

(***************************************************************************)
(* The theorems.                                                           *)
(***************************************************************************)

\* The counters and the calls they have answered: the invariant, whichever
\* Redis calls fail, are repeated or lose their counter (cache.py,
\* check_rate_limit).
THEOREM InvHolds == Spec => []RateInv
<1>1. Init => RateInv
  <2> SUFFICES ASSUME Init PROVE RateInv
    OBVIOUS
  <2> USE DEF Init
  <2>1. TypeOK
    BY Zeros DEF TypeOK, Stages
  <2>2. Clocked
    BY DEF Clocked
  <2>3. Backed
    <3>1. \A m \in Minutes : Past(m) \in SUBSET Calls
      BY DEF Past
    <3>2. \A m \in Minutes : Cardinality(Past(m)) \in Nat
      BY <3>1, Sizes
    <3>3. QED
      BY <3>2 DEF Backed, Counted
  <2>4. Distinct /\ Judged
    BY DEF Distinct, InTime, Counted, Judged
  <2>5. QED
    BY <2>1, <2>2, <2>3, <2>4 DEF RateInv
<1>2. RateInv /\ [Next]_vars => RateInv'
  BY TypeStep, ClockedStep, BackedStep, DistinctStep, JudgedStep DEF RateInv
<1>3. QED
  BY <1>1, <1>2, PTL DEF Spec

\* No more calls than the limit pass in a minute (cache.py, check_rate_limit;
\* rate_limit.py, dispatch).
THEOREM LimitHolds == Spec => []WithinLimit
<1>1. RateInv => WithinLimit
  <2> SUFFICES ASSUME RateInv, NEW m \in Minutes \ evicted
               PROVE  Cardinality({c \in Calls \ late : minute[c] = m /\ pc[c] = "allowed"})
                      <= Limit
    BY DEF WithinLimit
  <2> DEFINE S == {c \in Calls \ late : minute[c] = m /\ pc[c] = "allowed"}
             f == [c \in S |-> got[c]]
  <2>1. S \subseteq InTime(m)
    BY DEF InTime, Counted
  <2>2. \A c \in S : got[c] \in 1..Limit
    <3>1. ASSUME NEW c \in S PROVE got[c] \in 1..Limit
      <4>1. got[c] \in Nat /\ got[c] > 0
        BY <2>1 DEF RateInv, TypeOK, Distinct
      <4>2. got[c] <= Limit
        BY DEF RateInv, Judged
      <4>3. QED
        BY <4>1, <4>2
    <3>2. QED
      BY <3>1
  <2>3. \A c, d \in S : got[c] = got[d] => c = d
    BY <2>1 DEF RateInv, Distinct
  <2>4. f \in Injection(S, 1..Limit)
    BY <2>2, <2>3 DEF Injection, IsInjective
  <2>5. IsFiniteSet(1..Limit) /\ Cardinality(1..Limit) = Limit
    BY FS_Interval
  <2>6. Cardinality(S) <= Cardinality(1..Limit)
    BY <2>4, <2>5, FS_Injection
  <2>7. QED
    BY <2>5, <2>6
<1>2. QED
  BY <1>1, InvHolds, PTL

\* No call is refused below the limit (rate_limit.py, 429 RATE_LIMITED).
THEOREM RefusalsDue == Spec => []RefusedOverLimit
<1>1. RateInv => RefusedOverLimit
  <2> SUFFICES ASSUME RateInv, NEW c \in Calls, pc[c] = "refused"
               PROVE  Cardinality({d \in Calls : minute[d] = minute[c] /\ pc[d] # "new"})
                        + extra[minute[c]] > Limit
    BY DEF RefusedOverLimit
  <2> DEFINE m == minute[c]
             Made == {d \in Calls : minute[d] = m /\ pc[d] # "new"}
  <2>1. got[c] > Limit /\ got[c] <= Cardinality(Past(m)) + extra[m]
    BY DEF RateInv, Judged, Backed, Counted
  <2>2. Made \in SUBSET Calls /\ Past(m) \in SUBSET Calls /\ Past(m) \subseteq Made
    BY DEF Past
  <2>3. Cardinality(Past(m)) <= Cardinality(Made)
    BY <2>2, Larger
  <2>4. /\ Cardinality(Past(m)) \in Nat /\ Cardinality(Made) \in Nat
        /\ extra[m] \in Nat /\ got[c] \in Nat
    BY <2>2, Sizes DEF RateInv, TypeOK
  <2>5. QED
    BY <2>1, <2>3, <2>4
<1>2. QED
  BY <1>1, InvHolds, PTL

\* A counter that answers a call has an expiry (cache.py, "count == 1 or
\* ttl == -1").
THEOREM ExpiriesSet == Spec => AnsweredCountersExpire
<1>1. TypeOK /\ [Next]_vars =>
        [\A c \in Calls : InRedis(c) /\ pc'[c] \in {"allowed", "refused"} =>
           counter'[minute[c]] = 0 \/ expiry'[minute[c]] # 0]_vars
  <2> SUFFICES ASSUME TypeOK, [Next]_vars, NEW c \in Calls, InRedis(c),
                      pc'[c] \in {"allowed", "refused"}
               PROVE  counter'[minute[c]] = 0 \/ expiry'[minute[c]] # 0
    OBVIOUS
  <2> USE DEF TypeOK, InRedis, callVars, redis
  <2>1. Count(c) \/ Expire(c)
    <3>1. ASSUME NEW d \in Calls, d # c, Count(d) \/ Expire(d) PROVE pc'[c] = pc[c]
      BY <3>1 DEF Count, Expire
    <3>2. ASSUME NEW d \in Calls, Arrive(d) \/ Repeat(d) \/ FailOpen(d) \/ Crash(d)
          PROVE  pc'[c] \in {pc[c], "sent", "open", "dead"}
      BY <3>2 DEF Arrive, Repeat, FailOpen, Crash
    <3>3. CASE Tick \/ UNCHANGED vars \/ \E m \in Minutes : Evict(m)
      BY <3>3 DEF Tick, vars, Evict
    <3>4. QED
      BY <3>1, <3>2, <3>3 DEF Next
  <2>2. CASE Count(c)
    <3>1. ~SetsExpiry(counter[minute[c]] + 1, expiry[minute[c]]) /\ expiry' = expiry
      BY <2>2 DEF Count
    <3>2. QED
      BY <3>1 DEF SetsExpiry
  <2>3. CASE Expire(c)
    <3>1. CASE counter[minute[c]] > 0
      <4>1. expiry'[minute[c]] = now + Minute
        BY <2>3, <3>1 DEF Expire, ExpiresAt
      <4>2. now \in Nat
        BY Now
      <4>3. QED
        BY <4>1, <4>2
    <3>2. CASE ~(counter[minute[c]] > 0)
      BY <2>3, <3>2 DEF Expire
    <3>3. QED
      BY <3>1, <3>2
  <2>4. QED
    BY <2>1, <2>2, <2>3
<1>2. RateInv => TypeOK
  BY DEF RateInv
<1>3. QED
  BY <1>1, <1>2, InvHolds, PTL DEF Spec, AnsweredCountersExpire
=============================================================================
