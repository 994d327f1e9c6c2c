------------------------- MODULE RateLimiter_proofs -------------------------
(***************************************************************************)
(* Proofs about RateLimiter for any number of handlers and keys, any       *)
(* burst, rate and scale.                                                  *)
(***************************************************************************)
EXTENDS RateLimiter, TLAPS

\* Who is where in Limit, and what the mutex protects.
LockInv ==
  \A c \in Callers :
    /\ stage[c] # "idle" => want[c] \in Keys
    /\ stage[c] \in {"lookup", "store"} => mu = c
    /\ stage[c] = "store" => limits[want[c]] = None
    /\ stage[c] \in {"idle", "lock", "lookup", "store"} <=> held[c] = None
    /\ held[c] # None => held[c] = limits[want[c]]

\* A limiter in the map was put there by the caller it is named after.
MapInv ==
  \A k \in Keys : limits[k] # None => held[limits[k]] = limits[k] /\ want[limits[k]] = k

\* What key k's limiter has given out since the i-th admission of k, together
\* with what is left in it, is paid for.
Paid(k, i) ==
  (Len(grants[k]) - i + 1) * Scale + bucket[limits[k]].tokens
    <= Burst * Scale + Rate * (bucket[limits[k]].last - grants[k][i])

AccountInv ==
  \A k \in Keys :
    /\ limits[k] = None => grants[k] = <<>>
    /\ limits[k] # None =>
         /\ bucket[limits[k]].last <= now
         /\ \A i \in 1..Len(grants[k]) : Paid(k, i)

LimiterInv ==
  LimiterTypeOK /\ LockInv /\ MapInv /\ AccountInv /\ WindowBound

-----------------------------------------------------------------------------

\* The invariant holds of the limiter NewRateLimiter makes.
LEMMA InitLimiterInv == LimiterInit => LimiterInv
<1> SUFFICES ASSUME LimiterInit PROVE LimiterInv
  OBVIOUS
<1> USE NoneAssumption, RateAssumption, ClockAssumption DEF LimiterInit
<1>1. LimiterTypeOK
  BY DEF LimiterTypeOK, Stages
<1>2. LockInv /\ MapInv
  BY DEF LockInv, MapInv
<1>3. AccountInv
  BY DEF AccountInv
<1>4. WindowBound
  BY DEF WindowBound
<1> QED BY <1>1, <1>2, <1>3, <1>4 DEF LimiterInv

\* The level of a bucket lies between what it was left with and a full bucket.
LEMMA LevelBounds ==
  ASSUME LimiterTypeOK, NEW l \in Callers, bucket[l].last <= now
  PROVE  /\ Level(l) \in 0..Burst * Scale
         /\ Level(l) <= bucket[l].tokens + Rate * (now - bucket[l].last)
<1> USE RateAssumption, ClockAssumption
<1> DEFINE full == Burst * Scale
           tok  == bucket[l].tokens
           fill == Rate * (now - bucket[l].last)
<1>1. full \in Nat /\ tok \in 0..full /\ bucket[l].last \in Nat /\ now \in Nat
  BY DEF LimiterTypeOK
<1>2. fill \in Nat
  BY <1>1
<1>3. Level(l) = IF tok + fill < full THEN tok + fill ELSE full
  BY DEF Level
<1> HIDE DEF full, tok, fill
<1>4. Level(l) \in 0..full /\ Level(l) <= tok + fill
  BY <1>1, <1>2, <1>3
<1> QED BY <1>4 DEF full, tok, fill

\* Every step of a handler and of the clock preserves the invariant.
LEMMA NextLimiterInv == LimiterInv /\ [LimiterNext]_limiterVars => LimiterInv'
<1> SUFFICES ASSUME LimiterTypeOK, LockInv, MapInv, AccountInv, WindowBound,
                    [LimiterNext]_limiterVars
             PROVE  LimiterInv'
  BY DEF LimiterInv
<1> USE NoneAssumption, RateAssumption, ClockAssumption
<1>1. ASSUME NEW c \in Callers, NEW k \in Keys, CallLimit(c, k) PROVE LimiterInv'
  <2>1. LimiterTypeOK'
    BY <1>1 DEF CallLimit, LimiterTypeOK, Stages
  <2>2. LockInv'
    BY <1>1 DEF CallLimit, LimiterTypeOK, LockInv
  <2>3. MapInv'
    BY <1>1 DEF CallLimit, LimiterTypeOK, LockInv, MapInv
  <2>4. AccountInv'
    BY <1>1 DEF CallLimit, LimiterTypeOK, AccountInv, Paid
  <2>5. WindowBound'
    BY <1>1 DEF CallLimit, WindowBound
  <2> QED BY <2>1, <2>2, <2>3, <2>4, <2>5 DEF LimiterInv
<1>2. ASSUME NEW c \in Callers, Lock(c) PROVE LimiterInv'
  <2>1. LimiterTypeOK'
    BY <1>2 DEF Lock, LimiterTypeOK, Stages
  <2>2. LockInv'
    BY <1>2 DEF Lock, LimiterTypeOK, LockInv
  <2>3. MapInv'
    BY <1>2 DEF Lock, LimiterTypeOK, LockInv, MapInv
  <2>4. AccountInv'
    BY <1>2 DEF Lock, LimiterTypeOK, AccountInv, Paid
  <2>5. WindowBound'
    BY <1>2 DEF Lock, WindowBound
  <2> QED BY <2>1, <2>2, <2>3, <2>4, <2>5 DEF LimiterInv
<1>3. ASSUME NEW c \in Callers, Lookup(c) PROVE LimiterInv'
  <2>1. LimiterTypeOK'
    <3>1. limits[want[c]] \in Callers \cup {None}
      BY <1>3 DEF Lookup, LimiterTypeOK, LockInv
    <3>2. held' \in [Callers -> Callers \cup {None}]
      BY <1>3, <3>1 DEF Lookup, Return, LimiterTypeOK
    <3>3. stage' \in [Callers -> Stages] /\ mu' \in Callers \cup {None}
      BY <1>3 DEF Lookup, Return, LimiterTypeOK, Stages
    <3> QED BY <1>3, <3>2, <3>3 DEF Lookup, LimiterTypeOK
  <2>2. LockInv'
    BY <1>3 DEF Lookup, Return, LimiterTypeOK, LockInv
  <2>3. MapInv'
    BY <1>3 DEF Lookup, Return, LimiterTypeOK, LockInv, MapInv
  <2>4. AccountInv'
    BY <1>3 DEF Lookup, Return, LimiterTypeOK, AccountInv, Paid
  <2>5. WindowBound'
    BY <1>3 DEF Lookup, Return, WindowBound
  <2> QED BY <2>1, <2>2, <2>3, <2>4, <2>5 DEF LimiterInv
<1>4. ASSUME NEW c \in Callers, Store(c) PROVE LimiterInv'
  <2>0. /\ want[c] \in Keys /\ mu = c /\ held[c] = None
        /\ limits[want[c]] = None /\ grants[want[c]] = <<>>
        /\ \A k \in Keys : limits[k] # c
    BY <1>4 DEF Store, LockInv, MapInv, AccountInv, LimiterTypeOK
  <2>1. LimiterTypeOK'
    <3>1. [tokens |-> Burst * Scale, last |-> now]
            \in [tokens : 0..Burst * Scale, last : 0..MaxTime]
      BY DEF LimiterTypeOK
    <3> QED BY <1>4, <2>0, <3>1 DEF Store, Return, LimiterTypeOK, Stages
  <2>2. LockInv'
    BY <1>4, <2>0 DEF Store, Return, LimiterTypeOK, LockInv
  <2>3. MapInv'
    BY <1>4, <2>0 DEF Store, Return, LimiterTypeOK, LockInv, MapInv
  <2>4. AccountInv'
    <3>1. ASSUME NEW k \in Keys, k # want[c]
          PROVE  limits'[k] = limits[k] /\ grants'[k] = grants[k]
                 /\ (limits[k] # None => bucket'[limits[k]] = bucket[limits[k]])
      BY <1>4, <2>0, <3>1 DEF Store, LimiterTypeOK
    <3>2. limits'[want[c]] = c /\ grants'[want[c]] = <<>> /\ bucket'[c].last = now
      BY <1>4, <2>0 DEF Store, LimiterTypeOK
    <3>3. now' = now /\ now \in Int
      BY <1>4 DEF Store, LimiterTypeOK
    <3>4. ASSUME NEW k \in Keys
          PROVE /\ limits'[k] = None => grants'[k] = <<>>
                /\ limits'[k] # None =>
                     /\ bucket'[limits'[k]].last <= now'
                     /\ \A i \in 1..Len(grants'[k]) : Paid(k, i)'
      <4>1. CASE k = want[c]
        BY <3>2, <3>3, <4>1
      <4>2. CASE k # want[c]
        BY <3>1, <3>3, <4>2 DEF AccountInv, Paid
      <4> QED BY <4>1, <4>2
    <3> QED BY <3>4 DEF AccountInv
  <2>5. WindowBound'
    BY <1>4 DEF Store, WindowBound
  <2> QED BY <2>1, <2>2, <2>3, <2>4, <2>5 DEF LimiterInv
<1>5. ASSUME NEW c \in Callers, Allow(c) PROVE LimiterInv'
  <2>0. PICK k \in Keys, p \in Callers :
          /\ k = want[c] /\ p = held[c] /\ p = limits[k]
          /\ bucket[p].last <= now
    BY <1>5 DEF Allow, LockInv, MapInv, AccountInv, LimiterTypeOK
  <2>1. CASE Level(p) < Scale
    <3>1. stage' = [stage EXCEPT ![c] = "denied"]
          /\ UNCHANGED <<mu, limits, bucket, want, held, now, grants>>
      <4>1. Level(p) \in Int
        BY <2>0, LevelBounds
      <4> QED BY <1>5, <2>0, <2>1, <4>1 DEF Allow
    <3>2. LimiterTypeOK'
      BY <3>1 DEF LimiterTypeOK, Stages
    <3>4. stage[c] = "allow"
      BY <1>5 DEF Allow
    <3>5. LockInv' /\ MapInv'
      BY <3>1, <3>4 DEF LimiterTypeOK, LockInv, MapInv
    <3>3. AccountInv' /\ WindowBound'
      BY <3>1 DEF AccountInv, WindowBound, Paid
    <3> QED BY <3>2, <3>3, <3>5 DEF LimiterInv
  <2>2. CASE Level(p) >= Scale
    <3>1. /\ bucket' = [bucket EXCEPT ![p] = [tokens |-> Level(p) - Scale, last |-> now]]
          /\ grants' = [grants EXCEPT ![k] = Append(@, now)]
          /\ stage' = [stage EXCEPT ![c] = "allowed"]
          /\ UNCHANGED <<mu, limits, want, held, now>>
      <4>1. Level(p) \in Int
        BY <2>0, LevelBounds
      <4> QED BY <1>5, <2>0, <2>2, <4>1 DEF Allow
    <3>2. /\ Level(p) - Scale \in 0..Burst * Scale
          /\ Level(p) <= bucket[p].tokens + Rate * (now - bucket[p].last)
          /\ Level(p) <= Burst * Scale
      BY <2>0, <2>2, LevelBounds
    <3>3. \A l \in Keys : l # k => limits[l] # p
      BY <2>0 DEF MapInv
    <3>0. PICK n \in Nat :
            /\ n = Len(grants[k])
            /\ grants[k] \in Seq(0..MaxTime)
            /\ now \in 0..MaxTime
            /\ grants'[k] = Append(grants[k], now)
      <4>1. grants[k] \in Seq(0..MaxTime) /\ now \in 0..MaxTime
        BY <2>0 DEF LimiterTypeOK
      <4>2. Len(grants[k]) \in Nat
        BY <4>1
      <4>3. grants'[k] = Append(grants[k], now)
        BY <2>0, <3>1 DEF LimiterTypeOK
      <4> QED BY <4>1, <4>2, <4>3
    <3>4. /\ Len(grants'[k]) = n + 1
          /\ grants'[k][n + 1] = now
          /\ \A i \in 1..n : grants'[k][i] = grants[k][i] /\ grants[k][i] \in 0..MaxTime
      BY <3>0
    <3>5. /\ bucket'[p].tokens = Level(p) - Scale
          /\ bucket'[p].last = now
          /\ bucket[p].tokens \in Int
          /\ bucket[p].last \in Int
      BY <2>0, <3>1 DEF LimiterTypeOK
    <3>6. LimiterTypeOK'
      <4>1. [tokens |-> Level(p) - Scale, last |-> now]
              \in [tokens : 0..Burst * Scale, last : 0..MaxTime]
        BY <3>2 DEF LimiterTypeOK
      <4>2. Append(grants[k], now) \in Seq(0..MaxTime)
        BY <3>0
      <4> QED BY <1>5, <2>0, <3>1, <4>1, <4>2 DEF LimiterTypeOK, Stages
    <3>7. LockInv' /\ MapInv'
      <4>1. stage[c] = "allow" /\ stage \in [Callers -> Stages]
        BY <1>5 DEF Allow, LimiterTypeOK
      <4>2. UNCHANGED <<mu, limits, want, held>>
            /\ stage' = [stage EXCEPT ![c] = "allowed"]
        BY <3>1
      <4>3. LockInv'
        BY <4>1, <4>2 DEF LockInv
      <4>4. MapInv'
        BY <4>2 DEF MapInv
      <4> QED BY <4>3, <4>4
    <3>8. \A i \in 1..n + 1 :
            (n + 1 - i + 1) * Scale + bucket'[p].tokens
              <= Burst * Scale + Rate * (now - grants'[k][i])
      <4> SUFFICES ASSUME NEW i \in 1..n + 1
                   PROVE (n + 1 - i + 1) * Scale + (Level(p) - Scale)
                           <= Burst * Scale + Rate * (now - grants'[k][i])
        BY <3>5
      <4>1. CASE i = n + 1
        <5>1. n + 1 - i + 1 = 1 /\ now - grants'[k][i] = 0
          BY <3>0, <3>4, <4>1
        <5>2. Level(p) \in Int
          BY <2>0, LevelBounds
        <5>3. 1 * Scale + (Level(p) - Scale) <= Burst * Scale + Rate * 0
          BY <3>2, <5>2
        <5> QED BY <5>1, <5>3
      <4>2. CASE i \in 1..n
        <5> DEFINE tok == bucket[p].tokens
                   last == bucket[p].last
                   g == grants[k][i]
        <5>1. (n - i + 1) * Scale + tok <= Burst * Scale + Rate * (last - g)
          BY <2>0, <3>0, <4>2, NoneAssumption DEF AccountInv, Paid
        <5>2. g \in Int /\ tok \in Int /\ last \in Int /\ n \in Int /\ now \in Int
          BY <3>0, <3>4, <3>5, <4>2
        <5>3. Level(p) <= tok + Rate * (now - last) /\ Level(p) \in Int
          BY <3>2, <2>0, LevelBounds
        <5>4. grants'[k][i] = g
          BY <3>4, <4>2
        <5> HIDE DEF tok, last, g
        <5> QED BY <5>1, <5>2, <5>3, <5>4
      <4> QED BY <4>1, <4>2
    <3>9. AccountInv'
      <4>1. ASSUME NEW l \in Keys, l # k
            PROVE  limits'[l] = limits[l] /\ grants'[l] = grants[l]
                   /\ (limits[l] # None => bucket'[limits[l]] = bucket[limits[l]])
        BY <2>0, <3>1, <3>3, <4>1 DEF LimiterTypeOK
      <4>2. limits'[k] = p /\ p # None
        BY <2>0, <3>1
      <4>3. now' = now /\ now \in Int
        BY <3>0, <3>1
      <4>4. \A i \in 1..Len(grants'[k]) : Paid(k, i)'
        <5> SUFFICES ASSUME NEW i \in 1..n + 1 PROVE Paid(k, i)'
          BY <3>4
        <5>1. (n + 1 - i + 1) * Scale + bucket'[p].tokens
                <= Burst * Scale + Rate * (bucket'[p].last - grants'[k][i])
          BY <3>5, <3>8
        <5> HIDE RateAssumption
        <5>2. Len(grants'[k]) = n + 1 /\ limits'[k] = p
          BY <3>4, <4>2
        <5>3. (Len(grants'[k]) - i + 1) * Scale + bucket'[limits'[k]].tokens
                <= Burst * Scale + Rate * (bucket'[limits'[k]].last - grants'[k][i])
          BY <5>1, <5>2
        <5> QED BY <5>3 DEF Paid
      <4>5. ASSUME NEW l \in Keys
            PROVE /\ limits'[l] = None => grants'[l] = <<>>
                  /\ limits'[l] # None =>
                       /\ bucket'[limits'[l]].last <= now'
                       /\ \A i \in 1..Len(grants'[l]) : Paid(l, i)'
        <5>1. CASE l = k
          BY <3>5, <4>2, <4>3, <4>4, <5>1
        <5>2. CASE l # k
          BY <4>1, <4>3, <5>2 DEF AccountInv, Paid
        <5> QED BY <5>1, <5>2
      <4> QED BY <4>5 DEF AccountInv
    <3>10. WindowBound'
      <4> SUFFICES ASSUME NEW l \in Keys, NEW i \in 1..Len(grants'[l]),
                          NEW j \in 1..Len(grants'[l]), i <= j
                   PROVE (j - i + 1) * Scale
                           <= Burst * Scale + Rate * (grants'[l][j] - grants'[l][i])
        BY DEF WindowBound
      <4>1. CASE l # k
        BY <2>0, <3>1, <4>1 DEF WindowBound, LimiterTypeOK
      <4>2. CASE l = k /\ j <= n
        <5>1. i \in 1..n /\ j \in 1..n
          BY <3>4, <4>2
        <5> QED BY <3>0, <3>4, <4>2, <5>1 DEF WindowBound
      <4>3. CASE l = k /\ j = n + 1
        <5>1. bucket'[p].tokens >= 0 /\ bucket'[p].tokens \in Int
          BY <3>2, <3>5
        <5>2. i \in 1..n + 1 /\ grants'[k][i] \in Int
          BY <3>0, <3>4, <4>3
        <5>3. (n + 1 - i + 1) * Scale + bucket'[p].tokens
                <= Burst * Scale + Rate * (now - grants'[k][i])
          BY <3>8, <5>2
        <5>4. grants'[l][j] = now
          BY <3>4, <4>3
        <5>5. (n + 1 - i + 1) * Scale \in Int /\ Burst * Scale \in Int
              /\ Rate * (now - grants'[k][i]) \in Int
          <6>1. n \in Int /\ i \in Int /\ now \in Int
            BY <3>0, <5>2
          <6>2. ASSUME NEW x \in Int, NEW y \in Int, NEW z \in Int, NEW u \in Int
                PROVE  (x + 1 - y + 1) * Scale \in Int /\ Burst * Scale \in Int
                       /\ Rate * (z - u) \in Int
            OBVIOUS
          <6> QED BY <5>2, <6>1, <6>2
        <5>6. (n + 1 - i + 1) * Scale <= Burst * Scale + Rate * (now - grants'[k][i])
          BY <5>1, <5>3, <5>5
        <5> QED BY <4>3, <5>4, <5>6
      <4> QED BY <3>4, <4>1, <4>2, <4>3
    <3> QED BY <3>6, <3>7, <3>9, <3>10 DEF LimiterInv
  <2>3. Level(p) \in Int
    BY <2>0, LevelBounds
  <2> QED BY <2>1, <2>2, <2>3
<1>6. CASE Tick
  <2>1. LimiterTypeOK' /\ LockInv' /\ MapInv'
    BY <1>6 DEF Tick, LimiterTypeOK, LockInv, MapInv
  <2>2. AccountInv'
    BY <1>6 DEF Tick, LimiterTypeOK, AccountInv, Paid
  <2>3. WindowBound'
    BY <1>6 DEF Tick, WindowBound
  <2> QED BY <2>1, <2>2, <2>3 DEF LimiterInv
<1>7. CASE UNCHANGED limiterVars
  BY <1>7 DEF limiterVars, LimiterInv, LimiterTypeOK, LockInv, MapInv, AccountInv,
              Paid, WindowBound
<1> QED
  BY <1>1, <1>2, <1>3, <1>4, <1>5, <1>6, <1>7 DEF LimiterNext, LimitStep

-----------------------------------------------------------------------------
\* The invariant holds in every state of the limiter.
THEOREM LimiterInductive == LimiterSpec => []LimiterInv
  BY InitLimiterInv, NextLimiterInv, PTL DEF LimiterSpec

\* Types, and buckets between nothing and Burst tokens.
THEOREM LimiterTypeCorrect == LimiterSpec => []LimiterTypeOK
<1>1. LimiterInv => LimiterTypeOK
  BY DEF LimiterInv
<1> QED BY LimiterInductive, <1>1, PTL

\* The admissions of a key within any span of time are paid for by one full
\* bucket and the refill of that span, however the handlers interleave.
THEOREM WindowBounded == LimiterSpec => []WindowBound
<1>1. LimiterInv => WindowBound
  BY DEF LimiterInv
<1> QED BY LimiterInductive, <1>1, PTL

\* The mutex makes get-or-create atomic: one limiter per key.
THEOREM OneLimiter == LimiterSpec => []OneLimiterPerKey
<1>1. LimiterInv => OneLimiterPerKey
  BY DEF LimiterInv, LockInv, MapInv, OneLimiterPerKey
<1> QED BY LimiterInductive, <1>1, PTL

\* A limiter stays in the map.
THEOREM Kept == LimiterSpec => LimiterKept
<1>1. LimiterInv /\ [LimiterNext]_limiterVars =>
        [\A k \in Keys : limits[k] # None => limits'[k] = limits[k]]_limiterVars
  <2> SUFFICES ASSUME LimiterInv, LimiterNext, NEW k \in Keys, limits[k] # None
               PROVE limits'[k] = limits[k]
    OBVIOUS
  <2>1. CASE \E c \in Callers : Store(c)
    BY <2>1 DEF Store, LimiterInv, LockInv, LimiterTypeOK
  <2>2. CASE ~\E c \in Callers : Store(c)
    BY <2>2 DEF LimiterNext, LimitStep, Lock, Lookup, Allow, CallLimit, Tick
  <2> QED BY <2>1, <2>2
<1> QED BY LimiterInductive, <1>1, PTL DEF LimiterSpec, LimiterKept

=============================================================================
