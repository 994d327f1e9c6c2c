---------------------------- MODULE RateLimiter ----------------------------
(***************************************************************************)
(* The per-key rate limiter (limiter.go) as concurrent request handlers    *)
(* use it (api.go): Limit(key) gets or creates the key's limiter under a   *)
(* mutex, and the handler then calls Allow() on it without the mutex.      *)
(*                                                                         *)
(* golang.org/x/time/rate is external: a token bucket whose Allow() is     *)
(* atomic.  Tokens are counted in units, Scale units to a token, so that a *)
(* clock tick may add a fraction of a token.                               *)
(***************************************************************************)
EXTENDS Integers, Sequences

CONSTANTS
  Callers,   \* handler goroutines; each calls Limit at most once
  Keys,      \* API keys
  None,      \* no caller, no limiter
  Burst,     \* config.RateBurst, in tokens
  Rate,      \* config.RateLimit, in units per tick
  Scale,     \* units per token
  MaxTime    \* bound on the clock

ASSUME NoneAssumption  == None \notin Callers \cup Keys
ASSUME RateAssumption  == Burst \in Nat /\ Rate \in Nat /\ Scale \in Nat \ {0}
ASSUME ClockAssumption == MaxTime \in Nat

VARIABLES
  mu,      \* RateLimiter.mu: the caller that holds it
  limits,  \* RateLimiter.limits: key -> limiter, None when there is none
  bucket,  \* the limiters, each named by the caller that allocated it
  stage,   \* where each caller is in Limit(key).Allow()
  want,    \* the key each caller asked for
  held,    \* the limiter Limit returned to each caller
  now,     \* the clock
  grants   \* history: per key, the times of the admissions

limiterVars == <<mu, limits, bucket, stage, want, held, now, grants>>

Stages == {"idle", "lock", "lookup", "store", "allow", "allowed", "denied"}

\* The buckets hold between nothing and Burst tokens.
LimiterTypeOK ==
  /\ mu \in Callers \cup {None}
  /\ limits \in [Keys -> Callers \cup {None}]
  /\ bucket \in [Callers -> [tokens : 0..Burst * Scale, last : 0..MaxTime]]
  /\ stage \in [Callers -> Stages]
  /\ want \in [Callers -> Keys \cup {None}]
  /\ held \in [Callers -> Callers \cup {None}]
  /\ now \in 0..MaxTime
  /\ grants \in [Keys -> Seq(0..MaxTime)]

\* NewRateLimiter
LimiterInit ==
  /\ mu = None
  /\ limits = [k \in Keys |-> None]
  /\ bucket = [c \in Callers |-> [tokens |-> 0, last |-> 0]]
  /\ stage = [c \in Callers |-> "idle"]
  /\ want = [c \in Callers |-> None]
  /\ held = [c \in Callers |-> None]
  /\ now = 0
  /\ grants = [k \in Keys |-> <<>>]

-----------------------------------------------------------------------------
(* Limit(key)                                                              *)

\* The handler calls Limit(k).
CallLimit(c, k) ==
  /\ stage[c] = "idle"
  /\ stage' = [stage EXCEPT ![c] = "lock"]
  /\ want' = [want EXCEPT ![c] = k]
  /\ UNCHANGED <<mu, limits, bucket, held, now, grants>>

\* Mutant: r.mu.RLock() where r.mu.Lock() is needed.
Lock_Shared(c) ==
  /\ stage[c] = "lock"
  /\ mu' = c
  /\ stage' = [stage EXCEPT ![c] = "lookup"]
  /\ UNCHANGED <<limits, bucket, want, held, now, grants>>

\* r.mu.Lock()
Lock(c) ==
  /\ stage[c] = "lock"
  /\ mu = None
  /\ mu' = c
  /\ stage' = [stage EXCEPT ![c] = "lookup"]
  /\ UNCHANGED <<limits, bucket, want, held, now, grants>>

\* Mutant: the mutex is not released.
Return_KeepsLock(c, l) ==
  /\ held' = [held EXCEPT ![c] = l]
  /\ stage' = [stage EXCEPT ![c] = "allow"]
  /\ UNCHANGED mu

\* Limit returns l: the deferred r.mu.Unlock() runs.
Return(c, l) ==
  /\ mu' = None
  /\ held' = [held EXCEPT ![c] = l]
  /\ stage' = [stage EXCEPT ![c] = "allow"]

\* limiter, exists := r.limits[key]
Lookup(c) ==
  /\ stage[c] = "lookup"
  /\ \/ /\ limits[want[c]] # None
        /\ Return(c, limits[want[c]])
     \/ /\ limits[want[c]] = None
        /\ stage' = [stage EXCEPT ![c] = "store"]
        /\ UNCHANGED <<mu, held>>
  /\ UNCHANGED <<limits, bucket, want, now, grants>>

\* Mutant: the new limiter is returned and not stored.
Store_Forgotten(c) ==
  /\ stage[c] = "store"
  /\ bucket' = [bucket EXCEPT ![c] = [tokens |-> Burst * Scale, last |-> now]]
  /\ Return(c, c)
  /\ UNCHANGED <<limits, want, now, grants>>

\* Mutant: a bucket one token larger than configured.
Store_OneTooMany(c) ==
  /\ stage[c] = "store"
  /\ limits' = [limits EXCEPT ![want[c]] = c]
  /\ bucket' = [bucket EXCEPT ![c] = [tokens |-> (Burst + 1) * Scale, last |-> now]]
  /\ Return(c, c)
  /\ UNCHANGED <<want, now, grants>>

\* r.limits[key] = rate.NewLimiter(r.limit, r.burst): a full bucket.
Store(c) ==
  /\ stage[c] = "store"
  /\ limits' = [limits EXCEPT ![want[c]] = c]
  /\ bucket' = [bucket EXCEPT ![c] = [tokens |-> Burst * Scale, last |-> now]]
  /\ Return(c, c)
  /\ UNCHANGED <<want, now, grants>>

-----------------------------------------------------------------------------
(* Allow() (external) and the clock.                                       *)

\* The level of limiter l now: refilled at Rate, never above Burst tokens.
Level(l) ==
  LET full   == Burst * Scale
      filled == bucket[l].tokens + Rate * (now - bucket[l].last)
  IN  IF filled < full THEN filled ELSE full

\* limiter.Allow(): takes one token, or leaves the bucket as it is.
Allow(c) ==
  /\ stage[c] = "allow"
  /\ \/ /\ Level(held[c]) >= Scale
        /\ bucket' = [bucket EXCEPT ![held[c]] =
                       [tokens |-> Level(held[c]) - Scale, last |-> now]]
        /\ grants' = [grants EXCEPT ![want[c]] = Append(@, now)]
        /\ stage' = [stage EXCEPT ![c] = "allowed"]
     \/ /\ Level(held[c]) < Scale
        /\ stage' = [stage EXCEPT ![c] = "denied"]
        /\ UNCHANGED <<bucket, grants>>
  /\ UNCHANGED <<mu, limits, want, held, now>>

Tick ==
  /\ now < MaxTime
  /\ now' = now + 1
  /\ UNCHANGED <<mu, limits, bucket, stage, want, held, grants>>

LimitStep(c) == Lock(c) \/ Lookup(c) \/ Store(c) \/ Allow(c)

LimiterNext ==
  \/ \E c \in Callers : LimitStep(c) \/ \E k \in Keys : CallLimit(c, k)
  \/ Tick

LimiterSpec == LimiterInit /\ [][LimiterNext]_limiterVars

-----------------------------------------------------------------------------
(* Properties.                                                             *)

\* Between any two admissions of a key, however its handlers interleave in
\* Limit, no more requests are admitted than a full bucket and the refill of the
\* time between them pay for.
WindowBound ==
  \A k \in Keys : \A i, j \in 1..Len(grants[k]) :
    i <= j =>
      (j - i + 1) * Scale <= Burst * Scale + Rate * (grants[k][j] - grants[k][i])

\* Every handler of a key draws on the same limiter: what a handler holds is
\* what the map holds, and two keys never share one.
OneLimiterPerKey ==
  /\ \A c \in Callers : held[c] # None => held[c] = limits[want[c]]
  /\ \A k, l \in Keys : limits[k] # None /\ limits[k] = limits[l] => k = l

\* A limiter, once it is in the map, is never replaced: its spent tokens are not
\* forgotten.
LimiterKept ==
  [][\A k \in Keys : limits[k] # None => limits'[k] = limits[k]]_limiterVars

=============================================================================
