------------------------------ MODULE RateLimit ------------------------------
(***************************************************************************)
(* The ingest rate limiter for one caller identity and one kind of         *)
(* request: token buckets in memory, evicted when idle, or a counter per   *)
(* second in Redis.  A request loads its bucket, marks it as touched, and  *)
(* then takes its tokens; the sweeper looks at the mark and, later,        *)
(* deletes the bucket.                                                     *)
(***************************************************************************)
EXTENDS Requests, Naturals, FiniteSets

CONSTANTS
  Burst, Rate,     \* cfg.EventsBurst, cfg.EventsPerSec
  MaxCost,         \* the largest batch offered
  IdleTTL,         \* idleBucketTTL, in seconds
  Buckets,         \* bucket objects the process may allocate
  LastSecond,      \* bound on the clock
  MaxErrors        \* bound on Redis errors

ASSUME RateAssumption ==
  /\ Burst \in Nat /\ Rate \in Nat /\ MaxCost \in Nat \ {0} /\ LastSecond \in Nat
  /\ MaxErrors \in Nat /\ NoOne \notin Buckets
  /\ IdleTTL \in Nat

VARIABLES
  backend,    \* "memory" or "redis": FACT0_RATELIMIT_BACKEND
  second,
  current,    \* the bucket the sync.Map holds for the identity
  bucket,     \* the bucket objects: tokens, and the second after the touch
  window,     \* the Redis counter of this second
  rateCall,   \* the request each caller is in
  admitted,   \* tokens of all admitted requests
  orphans,    \* history: buckets deleted in use, held by a request or touched since
              \* the sweeper's look at them
  redisErrors,\* requests let through because Redis failed
  sweeping    \* the sweeper has found the bucket of the map idle and will delete it

rateVars ==
  <<backend, second, current, bucket, window, rateCall, admitted, orphans, redisErrors, sweeping>>

Smaller(a, b) == IF a < b THEN a ELSE b
Larger(a, b) == IF a < b THEN b ELSE a
NoBucket == [tokens |-> 0, touched |-> 0]
RateIdle == [pc |-> "idle", cost |-> 0, bucket |-> NoOne]

RateInit ==
  /\ backend \in {"memory", "redis"} /\ second = 0
  /\ current = NoOne /\ bucket = [b \in Buckets |-> NoBucket] /\ window = 0
  /\ rateCall = [c \in Callers |-> RateIdle]
  /\ admitted = 0 /\ orphans = {} /\ redisErrors = 0 /\ sweeping = FALSE

RateFree(c) == rateCall[c].pc = "idle"
Reachable(b) == b = current \/ \E c \in Callers : rateCall[c].bucket = b

\* eventCostForRequest: the events of a batch, one for every other request.
EventCosts == 1..MaxCost

GetOrCreateBucket(c, cost) ==
  /\ backend = "memory" /\ RateFree(c)
  /\ \E b \in Buckets :
       /\ \/ b = current /\ UNCHANGED <<current, bucket>>
          \/ /\ current = NoOne /\ ~Reachable(b) /\ b \notin orphans
             /\ current' = b
             /\ bucket' = [bucket EXCEPT ![b] = [tokens |-> Burst, touched |-> 0]]
       /\ rateCall' = [rateCall EXCEPT ![c] = [pc |-> "touch", cost |-> cost, bucket |-> b]]
  /\ UNCHANGED <<backend, second, window, admitted, orphans, redisErrors, sweeping>>

Touch(c) ==
  /\ rateCall[c].pc = "touch"
  /\ bucket' = [bucket EXCEPT ![rateCall[c].bucket].touched = second + 1]
  /\ rateCall' = [rateCall EXCEPT ![c].pc = "allow"]
  /\ UNCHANGED <<backend, second, current, window, admitted, orphans, redisErrors, sweeping>>

Allowed(b, cost) == cost <= bucket[b].tokens

\* rate.Limiter.AllowN; a refused request takes no tokens (its reservation,
\* made to tell the delay, is cancelled at once).
AllowN(c) ==
  /\ rateCall[c].pc = "allow"
  /\ LET b == rateCall[c].bucket
         cost == rateCall[c].cost IN
     IF Allowed(b, cost)
     THEN /\ bucket' = [bucket EXCEPT ![b].tokens = @ - cost]
          /\ admitted' = admitted + cost
     ELSE UNCHANGED <<bucket, admitted>>
  /\ rateCall' = [rateCall EXCEPT ![c] = RateIdle]
  /\ UNCHANGED <<backend, second, current, window, orphans, redisErrors, sweeping>>

\* Mutant: a bucket is idle as soon as it was used.
IdleNow(b) == bucket[b].touched <= second

\* A bucket that was never touched carries the timestamp 0 and counts as idle.
Idle(b) == bucket[b].touched = 0 \/ bucket[b].touched - 1 + IdleTTL < second

\* The callback of sweep's Range reads the mark of the bucket,
FindIdle ==
  /\ current # NoOne /\ ~sweeping /\ Idle(current)
  /\ sweeping' = TRUE
  /\ UNCHANGED <<backend, second, current, bucket, window, rateCall, admitted, orphans, redisErrors>>

\* and deletes what the map holds, whatever happened to it since.
Delete ==
  /\ sweeping
  /\ orphans' = IF ~Idle(current) \/ \E c \in Callers : rateCall[c].bucket = current
                THEN orphans \cup {current} ELSE orphans
  /\ current' = NoOne /\ sweeping' = FALSE
  /\ UNCHANGED <<backend, second, bucket, window, rateCall, admitted, redisErrors>>

\* The Redis counter is raised before it is compared, also by a refusal.
RedisLimit == Larger(Burst, Larger(1, Rate))

RedisAllowN(c, cost) ==
  /\ backend = "redis" /\ RateFree(c)
  /\ window + cost <= RedisLimit + MaxCost       \* a full window stays full
  /\ window' = window + cost
  /\ admitted' = IF window + cost <= RedisLimit THEN admitted + cost ELSE admitted
  /\ UNCHANGED <<backend, second, current, bucket, rateCall, orphans, redisErrors, sweeping>>

RedisFails(c, cost) ==
  /\ backend = "redis" /\ RateFree(c) /\ redisErrors < MaxErrors
  /\ redisErrors' = redisErrors + 1
  /\ admitted' = admitted + cost
  /\ UNCHANGED <<backend, second, current, bucket, window, rateCall, orphans, sweeping>>

\* The clock counts whole seconds; a request's three statements take no time.
RateTick ==
  /\ second < LastSecond /\ \A c \in Callers : RateFree(c)
  /\ second' = second + 1
  /\ bucket' = [b \in Buckets |-> IF Reachable(b)
                  THEN [bucket[b] EXCEPT !.tokens = Smaller(Burst, @ + Rate)] ELSE NoBucket]
  /\ window' = 0
  /\ UNCHANGED <<backend, current, rateCall, admitted, orphans, redisErrors, sweeping>>

RateNext ==
  \/ \E c \in Callers :
       \/ \E cost \in EventCosts :
            GetOrCreateBucket(c, cost) \/ RedisAllowN(c, cost) \/ RedisFails(c, cost)
       \/ Touch(c) \/ AllowN(c)
  \/ FindIdle \/ Delete \/ RateTick

RateSpec == RateInit /\ [][RateNext]_rateVars

-----------------------------------------------------------------------------

\* Type correctness of the buckets and of the requests that hold them.
RateTypeOK ==
  /\ second \in 0..LastSecond /\ current \in Buckets \cup {NoOne}
  /\ bucket \in [Buckets -> [tokens : 0..Burst, touched : 0..(LastSecond + 1)]]
  /\ orphans \subseteq Buckets
  /\ \A c \in Callers : rateCall[c].pc # "idle" => rateCall[c].bucket \in Buckets

\* Ten minutes refill a bucket; for executions always, for events the configuration
\* decides.
Refills == IdleTTL * Rate >= Burst

\* An identity never gets more than its tokens.  In memory, if an idle bucket is a
\* full one: one burst and the steady rate since the start, and one more burst for
\* every bucket that the sweeper deleted in use.  In Redis, which keeps no bucket
\* but a count per second: one limit in every second, which is more than the steady
\* rate (SteadyRate), and what was let through while Redis failed.
RateBounded ==
  /\ RateTypeOK
  /\ IF backend = "memory"
     THEN Refills => admitted <= Burst * (1 + Cardinality(orphans)) + Rate * second
     ELSE admitted <= RedisLimit * (second + 1) + redisErrors * MaxCost

\* ratelimit.go: "EventsPerSec is the steady-state token rate", EventsBurst "the
\* maximum burst size", whatever the backend.  The Redis backend does not keep it.
SteadyRate ==
  admitted <= Burst * (1 + Cardinality(orphans)) + Rate * (second + 1) + redisErrors * MaxCost

=============================================================================
