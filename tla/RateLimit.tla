----------------------------- MODULE RateLimit -----------------------------
(***************************************************************************)
(* consumeRateLimit (apps/api lib/ratelimit.ts) for one key: a counter in   *)
(* Redis for each window of time, and the memory of the process when Redis *)
(* does not answer.  Every await is a step of its own; now is read once,   *)
(* before the first.  A command of Redis is answered, or given up, within   *)
(* Timeout (lib/redis.ts), which is shorter than a window, or never.       *)
(***************************************************************************)
EXTENDS Integers, FiniteSets

CONSTANTS Callers,      \* requests under way at the same time
          W,            \* windowMs
          Second,       \* ticks of a second: expirations are in whole seconds
          Limit, Timeout,
          MaxNow, MaxRequests   \* bounds

ASSUME RateLimitAssumption ==
  /\ {W, Second, Limit} \subseteq Nat \ {0}
  /\ Timeout \in 0..(W - 1)
  /\ MaxNow \in Nat /\ MaxRequests \in Nat

VARIABLES now,
          counter,      \* the keys of Redis by bucket: n (0: no key), exp (0: no expiration)
          call,         \* what each caller awaits
          timestamps,   \* the entry of the process: the requests it let through
          total,        \* history: requests counted in each bucket
          granted,      \* history: requests let through by Redis, with bucket and count
          inMemory,     \* history: requests let through by the process
          requests

limitVars == <<now, counter, call, timestamps, total, granted, inMemory, requests>>

Buckets == 0..MaxNow
Idle == [phase |-> "idle", at |-> 0, bucket |-> 0, since |-> 0, n |-> 0, id |-> 0]

LimitInit ==
  /\ now = W        \* the second window: every bucket used has a previous one
  /\ counter = [b \in Buckets |-> [n |-> 0, exp |-> 0]]
  /\ call = [c \in Callers |-> Idle]
  /\ timestamps = {}
  /\ total = [b \in Buckets |-> 0]
  /\ granted = {} /\ inMemory = {}
  /\ requests = 0

(* Math.floor(now / windowMs), and seconds rounded up. *)
InBucket(t, b) == b * W <= t /\ t < (b + 1) * W
RoundsUpTo(t, s) == s >= 1 /\ t <= s * Second /\ (s > 1 => t > (s - 1) * Second)

Awaits(c) == call[c].phase \in {"incr", "expire", "get"}

Ask(c) ==
  /\ call[c].phase = "idle" /\ requests < MaxRequests
  /\ requests' = requests + 1
  /\ \E b \in Buckets :
       /\ b > 0 /\ InBucket(now, b)
       /\ call' = [call EXCEPT ![c] = [phase |-> "incr", at |-> now, bucket |-> b, since |-> now,
                                       n |-> 0, id |-> requests + 1]]
  /\ UNCHANGED <<now, counter, timestamps, total, granted, inMemory>>

Count(b) ==
  /\ counter' = [counter EXCEPT ![b].n = @ + 1]
  /\ total' = [total EXCEPT ![b] = @ + 1]

Incr(c) ==
  LET b == call[c].bucket IN
  /\ call[c].phase = "incr"
  /\ Count(b)
  /\ call' = [call EXCEPT ![c].phase = IF counter[b].n = 0 THEN "expire" ELSE "get",
                          ![c].n = counter[b].n + 1, ![c].since = now]
  /\ UNCHANGED <<now, timestamps, granted, inMemory, requests>>

(* consumeRateLimitMemory: prune, then a place if there is one left. *)
Pruned == {e \in timestamps : now - e.at < W}

ConsumeMemory(id) ==
  IF Cardinality(Pruned) >= Limit
  THEN timestamps' = Pruned /\ UNCHANGED inMemory
  ELSE /\ timestamps' = Pruned \cup {[at |-> now, id |-> id]}
       /\ inMemory' = inMemory \cup {[at |-> now, id |-> id]}

(* No answer to INCR, which may have been executed: the process decides. *)
IncrLost(c) ==
  /\ call[c].phase = "incr"
  /\ Count(call[c].bucket) \/ UNCHANGED <<counter, total>>
  /\ ConsumeMemory(call[c].id)
  /\ call' = [call EXCEPT ![c] = Idle]
  /\ UNCHANGED <<now, granted, requests>>

Elapsed(c) == call[c].at - call[c].bucket * W

KeptFor(c) == 2 * W - Elapsed(c)

SetExpiration(c) ==
  \E s \in 1..(2 * W) :
    /\ RoundsUpTo(KeptFor(c), s)
    /\ counter' = [counter EXCEPT ![call[c].bucket].exp = now + s * Second]

(* EXPIRE, whose failure changes nothing else. *)
Expire(c) ==
  /\ call[c].phase = "expire"
  /\ SetExpiration(c) \/ UNCHANGED counter
  /\ call' = [call EXCEPT ![c].phase = "get", ![c].since = now]
  /\ UNCHANGED <<now, timestamps, total, granted, inMemory, requests>>

(* Mutant: the previous window alone decides. *)
AllowsByPrevious(c, previous) == previous * (W - Elapsed(c)) <= Limit * W

Allows(c, previous) == call[c].n * W + previous * (W - Elapsed(c)) <= Limit * W

(* GET of the previous bucket, taken as 0 when there is no answer. *)
Get(c) ==
  /\ call[c].phase = "get"
  /\ \E previous \in {0, counter[call[c].bucket - 1].n} :
       granted' = IF Allows(c, previous)
                  THEN granted \cup {[b |-> call[c].bucket, n |-> call[c].n, id |-> call[c].id]}
                  ELSE granted
  /\ call' = [call EXCEPT ![c] = Idle]
  /\ UNCHANGED <<now, counter, timestamps, total, inMemory, requests>>

(* Redis closes the connection instead of an answer: the request is never    *)
(* heard of again (see RedisClient).                                       *)
Hang(c) ==
  /\ \/ call[c].phase = "incr" /\ (Count(call[c].bucket) \/ UNCHANGED <<counter, total>>)
     \/ call[c].phase = "expire" /\ (SetExpiration(c) \/ UNCHANGED counter) /\ UNCHANGED total
     \/ call[c].phase = "get" /\ UNCHANGED <<counter, total>>
  /\ call' = [call EXCEPT ![c].phase = "hung"]
  /\ UNCHANGED <<now, timestamps, granted, inMemory, requests>>

(* Time passes, but for a command that is to be answered or given up; Redis *)
(* drops the keys that expire.                                             *)
Tick ==
  /\ now < MaxNow /\ now' = now + 1
  /\ \A c \in Callers : Awaits(c) => now - call[c].since < Timeout
  /\ counter' = [b \in Buckets |-> IF counter[b].exp # 0 /\ counter[b].exp <= now + 1
                                   THEN [n |-> 0, exp |-> 0] ELSE counter[b]]
  /\ UNCHANGED <<call, timestamps, total, granted, inMemory, requests>>

LimitNext ==
  \/ Tick
  \/ \E c \in Callers : Ask(c) \/ Incr(c) \/ IncrLost(c) \/ Expire(c) \/ Get(c) \/ Hang(c)

LimitSpec == LimitInit /\ [][LimitNext]_limitVars

-----------------------------------------------------------------------------
\* Types of the counters and of the calls; the entry of the process never grows beyond Limit.
LimitTypeOK ==
  /\ now \in W..(W + MaxNow) /\ requests \in Nat
  /\ counter \in [Buckets -> [n : Nat, exp : Nat]]
  /\ total \in [Buckets -> Nat]
  /\ call \in [Callers -> [phase : {"idle", "incr", "expire", "get", "hung"}, at : Nat, bucket : Buckets,
                           since : Nat, n : Nat, id : Nat]]
  /\ granted \subseteq [b : Buckets, n : Nat, id : Nat]
  /\ {timestamps, inMemory} \subseteq SUBSET [at : Nat, id : Nat] /\ Cardinality(timestamps) <= Limit

(* While a window is the current or the previous one its counter in Redis   *)
(* holds every request that was counted, whoever set its expiration and     *)
(* when: an expiration in whole seconds, set after an await, from a time    *)
(* read before it.                                                          *)
CountsAreKept == \A b \in Buckets : now < (b + 2) * W => counter[b].n = total[b]

(* Redis lets at most Limit requests of one window through, however the     *)
(* requests interleave and even if counters expire while they are handled.  *)
WindowLimit == \A b \in Buckets : Cardinality({g \in granted : g.b = b}) <= Limit

(* Without Redis the process lets at most Limit requests through in any      *)
(* window, wherever it begins.                                              *)
MemoryLimit == Cardinality({e \in inMemory : now - e.at < W}) <= Limit
=============================================================================
