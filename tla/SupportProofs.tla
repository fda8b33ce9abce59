---------------------------- MODULE SupportProofs ----------------------------
(***************************************************************************)
(* Proofs about what the rest leans on: the limits, the client of Redis,   *)
(* the stored run of the assistant, and on the desktop the view of its     *)
(* runs, the choice of the model provider and the workflow of phases.      *)
(* Each part has the inductive invariant of one module, for any number of  *)
(* callers, commands, actions, runs, providers and roles, and the theorems *)
(* that follow from it; the last part is about all of them side by side.   *)
(***************************************************************************)
EXTENDS MCSupport, SequenceTheorems, FiniteSetTheorems, TLAPS

-----------------------------------------------------------------------------
(* The limit of requests per window: RateLimit.                            *)

CallTypes == [phase : {"idle", "incr", "expire", "get", "hung"}, at : Nat, bucket : Buckets,
          since : Nat, n : Nat, id : Nat]
LimitTyped ==
  /\ now \in Nat /\ requests \in Nat
  /\ counter \in [Buckets -> [n : Nat, exp : Nat]]
  /\ total \in [Buckets -> Nat]
  /\ call \in [Callers -> CallTypes]
  /\ granted \subseteq [b : Buckets, n : Nat, id : Nat]
  /\ inMemory \subseteq [at : Nat, id : Nat]
\* A caller that awaits is in its bucket, and a command is not awaited for longer than
\* Timeout, so that INCR is executed while its bucket is kept.
InTime ==
  \A c \in Callers : Awaits(c) =>
    /\ call[c].bucket > 0 /\ InBucket(call[c].at, call[c].bucket)
    /\ call[c].at <= call[c].since /\ call[c].since <= now /\ now - call[c].since <= Timeout
    /\ call[c].phase = "incr" => call[c].since = call[c].at
\* A key expires only when no window needs it.
ExpiresLate == \A b \in Buckets : counter[b].exp # 0 => counter[b].exp >= (b + 2) * W
\* The places in a bucket, of the requests under way and of those let through: each has one of its own.
HasPlace(c) == call[c].phase \in {"expire", "get"}
PlacesApart ==
  /\ \A c \in Callers : HasPlace(c) => call[c].n \in 1..total[call[c].bucket]
  /\ \A c, d \in Callers :
       HasPlace(c) /\ HasPlace(d) /\ call[c].bucket = call[d].bucket /\ call[c].n = call[d].n => c = d
  /\ \A g \in granted :
       /\ g.n \in 1..total[g.b] /\ g.n <= Limit
       /\ \A c \in Callers : HasPlace(c) /\ call[c].bucket = g.b => call[c].n # g.n
  /\ \A g, h \in granted : g.b = h.b /\ g.n = h.n => g = h
Remembered ==
  /\ {e \in inMemory : now - e.at < W} \subseteq timestamps
  /\ IsFiniteSet(timestamps) /\ Cardinality(timestamps) <= Limit
LimitInv == LimitTyped /\ InTime /\ ExpiresLate /\ CountsAreKept /\ PlacesApart /\ Remembered

\* The parameters are numbers, and what the ends of a window add up to.
LEMMA WindowsAre ==
  /\ W \in Nat \ {0} /\ Second \in Nat \ {0} /\ Limit \in Nat \ {0}
  /\ Timeout \in Nat /\ Timeout < W
  /\ \A b \in Nat : b * W \in Nat /\ (b + 1) * W = b * W + W /\ (b + 2) * W = b * W + W + W
  /\ \A b \in Buckets : b \in Nat
BY RateLimitAssumption DEF Buckets

\* While INCR is awaited its bucket is the current or the previous one.
LEMMA InTimeToCount ==
  ASSUME LimitInv, NEW c \in Callers, call[c].phase = "incr"
  PROVE  /\ call[c].bucket \in Buckets /\ now < (call[c].bucket + 2) * W
         /\ counter[call[c].bucket].n = total[call[c].bucket]
<1> DEFINE b == call[c].bucket
           t == call[c].at
<1>1. b \in Buckets /\ t \in Nat /\ now \in Nat BY DEF LimitInv, LimitTyped, CallTypes
<1>2. t < (b + 1) * W /\ now - t <= Timeout
  BY DEF LimitInv, InTime, Awaits, InBucket
<1>3. (b + 1) * W = b * W + W /\ (b + 2) * W = b * W + W + W /\ b * W \in Nat BY <1>1, WindowsAre
<1> HIDE DEF b, t
<1>4. now < (b + 2) * W BY <1>1, <1>2, <1>3, WindowsAre
<1>5. counter[b].n = total[b] BY <1>1, <1>4 DEF LimitInv, CountsAreKept
<1> QED BY <1>1, <1>4, <1>5 DEF b

\* A request that Redis lets through has one of the first Limit places.
LEMMA AllowedIsWithin ==
  ASSUME LimitInv, NEW c \in Callers, HasPlace(c), Awaits(c), NEW p \in Nat, Allows(c, p)
  PROVE  call[c].n <= Limit
<1> DEFINE n == call[c].n
           left == W - Elapsed(c)
<1>1. n \in Nat /\ call[c].at \in Nat /\ call[c].bucket \in Buckets BY DEF LimitInv, LimitTyped, CallTypes
<1>2. left \in Nat
  BY <1>1, WindowsAre DEF LimitInv, InTime, InBucket, Elapsed
<1>3. n * W + p * left <= Limit * W BY DEF Allows
<1> HIDE DEF n, left
<1>4. p * left \in Nat BY <1>2
<1>5. n * W \in Nat /\ Limit * W \in Nat BY <1>1, WindowsAre
<1>6. n * W <= Limit * W BY <1>3, <1>4, <1>5
<1>7. ASSUME n >= Limit + 1 PROVE FALSE
  <2>1. n * W >= (Limit + 1) * W BY <1>1, <1>7, WindowsAre
  <2>2. (Limit + 1) * W = Limit * W + W BY WindowsAre
  <2> QED BY <1>5, <1>6, <2>1, <2>2, WindowsAre
<1>8. n <= Limit BY <1>1, <1>7, WindowsAre
<1> QED BY <1>8 DEF n

\* EXPIRE that is sent in time gives a key an end after the windows that read it.
LEMMA ExpirationIsLate ==
  ASSUME LimitInv, NEW c \in Callers, Awaits(c), SetExpiration(c)
  PROVE  /\ ExpiresLate' /\ counter' \in [Buckets -> [n : Nat, exp : Nat]]
         /\ \A b \in Buckets : counter'[b].n = counter[b].n
<1> DEFINE k == call[c].bucket
           t == call[c].at
<1>1. k \in Buckets /\ t \in Nat /\ now \in Nat /\ t <= now
  BY DEF LimitInv, LimitTyped, CallTypes, InTime
<1>2. PICK s \in 1..(2 * W) : RoundsUpTo(KeptFor(c), s) /\ counter' = [counter EXCEPT ![k].exp = now + s * Second]
  BY DEF SetExpiration
<1>3. KeptFor(c) <= s * Second /\ KeptFor(c) = 2 * W - (t - k * W)
  BY <1>2 DEF RoundsUpTo, KeptFor, Elapsed
<1>4. k * W \in Nat /\ (k + 2) * W = k * W + W + W BY <1>1, WindowsAre
<1> HIDE DEF k, t
<1>5. s \in Nat /\ s * Second \in Nat BY <1>2, WindowsAre
<1>6. now + s * Second >= (k + 2) * W BY <1>1, <1>3, <1>4, <1>5, WindowsAre
<1>7. \A b \in Buckets : /\ counter'[b].n = counter[b].n
                         /\ counter'[b].exp = IF b = k THEN now + s * Second ELSE counter[b].exp
  BY <1>1, <1>2 DEF LimitInv, LimitTyped, CallTypes
<1>8. counter' \in [Buckets -> [n : Nat, exp : Nat]] BY <1>1, <1>2, <1>5 DEF LimitInv, LimitTyped, CallTypes
<1>9. ExpiresLate' BY <1>6, <1>7 DEF LimitInv, ExpiresLate
<1> QED BY <1>7, <1>8, <1>9

\* A request is counted in its bucket, while the bucket is kept.
LEMMA CountKeeps ==
  ASSUME LimitInv, NEW k \in Buckets, Count(k), UNCHANGED now
  PROVE  /\ counter' \in [Buckets -> [n : Nat, exp : Nat]] /\ total' \in [Buckets -> Nat]
         /\ ExpiresLate' /\ CountsAreKept'
         /\ \A b \in Buckets : total[b] <= total'[b] /\ total'[b] \in Nat /\ total[b] \in Nat
         /\ total'[k] = total[k] + 1 /\ counter'[k].n = counter[k].n + 1
<1>1. \A b \in Buckets : /\ counter'[b].exp = counter[b].exp
                         /\ counter'[b].n = IF b = k THEN counter[b].n + 1 ELSE counter[b].n
                         /\ total'[b] = IF b = k THEN total[b] + 1 ELSE total[b]
                         /\ total[b] \in Nat /\ counter[b].n \in Nat
  BY DEF LimitInv, LimitTyped, CallTypes, Count
<1>2. counter' \in [Buckets -> [n : Nat, exp : Nat]] /\ total' \in [Buckets -> Nat]
  BY DEF LimitInv, LimitTyped, CallTypes, Count
<1>3. ExpiresLate' BY <1>1 DEF LimitInv, ExpiresLate
<1>4. CountsAreKept' BY <1>1 DEF LimitInv, CountsAreKept
<1> QED BY <1>1, <1>2, <1>3, <1>4

\* The places are kept by a step that changes no call and no grant, or a call
\* that has no place after it.
LEMMA PlacesAreKept ==
  ASSUME LimitInv, UNCHANGED granted,
         \A b \in Buckets : total[b] <= total'[b] /\ total'[b] \in Nat,
         \A c \in Callers : HasPlace(c)' => HasPlace(c) /\ call'[c].n = call[c].n /\ call'[c].bucket = call[c].bucket
  PROVE  PlacesApart'
<1>1. \A c \in Callers : call[c].bucket \in Buckets /\ call[c].n \in Nat BY DEF LimitInv, LimitTyped, CallTypes
<1>2. \A g \in granted : g.b \in Buckets /\ g.n \in Nat BY DEF LimitInv, LimitTyped, CallTypes
<1>3. \A b \in Buckets : total[b] \in Nat BY DEF LimitInv, LimitTyped, CallTypes
<1>4. ASSUME NEW c \in Callers, HasPlace(c)' PROVE call'[c].n \in 1..total'[call'[c].bucket]
  <2>1. call[c].n \in 1..total[call[c].bucket] /\ call'[c].n = call[c].n /\ call'[c].bucket = call[c].bucket
    BY <1>4 DEF LimitInv, PlacesApart
  <2> QED BY <2>1, <1>1, <1>3
<1>5. ASSUME NEW g \in granted PROVE g.n \in 1..total'[g.b] /\ g.n <= Limit
  <2>1. g.n \in 1..total[g.b] /\ g.n <= Limit BY DEF LimitInv, PlacesApart
  <2> QED BY <2>1, <1>2, <1>3
<1>6. \A c, d \in Callers :
        HasPlace(c)' /\ HasPlace(d)' /\ call'[c].bucket = call'[d].bucket /\ call'[c].n = call'[d].n => c = d
  BY DEF LimitInv, PlacesApart
<1>7. \A g \in granted : \A c \in Callers : HasPlace(c)' /\ call'[c].bucket = g.b => call'[c].n # g.n
  BY DEF LimitInv, PlacesApart
<1> QED BY <1>4, <1>5, <1>6, <1>7 DEF PlacesApart, LimitInv

\* The caller that moves, and the others.
LEMMA MovesInTime ==
  ASSUME LimitInv, NEW c \in Callers, UNCHANGED now,
         \A d \in Callers : d # c => call'[d] = call[d],
         Awaits(c)' => /\ call'[c].bucket > 0 /\ InBucket(call'[c].at, call'[c].bucket)
                       /\ call'[c].at <= call'[c].since /\ call'[c].since <= now /\ now - call'[c].since <= Timeout
                       /\ call'[c].phase = "incr" => call'[c].since = call'[c].at
  PROVE  InTime'
<1> SUFFICES ASSUME NEW d \in Callers, Awaits(d)'
             PROVE  /\ call'[d].bucket > 0 /\ InBucket(call'[d].at, call'[d].bucket)
                    /\ call'[d].at <= call'[d].since /\ call'[d].since <= now /\ now - call'[d].since <= Timeout
                    /\ call'[d].phase = "incr" => call'[d].since = call'[d].at
  BY DEF InTime, InBucket, Awaits
<1>1. CASE d = c BY <1>1
<1>2. CASE d # c BY <1>2 DEF LimitInv, InTime, Awaits
<1> QED BY <1>1, <1>2

\* consumeRateLimit begins: in memory, or with an INCR to wait for.
LEMMA AskKeeps == ASSUME LimitInv, NEW c \in Callers, Ask(c) PROVE LimitInv'
<1>1. PICK k \in Buckets :
        /\ k > 0 /\ InBucket(now, k)
        /\ call' = [call EXCEPT ![c] = [phase |-> "incr", at |-> now, bucket |-> k, since |-> now,
                                        n |-> 0, id |-> requests + 1]]
  BY DEF Ask
<1>2. UNCHANGED <<now, counter, timestamps, total, granted, inMemory>> /\ requests' = requests + 1 BY DEF Ask
<1>3. \A d \in Callers : d # c => call'[d] = call[d] BY <1>1 DEF LimitInv, LimitTyped, CallTypes
<1>4. /\ call'[c].phase = "incr" /\ call'[c].at = now /\ call'[c].since = now /\ call'[c].bucket = k
      /\ call' \in [Callers -> CallTypes]
  BY <1>1 DEF LimitInv, LimitTyped, CallTypes
<1>5. LimitTyped' BY <1>2, <1>4 DEF LimitInv, LimitTyped, CallTypes
<1>6. InTime'
  <2>1. now - now <= Timeout BY WindowsAre DEF LimitInv, LimitTyped, CallTypes
  <2>2. now \in Nat BY DEF LimitInv, LimitTyped, CallTypes
  <2> QED BY <1>1, <1>2, <1>3, <1>4, <2>1, <2>2, MovesInTime
<1>7. ExpiresLate' /\ CountsAreKept' /\ Remembered' BY <1>2 DEF LimitInv, ExpiresLate, CountsAreKept, Remembered
<1>8. PlacesApart'
  <2>1. \A d \in Callers : HasPlace(d)' => HasPlace(d) /\ call'[d].n = call[d].n /\ call'[d].bucket = call[d].bucket
    BY <1>3, <1>4 DEF HasPlace
  <2>2. \A b \in Buckets : total[b] <= total'[b] /\ total'[b] \in Nat BY <1>2 DEF LimitInv, LimitTyped, CallTypes
  <2> QED BY <1>2, <2>1, <2>2, PlacesAreKept
<1> QED BY <1>5, <1>6, <1>7, <1>8 DEF LimitInv

\* INCR is answered: the caller has a place of its own in its bucket.
LEMMA IncrKeeps == ASSUME LimitInv, NEW c \in Callers, Incr(c) PROVE LimitInv'
<1> DEFINE k == call[c].bucket
<1>1. /\ call[c].phase = "incr" /\ Count(k) /\ Awaits(c)
      /\ UNCHANGED <<now, timestamps, granted, inMemory, requests>>
  BY DEF Incr, Awaits
<1>2. k \in Buckets /\ now < (k + 2) * W /\ counter[k].n = total[k] BY <1>1, InTimeToCount
<1>3. /\ counter' \in [Buckets -> [n : Nat, exp : Nat]] /\ total' \in [Buckets -> Nat]
      /\ ExpiresLate' /\ CountsAreKept'
      /\ \A b \in Buckets : total[b] <= total'[b] /\ total'[b] \in Nat /\ total[b] \in Nat
      /\ total'[k] = total[k] + 1
  BY <1>1, <1>2, CountKeeps
<1>4. PICK p \in {"expire", "get"} :
        call' = [call EXCEPT ![c].phase = p, ![c].n = counter[k].n + 1, ![c].since = now]
  BY DEF Incr
<1>5. /\ \A d \in Callers : d # c => call'[d] = call[d]
      /\ call'[c].phase = p /\ call'[c].n = total'[k] /\ call'[c].since = now
      /\ call'[c].bucket = k /\ call'[c].at = call[c].at
      /\ call' \in [Callers -> CallTypes]
  <2> DEFINE e == [call[c] EXCEPT !.phase = p, !.n = counter[k].n + 1, !.since = now]
  <2>1. call[c] \in CallTypes /\ now \in Nat /\ counter[k].n + 1 \in Nat /\ counter[k].n + 1 = total'[k]
    BY <1>2, <1>3 DEF LimitInv, LimitTyped
  <2>2. /\ e \in CallTypes /\ e.phase = p /\ e.n = total'[k] /\ e.since = now
        /\ e.bucket = k /\ e.at = call[c].at
    BY <2>1 DEF CallTypes
  <2>3. call' = [call EXCEPT ![c] = e] BY <1>4
  <2> HIDE DEF e
  <2> QED BY <2>2, <2>3 DEF LimitInv, LimitTyped
<1>6. LimitTyped' BY <1>1, <1>3, <1>5 DEF LimitInv, LimitTyped, CallTypes
<1>7. InTime'
  <2>1. call[c].bucket > 0 /\ InBucket(call[c].at, call[c].bucket) /\ call[c].at <= now
    BY <1>1 DEF LimitInv, InTime, LimitTyped, CallTypes
  <2>2. now - now <= Timeout /\ now <= now BY WindowsAre DEF LimitInv, LimitTyped, CallTypes
  <2> QED BY <1>1, <1>5, <2>1, <2>2, MovesInTime
<1>8. PlacesApart'
  <2>1. \A d \in Callers : d # c => (HasPlace(d)' <=> HasPlace(d)) BY <1>5 DEF HasPlace
  <2>2. \A d \in Callers : HasPlace(d) => call[d].n \in 1..total[call[d].bucket] /\ call[d].bucket \in Buckets
    BY DEF LimitInv, PlacesApart, LimitTyped, CallTypes
  <2>3. \A g \in granted : g.n \in 1..total[g.b] /\ g.b \in Buckets /\ g.n <= Limit
    BY DEF LimitInv, PlacesApart, LimitTyped, CallTypes
  <2>4. total'[k] \in 1..total'[k] BY <1>2, <1>3
  <2>5. ASSUME NEW d \in Callers, HasPlace(d)' PROVE call'[d].n \in 1..total'[call'[d].bucket]
    <3>1. CASE d = c BY <3>1, <1>5, <2>4
    <3>2. CASE d # c
      <4>1. call[d].n \in 1..total[call[d].bucket] /\ call[d].bucket \in Buckets BY <2>1, <2>2, <2>5, <3>2
      <4>2. total[call[d].bucket] <= total'[call[d].bucket] /\ total'[call[d].bucket] \in Nat /\ total[call[d].bucket] \in Nat
        BY <1>3, <4>1
      <4>3. call[d].n \in 1..total'[call[d].bucket] BY <4>1, <4>2
      <4> QED BY <4>3, <3>2, <1>5
    <3> QED BY <3>1, <3>2
  <2>6. ASSUME NEW d \in Callers, d # c, HasPlace(d), call[d].bucket = k PROVE call[d].n # total'[k]
    BY <2>6, <2>2, <1>2, <1>3
  <2>7. ASSUME NEW g \in granted, g.b = k PROVE g.n # total'[k]
    BY <2>7, <2>3, <1>2, <1>3
  <2>8. \A d, e \in Callers :
          HasPlace(d)' /\ HasPlace(e)' /\ call'[d].bucket = call'[e].bucket /\ call'[d].n = call'[e].n => d = e
    BY <2>1, <2>6, <1>5 DEF LimitInv, PlacesApart
  <2>9. ASSUME NEW g \in granted PROVE
          /\ g.n \in 1..total'[g.b] /\ g.n <= Limit
          /\ \A d \in Callers : HasPlace(d)' /\ call'[d].bucket = g.b => call'[d].n # g.n
    <3>1. g.n \in 1..total'[g.b] /\ g.n <= Limit BY <2>3, <1>3
    <3>2. \A d \in Callers : d # c /\ HasPlace(d)' /\ call'[d].bucket = g.b => call'[d].n # g.n
      BY <2>1, <1>5 DEF LimitInv, PlacesApart
    <3>3. call'[c].bucket = g.b => call'[c].n # g.n BY <2>7, <1>5
    <3> QED BY <3>1, <3>2, <3>3
  <2>10. \A g, h \in granted : g.b = h.b /\ g.n = h.n => g = h BY DEF LimitInv, PlacesApart
  <2> QED BY <1>1, <2>5, <2>8, <2>9, <2>10 DEF PlacesApart
<1>9. Remembered' BY <1>1 DEF LimitInv, Remembered
<1> QED BY <1>3, <1>6, <1>7, <1>8, <1>9 DEF LimitInv

\* A caller that goes idle or hangs is in nobody's way.
LEMMA LeavesKeep ==
  ASSUME LimitInv, NEW c \in Callers, NEW e \in CallTypes, e.phase \in {"idle", "hung"}, UNCHANGED now,
         call' = [call EXCEPT ![c] = e]
  PROVE  /\ InTime' /\ call' \in [Callers -> CallTypes]
         /\ \A d \in Callers : HasPlace(d)' => /\ HasPlace(d) /\ d # c
                                             /\ call'[d].n = call[d].n /\ call'[d].bucket = call[d].bucket
<1>1. /\ \A d \in Callers : d # c => call'[d] = call[d]
      /\ call'[c] = e /\ call' \in [Callers -> CallTypes]
  BY DEF LimitInv, LimitTyped
<1>2. ~Awaits(c)' /\ ~HasPlace(c)' BY <1>1 DEF Awaits, HasPlace
<1>3. InTime' BY <1>1, <1>2, MovesInTime
<1> QED BY <1>1, <1>2, <1>3 DEF HasPlace

\* A caller that is done, and one that hangs, are callers.
LEMMA IdleIsCall == ASSUME NEW c \in Callers, LimitInv
                    PROVE  /\ Idle \in CallTypes /\ Idle.phase = "idle"
                           /\ [call[c] EXCEPT !.phase = "hung"] \in CallTypes
                           /\ [call[c] EXCEPT !.phase = "hung"].phase = "hung"
<1>1. 0 \in Buckets BY RateLimitAssumption DEF Buckets
<1>2. call[c] \in CallTypes BY DEF LimitInv, LimitTyped
<1> QED BY <1>1, <1>2 DEF Idle, CallTypes

\* The process gives a place only if there is one left.
LEMMA ConsumeKeeps ==
  ASSUME LimitInv, UNCHANGED now, NEW id \in Nat, ConsumeMemory(id)
  PROVE  Remembered' /\ inMemory' \subseteq [at : Nat, id : Nat]
<1>1. /\ IsFiniteSet(timestamps) /\ Cardinality(timestamps) <= Limit /\ Pruned \subseteq timestamps
      /\ {e \in inMemory : now - e.at < W} \subseteq Pruned
      /\ inMemory \subseteq [at : Nat, id : Nat] /\ now \in Nat
  BY DEF LimitInv, Remembered, Pruned, LimitTyped
<1>2. IsFiniteSet(Pruned) /\ Cardinality(Pruned) <= Cardinality(timestamps) BY <1>1, FS_Subset
<1>3. Cardinality(Pruned) \in Nat /\ Cardinality(timestamps) \in Nat BY <1>1, <1>2, FS_CardinalityType
<1>4. CASE Cardinality(Pruned) >= Limit
  BY <1>1, <1>2, <1>3, <1>4, WindowsAre DEF ConsumeMemory, Remembered
<1>5. CASE ~(Cardinality(Pruned) >= Limit)
  <2> DEFINE e == [at |-> now, id |-> id]
  <2>1. timestamps' = Pruned \cup {e} /\ inMemory' = inMemory \cup {e} BY <1>5 DEF ConsumeMemory
  <2>2. e \in [at : Nat, id : Nat] BY <1>1
  <2> HIDE DEF e
  <2>3. IsFiniteSet(Pruned \cup {e}) /\ Cardinality(Pruned \cup {e}) <= Cardinality(Pruned) + 1
    BY <1>2, <1>3, FS_AddElement
  <2>4. Cardinality(timestamps') <= Limit
    <3>1. Cardinality(Pruned \cup {e}) \in Nat BY <2>3, FS_CardinalityType
    <3> QED BY <1>3, <1>5, <2>1, <2>3, <3>1, WindowsAre
  <2>5. {f \in inMemory' : now - f.at < W} \subseteq timestamps' BY <1>1, <2>1
  <2> QED BY <1>1, <2>1, <2>2, <2>3, <2>4, <2>5 DEF Remembered
<1> QED BY <1>4, <1>5

\* What a command that is not answered may have done to the counters.
CountedOrNot == counter' \in [Buckets -> [n : Nat, exp : Nat]] /\ total' \in [Buckets -> Nat]
                /\ ExpiresLate' /\ CountsAreKept'
                /\ \A b \in Buckets : total[b] <= total'[b] /\ total'[b] \in Nat

\* A command that was lost counted nothing,
LEMMA Uncounted == ASSUME LimitInv, UNCHANGED <<now, counter, total>> PROVE CountedOrNot
BY DEF LimitInv, LimitTyped, ExpiresLate, CountsAreKept, CountedOrNot

\* or was executed without an answer,
LEMMA MaybeCounted ==
  ASSUME LimitInv, NEW c \in Callers, call[c].phase = "incr", UNCHANGED now,
         Count(call[c].bucket) \/ UNCHANGED <<counter, total>>
  PROVE  CountedOrNot
<1>1. CASE Count(call[c].bucket) BY <1>1, InTimeToCount, CountKeeps DEF CountedOrNot
<1>2. CASE UNCHANGED <<counter, total>> BY <1>2, Uncounted
<1> QED BY <1>1, <1>2

\* and so an EXPIRE.
LEMMA MaybeExpires ==
  ASSUME LimitInv, NEW c \in Callers, call[c].phase = "expire", UNCHANGED <<now, total>>,
         SetExpiration(c) \/ UNCHANGED counter
  PROVE  CountedOrNot
<1>1. CASE SetExpiration(c)
  <2>1. /\ ExpiresLate' /\ counter' \in [Buckets -> [n : Nat, exp : Nat]]
        /\ \A b \in Buckets : counter'[b].n = counter[b].n
    BY <1>1, ExpirationIsLate DEF Awaits
  <2> QED BY <2>1 DEF LimitInv, LimitTyped, CountsAreKept, CountedOrNot
<1>2. CASE UNCHANGED counter BY <1>2, Uncounted
<1> QED BY <1>1, <1>2

\* INCR fails or times out, executed or not.
LEMMA IncrLostKeeps == ASSUME LimitInv, NEW c \in Callers, IncrLost(c) PROVE LimitInv'
<1>1. /\ call[c].phase = "incr" /\ call' = [call EXCEPT ![c] = Idle] /\ ConsumeMemory(call[c].id)
      /\ UNCHANGED <<now, granted, requests>> /\ (Count(call[c].bucket) \/ UNCHANGED <<counter, total>>)
  BY DEF IncrLost
<1>2. CountedOrNot BY <1>1, MaybeCounted
<1>3. call[c].id \in Nat BY DEF LimitInv, LimitTyped, CallTypes
<1>4. Remembered' /\ inMemory' \subseteq [at : Nat, id : Nat] BY <1>1, <1>3, ConsumeKeeps
<1>5. Idle \in CallTypes /\ Idle.phase \in {"idle", "hung"} BY IdleIsCall
<1>6. /\ InTime' /\ call' \in [Callers -> CallTypes]
      /\ \A d \in Callers : HasPlace(d)' => HasPlace(d) /\ call'[d].n = call[d].n /\ call'[d].bucket = call[d].bucket
  BY <1>1, <1>5, LeavesKeep
<1>7. PlacesApart' BY <1>1, <1>2, <1>6, PlacesAreKept DEF CountedOrNot
<1> QED BY <1>1, <1>2, <1>4, <1>6, <1>7 DEF LimitInv, LimitTyped, CountedOrNot

\* A command is never answered.
LEMMA HangKeeps == ASSUME LimitInv, NEW c \in Callers, Hang(c) PROVE LimitInv'
<1>1. UNCHANGED <<now, timestamps, granted, inMemory, requests>> /\ call' = [call EXCEPT ![c].phase = "hung"]
  BY DEF Hang
<1>2. CountedOrNot
  BY <1>1, MaybeCounted, MaybeExpires, Uncounted DEF Hang
<1>3. Remembered' BY <1>1 DEF LimitInv, Remembered
<1>4. call' = [call EXCEPT ![c] = [call[c] EXCEPT !.phase = "hung"]] BY <1>1
<1>5. /\ InTime' /\ call' \in [Callers -> CallTypes]
      /\ \A d \in Callers : HasPlace(d)' => HasPlace(d) /\ call'[d].n = call[d].n /\ call'[d].bucket = call[d].bucket
  <2> DEFINE e == [call[c] EXCEPT !.phase = "hung"]
  <2>1. e \in CallTypes /\ e.phase \in {"idle", "hung"} BY IdleIsCall
  <2>2. call' = [call EXCEPT ![c] = e] BY <1>4
  <2> HIDE DEF e
  <2> QED BY <1>1, <2>1, <2>2, LeavesKeep
<1>6. PlacesApart' BY <1>1, <1>2, <1>5, PlacesAreKept DEF CountedOrNot
<1> QED BY <1>1, <1>2, <1>3, <1>5, <1>6 DEF LimitInv, LimitTyped, CountedOrNot

\* EXPIRE ends, and the caller asks for the count of the window before, or is answered.
LEMMA ExpireKeeps == ASSUME LimitInv, NEW c \in Callers, Expire(c) PROVE LimitInv'
<1>1. /\ call[c].phase = "expire" /\ UNCHANGED <<now, timestamps, total, granted, inMemory, requests>>
      /\ call' = [call EXCEPT ![c].phase = "get", ![c].since = now] /\ (SetExpiration(c) \/ UNCHANGED counter)
  BY DEF Expire
<1>2. CountedOrNot BY <1>1, MaybeExpires
<1> DEFINE e == [call[c] EXCEPT !.phase = "get", !.since = now]
<1>3. /\ e \in CallTypes /\ e.phase = "get" /\ e.since = now /\ e.bucket = call[c].bucket /\ e.at = call[c].at
      /\ e.n = call[c].n
  BY DEF LimitInv, LimitTyped, CallTypes
<1>4. call' = [call EXCEPT ![c] = e] BY <1>1
<1> HIDE DEF e
<1>5. (\A d \in Callers : d # c => call'[d] = call[d]) /\ call'[c] = e /\ call' \in [Callers -> CallTypes]
  BY <1>3, <1>4 DEF LimitInv, LimitTyped
<1>6. InTime'
  <2>1. call[c].bucket > 0 /\ InBucket(call[c].at, call[c].bucket) /\ call[c].at <= now
    BY <1>1 DEF LimitInv, InTime, LimitTyped, CallTypes, Awaits
  <2>2. now - now <= Timeout /\ now <= now BY WindowsAre DEF LimitInv, LimitTyped
  <2> QED BY <1>1, <1>3, <1>5, <2>1, <2>2, MovesInTime
<1>7. \A d \in Callers : HasPlace(d)' => HasPlace(d) /\ call'[d].n = call[d].n /\ call'[d].bucket = call[d].bucket
  BY <1>1, <1>3, <1>5 DEF HasPlace
<1>8. PlacesApart' BY <1>1, <1>2, <1>7, PlacesAreKept DEF CountedOrNot
<1>9. Remembered' BY <1>1 DEF LimitInv, Remembered
<1> QED BY <1>1, <1>2, <1>5, <1>6, <1>8, <1>9 DEF LimitInv, LimitTyped, CountedOrNot

\* GET ends, and the caller is answered by the counts of two windows.
LEMMA GetKeeps == ASSUME LimitInv, NEW c \in Callers, Get(c) PROVE LimitInv'
<1> DEFINE g == [b |-> call[c].bucket, n |-> call[c].n, id |-> call[c].id]
<1>1. /\ call[c].phase = "get" /\ call' = [call EXCEPT ![c] = Idle] /\ HasPlace(c) /\ Awaits(c)
      /\ UNCHANGED <<now, counter, timestamps, total, inMemory, requests>>
  BY DEF Get, HasPlace, Awaits
<1>2. call[c] \in CallTypes /\ call[c].bucket \in Buckets /\ call[c].bucket > 0 /\ call[c].n \in Nat
  BY <1>1 DEF LimitInv, LimitTyped, CallTypes, InTime
<1>3. \A p \in {0, counter[call[c].bucket - 1].n} : p \in Nat
  <2>1. call[c].bucket - 1 \in Buckets BY <1>2, RateLimitAssumption DEF Buckets
  <2> QED BY <2>1 DEF LimitInv, LimitTyped
<1>4. granted' = granted \/ (granted' = granted \cup {g} /\ call[c].n <= Limit)
  BY <1>1, <1>3, AllowedIsWithin DEF Get
<1>5. /\ InTime' /\ call' \in [Callers -> CallTypes]
      /\ \A d \in Callers : HasPlace(d)' => /\ HasPlace(d) /\ d # c
                                          /\ call'[d].n = call[d].n /\ call'[d].bucket = call[d].bucket
  BY <1>1, IdleIsCall, LeavesKeep
<1>6. g \in [b : Buckets, n : Nat, id : Nat] /\ g.b = call[c].bucket /\ g.n = call[c].n
  BY <1>2 DEF CallTypes
<1> HIDE DEF g
<1>7. LimitTyped' BY <1>1, <1>4, <1>5, <1>6 DEF LimitInv, LimitTyped
<1>8. ExpiresLate' /\ CountsAreKept' /\ Remembered' BY <1>1 DEF LimitInv, ExpiresLate, CountsAreKept, Remembered
<1>9. PlacesApart'
  <2>1. CASE granted' = granted
    <3>1. \A b \in Buckets : total[b] <= total'[b] /\ total'[b] \in Nat BY <1>1 DEF LimitInv, LimitTyped
    <3> QED BY <2>1, <3>1, <1>5, PlacesAreKept
  <2>2. CASE granted' = granted \cup {g} /\ call[c].n <= Limit
    <3>1. \A d \in Callers : HasPlace(d)' => call'[d].n \in 1..total'[call'[d].bucket]
      BY <1>1, <1>5 DEF LimitInv, PlacesApart
    <3>2. \A d, e \in Callers :
            HasPlace(d)' /\ HasPlace(e)' /\ call'[d].bucket = call'[e].bucket /\ call'[d].n = call'[e].n => d = e
      BY <1>5 DEF LimitInv, PlacesApart
    <3>3. ASSUME NEW h \in granted' PROVE
            /\ h.n \in 1..total'[h.b] /\ h.n <= Limit
            /\ \A d \in Callers : HasPlace(d)' /\ call'[d].bucket = h.b => call'[d].n # h.n
      BY <1>1, <1>5, <1>6, <2>2 DEF LimitInv, PlacesApart
    <3>4. \A h, j \in granted' : h.b = j.b /\ h.n = j.n => h = j
      BY <1>1, <1>6, <2>2 DEF LimitInv, PlacesApart
    <3> QED BY <3>1, <3>2, <3>3, <3>4 DEF PlacesApart
  <2> QED BY <1>4, <2>1, <2>2
<1> QED BY <1>5, <1>7, <1>8, <1>9 DEF LimitInv

\* Time passes: keys expire, and no command is waited for longer than its timeout.
LEMMA TickKeeps == ASSUME LimitInv, Tick PROVE LimitInv'
<1>1. /\ now' = now + 1 /\ now \in Nat /\ UNCHANGED <<call, timestamps, total, granted, inMemory, requests>>
      /\ \A c \in Callers : Awaits(c) => now - call[c].since < Timeout
  BY DEF Tick, LimitInv, LimitTyped
<1>2. counter' = [b \in Buckets |-> IF counter[b].exp # 0 /\ counter[b].exp <= now + 1
                                    THEN [n |-> 0, exp |-> 0] ELSE counter[b]]
  BY DEF Tick
<1>3. LimitTyped' BY <1>1, <1>2 DEF LimitInv, LimitTyped
<1>4. InTime'
  <2> SUFFICES ASSUME NEW c \in Callers, Awaits(c)
               PROVE  /\ call[c].bucket > 0 /\ InBucket(call[c].at, call[c].bucket)
                      /\ call[c].at <= call[c].since /\ call[c].since <= now + 1 /\ now + 1 - call[c].since <= Timeout
                      /\ call[c].phase = "incr" => call[c].since = call[c].at
    <3>1. call' = call /\ now' = now + 1 /\ now \in Nat /\ \A c \in Callers : call[c].since \in Nat
      BY <1>1 DEF LimitInv, LimitTyped, CallTypes
    <3> QED BY <3>1 DEF InTime, Awaits
  <2>1. now - call[c].since < Timeout /\ call[c].since \in Nat BY <1>1 DEF LimitInv, LimitTyped, CallTypes
  <2> QED BY <1>1, <2>1, WindowsAre DEF LimitInv, InTime
<1>5. ExpiresLate' BY <1>2 DEF LimitInv, ExpiresLate, LimitTyped
<1>6. CountsAreKept'
  <2> SUFFICES ASSUME NEW b \in Buckets, now + 1 < (b + 2) * W PROVE counter'[b].n = total[b]
    BY <1>1 DEF CountsAreKept
  <2>1. (b + 2) * W \in Nat BY WindowsAre
  <2>2. counter[b].n = total[b] BY <1>1, <2>1 DEF LimitInv, CountsAreKept
  <2>3. counter[b].exp # 0 => counter[b].exp > now + 1
    BY <1>1, <2>1 DEF LimitInv, ExpiresLate, LimitTyped
  <2>4. counter[b].exp \in Nat BY DEF LimitInv, LimitTyped
  <2> QED BY <1>1, <1>2, <2>2, <2>3, <2>4
<1>7. PlacesApart'
  <2>1. \A b \in Buckets : total[b] <= total'[b] /\ total'[b] \in Nat BY <1>1 DEF LimitInv, LimitTyped
  <2>2. \A c \in Callers : HasPlace(c)' => HasPlace(c) /\ call'[c].n = call[c].n /\ call'[c].bucket = call[c].bucket
    BY <1>1 DEF HasPlace
  <2> QED BY <1>1, <2>1, <2>2, PlacesAreKept
<1>8. Remembered'
  <2>1. \A e \in inMemory : now + 1 - e.at < W => now - e.at < W
    BY <1>1, WindowsAre DEF LimitInv, LimitTyped
  <2>2. inMemory' = inMemory /\ now' = now + 1 /\ now \in Nat /\ \A e \in inMemory : e.at \in Nat
    BY <1>1 DEF LimitInv, LimitTyped
  <2>3. {e \in inMemory' : now' - e.at < W} = {e \in inMemory : now + 1 - e.at < W} BY <2>2
  <2>4. {e \in inMemory : now + 1 - e.at < W} \subseteq timestamps BY <2>1 DEF LimitInv, Remembered
  <2> QED BY <1>1, <2>3, <2>4 DEF LimitInv, Remembered
<1> QED BY <1>3, <1>4, <1>5, <1>6, <1>7, <1>8 DEF LimitInv

\* Every step of the limiter keeps the invariant.
LEMMA LimitStep == LimitInv /\ [LimitNext]_limitVars => LimitInv'
<1> SUFFICES ASSUME LimitInv, [LimitNext]_limitVars PROVE LimitInv' OBVIOUS
<1>1. CASE UNCHANGED limitVars
  BY <1>1 DEF limitVars, LimitInv, LimitTyped, InTime, InBucket, Awaits, ExpiresLate, CountsAreKept, PlacesApart,
              HasPlace, Remembered
<1>2. CASE Tick BY <1>2, TickKeeps
<1>3. CASE \E c \in Callers : Ask(c) \/ Incr(c) \/ IncrLost(c) \/ Expire(c) \/ Get(c) \/ Hang(c)
  BY <1>3, AskKeeps, IncrKeeps, IncrLostKeeps, ExpireKeeps, GetKeeps, HangKeeps
<1> QED BY <1>1, <1>2, <1>3 DEF LimitNext

\* The inductive invariant of the limits.
THEOREM LimitInvariance == LimitSpec => []LimitInv
<1>1. LimitInit => LimitInv
  <2> SUFFICES ASSUME LimitInit PROVE LimitInv OBVIOUS
  <2>1. Idle \in CallTypes BY RateLimitAssumption DEF Idle, CallTypes, Buckets
  <2>2. LimitTyped BY <2>1, WindowsAre DEF LimitInit, LimitTyped
  <2>3. \A c \in Callers : ~Awaits(c) /\ ~HasPlace(c) BY DEF LimitInit, Awaits, HasPlace, Idle
  <2>4. Remembered BY FS_EmptySet, WindowsAre DEF LimitInit, Remembered
  <2> QED BY <2>2, <2>3, <2>4 DEF LimitInit, LimitInv, InTime, ExpiresLate, CountsAreKept, PlacesApart
<1> QED BY <1>1, LimitStep, PTL DEF LimitSpec

\* The shared limit: of the requests of one window no more than Limit are let through,
\* however INCR, EXPIRE and GET of different servers interleave, fail or are lost.
THEOREM WindowsAreLimited == LimitSpec => []WindowLimit
<1>1. ASSUME LimitInv, NEW b \in Buckets PROVE Cardinality({g \in granted : g.b = b}) <= Limit
  <2> DEFINE S == {g \in granted : g.b = b}
             f == [g \in S |-> g.n]
  <2>1. f \in Injection(S, 1..Limit)
    <3>1. \A g \in S : g.n \in 1..Limit
      <4> SUFFICES ASSUME NEW g \in S PROVE g.n \in 1..Limit OBVIOUS
      <4>1. g.n \in 1..total[g.b] /\ g.n <= Limit BY <1>1 DEF LimitInv, PlacesApart
      <4> QED BY <4>1, WindowsAre
    <3>2. \A g, h \in S : g.n = h.n => g = h BY <1>1 DEF LimitInv, PlacesApart
    <3> QED BY <3>1, <3>2 DEF Injection, IsInjective
  <2>2. IsFiniteSet(1..Limit) /\ Cardinality(1..Limit) = Limit BY WindowsAre, FS_Interval
  <2> HIDE DEF S, f
  <2>3. Cardinality(S) <= Limit BY <2>1, <2>2, FS_Injection
  <2> QED BY <2>3 DEF S
<1>2. LimitInv => WindowLimit BY <1>1 DEF WindowLimit
<1> QED BY <1>2, LimitInvariance, PTL

\* The limit in memory, for a server that counts alone: never more than Limit in any
\* window that slides.
THEOREM MemoryIsLimited == LimitSpec => []MemoryLimit
<1>1. ASSUME LimitInv PROVE MemoryLimit
  <2>1. {e \in inMemory : now - e.at < W} \subseteq timestamps /\ IsFiniteSet(timestamps) /\ Cardinality(timestamps) <= Limit
    BY <1>1 DEF LimitInv, Remembered
  <2> DEFINE S == {e \in inMemory : now - e.at < W}
  <2>2. IsFiniteSet(S) /\ Cardinality(S) <= Cardinality(timestamps) BY <2>1, FS_Subset
  <2>3. Cardinality(S) \in Nat /\ Cardinality(timestamps) \in Nat BY <2>1, <2>2, FS_CardinalityType
  <2> QED BY <2>1, <2>2, <2>3, WindowsAre DEF MemoryLimit
<1> QED BY <1>1, LimitInvariance, PTL

\* No count is lost while a window needs it: a key that expired is of a window that is over.
THEOREM CountsKept == LimitSpec => []CountsAreKept
BY LimitInvariance, PTL DEF LimitInv

\* Types of the limits, for any number of callers, windows and requests.
THEOREM LimitTypes == LimitSpec => []LimitTypeOK
<1> DEFINE Clocked == now \in W..(W + MaxNow) /\ timestamps \subseteq [at : Nat, id : Nat]
<1>1. LimitInit => Clocked BY RateLimitAssumption DEF LimitInit
<1>2. Clocked /\ LimitInv /\ [LimitNext]_limitVars => Clocked'
  <2> SUFFICES ASSUME Clocked, LimitInv, [LimitNext]_limitVars PROVE Clocked' OBVIOUS
  <2>1. CASE Tick BY <2>1, RateLimitAssumption DEF Tick
  <2>2. ASSUME NEW c \in Callers, IncrLost(c) PROVE Clocked'
    <3>1. [at |-> now, id |-> call[c].id] \in [at : Nat, id : Nat]
      BY DEF LimitInv, LimitTyped, CallTypes
    <3>2. timestamps' \subseteq timestamps \cup {[at |-> now, id |-> call[c].id]}
      BY <2>2 DEF IncrLost, ConsumeMemory, Pruned
    <3> QED BY <3>1, <3>2, <2>2 DEF IncrLost
  <2>3. ASSUME NEW c \in Callers, Ask(c) \/ Incr(c) \/ Expire(c) \/ Get(c) \/ Hang(c) PROVE Clocked'
    BY <2>3 DEF Ask, Incr, Expire, Get, Hang
  <2>4. CASE UNCHANGED limitVars BY <2>4 DEF limitVars
  <2> QED BY <2>1, <2>2, <2>3, <2>4 DEF LimitNext
<1>3. Clocked /\ LimitInv => LimitTypeOK
  BY DEF LimitInv, LimitTyped, Remembered, LimitTypeOK, CallTypes
<1> QED BY <1>1, <1>2, <1>3, LimitInvariance, PTL DEF LimitSpec

-----------------------------------------------------------------------------
(* The client of Redis: RedisClient.                                       *)

ReplyType == [ok : BOOLEAN, ascii : BOOLEAN]
ConnType == [phase : {"idle", "connecting", "sent", "settled", "closed"},
         arrived : 0..Expected, parsed : 0..Expected,
         outcome : {"none", "resolved", "rejected", "garbled", "timeout"}]

ConnTyped == conn \in [Commands -> ConnType]
RepliesTyped == replies \in [Commands -> Seq(ReplyType)]
\* Nothing is parsed that has not arrived, nor does more arrive than is expected.
InOrder ==
  \A c \in Commands : /\ conn[c].parsed <= conn[c].arrived /\ conn[c].arrived <= Len(replies[c])
                      /\ Len(replies[c]) <= Expected
SettledOnce == \A c \in Commands : conn[c].outcome = "none" <=> conn[c].phase # "settled"
\* What was parsed was accepted and is ASCII, unless it was garbled, and a promise is
\* resolved when all of it was.
ParsedGood ==
  \A c \in Commands :
    /\ conn[c].outcome # "garbled" =>
         \A i \in 1..conn[c].parsed : replies[c][i].ok /\ replies[c][i].ascii
    /\ conn[c].outcome = "resolved" => conn[c].parsed = Expected
RedisInv == ConnTyped /\ RepliesTyped /\ InOrder /\ SettledOnce /\ ParsedGood

\* What runCommand waits for is at most AUTH, SELECT and the command.
LEMMA ExpectedType == Expected \in Nat \ {0} /\ Expected <= 3
BY DEF Expected

\* What a connection may become: what it has arrived and parsed is within the
\* replies, and what it parses is good.
Fits(c, k) ==
  /\ k \in ConnType /\ k.parsed <= k.arrived /\ k.arrived <= Len(replies[c])
  /\ k.outcome = "none" <=> k.phase # "settled"
  /\ k.outcome # "garbled" => \A i \in 1..k.parsed : replies[c][i].ok /\ replies[c][i].ascii
  /\ k.outcome = "resolved" => k.parsed = Expected

\* One connection moves to what fits its replies.
LEMMA ConnMoves ==
  ASSUME RedisInv, NEW c \in Commands, NEW k, Fits(c, k), conn' = [conn EXCEPT ![c] = k], replies' = replies
  PROVE  RedisInv'
<1>1. \A d \in Commands : conn'[d] = IF d = c THEN k ELSE conn[d] BY DEF RedisInv, ConnTyped
<1>2. ConnTyped' BY DEF RedisInv, ConnTyped, Fits
<1>3. (RepliesTyped /\ InOrder /\ SettledOnce)' BY <1>1 DEF RedisInv, RepliesTyped, InOrder, SettledOnce, Expected, Fits
<1>4. ParsedGood' BY <1>1 DEF RedisInv, ParsedGood, Expected, Fits
<1> QED BY <1>2, <1>3, <1>4 DEF RedisInv

\* Every step of a command keeps the invariant.
LEMMA RedisStep == RedisInv /\ [RedisNext]_redisVars => RedisInv'
<1> SUFFICES ASSUME RedisInv, [RedisNext]_redisVars PROVE RedisInv' OBVIOUS
<1> USE ExpectedType
<1>1. CASE UNCHANGED redisVars
  BY <1>1 DEF RedisInv, ConnTyped, RepliesTyped, InOrder, SettledOnce, ParsedGood, redisVars, Expected
<1>2. CASE RedisNext
  <2>1. PICK c \in Commands :
           \/ RunRawCommand(c) \/ SendCommands(c) \/ ServerReplies(c)
           \/ Data(c) \/ DataError(c) \/ DataText(c)
           \/ SocketTimeout(c) \/ SocketError(c) \/ ServerCloses(c)
    BY <1>2 DEF RedisNext
  <2> DEFINE was == conn[c]
  <2>2. /\ was \in ConnType /\ replies[c] \in Seq(ReplyType) /\ Len(replies[c]) \in Nat
        /\ was.parsed <= was.arrived /\ was.arrived <= Len(replies[c]) /\ Len(replies[c]) <= Expected
        /\ was.outcome = "none" <=> was.phase # "settled"
        /\ was.outcome # "garbled" => \A i \in 1..was.parsed : replies[c][i].ok /\ replies[c][i].ascii
        /\ was.outcome = "resolved" => was.parsed = Expected
    BY DEF RedisInv, ConnTyped, RepliesTyped, InOrder, SettledOnce, ParsedGood
  <2>3. CASE RunRawCommand(c) \/ SendCommands(c) \/ ServerCloses(c)
    <3>1. PICK p \in {"connecting", "sent", "closed"} :
            conn' = [conn EXCEPT ![c] = [was EXCEPT !.phase = p]] /\ replies' = replies /\ was.phase # "settled"
      BY <2>3 DEF RunRawCommand, SendCommands, ServerCloses
    <3> DEFINE k == [was EXCEPT !.phase = p]
    <3>2. /\ k \in ConnType /\ k.phase = p
          /\ k.parsed = was.parsed /\ k.arrived = was.arrived /\ k.outcome = was.outcome
      BY <2>2 DEF ConnType
    <3>3. conn' = [conn EXCEPT ![c] = k] BY <3>1
    <3> HIDE DEF k
    <3>4. Fits(c, k) BY <2>2, <3>1, <3>2 DEF Fits
    <3> QED BY <3>1, <3>3, <3>4, ConnMoves
  <2>4. CASE ServerReplies(c)
    <3>1. PICK r \in ReplyType : replies' = [replies EXCEPT ![c] = Append(@, r)]
      BY <2>4 DEF ServerReplies, ReplyType
    <3>2. conn' = conn /\ Len(replies[c]) < Expected BY <2>4 DEF ServerReplies
    <3>3. \A d \in Commands : replies'[d] = IF d = c THEN Append(replies[c], r) ELSE replies[d]
      BY <3>1 DEF RedisInv, RepliesTyped
    <3>4. /\ Append(replies[c], r) \in Seq(ReplyType) /\ Len(Append(replies[c], r)) = Len(replies[c]) + 1
          /\ \A i \in 1..Len(replies[c]) : Append(replies[c], r)[i] = replies[c][i]
      BY <2>2
    <3>5. RepliesTyped' BY <3>1, <3>4 DEF RedisInv, RepliesTyped
    <3>6. InOrder'
      <4> SUFFICES ASSUME NEW d \in Commands PROVE
              /\ conn[d].parsed <= conn[d].arrived /\ conn[d].arrived <= Len(replies'[d])
              /\ Len(replies'[d]) <= Expected
        BY <3>2 DEF InOrder, Expected
      <4>1. CASE d = c
        <5>1. Len(replies'[d]) = Len(replies[c]) + 1 BY <4>1, <3>3, <3>4
        <5>2. was.parsed \in Nat /\ was.arrived \in Nat BY <2>2 DEF ConnType
        <5> QED BY <4>1, <5>1, <5>2, <3>2, <2>2
      <4>2. CASE d # c BY <4>2, <3>3 DEF RedisInv, InOrder
      <4> QED BY <4>1, <4>2
    <3>7. ParsedGood'
      <4> SUFFICES ASSUME NEW d \in Commands PROVE
              /\ conn[d].outcome # "garbled" => \A i \in 1..conn[d].parsed : replies'[d][i].ok /\ replies'[d][i].ascii
              /\ conn[d].outcome = "resolved" => conn[d].parsed = Expected
        BY <3>2 DEF ParsedGood, Expected
      <4>1. CASE d = c
          <5>1. was.parsed \in Nat /\ was.parsed <= Len(replies[c]) BY <2>2 DEF ConnType
          <5>2. \A i \in 1..was.parsed : i \in 1..Len(replies[c]) BY <5>1, <2>2
          <5>3. \A i \in 1..was.parsed : replies'[d][i] = replies[c][i] BY <4>1, <3>3, <3>4, <5>2
          <5> QED BY <4>1, <5>3, <2>2
      <4>2. CASE d # c BY <4>2, <3>3 DEF RedisInv, ParsedGood
      <4> QED BY <4>1, <4>2
    <3> QED BY <3>2, <3>5, <3>6, <3>7 DEF RedisInv, ConnTyped, ConnType, SettledOnce, Expected
  <2>5. CASE Data(c)
    <3>1. PICK n \in (was.parsed + 1)..Len(replies[c]) :
            /\ Good(c, n)
            /\ IF AllParsed(n) THEN Settle(c, "resolved", n, n)
               ELSE conn' = [conn EXCEPT ![c].arrived = n, ![c].parsed = n]
      BY <2>5 DEF Data
    <3>2. replies' = replies /\ was.phase = "sent" BY <2>5 DEF Data
    <3>3. \A i \in 1..n : replies[c][i].ok /\ replies[c][i].ascii
      BY <3>1, <3>2, <2>2 DEF Good, ConnType
    <3>4. n \in 0..Expected /\ n <= Len(replies[c]) BY <2>2, <3>1 DEF ConnType
    <3>5. CASE n = Expected
      <4> DEFINE k == [phase |-> "settled", arrived |-> n, parsed |-> n, outcome |-> "resolved"]
      <4>1. conn' = [conn EXCEPT ![c] = k] BY <3>1, <3>5 DEF AllParsed, Settle
      <4>2. k \in ConnType /\ k.phase = "settled" /\ k.arrived = n /\ k.parsed = n /\ k.outcome = "resolved"
        BY <3>4 DEF ConnType
      <4> HIDE DEF k
      <4>8. Fits(c, k) BY <4>1, <4>2, <3>2, <3>3, <3>4, <3>5 DEF Fits
      <4> QED BY <4>1, <4>2, <3>2, <3>3, <3>4, <3>5, <4>8, ConnMoves
    <3>6. CASE n # Expected
      <4> DEFINE k == [was EXCEPT !.arrived = n, !.parsed = n]
      <4>1. conn' = [conn EXCEPT ![c] = k] BY <3>1, <3>6 DEF AllParsed
      <4>2. k \in ConnType /\ k.arrived = n /\ k.parsed = n /\ k.phase = was.phase /\ k.outcome = was.outcome
        BY <3>4, <2>2 DEF ConnType
      <4> HIDE DEF k
      <4>8. Fits(c, k) BY <4>1, <4>2, <3>2, <3>3, <3>4, <2>2 DEF Fits
      <4> QED BY <4>1, <4>2, <3>2, <3>3, <3>4, <2>2, <4>8, ConnMoves
    <3> QED BY <3>5, <3>6
  <2>6. CASE DataError(c) \/ DataText(c) \/ SocketTimeout(c) \/ SocketError(c)
    <3>1. was.phase \in {"connecting", "sent"} /\ replies' = replies
      BY <2>6 DEF DataError, DataText, SocketTimeout, SocketError, Pending
    <3>2. \/ \E n \in (was.parsed + 1)..Len(replies[c]) :
               Good(c, n - 1) /\ Settle(c, "rejected", n, n - 1)
          \/ /\ Len(replies[c]) = Expected /\ Good(c, LastReply - 1) /\ was.arrived < Expected
             /\ \/ conn' = [conn EXCEPT ![c].arrived = LastReply, ![c].parsed = LastReply - 1]
                \/ Settle(c, "rejected", LastReply, LastReply - 1)
                \/ Settle(c, "garbled", LastReply, LastReply)
          \/ \E o \in {"timeout", "rejected"} : Settle(c, o, was.arrived, was.parsed)
      BY <2>6 DEF DataError, DataText, SocketTimeout, SocketError
    <3>3. ASSUME NEW n \in 1..Len(replies[c]), Good(c, n - 1), was.parsed < n
          PROVE  \A i \in 1..(n - 1) : replies[c][i].ok /\ replies[c][i].ascii
      BY <3>3, <3>1, <2>2 DEF Good, ConnType
    <3>4. CASE \E n \in (was.parsed + 1)..Len(replies[c]) :
                 Good(c, n - 1) /\ Settle(c, "rejected", n, n - 1)
      <4>1. PICK n \in (was.parsed + 1)..Len(replies[c]) : Good(c, n - 1) /\ Settle(c, "rejected", n, n - 1)
        BY <3>4
      <4> DEFINE k == [phase |-> "settled", arrived |-> n, parsed |-> n - 1, outcome |-> "rejected"]
      <4>2. conn' = [conn EXCEPT ![c] = k] BY <4>1 DEF Settle
      <4>3. n \in 1..Len(replies[c]) /\ was.parsed < n BY <2>2 DEF ConnType
      <4>4. k \in ConnType /\ k.phase = "settled" /\ k.arrived = n /\ k.parsed = n - 1 /\ k.outcome = "rejected"
        BY <4>3, <2>2 DEF ConnType
      <4> HIDE DEF k
      <4>5. \A i \in 1..(n - 1) : replies[c][i].ok /\ replies[c][i].ascii BY <3>3, <4>1, <4>3
      <4>8. Fits(c, k) BY <4>2, <4>3, <4>4, <4>5, <3>1, <2>2 DEF Fits
      <4> QED BY <4>2, <4>3, <4>4, <4>5, <3>1, <2>2, <4>8, ConnMoves
    <3>5. CASE \E o \in {"timeout", "rejected"} : Settle(c, o, was.arrived, was.parsed)
      <4>1. PICK o \in {"timeout", "rejected"} : Settle(c, o, was.arrived, was.parsed) BY <3>5
      <4> DEFINE k == [phase |-> "settled", arrived |-> was.arrived, parsed |-> was.parsed, outcome |-> o]
      <4>2. conn' = [conn EXCEPT ![c] = k] BY <4>1 DEF Settle
      <4>3. /\ k \in ConnType /\ k.phase = "settled" /\ k.arrived = was.arrived /\ k.parsed = was.parsed
            /\ k.outcome \in {"timeout", "rejected"}
        BY <2>2 DEF ConnType
      <4> HIDE DEF k
      <4>8. Fits(c, k) BY <4>2, <4>3, <3>1, <2>2 DEF Fits
      <4> QED BY <4>2, <4>3, <3>1, <2>2, <4>8, ConnMoves
    <3>6. CASE /\ Len(replies[c]) = Expected /\ Good(c, LastReply - 1) /\ was.arrived < Expected
               /\ \/ conn' = [conn EXCEPT ![c].arrived = LastReply, ![c].parsed = LastReply - 1]
                  \/ Settle(c, "rejected", LastReply, LastReply - 1)
                  \/ Settle(c, "garbled", LastReply, LastReply)
      <4>1. LastReply = Expected BY DEF LastReply
      <4>2. LastReply \in 1..Len(replies[c]) /\ was.parsed < LastReply BY <3>6, <4>1, <2>2 DEF ConnType
      <4>3. \A i \in 1..(LastReply - 1) : replies[c][i].ok /\ replies[c][i].ascii BY <3>3, <3>6, <4>2
      <4>4. CASE conn' = [conn EXCEPT ![c].arrived = LastReply, ![c].parsed = LastReply - 1]
        <5> DEFINE k == [was EXCEPT !.arrived = LastReply, !.parsed = LastReply - 1]
        <5>1. conn' = [conn EXCEPT ![c] = k] BY <4>4
        <5>3. LastReply \in 0..Expected /\ LastReply - 1 \in 0..Expected /\ was.outcome = "none"
          BY <4>1, <3>1, <2>2
        <5>2. /\ k \in ConnType /\ k.arrived = LastReply /\ k.parsed = LastReply - 1
              /\ k.phase = was.phase /\ k.outcome = was.outcome /\ k.outcome = "none"
          BY <5>3, <2>2 DEF ConnType
        <5> HIDE DEF k
        <5>8. Fits(c, k) BY <5>1, <5>2, <4>1, <4>2, <4>3, <3>1, <2>2 DEF Fits
        <5> QED BY <5>1, <5>2, <4>1, <4>2, <4>3, <3>1, <2>2, <5>8, ConnMoves
      <4>5. CASE Settle(c, "rejected", LastReply, LastReply - 1) \/ Settle(c, "garbled", LastReply, LastReply)
        <5>1. PICK o \in {"rejected", "garbled"}, p \in {LastReply - 1, LastReply} :
                 Settle(c, o, LastReply, p) /\ (o = "rejected" => p = LastReply - 1)
          BY <4>5
        <5> DEFINE k == [phase |-> "settled", arrived |-> LastReply, parsed |-> p, outcome |-> o]
        <5>2. conn' = [conn EXCEPT ![c] = k] BY <5>1 DEF Settle
        <5>3. k \in ConnType /\ k.phase = "settled" /\ k.arrived = LastReply /\ k.parsed = p /\ k.outcome = o
          BY <4>1 DEF ConnType
        <5> HIDE DEF k
        <5>8. Fits(c, k) BY <5>1, <5>2, <5>3, <4>1, <4>2, <4>3, <3>1, <3>6, <2>2 DEF Fits
        <5> QED BY <5>1, <5>2, <5>3, <4>1, <4>2, <4>3, <3>1, <3>6, <2>2, <5>8, ConnMoves
      <4> QED BY <3>6, <4>4, <4>5
    <3> QED BY <3>2, <3>4, <3>5, <3>6
  <2> QED BY <2>1, <2>3, <2>4, <2>5, <2>6
<1> QED BY <1>1, <1>2

\* The inductive invariant of the client: replies are parsed in order, once each. It
\* needs no fairness.
THEOREM RedisInvariance == RedisInit /\ [][RedisNext]_redisVars => []RedisInv
<1>1. RedisInit => RedisInv
  BY ExpectedType DEF RedisInit, Fresh, RedisInv, ConnTyped, RepliesTyped, InOrder, SettledOnce, ParsedGood, ConnType
<1> QED BY <1>1, RedisStep, PTL

\* A promise that is resolved was answered by the reply to its own command, after every
\* reply before it was accepted.
THEOREM AnswersAreOwn == RedisSpec => []ResolvedIsOwn
<1>1. RedisInv => ResolvedIsOwn
  BY ExpectedType DEF RedisInv, ConnTyped, RepliesTyped, InOrder, ParsedGood, ConnType, ResolvedIsOwn, LastReply
<1> QED BY <1>1, RedisInvariance, PTL DEF RedisSpec

\* Types of the client: nothing is parsed before it arrived, and a promise has an
\* outcome exactly when it is settled.
THEOREM RedisTypes == RedisSpec => []RedisTypeOK
<1>1. RedisInv => RedisTypeOK
  BY DEF RedisInv, ConnTyped, RepliesTyped, InOrder, SettledOnce, ConnType, ReplyType, RedisTypeOK
<1> QED BY <1>1, RedisInvariance, PTL DEF RedisSpec

-----------------------------------------------------------------------------
(* The stored run of the assistant: RunRecord.                             *)

\* A proposal or action in memory is within the schema's limit, one that types tells
\* its own length, and the only text without a kind is the one that stands for nothing.
TrueText(t) ==
  /\ t.kind = "type" => t.len <= 500
  /\ t.kind = "none" => t = NoText
  /\ t.kind # "answer"
TrueAction(t) == t \in TextType /\ TrueText(t) /\ (t.kind = "type" => t.len = t.of)
\* The line of an answer is never in memory as it was typed.
TrueLine(l) == l.form # "raw" /\ l.says = l.of - l.blanks
\* A run that counts no more than k actions, and one as it is saved.
RunUpTo(k) ==
  {run \in RunType : run.actionCount <= k /\ TrueText(run.latestProposal) /\ TrueLine(run.log)}
Saveable(p) == p.form = "raw" => p.kind = "action"
SavedUpTo(k) == {run \in RunUpTo(k) : Saveable(run.latestProposal)}

CreatedActions == {a \in Actions : handler[a] # "none"}
\* The actions that may have been counted: their handler is over, and they have a row.
CountedActions == {a \in Actions : handler[a] = "counted" /\ actionRows[a].kind # "none"}

ActionsTrue ==
  /\ actions \in [Actions -> TextType] /\ actionRows \in [Actions -> TextType]
  /\ handler \in [Actions -> {"none", "created", "saved", "counted"}]
  /\ IsFiniteSet(CreatedActions)
  /\ \A a \in Actions :
       /\ TrueAction(actions[a]) /\ TrueAction(actionRows[a])
       /\ actionRows[a].kind = "type" => actionRows[a].form = "length"
       /\ handler[a] = "none" => actions[a] = NoText /\ actionRows[a] = NoText
       /\ handler[a] = "created" => actions[a].kind # "none"
       /\ handler[a] = "saved" => actionRows[a].kind # "none"
RunsTrue ==
  /\ store \in RunUpTo(Cardinality(CountedActions))
  /\ row \in SavedUpTo(Cardinality(CountedActions))
  /\ saves \in Seq(SavedUpTo(Cardinality(CountedActions)))
RecordInv == ActionsTrue /\ RunsTrue /\ recovered \in BOOLEAN

\* The texts the code makes, and their lengths.
LEMMA TextTypes ==
  /\ NoText \in TextType /\ TrueText(NoText) /\ TrueAction(NoText) /\ NoText.kind = "none" /\ NoText.form = "fixed"
  /\ TrueLine(NoText)
  /\ \A kind \in Kinds : /\ Fixed(kind) \in TextType /\ Fixed(kind).kind = kind /\ Fixed(kind).form = "fixed"
                         /\ Fixed(kind).len = 0
  /\ \A kind \in Kinds, n \in Nat :
       /\ Text(kind, n) \in TextType /\ Text(kind, n).kind = kind /\ Text(kind, n).len = n
       /\ Text(kind, n).of = n /\ Text(kind, n).form = "raw"
BY DEF NoText, Fixed, Text, TextType, Kinds, TrueText, TrueAction, TrueLine

\* sanitizeAgentProposalForPersistence returns no text but that of an action that
\* types nothing.
LEMMA SanitizedProposal ==
  ASSUME NEW p \in TextType, TrueText(p)
  PROVE  /\ SanitizeProposal(p) \in TextType /\ TrueText(SanitizeProposal(p))
         /\ Saveable(SanitizeProposal(p))
<1> DEFINE q == [p EXCEPT !.form = "redacted", !.says = p.len, !.len = RedactedLength(p.len)]
           c == [p EXCEPT !.form = "name"]
<1>1. p.kind \in Kinds /\ p.len \in Nat BY DEF TextType
<1>2. RedactedLength(p.len) \in Nat /\ RedactedLength(p.len) <= 500 BY DEF RedactedLength, Digits
<1>3. CASE p.kind = "type"
  <2>1. q \in TextType /\ q.form = "redacted" /\ q.len <= 500 /\ q.kind = "type" BY <1>1, <1>2, <1>3 DEF TextType
  <2>2. SanitizeProposal(p) = q BY <1>3 DEF SanitizeProposal
  <2> QED BY <2>1, <2>2 DEF TrueText, Saveable
<1>4. CASE p.kind = "terminal"
  <2>1. c \in TextType /\ c.form = "name" /\ c.kind = "terminal" BY <1>4 DEF TextType
  <2>2. SanitizeProposal(p) = c BY <1>4 DEF SanitizeProposal
  <2> QED BY <2>1, <2>2 DEF TrueText, Saveable
<1>5. CASE p.kind \in {"fs", "ask_user", "done"}
  <2>1. SanitizeProposal(p) = Fixed(p.kind) BY <1>5 DEF SanitizeProposal
  <2> QED BY <1>1, <1>5, <2>1, TextTypes DEF TrueText, Saveable
<1>6. CASE p.kind \notin {"type", "terminal", "fs", "ask_user", "done"}
  <2>1. SanitizeProposal(p) = p BY <1>6 DEF SanitizeProposal
  <2>2. p.kind \in {"none", "action"} BY <1>1, <1>6 DEF Kinds, TrueText
  <2> QED BY <2>1, <2>2, TextTypes DEF TrueText, Saveable
<1> QED BY <1>3, <1>4, <1>5, <1>6

\* The redaction of a log line leaves a line that was redacted.
LEMMA SanitizedLine ==
  ASSUME NEW l \in TextType, TrueLine(l)
  PROVE  SanitizeLogLine(l) = l
BY DEF SanitizeLogLine, TrueLine

\* What is saved of a run counts what the run counts, and holds no text of a user.
LEMMA SanitizedRun ==
  ASSUME NEW k, NEW run \in RunUpTo(k) PROVE SanitizeRun(run) \in SavedUpTo(k)
<1> DEFINE p == SanitizeProposal(run.latestProposal)
           l == SanitizeLogLine(run.log)
           s == SanitizeRun(run)
<1>1. /\ run \in RunType /\ run.actionCount <= k /\ TrueText(run.latestProposal) /\ TrueLine(run.log)
      /\ run.latestProposal \in TextType /\ run.log \in TextType
  BY DEF RunUpTo, RunType
<1>2. p \in TextType /\ TrueText(p) /\ Saveable(p) BY <1>1, SanitizedProposal
<1>3. l \in TextType /\ TrueLine(l) BY <1>1, SanitizedLine
<1>4. s = [run EXCEPT !.latestProposal = p, !.log = l] BY DEF SanitizeRun
<1> HIDE DEF p, l, s
<1>5. s \in RunType /\ s.latestProposal = p /\ s.log = l /\ s.actionCount = run.actionCount
  BY <1>1, <1>2, <1>3, <1>4 DEF RunType
<1>6. s \in SavedUpTo(k) BY <1>1, <1>2, <1>3, <1>5 DEF SavedUpTo, RunUpTo
<1> QED BY <1>6 DEF s

\* Rows are not taken back: the number of counted actions only grows.
LEMMA CountedGrows ==
  ASSUME IsFiniteSet(CreatedActions), IsFiniteSet(CreatedActions'), CountedActions \subseteq CountedActions', CountedActions' \subseteq CreatedActions',
         CountedActions \subseteq CreatedActions
  PROVE  /\ Cardinality(CountedActions) \in Nat /\ Cardinality(CountedActions') \in Nat
         /\ Cardinality(CountedActions) <= Cardinality(CountedActions')
<1>1. IsFiniteSet(CountedActions) /\ IsFiniteSet(CountedActions') BY FS_Subset
<1> QED BY <1>1, FS_Subset, FS_CardinalityType

\* A run that counts at most k actions counts at most m, for a larger m.
LEMMA RunsUpToMore ==
  ASSUME NEW k \in Nat, NEW m \in Nat, k <= m
  PROVE  RunUpTo(k) \subseteq RunUpTo(m) /\ SavedUpTo(k) \subseteq SavedUpTo(m)
<1>1. \A run \in RunType : run.actionCount \in Nat BY DEF RunType
<1>2. RunUpTo(k) \subseteq RunUpTo(m) BY <1>1 DEF RunUpTo
<1> QED BY <1>2 DEF SavedUpTo

\* An action that is counted was created.
LEMMA CountedAreCreated == CountedActions \subseteq CreatedActions /\ CountedActions' \subseteq CreatedActions'
BY DEF CountedActions, CreatedActions

\* A step on actions keeps what is said of the runs, as long as it takes no row back.
LEMMA RunsKept ==
  ASSUME RecordInv, ActionsTrue', CountedActions \subseteq CountedActions', UNCHANGED <<store, row, saves>>
  PROVE  RunsTrue'
<1>1. /\ Cardinality(CountedActions) \in Nat /\ Cardinality(CountedActions') \in Nat
      /\ Cardinality(CountedActions) <= Cardinality(CountedActions')
  BY CountedGrows, CountedAreCreated DEF RecordInv, ActionsTrue
<1>2. /\ RunUpTo(Cardinality(CountedActions)) \subseteq RunUpTo(Cardinality(CountedActions'))
      /\ SavedUpTo(Cardinality(CountedActions)) \subseteq SavedUpTo(Cardinality(CountedActions'))
  BY <1>1, RunsUpToMore
<1> QED BY <1>2, SeqMonotonic DEF RecordInv, RunsTrue

\* The run changes in memory, and a copy without the texts of users is on its way to the row.
LEMMA ChangeKeeps ==
  ASSUME RecordInv, UNCHANGED <<row, recovered>>, ActionsTrue', CountedActions \subseteq CountedActions',
         NEW run \in RunUpTo(Cardinality(CountedActions')), ChangeRun(run)
  PROVE  RecordInv'
<1> DEFINE k == Cardinality(CountedActions)
           m == Cardinality(CountedActions')
<1>1. k \in Nat /\ m \in Nat /\ k <= m BY CountedGrows, CountedAreCreated DEF RecordInv, ActionsTrue
<1>2. store' = run /\ saves' = Append(saves, SanitizeRun(run)) BY DEF ChangeRun
<1> HIDE DEF k, m
<1>3. SavedUpTo(k) \subseteq SavedUpTo(m) BY <1>1, RunsUpToMore
<1>4. row \in SavedUpTo(k) /\ saves \in Seq(SavedUpTo(k)) BY DEF RecordInv, RunsTrue, k
<1>5. saves \in Seq(SavedUpTo(m)) BY <1>3, <1>4, SeqMonotonic
<1>6. SanitizeRun(run) \in SavedUpTo(m) BY SanitizedRun DEF m
<1>7. saves' \in Seq(SavedUpTo(m)) BY <1>2, <1>5, <1>6, AppendProperties
<1> QED BY <1>2, <1>3, <1>4, <1>7 DEF RecordInv, RunsTrue, m

\* A step of the run alone leaves the actions as they are.
LEMMA ActionsUnchanged ==
  ASSUME RecordInv, UNCHANGED <<actions, actionRows, handler>>
  PROVE  ActionsTrue' /\ CountedActions' = CountedActions
BY DEF RecordInv, ActionsTrue, CreatedActions, CountedActions

\* device.agent.proposal: the store has the text, the save that is begun has not.
LEMMA ProposalKeeps ==
  ASSUME RecordInv, NEW kind \in Kinds \ {"none", "answer"}, NEW n \in Lengths, DeviceAgentProposal(Text(kind, n))
  PROVE  RecordInv'
<1> DEFINE p == Text(kind, n)
           run == [store EXCEPT !.latestProposal = p]
<1>1. UNCHANGED <<row, actions, actionRows, handler, recovered>> BY DEF DeviceAgentProposal
<1>2. ActionsTrue' /\ CountedActions' = CountedActions BY <1>1, ActionsUnchanged
<1>3. p \in TextType /\ p.kind = kind /\ p.len = n BY TextTypes, RecordAssumption
<1>4. CASE Accepted(p) /\ ChangeRun(run)
  <2>1. p.kind = "type" => p.len <= 500 BY <1>4 DEF Accepted, SchemaLimit
  <2>2. TrueText(p) BY <1>3, <2>1 DEF TrueText
  <2> HIDE DEF p
  <2>3. run \in RunUpTo(Cardinality(CountedActions')) BY <1>2, <1>3, <2>2 DEF RecordInv, RunsTrue, RunUpTo, RunType
  <2> QED BY <1>1, <1>2, <1>4, <2>3, ChangeKeeps
<1>5. CASE UNCHANGED <<store, saves>> BY <1>1, <1>2, <1>5 DEF RecordInv, RunsTrue
<1> QED BY <1>4, <1>5 DEF DeviceAgentProposal

\* device.run.log redacts the line twice, which is as good as once.
LEMMA LogKeeps ==
  ASSUME RecordInv, NEW n \in Lengths, NEW blanks \in {0, 1}, DeviceRunLog(n, blanks) PROVE RecordInv'
<1> DEFINE t == [Text("answer", n) EXCEPT !.blanks = blanks]
           s == SanitizeLogLine(t)
           l == SanitizeLogLine(s)
           run == [store EXCEPT !.log = l]
<1>1. UNCHANGED <<row, actions, actionRows, handler, recovered>> /\ ChangeRun(run) /\ blanks < n BY DEF DeviceRunLog
<1>2. ActionsTrue' /\ CountedActions' = CountedActions BY <1>1, ActionsUnchanged
<1>3. n \in Nat /\ n - blanks \in Nat /\ blanks \in Nat BY <1>1, RecordAssumption
<1>4. t = [kind |-> "answer", form |-> "raw", len |-> n, blanks |-> blanks, says |-> n, of |-> n] BY DEF Text
<1>5. s = [kind |-> "answer", form |-> "redacted", len |-> n, blanks |-> blanks, says |-> n - blanks, of |-> n]
  BY <1>4 DEF SanitizeLogLine
<1> HIDE DEF s
<1>6. s \in TextType /\ TrueLine(s) BY <1>3, <1>5 DEF TextType, TrueLine, Kinds
<1>7. l \in TextType /\ TrueLine(l) BY <1>6, SanitizedLine
<1> HIDE DEF l
<1>8. run \in RunUpTo(Cardinality(CountedActions')) BY <1>2, <1>7 DEF RecordInv, RunsTrue, RunUpTo, RunType
<1> QED BY <1>1, <1>2, <1>8, ChangeKeeps

\* device.run.update saves the run as it is.
LEMMA UpdateKeeps == ASSUME RecordInv, DeviceRunUpdate PROVE RecordInv'
<1> DEFINE run == [store EXCEPT !.status = "done"]
<1>1. UNCHANGED <<row, actions, actionRows, handler, recovered>> /\ ChangeRun(run) BY DEF DeviceRunUpdate
<1>2. ActionsTrue' /\ CountedActions' = CountedActions BY <1>1, ActionsUnchanged
<1>3. run \in RunUpTo(Cardinality(CountedActions')) BY <1>2 DEF RecordInv, RunsTrue, RunUpTo, RunType
<1> QED BY <1>1, <1>2, <1>3, ChangeKeeps

\* What is said of one action when it or its row changes.
LEMMA ActionsMove ==
  ASSUME RecordInv, NEW a \in Actions, NEW t \in TextType, NEW r \in TextType,
         NEW h \in {"created", "saved", "counted"},
         actions' = [actions EXCEPT ![a] = t], actionRows' = [actionRows EXCEPT ![a] = r],
         handler' = [handler EXCEPT ![a] = h],
         TrueAction(t), TrueAction(r), r.kind = "type" => r.form = "length",
         h = "created" => t.kind # "none", h = "saved" => r.kind # "none",
         handler[a] = "counted" => h = "counted", actionRows[a].kind # "none" => r.kind # "none"
  PROVE  ActionsTrue' /\ CountedActions \subseteq CountedActions'
<1>1. /\ \A b \in Actions : /\ actions'[b] = IF b = a THEN t ELSE actions[b]
                            /\ actionRows'[b] = IF b = a THEN r ELSE actionRows[b]
                            /\ handler'[b] = IF b = a THEN h ELSE handler[b]
      /\ actions' \in [Actions -> TextType] /\ actionRows' \in [Actions -> TextType]
      /\ handler' \in [Actions -> {"none", "created", "saved", "counted"}]
  BY DEF RecordInv, ActionsTrue
<1>2. IsFiniteSet(CreatedActions')
  <2>1. CreatedActions' = CreatedActions \cup {a} BY <1>1 DEF CreatedActions
  <2> QED BY <2>1, FS_AddElement DEF RecordInv, ActionsTrue
<1>3. \A b \in Actions :
        /\ TrueAction(actions'[b]) /\ TrueAction(actionRows'[b])
        /\ actionRows'[b].kind = "type" => actionRows'[b].form = "length"
        /\ handler'[b] = "none" => actions'[b] = NoText /\ actionRows'[b] = NoText
        /\ handler'[b] = "created" => actions'[b].kind # "none"
        /\ handler'[b] = "saved" => actionRows'[b].kind # "none"
  BY <1>1 DEF RecordInv, ActionsTrue
<1>4. CountedActions \subseteq CountedActions' BY <1>1 DEF CountedActions
<1> QED BY <1>1, <1>2, <1>3, <1>4 DEF ActionsTrue, TrueAction, TrueText

\* serializeAction leaves the length of what was typed.
LEMMA SerializedAction ==
  ASSUME NEW t \in TextType, TrueAction(t)
  PROVE  LET s == SerializeAction(t) IN
         /\ s \in TextType /\ TrueAction(s) /\ s.kind = t.kind /\ (s.kind = "type" => s.form = "length")
<1> DEFINE s == SerializeAction(t)
<1>1. CASE t.kind = "type"
  <2>1. s = [t EXCEPT !.form = "length"] BY <1>1 DEF SerializeAction
  <2>2. s \in TextType /\ s.kind = "type" /\ s.form = "length" /\ s.len = t.len /\ s.of = t.of BY <1>1, <2>1 DEF TextType
  <2> HIDE DEF s
  <2>3. TrueAction(s) BY <1>1, <2>2 DEF TrueAction, TrueText
  <2> QED BY <1>1, <2>2, <2>3 DEF s
<1>2. CASE t.kind # "type" BY <1>2 DEF SerializeAction
<1> QED BY <1>1, <1>2

\* An action read from its row tells the length it had.
LEMMA LoadedAction ==
  ASSUME NEW t \in TextType, TrueAction(t)
  PROVE  LET s == RowToAction(t) IN
         /\ s \in TextType /\ TrueAction(s) /\ s.kind = t.kind /\ (t = NoText => s = NoText)
<1> DEFINE s == RowToAction(t)
<1>1. CASE t.kind = "type"
  <2>1. s = [t EXCEPT !.form = "stars"] BY <1>1 DEF RowToAction
  <2>2. s \in TextType /\ s.kind = "type" /\ s.len = t.len /\ s.of = t.of BY <1>1, <2>1 DEF TextType
  <2> HIDE DEF s
  <2>3. TrueAction(s) BY <1>1, <2>2 DEF TrueAction, TrueText
  <2>4. t # NoText BY <1>1, TextTypes
  <2> QED BY <1>1, <2>2, <2>3, <2>4 DEF s
<1>2. CASE t.kind # "type" BY <1>2 DEF RowToAction
<1> QED BY <1>1, <1>2

\* An action is created, its row is saved or not, and it has its result.
LEMMA ActionStepsKeep ==
  ASSUME RecordInv, NEW a \in Actions,
         \/ \E kind \in {"type", "action"}, n \in Lengths : DeviceActionCreate(a, kind, n)
         \/ ActionSaved(a) \/ ActionNotSaved(a) \/ DeviceActionResult(a)
  PROVE  RecordInv'
<1>1. /\ UNCHANGED <<store, row, saves, recovered>> /\ handler[a] \in {"none", "created", "saved", "counted"}
      /\ actions[a] \in TextType /\ actionRows[a] \in TextType /\ TrueAction(actions[a]) /\ TrueAction(actionRows[a])
      /\ actionRows[a].kind = "type" => actionRows[a].form = "length"
  BY DEF DeviceActionCreate, ActionSaved, ActionNotSaved, DeviceActionResult, RecordInv, ActionsTrue
<1>2. ActionsTrue' /\ CountedActions \subseteq CountedActions'
  <2>1. CASE \E kind \in {"type", "action"}, n \in Lengths : DeviceActionCreate(a, kind, n)
    <3>1. PICK kind \in {"type", "action"}, n \in Lengths : DeviceActionCreate(a, kind, n) BY <2>1
    <3> DEFINE t == Text(kind, n)
    <3>2. /\ handler[a] = "none" /\ Accepted(t) /\ actions' = [actions EXCEPT ![a] = t]
          /\ handler' = [handler EXCEPT ![a] = "created"] /\ actionRows' = actionRows
      BY <3>1 DEF DeviceActionCreate
    <3>3. t \in TextType /\ t.kind = kind /\ t.len = n /\ t.of = n BY TextTypes, RecordAssumption DEF Kinds
    <3>4. t.kind = "type" => t.len <= 500 BY <3>2 DEF Accepted, SchemaLimit
    <3> HIDE DEF t
    <3>5. TrueAction(t) BY <3>3, <3>4 DEF TrueAction, TrueText
    <3>6. actionRows' = [actionRows EXCEPT ![a] = actionRows[a]] BY <3>2 DEF RecordInv, ActionsTrue
    <3> QED BY <1>1, <3>2, <3>3, <3>5, <3>6, ActionsMove
  <2>2. CASE ActionSaved(a)
    <3> DEFINE r == SerializeAction(actions[a])
    <3>1. /\ handler[a] = "created" /\ actionRows' = [actionRows EXCEPT ![a] = r]
          /\ handler' = [handler EXCEPT ![a] = "saved"] /\ actions' = actions /\ actions[a].kind # "none"
      BY <2>2 DEF ActionSaved, RecordInv, ActionsTrue
    <3>2. r \in TextType /\ TrueAction(r) /\ r.kind = actions[a].kind /\ (r.kind = "type" => r.form = "length")
      BY <1>1, SerializedAction
    <3> HIDE DEF r
    <3>3. actions' = [actions EXCEPT ![a] = actions[a]] BY <3>1 DEF RecordInv, ActionsTrue
    <3> QED BY <1>1, <3>1, <3>2, <3>3, ActionsMove
  <2>3. CASE ActionNotSaved(a)
    <3>1. /\ handler[a] = "created" /\ handler' = [handler EXCEPT ![a] = "counted"]
          /\ actionRows' = [actionRows EXCEPT ![a] = actionRows[a]] /\ actions' = [actions EXCEPT ![a] = actions[a]]
      BY <2>3 DEF ActionNotSaved, RecordInv, ActionsTrue
    <3> QED BY <1>1, <3>1, ActionsMove
  <2>4. CASE DeviceActionResult(a)
    <3> DEFINE r == SerializeAction(actions[a])
    <3>1. /\ handler[a] # "none" /\ actionRows' = [actionRows EXCEPT ![a] = r]
          /\ handler' = [handler EXCEPT ![a] = handler[a]] /\ actions' = [actions EXCEPT ![a] = actions[a]]
          /\ actions[a].kind # "none"
      BY <1>1, <2>4 DEF DeviceActionResult, RecordInv, ActionsTrue, TrueAction, TrueText
    <3>2. r \in TextType /\ TrueAction(r) /\ r.kind = actions[a].kind /\ (r.kind = "type" => r.form = "length")
      BY <1>1, SerializedAction
    <3> HIDE DEF r
    <3> QED BY <1>1, <3>1, <3>2, ActionsMove
  <2> QED BY <2>1, <2>2, <2>3, <2>4
<1> QED BY <1>1, <1>2, RunsKept DEF RecordInv

\* The handler of an action counts it after its row was saved.
LEMMA CountedKeeps == ASSUME RecordInv, NEW a \in Actions, ActionCounted(a) PROVE RecordInv'
<1> DEFINE run == [store EXCEPT !.actionCount = @ + 1]
           k == Cardinality(CountedActions)
<1>1. /\ handler[a] = "saved" /\ ChangeRun(run) /\ handler' = [handler EXCEPT ![a] = "counted"]
      /\ UNCHANGED <<row, actions, actionRows, recovered>>
  BY DEF ActionCounted
<1>2. /\ actions[a] \in TextType /\ actionRows[a] \in TextType /\ TrueAction(actions[a]) /\ TrueAction(actionRows[a])
      /\ actionRows[a].kind = "type" => actionRows[a].form = "length"
      /\ actionRows[a].kind # "none"
      /\ actionRows' = [actionRows EXCEPT ![a] = actionRows[a]] /\ actions' = [actions EXCEPT ![a] = actions[a]]
  BY <1>1 DEF RecordInv, ActionsTrue
<1>3. ActionsTrue' /\ CountedActions \subseteq CountedActions' BY <1>1, <1>2, ActionsMove
<1>4. CountedActions' = CountedActions \cup {a} /\ a \notin CountedActions
  BY <1>1, <1>2 DEF CountedActions, RecordInv, ActionsTrue
<1>5. IsFiniteSet(CountedActions) BY FS_Subset, CountedAreCreated DEF RecordInv, ActionsTrue
<1>6. Cardinality(CountedActions') = k + 1 /\ k \in Nat BY <1>4, <1>5, FS_AddElement, FS_CardinalityType
<1>7. store \in RunUpTo(k) BY DEF RecordInv, RunsTrue
<1> HIDE DEF k
<1>8. store \in RunType /\ store.actionCount \in Nat /\ store.actionCount <= k
      /\ TrueText(store.latestProposal) /\ TrueLine(store.log)
  BY <1>7 DEF RunUpTo, RunType
<1>9. run \in RunType /\ run.actionCount = store.actionCount + 1 /\ run.latestProposal = store.latestProposal
      /\ run.log = store.log
  BY <1>8 DEF RunType
<1> HIDE DEF run
<1>10. run \in RunUpTo(k + 1) BY <1>6, <1>8, <1>9 DEF RunUpTo
<1> QED BY <1>1, <1>3, <1>6, <1>10, ChangeKeeps DEF run

\* A save ends, in any order with the others.
LEMMA SaveEndsKeeps == ASSUME RecordInv, NEW i \in DOMAIN saves, SaveEnds(i) PROVE RecordInv'
<1>1. /\ row' \in {row, saves[i]} /\ saves' = RemoveAt(saves, i)
      /\ UNCHANGED <<store, actions, actionRows, handler, recovered>>
  BY DEF SaveEnds
<1>2. ActionsTrue' /\ CountedActions' = CountedActions BY <1>1, ActionsUnchanged
<1> DEFINE S == SavedUpTo(Cardinality(CountedActions))
<1>3. saves \in Seq(S) /\ row \in S /\ i \in 1..Len(saves) BY DEF RecordInv, RunsTrue
<1> HIDE DEF S
<1>4. SubSeq(saves, 1, i - 1) \in Seq(S) /\ SubSeq(saves, i + 1, Len(saves)) \in Seq(S)
  BY <1>3, SubSeqProperties
<1>5. saves' \in Seq(S) BY <1>1, <1>4, ConcatProperties DEF RemoveAt
<1>6. row' \in S BY <1>1, <1>3, ElementOfSeq
<1> QED BY <1>1, <1>2, <1>5, <1>6 DEF RecordInv, RunsTrue, S

\* The server starts again from the rows; what was not saved is lost.
LEMMA RestartKeeps == ASSUME RecordInv, Restart PROVE RecordInv'
<1> DEFINE k == Cardinality(CountedActions)
           failed == [row EXCEPT !.status = "failed"]
<1>1. /\ store' = row /\ saves' = <<>> /\ actionRows' = actionRows
      /\ actions' = [a \in Actions |-> RowToAction(actionRows[a])]
      /\ handler' = [a \in Actions |-> IF handler[a] = "none" THEN "none" ELSE "counted"]
      /\ row' = IF IsInProgress(row) THEN SanitizeRun(failed) ELSE row
      /\ recovered' = (recovered \/ IsInProgress(row))
  BY DEF Restart
<1>2. ActionsTrue'
  <2>1. \A a \in Actions :
          /\ actions'[a] \in TextType /\ TrueAction(actions'[a])
          /\ actionRows[a] = NoText => actions'[a] = NoText
    BY <1>1, LoadedAction DEF RecordInv, ActionsTrue
  <2>2. actions' \in [Actions -> TextType] BY <1>1, <2>1
  <2>3. CreatedActions' = CreatedActions BY <1>1 DEF CreatedActions
  <2>4. /\ handler' \in [Actions -> {"none", "created", "saved", "counted"}]
        /\ \A a \in Actions : (handler'[a] = "none") <=> (handler[a] = "none")
        /\ \A a \in Actions : handler'[a] \in {"none", "counted"}
    BY <1>1
  <2>5. IsFiniteSet(CreatedActions') BY <2>3 DEF RecordInv, ActionsTrue
  <2>6. \A a \in Actions :
          /\ TrueAction(actions'[a]) /\ TrueAction(actionRows'[a])
          /\ actionRows'[a].kind = "type" => actionRows'[a].form = "length"
          /\ handler'[a] = "none" => actions'[a] = NoText /\ actionRows'[a] = NoText
          /\ handler'[a] = "created" => actions'[a].kind # "none"
          /\ handler'[a] = "saved" => actionRows'[a].kind # "none"
    BY <1>1, <2>1, <2>4 DEF RecordInv, ActionsTrue
  <2>7. actionRows' \in [Actions -> TextType] BY <1>1 DEF RecordInv, ActionsTrue
  <2> QED BY <2>2, <2>4, <2>5, <2>6, <2>7 DEF ActionsTrue, TrueAction, TrueText
<1>3. CountedActions \subseteq CountedActions'
  <2>1. ASSUME NEW a \in Actions, handler[a] = "counted" PROVE handler'[a] = "counted" BY <1>1, <2>1
  <2> QED BY <1>1, <2>1 DEF CountedActions
<1>4. k \in Nat /\ Cardinality(CountedActions') \in Nat /\ k <= Cardinality(CountedActions')
  BY <1>2, <1>3, CountedGrows, CountedAreCreated DEF RecordInv, ActionsTrue
<1>5. row \in SavedUpTo(k) BY DEF RecordInv, RunsTrue
<1> HIDE DEF k
<1>6. failed \in RunUpTo(k) BY <1>5 DEF SavedUpTo, RunUpTo, RunType
<1> HIDE DEF failed
<1>7. SanitizeRun(failed) \in SavedUpTo(k) BY <1>6, SanitizedRun
<1>8. row' \in SavedUpTo(k) /\ store' \in RunUpTo(k) BY <1>1, <1>5, <1>7 DEF SavedUpTo
<1>9. RunUpTo(k) \subseteq RunUpTo(Cardinality(CountedActions')) /\ SavedUpTo(k) \subseteq SavedUpTo(Cardinality(CountedActions'))
  BY <1>4, RunsUpToMore
<1>10. recovered' \in BOOLEAN BY <1>1 DEF RecordInv, IsInProgress
<1>11. saves' \in Seq(SavedUpTo(Cardinality(CountedActions'))) BY <1>1, EmptySeq
<1> QED BY <1>2, <1>8, <1>9, <1>10, <1>11 DEF RecordInv, RunsTrue

\* Every step keeps the invariant.
LEMMA RecordStep == RecordInv /\ [RecordNext]_recordVars => RecordInv'
<1> SUFFICES ASSUME RecordInv, [RecordNext]_recordVars PROVE RecordInv' OBVIOUS
<1>1. CASE UNCHANGED recordVars
  <2>1. ActionsTrue' /\ CountedActions' = CountedActions BY <1>1, ActionsUnchanged DEF recordVars
  <2> QED BY <1>1, <2>1 DEF recordVars, RecordInv, RunsTrue
<1>2. CASE RecordNext
  BY <1>2, ProposalKeeps, LogKeeps, UpdateKeeps, RestartKeeps, ActionStepsKeep, CountedKeeps, SaveEndsKeeps DEF RecordNext
<1> QED BY <1>1, <1>2

\* The inductive invariant of the stored run.
THEOREM RecordInvariance == RecordSpec => []RecordInv
<1>1. RecordInit => RecordInv
  <2> SUFFICES ASSUME RecordInit PROVE RecordInv OBVIOUS
  <2>1. CreatedActions = {} /\ CountedActions = {} BY DEF RecordInit, CreatedActions, CountedActions
  <2>2. IsFiniteSet({}) /\ Cardinality({}) = 0 BY FS_EmptySet
  <2>3. ActionsTrue BY <2>1, <2>2, TextTypes DEF RecordInit, ActionsTrue
  <2>4. /\ store \in RunType /\ store.latestProposal = NoText /\ store.log = NoText /\ store.actionCount = 0
        /\ row = store /\ saves = <<>>
    BY TextTypes DEF RecordInit, RunType
  <2>5. store \in SavedUpTo(0) BY <2>4, TextTypes DEF SavedUpTo, RunUpTo, Saveable
  <2>6. RunsTrue BY <2>1, <2>2, <2>4, <2>5, EmptySeq DEF RunsTrue, SavedUpTo
  <2> QED BY <2>3, <2>6 DEF RecordInit, RecordInv
<1> QED BY <1>1, RecordStep, PTL DEF RecordSpec

\* The run never counts an action that has no row, in the store or in the database, in
\* whatever order the saves end and whenever the server restarts.
THEOREM CountsHaveRows == RecordSpec => []CountIsOfRows
<1>1. ASSUME RecordInv PROVE CountIsOfRows
  <2> DEFINE k == Cardinality(CountedActions)
             R == {a \in Actions : actionRows[a].kind # "none"}
  <2>1. CountedActions \subseteq R /\ R \subseteq CreatedActions BY <1>1, TextTypes DEF CountedActions, CreatedActions, RecordInv, ActionsTrue
  <2>2. IsFiniteSet(R) /\ IsFiniteSet(CountedActions) BY <1>1, <2>1, FS_Subset DEF RecordInv, ActionsTrue
  <2>3. k <= Cardinality(R) /\ k \in Nat /\ Cardinality(R) \in Nat BY <2>1, <2>2, FS_Subset, FS_CardinalityType
  <2>4. store \in RunUpTo(k) /\ row \in RunUpTo(k) /\ saves \in Seq(RunUpTo(k))
    BY <1>1, SeqMonotonic DEF RecordInv, RunsTrue, SavedUpTo
  <2>5. ToSet(saves) \subseteq RunUpTo(k) BY <2>4 DEF ToSet
  <2> HIDE DEF k, R
  <2>6. \A run \in RunUpTo(k) : run.actionCount \in Nat /\ run.actionCount <= k BY DEF RunUpTo, RunType
  <2>7. \A run \in {store, row} \cup ToSet(saves) : run.actionCount <= Cardinality(R) BY <2>3, <2>4, <2>5, <2>6
  <2> QED BY <2>7 DEF CountIsOfRows, R
<1> QED BY <1>1, RecordInvariance, PTL

\* No row of the database holds a text the user typed or answered, nor one the model
\* proposed to type, asked or summed up; what it proposed to do otherwise is kept.
THEOREM NoTextInRows == RecordSpec => []RowsAreRedacted
<1>1. ASSUME RecordInv PROVE RowsAreRedacted
  <2> DEFINE S == SavedUpTo(Cardinality(CountedActions))
  <2>1. row \in S /\ saves \in Seq(S) BY <1>1 DEF RecordInv, RunsTrue
  <2>2. ToSet(saves) \subseteq S BY <2>1 DEF ToSet
  <2> QED BY <1>1, <2>1, <2>2 DEF RowsAreRedacted, SavedUpTo, RunUpTo, Saveable, TrueLine, RecordInv, ActionsTrue
<1> QED BY <1>1, RecordInvariance, PTL

\* The length of a text that an action types survives its redaction and every restart,
\* that of an answer without the blanks around it being redacted three times.
THEOREM LengthsAreKept == RecordSpec => []LengthIsKept
<1>1. RecordInv => LengthIsKept
  BY DEF LengthIsKept, RecordInv, ActionsTrue, RunsTrue, TrueAction, SavedUpTo, RunUpTo, TrueLine
<1> QED BY <1>1, RecordInvariance, PTL

\* Types of the stored run, for any number of actions and lengths.
THEOREM RecordTypes == RecordSpec => []RecordTypeOK
<1>1. ASSUME RecordInv PROVE RecordTypeOK
  <2>1. saves \in Seq(RunType) BY <1>1, SeqMonotonic DEF RecordInv, RunsTrue, SavedUpTo, RunUpTo
  <2> QED BY <1>1, <2>1 DEF RecordTypeOK, RecordInv, ActionsTrue, RunsTrue, TrueAction, TrueText, SavedUpTo, RunUpTo
<1> QED BY <1>1, RecordInvariance, PTL

-----------------------------------------------------------------------------
(* The desktop's view of its runs: RunView.                                *)

\* A message says what was so, by the statuses b each run has had.
TellsTrue(m, b) ==
  CASE m.kind = "run.details" -> m.view.status \in b[m.view.run]
    [] m.kind = "run.status" -> m.status \in b[m.run]
    [] m.kind = "run.canceled" -> "canceled" \in b[m.run]
    [] OTHER -> "waiting_for_user" \in b[m.run]
TrueDown(b) == {m \in Down : TellsTrue(m, b)}
\* A decision on its way was made by the user, by what was meant.
MeantUp(h) == {m \in Up : m.kind = "approval.decision" => m.decision \in h[m.asked]}
TrueViews(b) == {v \in View : v.status \in b[v.run]}

ApiTyped ==
  /\ status \in [Runs -> RunStatus \cup {"absent"}] /\ at \in [Runs -> Nat] /\ clock \in Nat
  /\ approval \in [Runs -> {"none", "pending"} \cup Decision]
  /\ pc \in [Runs -> {"none", "queued", "details", "work", "wait", "last", "over"}]
  /\ stopped \subseteq Runs
  /\ been \in [Runs -> SUBSET RunStatus]
\* A run that was created has had the status it has.
HasBeen == \A r \in Runs : pc[r] # "none" => status[r] \in been[r]
DownTrue == down \in Seq(TrueDown(been))
LoadTrue ==
  load \in {NoLoad, [kind |-> "asked"]} \cup [kind : {"answer"}, runs : SUBSET TrueViews(been)]
ViewsTrue == recent \subseteq TrueViews(been) /\ active \in TrueViews(been) \cup {NoView}
DialogTyped == dialog \in Runs \cup {"none"} /\ meant \in [Runs -> SUBSET Decision]
UpMeant == up \in Seq(MeantUp(meant))
ViewInv ==
  /\ ApiTyped /\ HasBeen
  /\ DownTrue /\ LoadTrue /\ ViewsTrue
  /\ DialogTyped /\ UpMeant /\ ApprovedIsMeant

Grows == \A r \in Runs : been[r] \subseteq been'[r]

\* What a message or a view of a run has.
LEMMA MessageTypes ==
  /\ \A m \in Down : /\ m.kind \in {"run.details", "run.status", "run.step_blocked", "approval.request", "run.canceled"}
                     /\ m.kind = "run.details" => m.view \in View
                     /\ m.kind # "run.details" => m.run \in Runs
                     /\ m.kind = "run.status" => m.status \in RunStatus
  /\ \A v \in View : v.run \in Runs /\ v.status \in RunStatus /\ v.at \in Nat
<1>1. \A v \in View : v.run \in Runs /\ v.status \in RunStatus /\ v.at \in Nat BY DEF View
<1>2. ASSUME NEW m \in Down
      PROVE  /\ m.kind \in {"run.details", "run.status", "run.step_blocked", "approval.request", "run.canceled"}
             /\ m.kind = "run.details" => m.view \in View
             /\ m.kind # "run.details" => m.run \in Runs
             /\ m.kind = "run.status" => m.status \in RunStatus
  BY DEF Down
<1> QED BY <1>1, <1>2

\* Statuses accumulate: what was true stays true.
LEMMA TruthStays ==
  ASSUME Grows
  PROVE  /\ TrueDown(been) \subseteq TrueDown(been')
         /\ TrueViews(been) \subseteq TrueViews(been')
<1>1. TrueViews(been) \subseteq TrueViews(been') BY MessageTypes DEF Grows, TrueViews
<1>2. ASSUME NEW m \in Down, TellsTrue(m, been) PROVE TellsTrue(m, been')
  BY <1>2, MessageTypes DEF Grows, TellsTrue
<1> QED BY <1>1, <1>2 DEF TrueDown

\* A step of the API: it says what is so, and leaves the desktop alone.
LEMMA ApiKeeps ==
  ASSUME ViewInv, Grows, ApiTyped', HasBeen',
         NEW ms \in Seq(TrueDown(been')), down' = down \o ms,
         UNCHANGED <<load, active, recent, dialog, meant>>, UpMeant', ApprovedIsMeant'
  PROVE  ViewInv'
<1>1. /\ TrueDown(been) \subseteq TrueDown(been')
      /\ TrueViews(been) \subseteq TrueViews(been')
  BY TruthStays
<1>2. DownTrue'
  <2>1. down \in Seq(TrueDown(been')) BY <1>1, SeqMonotonic DEF ViewInv, DownTrue
  <2> QED BY <2>1, ConcatProperties DEF DownTrue
<1>3. LoadTrue' /\ ViewsTrue' /\ DialogTyped'
  <2>1. LoadTrue'
    <3>1. CASE load \in {NoLoad, [kind |-> "asked"]} BY <3>1 DEF LoadTrue
    <3>2. CASE load \in [kind : {"answer"}, runs : SUBSET TrueViews(been)] BY <1>1, <3>2 DEF LoadTrue
    <3> QED BY <3>1, <3>2 DEF ViewInv, LoadTrue
  <2> QED BY <1>1, <2>1 DEF ViewInv, ViewsTrue, DialogTyped
<1> QED BY <1>2, <1>3 DEF ViewInv

\* A step of the server that sends nothing keeps the invariant.
LEMMA QuietApiKeeps ==
  ASSUME ViewInv, Grows, ApiTyped', HasBeen', down' = down,
         UNCHANGED <<load, active, recent, dialog, meant>>, UpMeant', ApprovedIsMeant'
  PROVE  ViewInv'
<1>1. down' = down \o <<>> BY ConcatEmptySeq DEF ViewInv, DownTrue
<1>2. <<>> \in Seq(TrueDown(been')) BY EmptySeq
<1> QED BY <1>1, <1>2, ApiKeeps

\* A status that is written has been the run's from then on.
LEMMA BecomesGrows ==
  ASSUME ViewInv, NEW r \in Runs, NEW s \in RunStatus, Becomes(r, s)
  PROVE  /\ Grows /\ s \in been'[r]
         /\ status' \in [Runs -> RunStatus \cup {"absent"}] /\ at' \in [Runs -> Nat] /\ clock' \in Nat
         /\ been' \in [Runs -> SUBSET RunStatus]
         /\ \A q \in Runs : status'[q] = IF q = r THEN s ELSE status[q]
BY DEF ViewInv, ApiTyped, Becomes, Grows

\* Messages of each kind are true.
LEMMA StatusTold ==
  ASSUME NEW r \in Runs, NEW s \in RunStatus, NEW b, s \in b[r]
  PROVE  /\ StatusMsg(r, s) \in TrueDown(b)
         /\ s = "canceled" => [kind |-> "run.canceled", run |-> r] \in TrueDown(b)
         /\ s = "waiting_for_user" => /\ [kind |-> "run.step_blocked", run |-> r] \in TrueDown(b)
                                      /\ [kind |-> "approval.request", run |-> r] \in TrueDown(b)
<1>1. StatusMsg(r, s) \in Down /\ StatusMsg(r, s).kind = "run.status"
      /\ StatusMsg(r, s).run = r /\ StatusMsg(r, s).status = s BY DEF Down, StatusMsg
<1>2. ASSUME NEW k \in {"run.step_blocked", "approval.request", "run.canceled"}
      PROVE  [kind |-> k, run |-> r] \in Down
  BY DEF Down
<1>3. StatusMsg(r, s) \in TrueDown(b) BY <1>1 DEF TrueDown, TellsTrue
<1>4. ASSUME s = "canceled" PROVE [kind |-> "run.canceled", run |-> r] \in TrueDown(b)
  BY <1>2, <1>4 DEF TrueDown, TellsTrue
<1>5. ASSUME s = "waiting_for_user", NEW k \in {"run.step_blocked", "approval.request"}
      PROVE [kind |-> k, run |-> r] \in TrueDown(b)
  BY <1>2, <1>5 DEF TrueDown, TellsTrue
<1> QED BY <1>3, <1>4, <1>5

\* Messages that are sent together.
LEMMA TuplesAreSeqs ==
  ASSUME NEW S
  PROVE  /\ \A m \in S : <<m>> \in Seq(S)
         /\ \A m, n, o \in S : <<m, n, o>> \in Seq(S)
OBVIOUS
Phases == {"none", "queued", "details", "work", "wait", "last", "over"}
\* Only an engine that is there moves, and no approval is granted but by the user.
PhasesKept ==
  /\ pc' \in [Runs -> Phases] /\ stopped' \subseteq Runs
  /\ approval' \in [Runs -> {"none", "pending"} \cup Decision]
  /\ UpMeant' /\ ApprovedIsMeant'
  /\ UNCHANGED <<load, active, recent, dialog, meant>>

\* A step that gives a run a status and says so.
LEMMA BecomesKeeps ==
  ASSUME ViewInv, PhasesKept, NEW r \in Runs, NEW s \in RunStatus, Becomes(r, s),
         \A q \in Runs : q # r /\ pc'[q] # "none" => pc[q] # "none",
         NEW ms \in Seq(TrueDown(been')), down' = down \o ms
  PROVE  ViewInv'
<1>1. Grows /\ ApiTyped' BY BecomesGrows DEF PhasesKept, Phases, ApiTyped
<1>2. HasBeen' BY <1>1, BecomesGrows DEF ViewInv, HasBeen, Grows
<1> QED BY <1>1, <1>2, ApiKeeps DEF PhasesKept

\* A step that says nothing and gives no status.
LEMMA PhaseMoves ==
  ASSUME ViewInv, PhasesKept, UNCHANGED <<status, at, clock, been, down>>,
         \A q \in Runs : pc'[q] # "none" => pc[q] # "none"
  PROVE  ViewInv'
<1>1. Grows /\ ApiTyped' BY DEF ViewInv, ApiTyped, PhasesKept, Phases, Grows
<1>2. HasBeen' BY DEF ViewInv, HasBeen
<1> QED BY <1>1, <1>2, QuietApiKeeps DEF PhasesKept

\* A run is created: the first message is of a run that is queued.
LEMMA CreateKeeps == ASSUME ViewInv, NEW r \in Runs, Create(r) PROVE ViewInv'
<1>1. PhasesKept
  BY DEF Create, Goes, deskFrame, deskVars, viewVars, ViewInv, ApiTyped, UpMeant, ApprovedIsMeant, PhasesKept, Phases
<1>2. \A q \in Runs : q # r /\ pc'[q] # "none" => pc[q] # "none" BY DEF Create, Goes, ViewInv, ApiTyped
<1>3. down' = down \o <<>> BY ConcatEmptySeq DEF Create, ViewInv, DownTrue
<1>4. Becomes(r, "queued") /\ "queued" \in RunStatus BY DEF Create, RunStatus, InProgress
<1> QED BY <1>1, <1>2, <1>3, <1>4, EmptySeq, BecomesKeeps

\* The desktop's run is accepted, and run.details follows.
LEMMA AcceptKeeps == ASSUME ViewInv, NEW r \in Runs, Accept(r) PROVE ViewInv'
<1>1. PhasesKept /\ Grows /\ UNCHANGED <<status, at, clock, been>>
  BY DEF Accept, Goes, deskFrame, deskVars, viewVars, ViewInv, ApiTyped, UpMeant, ApprovedIsMeant, PhasesKept, Phases, Grows
<1>2. \A q \in Runs : pc'[q] # "none" => pc[q] # "none" BY DEF Accept, Goes, ViewInv, ApiTyped
<1>3. CASE UNCHANGED down BY <1>1, <1>2, <1>3, PhaseMoves
<1>4. CASE Tell(<<[kind |-> "run.details", view |-> Stored(r)]>>)
  <2> DEFINE m == [kind |-> "run.details", view |-> Stored(r)]
  <2>1. status[r] \in been[r] /\ status[r] \in RunStatus
    BY DEF ViewInv, HasBeen, ApiTyped, Accept
  <2>2. Stored(r) \in View /\ Stored(r).run = r /\ Stored(r).status = status[r]
    BY <2>1 DEF Stored, View, ViewInv, ApiTyped
  <2>3. m \in Down /\ m.kind = "run.details" /\ m.view = Stored(r) BY <2>2 DEF Down
  <2> HIDE DEF m
  <2>4. m \in TrueDown(been') BY <1>1, <2>1, <2>2, <2>3 DEF TrueDown, TellsTrue
  <2>5. <<m>> \in Seq(TrueDown(been')) BY <2>4, TuplesAreSeqs
  <2>6. down' = down \o <<m>> BY <1>4 DEF Tell, m
  <2>7. ApiTyped' /\ HasBeen' BY <1>1, <1>2 DEF ViewInv, ApiTyped, HasBeen, PhasesKept, Phases
  <2> QED BY <1>1, <2>5, <2>6, <2>7, ApiKeeps DEF PhasesKept
<1> QED BY <1>3, <1>4 DEF Accept

\* A step that gives a run a status and sends it.
LEMMA StatusKeeps ==
  ASSUME ViewInv, PhasesKept, NEW r \in Runs, NEW s \in RunStatus, Becomes(r, s),
         \A q \in Runs : q # r /\ pc'[q] # "none" => pc[q] # "none",
         \/ Tell(<<StatusMsg(r, s)>>)
         \/ s = "canceled" /\ Tell(<<[kind |-> "run.canceled", run |-> r]>>)
         \/ s = "waiting_for_user" /\ Tell(<<StatusMsg(r, s), [kind |-> "run.step_blocked", run |-> r],
                                            [kind |-> "approval.request", run |-> r]>>)
  PROVE  ViewInv'
<1>1. s \in been'[r] BY BecomesGrows
<1>2. PICK ms \in Seq(TrueDown(been')) : down' = down \o ms
  BY <1>1, StatusTold, TuplesAreSeqs DEF Tell
<1> QED BY <1>2, BecomesKeeps

\* The engine begins, stops, asks for an approval or is done.
LEMMA EngineKeeps ==
  ASSUME ViewInv, NEW r \in Runs, EngineBegin(r) \/ EngineStops(r) \/ EngineAsk(r) \/ EngineDone(r)
  PROVE  ViewInv'
<1>1. CASE EngineStops(r)
  <2>1. PhasesKept
    BY <1>1 DEF EngineStops, Goes, deskFrame, deskVars, viewVars, ViewInv, ApiTyped, UpMeant, ApprovedIsMeant, PhasesKept, Phases
  <2>2. \A q \in Runs : pc'[q] # "none" => pc[q] # "none" BY <1>1 DEF EngineStops, Goes, ViewInv, ApiTyped
  <2> QED BY <1>1, <2>1, <2>2, PhaseMoves DEF EngineStops
<1>2. CASE EngineBegin(r) \/ EngineAsk(r) \/ EngineDone(r)
  <2>1. PICK s \in {"running", "waiting_for_user", "done"} :
          /\ Becomes(r, s)
          /\ \/ Tell(<<StatusMsg(r, s)>>)
             \/ s = "waiting_for_user" /\ Tell(<<StatusMsg(r, s), [kind |-> "run.step_blocked", run |-> r],
                                                [kind |-> "approval.request", run |-> r]>>)
    BY <1>2 DEF EngineBegin, EngineAsk, EngineDone
  <2>2. PICK p \in {"over", "work", "wait"} : Goes(r, p)
    BY <1>2 DEF EngineBegin, EngineAsk, EngineDone
  <2>3. approval' = approval \/ approval' = [approval EXCEPT ![r] = "pending"]
    BY <1>2 DEF EngineBegin, EngineAsk, EngineDone, SetPendingApproval
  <2>4. UNCHANGED <<stopped, deskVars, up, load>>
    BY <1>2 DEF EngineBegin, EngineAsk, EngineDone, deskFrame
  <2>5. ApprovedIsMeant' BY <2>3, <2>4 DEF ViewInv, ApprovedIsMeant, ApiTyped, deskVars, Decision
  <2>6. PhasesKept
    BY <2>2, <2>3, <2>4, <2>5 DEF Goes, deskVars, viewVars, ViewInv, ApiTyped, UpMeant, PhasesKept, Phases
  <2>7. \A q \in Runs : q # r /\ pc'[q] # "none" => pc[q] # "none" BY <2>2 DEF Goes, ViewInv, ApiTyped
  <2>8. s \in RunStatus BY DEF RunStatus, InProgress
  <2> QED BY <2>1, <2>6, <2>7, <2>8, StatusKeeps
<1> QED BY <1>1, <1>2

\* What waitForApproval returns, in a step that leaves the rest as it is.
LEMMA ResumeKeeps ==
  ASSUME ViewInv, NEW r \in Runs, NEW d \in Decision, pc[r] = "wait", Resume(r, d),
         stopped' = stopped, UNCHANGED <<load, active, recent, dialog, meant>>,
         approval' \in [Runs -> {"none", "pending"} \cup Decision], UpMeant', ApprovedIsMeant'
  PROVE  ViewInv'
<1>1. PICK p \in {"over", "last"} : Goes(r, p) BY DEF Resume
<1>2. PhasesKept BY <1>1 DEF Goes, ViewInv, ApiTyped, PhasesKept, Phases
<1>3. \A q \in Runs : pc'[q] # "none" => pc[q] # "none" BY <1>1 DEF Goes, ViewInv, ApiTyped
<1>4. CASE UNCHANGED <<status, at, clock, been, down>> BY <1>2, <1>3, <1>4, PhaseMoves
<1>5. CASE Becomes(r, "failed") /\ Tell(<<StatusMsg(r, "failed")>>)
  <2>1. "failed" \in RunStatus BY DEF RunStatus
  <2> QED BY <2>1, <1>2, <1>3, <1>5, StatusKeeps
<1> QED BY <1>4, <1>5 DEF Resume

\* The engine gives up waiting for the decision.
LEMMA TimeoutKeeps == ASSUME ViewInv, NEW r \in Runs, EngineTimeout(r) PROVE ViewInv'
<1>1. UpMeant' /\ ApprovedIsMeant' /\ approval' \in [Runs -> {"none", "pending"} \cup Decision]
  BY DEF EngineTimeout, deskFrame, deskVars, ViewInv, UpMeant, ApprovedIsMeant, ApiTyped
<1>2. "denied" \in Decision BY DEF Decision
<1> QED BY <1>1, <1>2, ResumeKeeps DEF EngineTimeout, deskFrame, deskVars, viewVars

\* A run is cancelled, with the messages that tell of it.
LEMMA RunCancelKeeps ==
  ASSUME ViewInv, NEW r \in Runs, Cancel(r), UpMeant', UNCHANGED <<approval, load, active, recent, dialog, meant>>
  PROVE  ViewInv'
<1>1. PhasesKept /\ \A q \in Runs : pc'[q] # "none" => pc[q] # "none"
  BY DEF Cancel, Goes, ViewInv, ApiTyped, ApprovedIsMeant, PhasesKept, Phases
<1>2. "canceled" \in RunStatus BY DEF RunStatus
<1>3. Becomes(r, "canceled") /\ Tell(<<[kind |-> "run.canceled", run |-> r]>>) BY DEF Cancel
<1> QED BY <1>1, <1>2, <1>3, StatusKeeps

\* What a message of the desktop has.
LEMMA UpIs ==
  \A m \in Up :
    /\ m.run \in Runs /\ m.kind \in {"run.cancel", "approval.decision"}
    /\ m.kind = "approval.decision" => m.asked \in Runs /\ m.decision \in Decision
BY DEF Up

\* The first message is taken: it is one of those that were sent.
LEMMA UpTaken ==
  ASSUME ViewInv, up # <<>>, up' = Tail(up), UNCHANGED meant
  PROVE  /\ UpMeant' /\ Head(up) \in MeantUp(meant)
         /\ Head(up).run \in Runs /\ Head(up).kind \in {"run.cancel", "approval.decision"}
         /\ Head(up).kind = "approval.decision" =>
              Head(up).asked \in Runs /\ Head(up).decision \in Decision /\ Head(up).decision \in meant[Head(up).asked]
<1>1. Head(up) \in MeantUp(meant) /\ Tail(up) \in Seq(MeantUp(meant))
  BY HeadTailProperties DEF ViewInv, UpMeant
<1>2. Head(up) \in Up /\ (Head(up).kind = "approval.decision" => Head(up).decision \in meant[Head(up).asked])
  BY <1>1 DEF MeantUp
<1>3. UpMeant' BY <1>1 DEF UpMeant
<1> QED BY <1>1, <1>2, <1>3, UpIs

\* A cancellation by the desktop or in the browser.
LEMMA CancellationsKeep == ASSUME ViewInv, CancelByDevice \/ \E r \in Runs : CancelByUser(r) PROVE ViewInv'
<1>1. ASSUME NEW r \in Runs, CancelByUser(r) PROVE ViewInv'
  <2>1. UpMeant' /\ UNCHANGED <<approval, load, active, recent, dialog, meant>> /\ Cancel(r)
    BY <1>1 DEF CancelByUser, deskFrame, deskVars, viewVars, ViewInv, UpMeant
  <2> QED BY <2>1, RunCancelKeeps
<1>2. CASE CancelByDevice
  <2>1. UpMeant' /\ Head(up).run \in Runs /\ UNCHANGED <<approval, load, active, recent, dialog, meant>>
    BY <1>2, UpTaken DEF CancelByDevice, deskVars, viewVars
  <2>2. CASE Cancel(Head(up).run) BY <2>1, <2>2, RunCancelKeeps
  <2>3. CASE UNCHANGED <<status, at, pc, stopped, clock, been, down>>
    <3>1. PhasesKept BY <2>1, <2>3 DEF ViewInv, ApiTyped, ApprovedIsMeant, PhasesKept, Phases
    <3> QED BY <2>3, <3>1, PhaseMoves
  <2> QED BY <1>2, <2>2, <2>3 DEF CancelByDevice
<1> QED BY <1>1, <1>2

\* run.approval.decision is taken: it was meant by the user.
LEMMA DecisionKeeps == ASSUME ViewInv, ApprovalDecision PROVE ViewInv'
<1> DEFINE m == Head(up)
<1>1. /\ UpMeant' /\ m.run \in Runs /\ m.asked \in Runs /\ m.decision \in Decision
      /\ m.decision \in meant[m.asked]
      /\ UNCHANGED <<stopped, load, active, recent, dialog, meant>>
  BY UpTaken DEF ApprovalDecision, deskVars, viewVars
<1>2. CASE Decides(m) /\ ResolveApproval(m.run, m.decision)
  <2>1. approval' = [approval EXCEPT ![m.run] = m.decision] /\ m.asked = m.run
    BY <1>2 DEF Decides, ResolveApproval
  <2> HIDE DEF m
  <2>2. approval' \in [Runs -> {"none", "pending"} \cup Decision] BY <1>1, <2>1 DEF ViewInv, ApiTyped
  <2>3. ApprovedIsMeant' BY <1>1, <2>1 DEF ViewInv, ApprovedIsMeant, ApiTyped
  <2>4. CASE pc[m.run] = "wait" /\ Resume(m.run, m.decision)
    BY <1>1, <2>2, <2>3, <2>4, ResumeKeeps
  <2>5. CASE UNCHANGED <<status, at, pc, clock, been, down>>
    <3>1. PhasesKept BY <1>1, <2>2, <2>3, <2>5 DEF ViewInv, ApiTyped, PhasesKept, Phases
    <3> QED BY <2>5, <3>1, PhaseMoves
  <2> QED BY <1>2, <2>4, <2>5 DEF ApprovalDecision, m, Decides, ResolveApproval
<1>3. CASE UNCHANGED <<status, at, approval, pc, clock, been, down>>
  <2>1. PhasesKept BY <1>1, <1>3 DEF ViewInv, ApiTyped, ApprovedIsMeant, PhasesKept, Phases
  <2> QED BY <1>3, <2>1, PhaseMoves
<1> QED BY <1>2, <1>3 DEF ApprovalDecision

\* A step of the desktop that shows what was so.
LEMMA ShownKeeps ==
  ASSUME ViewInv, UNCHANGED apiVars, DownTrue', LoadTrue', ViewsTrue', DialogTyped', UpMeant',
         \A r \in Runs : meant[r] \subseteq meant'[r]
  PROVE  ViewInv'
<1>1. ApiTyped' /\ HasBeen' BY DEF ViewInv, apiVars, ApiTyped, HasBeen
<1>2. ApprovedIsMeant' BY DEF ViewInv, apiVars, ApprovedIsMeant
<1> QED BY <1>1, <1>2 DEF ViewInv

\* setActiveRun with a view that was true leaves such views,
LEMMA SetActiveTrue ==
  ASSUME ViewInv, NEW v \in TrueViews(been), SetActiveRun(v), UNCHANGED been
  PROVE  ViewsTrue'
<1>1. UpsertRunHistory(v) \subseteq recent \cup {v} BY DEF UpsertRunHistory
<1> QED BY <1>1 DEF SetActiveRun, ViewInv, ViewsTrue

\* and so does the status of a message.
LEMMA ShowStatusTrue ==
  ASSUME ViewInv, NEW r \in Runs, NEW s \in RunStatus, s \in been[r], ShowStatus(r, s), UNCHANGED been
  PROVE  ViewsTrue'
<1>1. CASE IsAbout(r)
  <2>1. active \in View /\ active.run = r BY <1>1 DEF IsAbout, ViewInv, ViewsTrue, TrueViews
  <2> DEFINE v == [active EXCEPT !.status = s]
  <2>2. v \in View /\ v.run = r /\ v.status = s BY <2>1 DEF View
  <2>3. SetActiveRun(v) BY <1>1 DEF ShowStatus
  <2> HIDE DEF v
  <2>4. v \in TrueViews(been) BY <2>2 DEF TrueViews
  <2> QED BY <2>3, <2>4, SetActiveTrue
<1>2. CASE ~IsAbout(r) BY <1>2 DEF ShowStatus, viewVars, ViewInv, ViewsTrue
<1> QED BY <1>1, <1>2

\* The desktop hears a message: what it shows was so.
LEMMA HearsKeep ==
  ASSUME ViewInv, OnRunDetails \/ OnRunStatus \/ OnStepBlocked \/ OnApprovalRequest \/ OnRunCanceled
  PROVE  ViewInv'
<1> DEFINE m == Head(down)
<1>1. down # <<>> /\ down' = Tail(down) /\ UNCHANGED hearFrame
  BY DEF OnRunDetails, OnRunStatus, OnStepBlocked, OnApprovalRequest, OnRunCanceled, Receive
<1>2. m \in TrueDown(been) /\ Tail(down) \in Seq(TrueDown(been))
  BY <1>1, HeadTailProperties DEF ViewInv, DownTrue
<1>3. m \in Down /\ TellsTrue(m, been) BY <1>2 DEF TrueDown
<1>4. UNCHANGED been /\ UNCHANGED apiVars /\ UNCHANGED <<load, up, meant>> BY <1>1 DEF hearFrame, apiVars
<1>5. DownTrue' /\ LoadTrue' /\ UpMeant' BY <1>1, <1>2, <1>4 DEF ViewInv, DownTrue, LoadTrue, UpMeant
<1>6. dialog' = dialog \/ (dialog' = m.run /\ m.kind = "approval.request")
  BY DEF OnRunDetails, OnRunStatus, OnStepBlocked, OnApprovalRequest, OnRunCanceled, Receive
<1>7. DialogTyped' BY <1>3, <1>4, <1>6, MessageTypes DEF ViewInv, DialogTyped
<1>8. ViewsTrue'
  <2>1. CASE OnRunDetails
    <3>1. SetActiveRun(m.view) /\ m.kind = "run.details" BY <2>1 DEF OnRunDetails, Receive
    <3> HIDE DEF m
    <3>2. m.view \in TrueViews(been) BY <3>1, <1>3, MessageTypes DEF TellsTrue, TrueViews
    <3> QED BY <3>1, <3>2, <1>4, SetActiveTrue
  <2>2. CASE OnRunStatus
    <3>1. ShowStatus(m.run, m.status) /\ m.kind = "run.status" BY <2>2 DEF OnRunStatus, Receive
    <3> HIDE DEF m
    <3>2. m.run \in Runs /\ m.status \in RunStatus /\ m.status \in been[m.run]
      BY <3>1, <1>3, MessageTypes DEF TellsTrue
    <3> QED BY <3>1, <3>2, <1>4, ShowStatusTrue
  <2>3. CASE OnStepBlocked \/ OnApprovalRequest
    <3>1. ShowStatus(m.run, "waiting_for_user") /\ m.kind \in {"run.step_blocked", "approval.request"}
      BY <2>3 DEF OnStepBlocked, OnApprovalRequest, Receive
    <3> HIDE DEF m
    <3>2. m.run \in Runs /\ "waiting_for_user" \in been[m.run] BY <3>1, <1>3, MessageTypes DEF TellsTrue
    <3>3. "waiting_for_user" \in RunStatus BY DEF RunStatus, InProgress
    <3> QED BY <3>1, <3>2, <3>3, <1>4, ShowStatusTrue
  <2>4. CASE OnRunCanceled
    <3>1. ShowStatus(m.run, "canceled") /\ m.kind = "run.canceled" BY <2>4 DEF OnRunCanceled, Receive
    <3> HIDE DEF m
    <3>2. m.run \in Runs /\ "canceled" \in been[m.run] BY <3>1, <1>3, MessageTypes DEF TellsTrue
    <3>3. "canceled" \in RunStatus BY DEF RunStatus
    <3> QED BY <3>1, <3>2, <3>3, <1>4, ShowStatusTrue
  <2> QED BY <2>1, <2>2, <2>3, <2>4
<1>9. \A r \in Runs : meant[r] \subseteq meant'[r] BY <1>4
<1> QED BY <1>4, <1>5, <1>7, <1>8, <1>9, ShownKeeps

\* The list of runs is loaded: it holds what was so when the server answered.
LEMMA LoadKeeps == ASSUME ViewInv, StartLoad \/ DesktopMe \/ LoadAnswered PROVE ViewInv'
<1>1. UNCHANGED apiVars /\ UNCHANGED <<been, down, up, dialog, meant>>
  BY DEF StartLoad, DesktopMe, LoadAnswered, apiVars, deskVars
<1>2. DownTrue' /\ UpMeant' /\ DialogTyped' /\ \A r \in Runs : meant[r] \subseteq meant'[r]
  BY <1>1 DEF ViewInv, DownTrue, UpMeant, DialogTyped
<1>3. CASE StartLoad
  <2>1. LoadTrue' /\ ViewsTrue' BY <1>1, <1>3 DEF StartLoad, deskVars, viewVars, ViewInv, LoadTrue, ViewsTrue
  <2> QED BY <1>1, <1>2, <2>1, ShownKeeps
<1>4. CASE DesktopMe
  <2>1. PICK rows \in SUBSET {Stored(r) : r \in {q \in Runs : pc[q] # "none"}} :
          load' = [kind |-> "answer", runs |-> rows]
    BY <1>4 DEF DesktopMe
  <2>2. ASSUME NEW r \in Runs, pc[r] # "none" PROVE Stored(r) \in TrueViews(been)
    <3>1. status[r] \in been[r] /\ status[r] \in RunStatus BY <2>2 DEF ViewInv, HasBeen, ApiTyped
    <3> QED BY <3>1 DEF Stored, TrueViews, View, ViewInv, ApiTyped
  <2>3. rows \in SUBSET TrueViews(been) BY <2>2
  <2>4. LoadTrue' BY <1>1, <2>1, <2>3 DEF LoadTrue
  <2>5. ViewsTrue' BY <1>1, <1>4 DEF DesktopMe, deskVars, viewVars, ViewInv, ViewsTrue
  <2> QED BY <1>1, <1>2, <2>4, <2>5, ShownKeeps
<1>5. CASE LoadAnswered
  <2>1. load.runs \subseteq TrueViews(been)
    <3>1. load.kind = "answer" BY <1>5 DEF LoadAnswered
    <3>2. CASE load \in {NoLoad, [kind |-> "asked"]} BY <3>1, <3>2 DEF NoLoad
    <3>3. CASE load \in [kind : {"answer"}, runs : SUBSET TrueViews(been)] BY <3>3
    <3> QED BY <3>2, <3>3 DEF ViewInv, LoadTrue
  <2>2. LoadTrue' BY <1>1, <1>5 DEF LoadAnswered, LoadTrue
  <2>3. ViewsTrue' BY <1>1, <1>5, <2>1 DEF LoadAnswered, ViewInv, ViewsTrue
  <2> QED BY <1>1, <1>2, <2>2, <2>3, ShownKeeps
<1> QED BY <1>3, <1>4, <1>5

\* The user selects a run, decides or cancels.
LEMMA UserKeeps ==
  ASSUME ViewInv, \/ \E v \in recent : SelectRecentRun(v)
                  \/ \E d \in Decision : HandleApprovalDecision(d)
                  \/ HandleCancelRun
  PROVE  ViewInv'
<1>1. ASSUME NEW v \in recent, SelectRecentRun(v) PROVE ViewInv'
  <2>1. UNCHANGED apiVars /\ UNCHANGED <<been, dialog, meant, down, up, load>>
    BY <1>1 DEF SelectRecentRun, apiVars, netVars
  <2>2. v \in TrueViews(been) /\ SetActiveRun(v)
    BY <1>1 DEF SelectRecentRun, ViewInv, ViewsTrue
  <2>3. ViewsTrue' BY <2>1, <2>2, SetActiveTrue
  <2>4. DownTrue' /\ LoadTrue' /\ UpMeant' /\ DialogTyped' BY <2>1 DEF ViewInv, DownTrue, LoadTrue, UpMeant, DialogTyped
  <2> QED BY <2>1, <2>3, <2>4, ShownKeeps
<1>2. ASSUME NEW d \in Decision, HandleApprovalDecision(d) PROVE ViewInv'
  <2>1. UNCHANGED apiVars /\ UNCHANGED <<been, active, recent, down, load>> /\ dialog' = "none"
    BY <1>2 DEF HandleApprovalDecision, apiVars, viewVars
  <2>2. dialog \in Runs /\ active \in View
    BY <1>2 DEF HandleApprovalDecision, DialogOpen, ViewInv, DialogTyped, ViewsTrue, TrueViews
  <2>3. meant' = [meant EXCEPT ![dialog] = @ \cup {d}] BY <1>2 DEF HandleApprovalDecision
  <2>4. /\ meant' \in [Runs -> SUBSET Decision] /\ d \in meant'[dialog]
        /\ \A r \in Runs : meant[r] \subseteq meant'[r]
    BY <2>2, <2>3 DEF ViewInv, DialogTyped
  <2> DEFINE m == [kind |-> "approval.decision", run |-> active.run, asked |-> dialog, decision |-> d]
  <2>5. up' = Append(up, m) BY <1>2 DEF HandleApprovalDecision
  <2>6. active.run \in Runs BY <2>2 DEF View
  <2>7. m \in Up /\ m.asked = dialog /\ m.decision = d BY <2>2, <2>6 DEF Up
  <2> HIDE DEF m
  <2>8. m \in MeantUp(meant') BY <2>4, <2>7 DEF MeantUp
  <2>9. MeantUp(meant) \subseteq MeantUp(meant')
    <3>1. ASSUME NEW n \in Up, n.kind = "approval.decision" => n.decision \in meant[n.asked],
                 n.kind = "approval.decision"
          PROVE  n.decision \in meant'[n.asked]
      <4>1. n.asked \in Runs BY <3>1, UpIs
      <4> QED BY <2>4, <3>1, <4>1
    <3> QED BY <3>1 DEF MeantUp
  <2>10. up \in Seq(MeantUp(meant')) BY <2>9, SeqMonotonic DEF ViewInv, UpMeant
  <2>11. UpMeant' BY <2>5, <2>8, <2>10, AppendProperties DEF UpMeant
  <2>12. DownTrue' /\ LoadTrue' /\ ViewsTrue' /\ DialogTyped'
    BY <2>1, <2>4 DEF ViewInv, DownTrue, LoadTrue, ViewsTrue, DialogTyped
  <2> QED BY <2>1, <2>4, <2>11, <2>12, ShownKeeps
<1>3. CASE HandleCancelRun
  <2>1. UNCHANGED apiVars /\ UNCHANGED <<been, active, recent, dialog, meant, down, load>>
    BY <1>3 DEF HandleCancelRun, apiVars, deskVars, viewVars
  <2>2. active \in View BY <1>3 DEF HandleCancelRun, CanCancel, ViewInv, ViewsTrue, TrueViews
  <2> DEFINE m == [kind |-> "run.cancel", run |-> active.run]
  <2>3. up' = Append(up, m) BY <1>3 DEF HandleCancelRun
  <2>4. active.run \in Runs BY <2>2 DEF View
  <2>5. m \in Up /\ m.kind = "run.cancel" BY <2>4 DEF Up
  <2> HIDE DEF m
  <2>6. m \in MeantUp(meant) BY <2>5 DEF MeantUp
  <2>7. UpMeant' BY <2>1, <2>3, <2>6, AppendProperties DEF ViewInv, UpMeant
  <2>8. DownTrue' /\ LoadTrue' /\ ViewsTrue' /\ DialogTyped'
    BY <2>1 DEF ViewInv, DownTrue, LoadTrue, ViewsTrue, DialogTyped
  <2>9. \A r \in Runs : meant[r] \subseteq meant'[r] BY <2>1
  <2> QED BY <2>1, <2>7, <2>8, <2>9, ShownKeeps
<1> QED BY <1>1, <1>2, <1>3

\* Every step keeps the invariant.
LEMMA ViewStep == ViewInv /\ [ViewNext]_vars => ViewInv'
<1> SUFFICES ASSUME ViewInv, [ViewNext]_vars PROVE ViewInv' OBVIOUS
<1>1. CASE UNCHANGED vars
  BY <1>1 DEF vars, apiVars, deskVars, viewVars, netVars, ViewInv, ApiTyped, HasBeen, DownTrue, LoadTrue, ViewsTrue,
              DialogTyped, UpMeant, ApprovedIsMeant
<1>2. ASSUME NEW r \in Runs, ApiStep(r) PROVE ViewInv'
  BY <1>2, CreateKeeps, AcceptKeeps, EngineKeeps, TimeoutKeeps, CancellationsKeep DEF ApiStep
<1>3. CASE CancelByDevice \/ ApprovalDecision BY <1>3, CancellationsKeep, DecisionKeeps
<1>4. CASE DesktopMe \/ DesktopStep BY <1>4, HearsKeep, LoadKeeps, UserKeeps DEF DesktopStep
<1> QED BY <1>1, <1>2, <1>3, <1>4 DEF ViewNext

\* The inductive invariant of the view.
THEOREM ViewInvariance == ViewSpec => []ViewInv
<1>1. ViewInit => ViewInv
  BY DEF ViewInit, ViewInv, ApiTyped, HasBeen, DownTrue, LoadTrue, ViewsTrue, DialogTyped, UpMeant, ApprovedIsMeant,
         Decision
<1> QED BY <1>1, ViewStep, PTL DEF ViewSpec

\* An approval is decided only as the user decided for that very run, whatever run the
\* dialog has come to show in the meantime.
THEOREM DecisionsAreMeant == ViewSpec => []ApprovedIsMeant
BY ViewInvariance, PTL DEF ViewInv

\* Every status the desktop shows, of the active run and of the recent ones, is one that
\* run has had, in whatever order messages and the list arrive.
THEOREM WhatIsShownWas == ViewSpec => []ShownWasTrue
<1>1. ViewInv => ShownWasTrue BY DEF ViewInv, ViewsTrue, TrueViews, ShownWasTrue
<1> QED BY <1>1, ViewInvariance, PTL

\* The runs there are, the views that messages, loads and the desktop hold, and the runs
\* with the times they were updated at.
Created == {r \in Runs : pc[r] # "none"}
Detailed(ms) == {ms[i].view : i \in {j \in DOMAIN ms : ms[j].kind = "run.details"}}
Loaded == IF load.kind = "answer" THEN load.runs ELSE {}
Views == Detailed(down) \cup Loaded \cup recent \cup ({active} \ {NoView})
Dates == {<<r, at[r]>> : r \in Created} \cup {<<v.run, v.at>> : v \in Views}

OnePerRun(S) == \A v, w \in S : v.run = w.run => v = w
Short(S) == IsFiniteSet(S) /\ Cardinality(S) <= HistoryLimit /\ OnePerRun(S)
\* No two runs were updated at the same time, wherever an old view of them still is.
DatesApart == \A d, e \in Dates : d[2] <= clock /\ (d[1] # e[1] => d[2] # e[2])
ListInv == IsFiniteSet(Created) /\ Short(recent) /\ Short(Loaded) /\ DatesApart

\* Of views with different times at most HistoryLimit have fewer than HistoryLimit newer ones.
LEMMA NewestAreFew ==
  ASSUME NEW L, IsFiniteSet(L), L \subseteq View, \A v, w \in L : v # w => v.at # w.at
  PROVE  Cardinality({v \in L : Cardinality({w \in L : w.at > v.at}) < HistoryLimit}) <= HistoryLimit
<1> DEFINE Newer(v) == {w \in L : w.at > v.at}
           S == {v \in L : Cardinality(Newer(v)) < HistoryLimit}
           f == [v \in S |-> Cardinality(Newer(v))]
<1>1. \A v \in L : IsFiniteSet(Newer(v)) /\ Cardinality(Newer(v)) \in Nat
  BY FS_Subset, FS_CardinalityType
<1>2. \A v, w \in L : v # w => Cardinality(Newer(v)) # Cardinality(Newer(w))
  <2>1. ASSUME NEW v \in L, NEW w \in L, w.at > v.at PROVE Cardinality(Newer(w)) < Cardinality(Newer(v))
    <3>1. v.at \in Nat /\ w.at \in Nat BY MessageTypes
    <3>2. Newer(w) \subseteq Newer(v) /\ w \in Newer(v) /\ w \notin Newer(w)
      <4>1. ASSUME NEW u \in L, u.at > w.at PROVE u.at > v.at
        BY <3>1, <4>1, <2>1, MessageTypes
      <4> QED BY <4>1, <3>1, <2>1
    <3> HIDE DEF Newer
    <3>3. Cardinality(Newer(w)) <= Cardinality(Newer(v))
          /\ (Cardinality(Newer(w)) = Cardinality(Newer(v)) => Newer(w) = Newer(v))
      BY <1>1, <3>2, FS_Subset
    <3>4. Cardinality(Newer(w)) \in Nat /\ Cardinality(Newer(v)) \in Nat BY <1>1
    <3> QED BY <3>2, <3>3, <3>4
  <2>2. \A v, w \in L : v # w => v.at > w.at \/ w.at > v.at BY MessageTypes
  <2> HIDE DEF Newer
  <2> QED BY <2>1, <2>2, <1>1
<1>3. HistoryLimit \in Nat \ {0} BY NumbersAssumption
<1>4. f \in Injection(S, 0..(HistoryLimit - 1))
  <2> HIDE DEF Newer
  <2>1. \A v \in S : Cardinality(Newer(v)) \in 0..(HistoryLimit - 1) BY <1>1, <1>3
  <2>2. \A v, w \in S : v # w => f[v] # f[w] BY <1>2
  <2> QED BY <2>1, <2>2 DEF Injection, IsInjective
<1>5. IsFiniteSet(0..(HistoryLimit - 1)) /\ Cardinality(0..(HistoryLimit - 1)) = HistoryLimit
  BY <1>3, FS_Interval
<1> HIDE DEF f, S
<1>6. Cardinality(S) <= HistoryLimit BY <1>4, <1>5, FS_Injection
<1> QED BY <1>6 DEF S

\* Views are views.
LEMMA ViewsTyped ==
  ASSUME ViewInv
  PROVE  /\ Views \subseteq View /\ Loaded \subseteq View /\ recent \subseteq View
         /\ Dates \subseteq Runs \X Nat /\ clock \in Nat
<1>1. Detailed(down) \subseteq View
  <2>1. \A i \in DOMAIN down : down[i] \in Down BY ElementOfSeq DEF ViewInv, DownTrue, TrueDown
  <2> QED BY <2>1, MessageTypes DEF Detailed
<1>2. Loaded \subseteq View
  <2>1. CASE load \in {NoLoad, [kind |-> "asked"]} BY <2>1 DEF Loaded, NoLoad
  <2>2. CASE load \in [kind : {"answer"}, runs : SUBSET TrueViews(been)] BY <2>2 DEF Loaded, TrueViews
  <2> QED BY <2>1, <2>2 DEF ViewInv, LoadTrue
<1>3. recent \subseteq View /\ {active} \ {NoView} \subseteq View BY DEF ViewInv, ViewsTrue, TrueViews
<1>4. Views \subseteq View BY <1>1, <1>2, <1>3 DEF Views
<1>5. at \in [Runs -> Nat] /\ clock \in Nat BY DEF ViewInv, ApiTyped
<1>6. \A v \in Views : v.run \in Runs /\ v.at \in Nat BY <1>4, MessageTypes
<1>7. Dates \subseteq Runs \X Nat BY <1>5, <1>6 DEF Dates, Created
<1> QED BY <1>2, <1>3, <1>4, <1>5, <1>7

\* The messages that are sent add their views.
LEMMA DetailsAdded ==
  ASSUME NEW ms \in Seq(Down), NEW more \in Seq(Down)
  PROVE  Detailed(ms \o more) = Detailed(ms) \cup Detailed(more)
<1>1. /\ \A i \in DOMAIN ms : i \in DOMAIN (ms \o more) /\ (ms \o more)[i] = ms[i]
      /\ \A i \in DOMAIN more : Len(ms) + i \in DOMAIN (ms \o more) /\ (ms \o more)[Len(ms) + i] = more[i]
      /\ \A i \in DOMAIN (ms \o more) : i \in DOMAIN ms \/ (i - Len(ms) \in DOMAIN more /\ i = Len(ms) + (i - Len(ms)))
  BY ConcatProperties, LenProperties
<1> HIDE DEF Detailed
<1>2. ASSUME NEW x \in Detailed(ms \o more) PROVE x \in Detailed(ms) \cup Detailed(more)
  <2>1. PICK i \in DOMAIN (ms \o more) : (ms \o more)[i].kind = "run.details" /\ x = (ms \o more)[i].view
    BY DEF Detailed
  <2>2. CASE i \in DOMAIN ms BY <2>1, <2>2, <1>1 DEF Detailed
  <2>3. CASE i - Len(ms) \in DOMAIN more /\ i = Len(ms) + (i - Len(ms))
    <3>1. (ms \o more)[i] = more[i - Len(ms)] BY <2>3, <1>1
    <3> QED BY <2>1, <2>3, <3>1 DEF Detailed
  <2> QED BY <1>1, <2>2, <2>3
<1>3. ASSUME NEW x \in Detailed(ms) PROVE x \in Detailed(ms \o more) BY <1>1 DEF Detailed
<1>4. ASSUME NEW x \in Detailed(more) PROVE x \in Detailed(ms \o more) BY <1>1 DEF Detailed
<1> QED BY <1>2, <1>3, <1>4

\* A step after which no date is new but that of one run, which is the newest.
LEMMA ListKeeps ==
  ASSUME ViewInv, ViewInv', ListInv, IsFiniteSet(Created'), Short(recent)', Short(Loaded)',
         \/ clock' = clock /\ Dates' \subseteq Dates
         \/ \E r \in Runs : clock' = clock + 1 /\ Dates' \subseteq Dates \cup {<<r, clock + 1>>}
  PROVE  ListInv'
<1>1. \A d \in Dates : d[1] \in Runs /\ d[2] \in Nat /\ d[2] <= clock
  BY ViewsTyped DEF ListInv, DatesApart
<1>2. clock \in Nat BY ViewsTyped
<1>3. CASE clock' = clock /\ Dates' \subseteq Dates
  <2>1. DatesApart' BY <1>3 DEF ListInv, DatesApart
  <2> QED BY <2>1 DEF ListInv
<1>4. ASSUME NEW r \in Runs, clock' = clock + 1, Dates' \subseteq Dates \cup {<<r, clock + 1>>} PROVE ListInv'
  <2> DEFINE new == <<r, clock + 1>>
  <2>1. new[1] = r /\ new[2] = clock + 1 OBVIOUS
  <2>2. ASSUME NEW d \in Dates \cup {new} PROVE d[2] <= clock + 1
    BY <2>1, <1>1, <1>2
  <2>3. ASSUME NEW d \in Dates \cup {new}, NEW e \in Dates \cup {new}, d[1] # e[1] PROVE d[2] # e[2]
    <3> HIDE DEF new
    <3>1. CASE d = new /\ e = new BY <3>1, <2>3
    <3>2. CASE d = new /\ e \in Dates BY <3>2, <2>1, <1>1, <1>2
    <3>3. CASE d \in Dates /\ e = new BY <3>3, <2>1, <1>1, <1>2
    <3>4. CASE d \in Dates /\ e \in Dates BY <3>4, <2>3 DEF ListInv, DatesApart
    <3> QED BY <3>1, <3>2, <3>3, <3>4
  <2>4. \A d, e \in Dates' : d[2] <= clock' /\ (d[1] # e[1] => d[2] # e[2])
    BY <1>4, <2>2, <2>3
  <2>5. DatesApart' BY <2>4 DEF DatesApart
  <2> QED BY <2>5 DEF ListInv
<1> QED BY <1>3, <1>4

\* A step of the server that gives a run a new status and no view.
LEMMA StampKeeps ==
  ASSUME ViewInv, ViewInv', ListInv, NEW r \in Runs, NEW s \in RunStatus, Becomes(r, s),
         Created' \subseteq Created \cup {r}, Detailed(down)' \subseteq Detailed(down),
         UNCHANGED <<load, active, recent>>
  PROVE  ListInv'
<1>1. clock' = clock + 1 /\ at' = [at EXCEPT ![r] = clock + 1] /\ at \in [Runs -> Nat]
  BY DEF Becomes, ViewInv, ApiTyped
<1>2. Loaded' = Loaded /\ Views' \subseteq Views BY DEF Loaded, Views
<1>3. Dates' \subseteq Dates \cup {<<r, clock + 1>>}
  <2>1. ASSUME NEW q \in Created' PROVE <<q, at'[q]>> \in Dates \cup {<<r, clock + 1>>}
    <3>1. q \in Runs /\ q \in Created \cup {r} BY DEF Created
    <3> QED BY <1>1, <3>1 DEF Dates
  <2>2. ASSUME NEW v \in Views' PROVE <<v.run, v.at>> \in Dates BY <1>2 DEF Dates
  <2> QED BY <2>1, <2>2 DEF Dates
<1>4. IsFiniteSet(Created')
  <2>1. IsFiniteSet(Created \cup {r}) BY FS_AddElement DEF ListInv
  <2> QED BY <2>1, FS_Subset
<1>5. Short(recent)' /\ Short(Loaded)' BY <1>2 DEF ListInv, Short, OnePerRun
<1> QED BY <1>1, <1>3, <1>4, <1>5, ListKeeps

\* A step of the server that gives no run a new time, and may tell what a run is now.
LEMMA StillKeeps ==
  ASSUME ViewInv, ViewInv', ListInv, UNCHANGED <<at, clock, load, active, recent>>,
         Created' \subseteq Created, Detailed(down)' \subseteq Detailed(down) \cup {Stored(r) : r \in Created}
  PROVE  ListInv'
<1>1. Loaded' = Loaded /\ Views' \subseteq Views \cup {Stored(r) : r \in Created} BY DEF Loaded, Views
<1>2. Dates' \subseteq Dates
  <2>1. ASSUME NEW q \in Created' PROVE <<q, at'[q]>> \in Dates BY DEF Dates
  <2>2. ASSUME NEW v \in Views' PROVE <<v.run, v.at>> \in Dates BY <1>1 DEF Dates, Stored
  <2> QED BY <2>1, <2>2 DEF Dates
<1>3. IsFiniteSet(Created') BY FS_Subset DEF ListInv
<1>4. Short(recent)' /\ Short(Loaded)' BY <1>1 DEF ListInv, Short, OnePerRun
<1> QED BY <1>2, <1>3, <1>4, ListKeeps

\* Messages that tell a status hold no view.
LEMMA StatusHasNoView ==
  ASSUME ViewInv, NEW r \in Runs, NEW s \in RunStatus,
         \/ Tell(<<StatusMsg(r, s)>>)
         \/ Tell(<<[kind |-> "run.canceled", run |-> r]>>)
         \/ Tell(<<StatusMsg(r, s), [kind |-> "run.step_blocked", run |-> r],
                   [kind |-> "approval.request", run |-> r]>>)
  PROVE  Detailed(down)' \subseteq Detailed(down)
<1>1. down \in Seq(Down) BY SeqMonotonic DEF ViewInv, DownTrue, TrueDown
<1> DEFINE a == StatusMsg(r, s)
           b == [kind |-> "run.step_blocked", run |-> r]
           c == [kind |-> "approval.request", run |-> r]
           d == [kind |-> "run.canceled", run |-> r]
<1>2. {a, b, c, d} \subseteq Down /\ \A m \in {a, b, c, d} : m.kind # "run.details" BY DEF Down, StatusMsg
<1> HIDE DEF a, b, c, d
<1>3. PICK ms \in {<<a>>, <<d>>, <<a, b, c>>} : down' = down \o ms BY DEF Tell, a, b, c, d
<1>4. ms \in Seq(Down) /\ \A i \in DOMAIN ms : ms[i] \in {a, b, c, d}
  <2> DEFINE S == {a, b, c, d}
  <2>1. a \in S /\ b \in S /\ c \in S /\ d \in S /\ S \subseteq Down BY <1>2
  <2> HIDE DEF S
  <2>2. ms \in Seq(S) BY <2>1, <1>3, TuplesAreSeqs
  <2>3. ms \in Seq(Down) BY <2>1, <2>2, SeqMonotonic
  <2> QED BY <2>2, <2>3, ElementOfSeq DEF S
<1>5. Detailed(ms) = {} BY <1>2, <1>4 DEF Detailed
<1>6. Detailed(down') = Detailed(down) \cup Detailed(ms) BY <1>1, <1>3, <1>4, DetailsAdded
<1> QED BY <1>5, <1>6 DEF Detailed

\* The server's own steps.
LEMMA RunStepsKeepList ==
  ASSUME ViewInv, ViewInv', ListInv, NEW r \in Runs, ApiStep(r)
  PROVE  ListInv'
<1>1. UNCHANGED <<load, active, recent>>
  BY DEF ApiStep, Create, Accept, EngineBegin, EngineStops, EngineAsk, EngineTimeout, EngineDone, CancelByUser,
         deskFrame, deskVars, viewVars
<1>2. pc \in [Runs -> {"none", "queued", "details", "work", "wait", "last", "over"}] BY DEF ViewInv, ApiTyped
<1>3. (\E p \in {"queued", "details", "over", "work", "wait", "last"} : Goes(r, p)) \/ pc' = pc
  BY DEF ApiStep, Create, Accept, EngineBegin, EngineStops, EngineAsk, EngineTimeout, EngineDone, CancelByUser,
         Resume, Cancel
<1>4. Created' \subseteq Created \cup {r} BY <1>2, <1>3 DEF Created, Goes
<1>5. ~Create(r) => Created' \subseteq Created
  <2>1. r \in Created \/ Create(r) \/ pc' = pc
    BY <1>2 DEF ApiStep, Accept, EngineBegin, EngineStops, EngineAsk, EngineTimeout, EngineDone, CancelByUser, Cancel,
       Created
  <2> QED BY <1>4, <2>1 DEF Created
<1>6. CASE Create(r)
  <2>1. Becomes(r, "queued") /\ "queued" \in RunStatus /\ down' = down BY <1>6 DEF Create, RunStatus, InProgress
  <2> QED BY <1>1, <1>4, <2>1, StampKeeps DEF Detailed
<1>7. CASE Accept(r)
  <2>1. UNCHANGED <<at, clock>> /\ pc[r] = "queued" BY <1>7 DEF Accept
  <2>2. Created' \subseteq Created /\ r \in Created BY <1>2, <1>4, <2>1 DEF Created
  <2>3. CASE UNCHANGED down BY <1>1, <2>1, <2>2, <2>3, StillKeeps DEF Detailed
  <2>4. CASE Tell(<<[kind |-> "run.details", view |-> Stored(r)]>>)
    <3> DEFINE m == [kind |-> "run.details", view |-> Stored(r)]
    <3>1. down \in Seq(Down) BY SeqMonotonic DEF ViewInv, DownTrue, TrueDown
    <3>2. Stored(r) \in View
      <4>1. status[r] \in RunStatus BY <2>1 DEF ViewInv, HasBeen, ApiTyped
      <4> QED BY <4>1 DEF Stored, View, ViewInv, ApiTyped
    <3>3. m \in Down BY <3>2 DEF Down
    <3>4. m.view = Stored(r) OBVIOUS
    <3> HIDE DEF m
    <3>5. <<m>> \in Seq(Down) /\ Detailed(<<m>>) \subseteq {Stored(r)} BY <3>3, <3>4 DEF Detailed
    <3>6. down' = down \o <<m>> BY <2>4 DEF Tell, m
    <3>7. Detailed(down') = Detailed(down) \cup Detailed(<<m>>) BY <3>1, <3>5, <3>6, DetailsAdded
    <3>8. Detailed(down)' \subseteq Detailed(down) \cup {Stored(q) : q \in Created}
      BY <2>2, <3>5, <3>7 DEF Detailed
    <3> QED BY <1>1, <2>1, <2>2, <3>8, StillKeeps
  <2> QED BY <1>7, <2>3, <2>4 DEF Accept
<1>8. CASE UNCHANGED <<at, clock, down>> /\ ~Create(r)
  BY <1>1, <1>5, <1>8, StillKeeps DEF Detailed
<1>9. ASSUME NEW s \in RunStatus, Becomes(r, s),
             \/ Tell(<<StatusMsg(r, s)>>)
             \/ Tell(<<[kind |-> "run.canceled", run |-> r]>>)
             \/ Tell(<<StatusMsg(r, s), [kind |-> "run.step_blocked", run |-> r],
                       [kind |-> "approval.request", run |-> r]>>)
      PROVE  ListInv'
  <2>1. Detailed(down)' \subseteq Detailed(down) BY <1>9, StatusHasNoView
  <2> QED BY <1>1, <1>4, <1>9, <2>1, StampKeeps
<1>10. {"running", "waiting_for_user", "done", "failed", "canceled"} \subseteq RunStatus BY DEF RunStatus, InProgress
<1>11. CASE EngineBegin(r) \/ EngineAsk(r) \/ EngineDone(r) BY <1>9, <1>10, <1>11 DEF EngineBegin, EngineAsk, EngineDone
<1>12. CASE EngineStops(r) \/ EngineTimeout(r)
  <2>1. pc[r] \in {"work", "last", "wait"} BY <1>12 DEF EngineStops, EngineTimeout
  <2>2. ~Create(r) BY <2>1 DEF Create
  <2> QED BY <1>8, <1>9, <1>10, <1>12, <2>2 DEF EngineStops, EngineTimeout, Resume
<1>13. CASE CancelByUser(r) BY <1>9, <1>10, <1>13 DEF CancelByUser, Cancel
<1> QED BY <1>6, <1>7, <1>11, <1>12, <1>13 DEF ApiStep

\* What the desktop sent is taken by the server.
LEMMA TakenKeepsList ==
  ASSUME ViewInv, ViewInv', ListInv, CancelByDevice \/ ApprovalDecision
  PROVE  ListInv'
<1> DEFINE r == Head(up).run
<1>1. UNCHANGED <<load, active, recent>> /\ r \in Runs
  BY UpTaken DEF CancelByDevice, ApprovalDecision, deskVars, viewVars
<1> HIDE DEF r
<1>2. pc \in [Runs -> {"none", "queued", "details", "work", "wait", "last", "over"}] BY DEF ViewInv, ApiTyped
<1>3. \/ UNCHANGED <<at, pc, clock, down>>
      \/ Cancel(r)
      \/ pc[r] = "wait" /\ \E d \in Decision : Resume(r, d)
  <2>1. CASE CancelByDevice BY <2>1 DEF CancelByDevice, r
  <2>2. CASE ApprovalDecision
    <3>1. Head(up).decision \in Decision BY <2>2, UpTaken DEF ApprovalDecision, deskVars
    <3> QED BY <2>2, <3>1 DEF ApprovalDecision, r
  <2> QED BY <2>1, <2>2
<1>4. Created' \subseteq Created \cup {r} BY <1>2, <1>3 DEF Cancel, Resume, Goes, Created
<1>5. CASE UNCHANGED <<at, clock, down>> /\ (pc[r] = "wait" \/ pc' = pc)
  <2>1. Created' \subseteq Created BY <1>1, <1>2, <1>4, <1>5 DEF Created
  <2> QED BY <1>1, <1>5, <2>1, StillKeeps DEF Detailed
<1>6. {"failed", "canceled"} \subseteq RunStatus BY DEF RunStatus
<1>7. ASSUME NEW s \in RunStatus, Becomes(r, s),
             Tell(<<StatusMsg(r, s)>>) \/ Tell(<<[kind |-> "run.canceled", run |-> r]>>)
      PROVE  ListInv'
  <2>1. Detailed(down)' \subseteq Detailed(down) BY <1>1, <1>7, StatusHasNoView
  <2> QED BY <1>1, <1>4, <1>7, <2>1, StampKeeps
<1>8. CASE Cancel(r) BY <1>6, <1>7, <1>8 DEF Cancel
<1>9. CASE pc[r] = "wait" /\ \E d \in Decision : Resume(r, d) BY <1>5, <1>6, <1>7, <1>9 DEF Resume
<1> QED BY <1>3, <1>5, <1>8, <1>9

\* A message is taken.
LEMMA DetailsTaken ==
  ASSUME ViewInv, down # <<>>
  PROVE  /\ Detailed(Tail(down)) \subseteq Detailed(down)
         /\ Head(down).kind = "run.details" => Head(down).view \in Detailed(down)
<1>1. down \in Seq(Down) BY SeqMonotonic DEF ViewInv, DownTrue, TrueDown
<1>2. 1 \in DOMAIN down /\ Head(down) = down[1] BY <1>1, EmptySeq
<1>3. \A i \in DOMAIN Tail(down) : i + 1 \in DOMAIN down /\ Tail(down)[i] = down[i + 1]
  BY <1>1
<1> QED BY <1>2, <1>3 DEF Detailed

\* The list that shows a run keeps to its limit.
LEMMA UpsertIsShort ==
  ASSUME ViewInv, ListInv, NEW v \in View, <<v.run, v.at>> \in Dates
  PROVE  /\ Short(UpsertRunHistory(v))
         /\ UpsertRunHistory(v) \subseteq recent \cup {v}
<1> DEFINE L == {w \in recent : w.run # v.run} \cup {v}
           S == {x \in L : Cardinality({w \in L : w.at > x.at}) < HistoryLimit}
<1>1. UpsertRunHistory(v) = S BY DEF UpsertRunHistory
<1>2. recent \subseteq View /\ IsFiniteSet(recent) /\ OnePerRun(recent) BY ViewsTyped DEF ListInv, Short
<1>3. IsFiniteSet(L)
  <2>1. IsFiniteSet({w \in recent : w.run # v.run}) BY <1>2, FS_Subset
  <2> QED BY <2>1, FS_AddElement
<1>4. L \subseteq View BY <1>2
<1>5. OnePerRun(L) BY <1>2 DEF OnePerRun
<1>6. \A w \in L : <<w.run, w.at>> \in Dates BY DEF Dates, Views
<1> HIDE DEF L
<1>7. ASSUME NEW x \in L, NEW w \in L, x # w PROVE x.at # w.at
  <2>1. x.run # w.run BY <1>5, <1>7 DEF OnePerRun
  <2>2. <<x.run, x.at>> \in Dates /\ <<w.run, w.at>> \in Dates BY <1>6
  <2> QED BY <2>1, <2>2 DEF ListInv, DatesApart
<1>8. Cardinality(S) <= HistoryLimit BY <1>3, <1>4, <1>7, NewestAreFew
<1>9. S \subseteq L OBVIOUS
<1> HIDE DEF S
<1>10. IsFiniteSet(S) /\ OnePerRun(S) BY <1>3, <1>5, <1>9, FS_Subset DEF OnePerRun
<1> QED BY <1>1, <1>8, <1>9, <1>10 DEF Short, L

\* The desktop shows a view with a date it has from somewhere.
LEMMA ShowingKeepsList ==
  ASSUME ViewInv, ViewInv', ListInv, NEW v \in View, <<v.run, v.at>> \in Dates,
         SetActiveRun(v) \/ UNCHANGED <<active, recent>>,
         UNCHANGED <<pc, at, clock, load>>, Detailed(down)' \subseteq Detailed(down)
  PROVE  ListInv'
<1>1. v # NoView
  <2>1. v.run \in Runs /\ v.status \in RunStatus BY DEF View
  <2>2. DOMAIN v = {"run", "status", "at"} /\ DOMAIN NoView = {"run"} BY DEF View, NoView
  <2> QED BY <2>2
<1>2. Loaded' = Loaded /\ Created' = Created BY DEF Loaded, Created
<1>3. Short(recent)' /\ recent' \subseteq recent \cup {v} /\ {active'} \subseteq {active, v}
  <2>1. CASE SetActiveRun(v) BY <1>1, <2>1, UpsertIsShort DEF SetActiveRun, Short, OnePerRun
  <2>2. CASE UNCHANGED <<active, recent>> BY <2>2 DEF ListInv, Short, OnePerRun
  <2> QED BY <2>1, <2>2
<1>4. Views' \subseteq Views \cup {v} BY <1>2, <1>3 DEF Views
<1>5. Dates' \subseteq Dates
  <2>1. ASSUME NEW q \in Created' PROVE <<q, at'[q]>> \in Dates BY <1>2 DEF Dates
  <2>2. ASSUME NEW w \in Views' PROVE <<w.run, w.at>> \in Dates BY <1>4 DEF Dates
  <2> QED BY <2>1, <2>2 DEF Dates
<1>6. IsFiniteSet(Created') /\ Short(Loaded)' BY <1>2 DEF ListInv, Short, OnePerRun
<1> QED BY <1>3, <1>5, <1>6, ListKeeps

\* A message: it shows what it holds, or another status of the active run.
LEMMA HearsKeepList ==
  ASSUME ViewInv, ViewInv', ListInv,
         OnRunDetails \/ OnRunStatus \/ OnStepBlocked \/ OnApprovalRequest \/ OnRunCanceled
  PROVE  ListInv'
<1>1. down # <<>> /\ down' = Tail(down) /\ UNCHANGED <<pc, at, clock, load>>
  BY DEF OnRunDetails, OnRunStatus, OnStepBlocked, OnApprovalRequest, OnRunCanceled, Receive, hearFrame, apiVars
<1>2. Detailed(down)' \subseteq Detailed(down) BY <1>1, DetailsTaken DEF Detailed
<1> DEFINE m == Head(down)
<1>3. m \in Down BY <1>1, HeadTailProperties DEF ViewInv, DownTrue, TrueDown
<1>4. CASE OnRunDetails
  <2>1. SetActiveRun(m.view) /\ m.kind = "run.details" BY <1>4 DEF OnRunDetails, Receive
  <2>2. m.view \in View /\ m.view \in Detailed(down) BY <2>1, <1>1, <1>3, DetailsTaken, MessageTypes
  <2> HIDE DEF m
  <2>3. <<m.view.run, m.view.at>> \in Dates BY <2>2 DEF Dates, Views
  <2> QED BY <1>1, <1>2, <2>1, <2>2, <2>3, ShowingKeepsList
<1>5. CASE OnRunStatus \/ OnStepBlocked \/ OnApprovalRequest \/ OnRunCanceled
  <2>1. PICK s \in RunStatus :
          (active # NoView /\ SetActiveRun([active EXCEPT !.status = s])) \/ UNCHANGED viewVars
    <3>1. {"waiting_for_user", "canceled"} \subseteq RunStatus BY DEF RunStatus, InProgress
    <3>2. CASE OnRunStatus
      <4>1. m.kind = "run.status" /\ ShowStatus(m.run, m.status) BY <3>2 DEF OnRunStatus, Receive
      <4> HIDE DEF m
      <4>2. m.status \in RunStatus BY <4>1, <1>3, MessageTypes
      <4> QED BY <4>1, <4>2 DEF ShowStatus, IsAbout
    <3>3. CASE OnStepBlocked \/ OnApprovalRequest \/ OnRunCanceled
      BY <3>1, <3>3 DEF OnStepBlocked, OnApprovalRequest, OnRunCanceled, ShowStatus, IsAbout
    <3> QED BY <1>5, <3>2, <3>3
  <2>2. CASE active # NoView /\ SetActiveRun([active EXCEPT !.status = s])
    <3>1. active \in View BY <2>2 DEF ViewInv, ViewsTrue, TrueViews
    <3> DEFINE v == [active EXCEPT !.status = s]
    <3>2. v \in View /\ v.run = active.run /\ v.at = active.at BY <2>1, <3>1 DEF View
    <3> HIDE DEF v
    <3>3. <<active.run, active.at>> \in Dates BY <2>2 DEF Dates, Views
    <3> QED BY <1>1, <1>2, <2>2, <3>2, <3>3, ShowingKeepsList DEF v
  <2>3. CASE UNCHANGED viewVars
    <3>1. UNCHANGED <<active, recent, at, clock, load>> BY <1>1, <2>3 DEF viewVars
    <3>2. Created' = Created BY <1>1 DEF Created
    <3> QED BY <1>2, <3>1, <3>2, StillKeeps
  <2> QED BY <2>1, <2>2, <2>3
<1> QED BY <1>4, <1>5

\* The list is loaded: as many runs as the server returns, once each.
LEMMA LoadKeepsList ==
  ASSUME ViewInv, ViewInv', ListInv, StartLoad \/ DesktopMe \/ LoadAnswered
  PROVE  ListInv'
<1>1. UNCHANGED <<pc, at, clock, down>> /\ Created' = Created /\ Detailed(down)' = Detailed(down)
  BY DEF StartLoad, DesktopMe, LoadAnswered, apiVars, Created, Detailed
<1>2. ASSUME Views' \subseteq Views \cup {Stored(r) : r \in Created}, Short(recent)', Short(Loaded)' PROVE ListInv'
  <2>1. ASSUME NEW q \in Created' PROVE <<q, at'[q]>> \in Dates BY <1>1 DEF Dates
  <2>2. ASSUME NEW v \in Views' PROVE <<v.run, v.at>> \in Dates BY <1>2 DEF Dates, Stored
  <2>3. Dates' \subseteq Dates BY <2>1, <2>2 DEF Dates
  <2> QED BY <1>1, <1>2, <2>3, ListKeeps DEF ListInv
<1>3. Short({})
  <2>1. HistoryLimit \in Nat \ {0} BY NumbersAssumption
  <2> QED BY <2>1, FS_EmptySet DEF Short, OnePerRun
<1>4. CASE StartLoad
  <2>1. Loaded' = {} /\ UNCHANGED <<active, recent>>
    BY <1>4 DEF StartLoad, Loaded, deskVars, viewVars
  <2>2. Short(Loaded)' /\ Short(recent)' BY <1>3, <2>1 DEF ListInv, Short, OnePerRun
  <2>3. Views' \subseteq Views BY <1>1, <2>1 DEF Views
  <2> QED BY <1>2, <2>2, <2>3
<1>5. CASE DesktopMe
  <2>1. PICK rows \in SUBSET {Stored(r) : r \in Created} :
          Cardinality(rows) <= HistoryLimit /\ load' = [kind |-> "answer", runs |-> rows]
    BY <1>5 DEF DesktopMe, Created
  <2>2. Loaded' = rows /\ UNCHANGED <<active, recent>> BY <1>5, <2>1 DEF DesktopMe, Loaded, deskVars, viewVars
  <2>3. IsFiniteSet(rows)
    <3> DEFINE f == [r \in Created |-> Stored(r)]
               T == {Stored(r) : r \in Created}
    <3>1. f \in Surjection(Created, T) BY DEF Surjection
    <3>2. IsFiniteSet(T) BY <3>1, FS_Surjection DEF ListInv
    <3> QED BY <3>2, <2>1, FS_Subset
  <2>4. OnePerRun(rows) BY <2>1 DEF OnePerRun, Stored
  <2>5. Short(Loaded)' /\ Short(recent)' BY <2>1, <2>2, <2>3, <2>4 DEF ListInv, Short, OnePerRun
  <2>6. Views' \subseteq Views \cup {Stored(r) : r \in Created} BY <1>1, <2>1, <2>2 DEF Views
  <2> QED BY <1>2, <2>5, <2>6
<1>6. CASE LoadAnswered
  <2>1. Loaded = load.runs /\ Loaded' = {} /\ recent' = Loaded /\ (active' = active \/ active' \in Loaded)
    BY <1>6 DEF LoadAnswered, Loaded, NoLoad
  <2>2. Short(Loaded)' /\ Short(recent)' BY <1>3, <2>1 DEF ListInv, Short, OnePerRun
  <2>3. Views' \subseteq Views BY <1>1, <2>1 DEF Views
  <2> QED BY <1>2, <2>2, <2>3
<1> QED BY <1>4, <1>5, <1>6

\* The user selects a run of the list, or sends something.
LEMMA UserKeepsList ==
  ASSUME ViewInv, ViewInv', ListInv,
         \/ \E v \in recent : SelectRecentRun(v)
         \/ \E d \in Decision : HandleApprovalDecision(d)
         \/ HandleCancelRun
  PROVE  ListInv'
<1>1. UNCHANGED <<pc, at, clock, load, down>> /\ Detailed(down)' = Detailed(down) /\ Created' = Created
  BY DEF SelectRecentRun, HandleApprovalDecision, HandleCancelRun, apiVars, netVars, Detailed, Created
<1>2. ASSUME NEW v \in recent, SelectRecentRun(v) PROVE ListInv'
  <2>1. SetActiveRun(v) BY <1>2 DEF SelectRecentRun
  <2>2. v \in View BY ViewsTyped
  <2>3. <<v.run, v.at>> \in Dates BY DEF Dates, Views
  <2> QED BY <1>1, <2>1, <2>2, <2>3, ShowingKeepsList
<1>3. CASE HandleCancelRun \/ \E d \in Decision : HandleApprovalDecision(d)
  <2>1. UNCHANGED <<active, recent>> BY <1>3 DEF HandleCancelRun, HandleApprovalDecision, deskVars, viewVars
  <2> QED BY <1>1, <2>1, StillKeeps
<1> QED BY <1>2, <1>3

\* Types of the view, and that the list of recent runs never grows beyond its limit and
\* lists a run once, however messages, loads and selections are mixed.
THEOREM ViewTypes == ViewSpec => []ViewTypeOK
<1>1. ViewInit => ListInv
  <2> SUFFICES ASSUME ViewInit PROVE ListInv OBVIOUS
  <2>1. Created = {} /\ Loaded = {} /\ recent = {} BY DEF ViewInit, Created, Loaded, NoLoad
  <2>2. Detailed(down) = {} /\ {active} \ {NoView} = {} BY DEF ViewInit, Detailed
  <2>3. Views = {} BY <2>1, <2>2 DEF Views
  <2>4. Dates = {} BY <2>1, <2>3 DEF Dates
  <2>5. HistoryLimit \in Nat \ {0} BY NumbersAssumption
  <2> QED BY <2>1, <2>4, <2>5, FS_EmptySet DEF ListInv, Short, OnePerRun, DatesApart
<1>2. ViewInv /\ ViewInv' /\ ListInv /\ [ViewNext]_vars => ListInv'
  <2> SUFFICES ASSUME ViewInv, ViewInv', ListInv, [ViewNext]_vars PROVE ListInv' OBVIOUS
  <2>1. CASE UNCHANGED vars
    <3>1. UNCHANGED <<at, clock, load, active, recent, pc, down>>
      BY <2>1 DEF vars, apiVars, deskVars, viewVars, netVars
    <3> QED BY <3>1, StillKeeps DEF Created, Detailed
  <2>2. CASE DesktopMe \/ DesktopStep
    BY <2>2, HearsKeepList, LoadKeepsList, UserKeepsList DEF DesktopStep
  <2> QED BY <2>1, <2>2, RunStepsKeepList, TakenKeepsList DEF ViewNext
<1>3. ASSUME ViewInv, ListInv PROVE ViewTypeOK
  <2>1. down \in Seq(Down) BY <1>3, SeqMonotonic DEF ViewInv, DownTrue, TrueDown
  <2>2. up \in Seq(Up) BY <1>3, SeqMonotonic DEF ViewInv, UpMeant, MeantUp
  <2>3. active \in View \cup {NoView} /\ recent \subseteq View BY <1>3 DEF ViewInv, ViewsTrue, TrueViews
  <2>4. Cardinality(recent) <= HistoryLimit /\ \A v, w \in recent : v.run = w.run => v = w
    BY <1>3 DEF ListInv, Short, OnePerRun
  <2> QED BY <1>3, <2>1, <2>2, <2>3, <2>4 DEF ViewInv, ApiTyped, DialogTyped, ViewTypeOK
<1> QED BY <1>1, <1>2, <1>3, ViewInvariance, PTL DEF ViewSpec

-----------------------------------------------------------------------------
(* The choice of the model provider: ProviderSettings.                     *)

\* App itself only asks whether there is a key.
KeyCmds == {"has", "set", "clear", "test"}
SlowCmds == {"status", "refresh", "propose"}
KeyCalls == {c \in CallType(KeyCmds) : c.p \in Cloud /\ (c.by = "app" => c.cmd = "has")}
SlowCalls == CallType(SlowCmds)
PanelType == [open : BOOLEAN, hasKey : BOOLEAN, isLoading : BOOLEAN]

SettingsTyped ==
  /\ app \in {"closed", "running"} /\ provider \in Providers /\ stored \in Providers /\ chosen \in Providers
  /\ url \in [of : Providers, kind : {"default", "typed", "service"}]
  /\ configured \in BOOLEAN /\ seen \in BOOLEAN /\ signed \in BOOLEAN /\ service \in BOOLEAN
  /\ panel \in PanelType /\ (app = "closed" => ~panel.open)
  /\ keychain \subseteq Cloud /\ cleared \subseteq Cloud
KeysTyped == keys \in Seq(KeyCalls)
SlowTyped == slow \in Seq(SlowCalls)

InTurn(ks) == \A i, j \in 1..Len(ks) : i < j /\ Executed(ks[j]) => Executed(ks[i])

SaysYes(ks, has, j) ==
  \/ j = 0 /\ has
  \/ j > 0 /\ ks[j].by = "panel" /\ ks[j].cmd \in {"has", "set"} /\ ks[j].res = "yes"
ClearedSince(ks, j) == \E k \in (j + 1)..Len(ks) : ks[k].by = "panel" /\ ks[k].cmd = "clear" /\ Executed(ks[k])

\* From place s on the calls are about provider p, and what they answered is in the keychain
\* or was cleared since; place 0 stands for what the panel shows.
Justified(ks, kc, p, has, s) ==
  /\ s \in 0..Len(ks)
  /\ s # 0 => ks[s].by = "panel" /\ ks[s].cmd = "has" /\ ks[s].p = p
  /\ \A j \in (s + 1)..Len(ks) : ks[j].by # "gone" /\ (ks[j].by = "panel" => ks[j].p = p)
  /\ \A j \in s..Len(ks) : SaysYes(ks, has, j) => p \in kc \/ ClearedSince(ks, j)
Trusted(ks, kc, p, has) == \E s \in 0..Len(ks) : Justified(ks, kc, p, has, s)

PanelTrusted == panel.open /\ provider \in Cloud => Trusted(keys, keychain, provider, panel.hasKey)

KeysInv == SettingsTyped /\ KeysTyped /\ SlowTyped /\ InTurn(keys) /\ PanelTrusted

\* A call has its type, and no result yet.
LEMMA CallHasType ==
  ASSUME NEW cmds, NEW cmd \in cmds, NEW p \in Providers, NEW by \in {"app", "panel", "gone"}, NEW then \in BOOLEAN
  PROVE  Call(cmd, p, by, then) \in CallType(cmds) /\ Call(cmd, p, by, then).res = "none"
         /\ Call(cmd, p, by, then).by = by /\ Call(cmd, p, by, then).cmd = cmd /\ Call(cmd, p, by, then).p = p
BY DEF Call, CallType

\* A check of a key asks once, for a provider that requires one.
LEMMA HasCallIs ==
  ASSUME NEW p \in Providers, NEW by \in {"app", "panel"}, NEW then \in BOOLEAN
  PROVE  /\ HasCall(p, by, then) \in Seq(KeyCalls)
         /\ \A i \in 1..Len(HasCall(p, by, then)) :
              /\ HasCall(p, by, then)[i].res = "none" /\ HasCall(p, by, then)[i].by = by
              /\ HasCall(p, by, then)[i].p = p /\ HasCall(p, by, then)[i].cmd = "has"
         /\ p \in Cloud => Len(HasCall(p, by, then)) = 1
<1> DEFINE c == Call("has", p, by, then)
<1>0. "has" \in KeyCmds BY DEF KeyCmds
<1>1. /\ c \in CallType(KeyCmds) /\ c.res = "none" /\ c.by = by /\ c.cmd = "has" /\ c.p = p
  BY <1>0, CallHasType
<1>2. p \in Cloud => c \in KeyCalls BY <1>1 DEF KeyCalls
<1>3. HasCall(p, by, then) = IF p \in Cloud THEN <<c>> ELSE <<>> BY DEF HasCall
<1> HIDE DEF c
<1> QED BY <1>1, <1>2, <1>3

\* The calls on the runtime have their type.
LEMMA SlowCallsAre ==
  ASSUME NEW p \in Providers, NEW then \in BOOLEAN
  PROVE  /\ StatusCall(p, then) \in Seq(SlowCalls) /\ Refresh(p, then) \in Seq(SlowCalls)
         /\ \A cmd \in SlowCmds, by \in {"app", "panel"} :
              Call(cmd, p, by, then) \in SlowCalls
<1>1. \A cmd \in SlowCmds, by \in {"app", "panel"} : Call(cmd, p, by, then) \in SlowCalls
  BY CallHasType DEF SlowCalls
<1> QED BY <1>1 DEF StatusCall, Refresh, SlowCmds

\* Calls that are asked and not yet executed, of App or of the panel for its provider.
LEMMA AskedLater ==
  ASSUME NEW ks \in Seq(KeyCalls), NEW extra \in Seq(KeyCalls), InTurn(ks),
         \A i \in 1..Len(extra) : extra[i].res = "none"
  PROVE  /\ ks \o extra \in Seq(KeyCalls) /\ InTurn(ks \o extra)
         /\ \A kc, p, has :
              (\A i \in 1..Len(extra) : extra[i].by # "gone" /\ (extra[i].by = "panel" => extra[i].p = p))
                /\ Trusted(ks, kc, p, has) => Trusted(ks \o extra, kc, p, has)
<1> DEFINE all == ks \o extra
<1>1. /\ all \in Seq(KeyCalls) /\ Len(all) = Len(ks) + Len(extra) /\ Len(ks) \in Nat /\ Len(extra) \in Nat
      /\ \A i \in 1..Len(ks) : all[i] = ks[i]
      /\ \A i \in (Len(ks) + 1)..Len(all) : all[i] = extra[i - Len(ks)] /\ i - Len(ks) \in 1..Len(extra)
  OBVIOUS
<1> HIDE DEF all
<1>4. \A i \in (Len(ks) + 1)..Len(all) : all[i].res = "none" BY <1>1
<1>2. InTurn(all)
  <2> SUFFICES ASSUME NEW i \in 1..Len(all), NEW j \in 1..Len(all), i < j, Executed(all[j])
               PROVE  Executed(all[i])
    BY DEF InTurn
  <2>1. j <= Len(ks) BY <1>1, <1>4 DEF Executed
  <2>2. i \in 1..Len(ks) /\ j \in 1..Len(ks) /\ all[i] = ks[i] /\ all[j] = ks[j] BY <2>1, <1>1
  <2> QED BY <2>2 DEF InTurn
<1>3. ASSUME NEW kc, NEW p, NEW has, Trusted(ks, kc, p, has),
             \A i \in 1..Len(extra) : extra[i].by # "gone" /\ (extra[i].by = "panel" => extra[i].p = p)
      PROVE  Trusted(all, kc, p, has)
  <2>1. PICK s \in 0..Len(ks) : Justified(ks, kc, p, has, s) BY <1>3 DEF Trusted
  <2>2. \A j \in 0..Len(ks) : ClearedSince(ks, j) => ClearedSince(all, j) BY <1>1 DEF ClearedSince
  <2>3. \A j \in 0..Len(ks) : SaysYes(all, has, j) => SaysYes(ks, has, j) BY <1>1 DEF SaysYes
  <2>4. \A j \in (Len(ks) + 1)..Len(all) : ~SaysYes(all, has, j) BY <1>1 DEF SaysYes
  <2>5. s \in 0..Len(all) BY <1>1
  <2>6. s # 0 => all[s].by = "panel" /\ all[s].cmd = "has" /\ all[s].p = p BY <1>1, <2>1 DEF Justified
  <2>7. ASSUME NEW j \in (s + 1)..Len(all)
        PROVE  all[j].by # "gone" /\ (all[j].by = "panel" => all[j].p = p)
    <3>1. CASE j <= Len(ks)
      <4>1. j \in (s + 1)..Len(ks) /\ all[j] = ks[j] BY <3>1, <1>1
      <4> QED BY <4>1, <2>1 DEF Justified
    <3>2. CASE ~(j <= Len(ks))
      <4>1. all[j] = extra[j - Len(ks)] /\ j - Len(ks) \in 1..Len(extra) BY <3>2, <1>1
      <4> QED BY <4>1, <1>3
    <3> QED BY <3>1, <3>2
  <2>8. \A j \in s..Len(all) : SaysYes(all, has, j) => p \in kc \/ ClearedSince(all, j)
    BY <1>1, <2>1, <2>2, <2>3, <2>4 DEF Justified
  <2> QED BY <2>5, <2>6, <2>7, <2>8 DEF Trusted, Justified
<1> QED BY <1>1, <1>2, <1>3 DEF all

\* The panel has asked for the key of its provider: that answer will be the truth.
LEMMA AskedNow ==
  ASSUME NEW ks \in Seq(KeyCalls), NEW c \in KeyCalls, InTurn(ks), c.res = "none",
         c.by = "panel", c.cmd = "has"
  PROVE  /\ ks \o <<c>> \in Seq(KeyCalls) /\ InTurn(ks \o <<c>>)
         /\ \A kc, has : Trusted(ks \o <<c>>, kc, c.p, has)
<1> DEFINE all == ks \o <<c>>
           n == Len(ks) + 1
<1>1. /\ all \in Seq(KeyCalls) /\ Len(all) = n /\ n \in Nat /\ n > 0 /\ all[n] = c
      /\ \A i \in 1..Len(ks) : all[i] = ks[i]
  OBVIOUS
<1>0. Len(ks) \in Nat OBVIOUS
<1> HIDE DEF all
<1>2. InTurn(all) BY <1>0, <1>1 DEF InTurn, Executed
<1>3. ASSUME NEW kc, NEW has PROVE Justified(all, kc, c.p, has, n)
  <2>1. ~SaysYes(all, has, n) BY <1>1 DEF SaysYes
  <2> HIDE DEF n
  <2> QED BY <1>1, <2>1 DEF Justified
<1> QED BY <1>1, <1>2, <1>3 DEF Trusted, all

\* The first call is answered: what the panel shows next is what it showed or what was answered.
LEMMA AnsweredFirst ==
  ASSUME NEW ks \in Seq(KeyCalls), ks # <<>>, InTurn(ks)
  PROVE  /\ Tail(ks) \in Seq(KeyCalls) /\ InTurn(Tail(ks))
         /\ \A kc, p, has, shown :
              /\ Trusted(ks, kc, p, has)
              /\ ks[1].by = "panel" /\ ks[1].cmd = "has" => (shown => ks[1].res = "yes")
              /\ ks[1].by = "panel" /\ ks[1].cmd = "set" => (shown => has \/ ks[1].res = "yes")
              /\ ks[1].by = "panel" /\ ks[1].cmd = "clear" => ~shown
              /\ ~(ks[1].by = "panel" /\ ks[1].cmd \in {"has", "set", "clear"}) => (shown => has)
              => Trusted(Tail(ks), kc, p, shown)
<1> DEFINE rest == Tail(ks)
<1>1. /\ rest \in Seq(KeyCalls) /\ Len(ks) \in Nat /\ Len(ks) > 0 /\ Len(rest) = Len(ks) - 1
      /\ \A i \in 1..Len(rest) : rest[i] = ks[i + 1]
  OBVIOUS
<1>a. ks[1] \in CallType(KeyCmds) BY <1>1 DEF KeyCalls
<1> HIDE DEF rest
<1>2. InTurn(rest) BY <1>1 DEF InTurn
<1>3. ASSUME NEW kc, NEW p, NEW has, NEW shown, Trusted(ks, kc, p, has),
             ks[1].by = "panel" /\ ks[1].cmd = "has" => (shown => ks[1].res = "yes"),
             ks[1].by = "panel" /\ ks[1].cmd = "set" => (shown => has \/ ks[1].res = "yes"),
             ks[1].by = "panel" /\ ks[1].cmd = "clear" => ~shown,
             ~(ks[1].by = "panel" /\ ks[1].cmd \in {"has", "set", "clear"}) => (shown => has)
      PROVE  Trusted(rest, kc, p, shown)
  <2>1. PICK s \in 0..Len(ks) : Justified(ks, kc, p, has, s) BY <1>3 DEF Trusted
  <2> DEFINE t == IF s = 0 THEN 0 ELSE s - 1
  <2>2. t \in 0..Len(rest) BY <1>1
  <2>3. \A j \in 0..Len(rest) : ClearedSince(ks, j + 1) => ClearedSince(rest, j)
    <3> SUFFICES ASSUME NEW j \in 0..Len(rest), NEW k \in (j + 2)..Len(ks),
                        ks[k].by = "panel" /\ ks[k].cmd = "clear" /\ Executed(ks[k])
                 PROVE  ClearedSince(rest, j)
      BY DEF ClearedSince
    <3>1. k - 1 \in (j + 1)..Len(rest) /\ rest[k - 1] = ks[k] BY <1>1
    <3> QED BY <3>1 DEF ClearedSince
  <2>4. \A j \in 1..Len(rest) : SaysYes(rest, shown, j) => SaysYes(ks, has, j + 1) BY <1>1 DEF SaysYes
  <2>5. t # 0 => rest[t].by = "panel" /\ rest[t].cmd = "has" /\ rest[t].p = p BY <1>1, <2>1 DEF Justified
  <2>6. ASSUME NEW j \in (t + 1)..Len(rest)
        PROVE  rest[j].by # "gone" /\ (rest[j].by = "panel" => rest[j].p = p)
    <3>1. j + 1 \in (s + 1)..Len(ks) BY <1>1
    <3>2. rest[j] = ks[j + 1] BY <1>1
    <3> HIDE DEF t
    <3> QED BY <3>1, <3>2, <2>1 DEF Justified
  <2>7. ASSUME NEW j \in t..Len(rest), j > 0, SaysYes(rest, shown, j)
        PROVE  p \in kc \/ ClearedSince(rest, j)
    <3>1. j + 1 \in s..Len(ks) /\ j \in 1..Len(rest) BY <1>1, <2>7
    <3> HIDE DEF t
    <3>2. SaysYes(ks, has, j + 1) BY <3>1, <2>4, <2>7
    <3>3. p \in kc \/ ClearedSince(ks, j + 1) BY <3>1, <3>2, <2>1 DEF Justified
    <3> QED BY <3>1, <3>3, <2>3
  <2>8. ASSUME t = 0, shown PROVE p \in kc \/ ClearedSince(rest, 0)
    <3>1. s \in {0, 1} BY <2>8, <1>1
    <3>2. CASE s = 1
      <4>1. ks[1].res = "yes" BY <3>2, <1>3, <2>1, <2>8 DEF Justified
      <4>2. SaysYes(ks, has, 1) BY <3>2, <4>1, <2>1 DEF SaysYes, Justified
      <4>3. p \in kc \/ ClearedSince(ks, 1) BY <3>2, <4>2, <2>1, <1>1 DEF Justified
      <4> QED BY <4>3, <2>3, <1>1
    <3>3. CASE s = 0 /\ ks[1].by = "panel" /\ ks[1].cmd \in {"has", "set"} /\ ks[1].res = "yes"
      <4>1. SaysYes(ks, has, 1) BY <3>3 DEF SaysYes
      <4>2. p \in kc \/ ClearedSince(ks, 1) BY <3>3, <4>1, <2>1, <1>1 DEF Justified
      <4> QED BY <4>2, <2>3, <1>1
    <3>4. CASE s = 0 /\ ~(ks[1].by = "panel" /\ ks[1].cmd \in {"has", "set"} /\ ks[1].res = "yes")
      <4>1. has /\ ~(ks[1].by = "panel" /\ ks[1].cmd = "clear") BY <3>4, <1>3, <2>8
      <4>2. SaysYes(ks, has, 0) BY <4>1 DEF SaysYes
      <4>3. p \in kc \/ ClearedSince(ks, 0) BY <3>4, <4>2, <2>1, <1>1 DEF Justified
      <4>4. ClearedSince(ks, 0) => ClearedSince(ks, 1) BY <4>1, <1>1 DEF ClearedSince
      <4> QED BY <4>3, <4>4, <2>3, <1>1
    <3> QED BY <3>1, <3>2, <3>3, <3>4
  <2>9. \A j \in t..Len(rest) : SaysYes(rest, shown, j) => p \in kc \/ ClearedSince(rest, j)
    BY <2>2, <2>7, <2>8, <1>1 DEF SaysYes
  <2> HIDE DEF t
  <2> QED BY <2>2, <2>5, <2>6, <2>9 DEF Trusted, Justified
<1> QED BY <1>1, <1>2, <1>3 DEF rest

\* A call is executed: the key of the panel's provider is there when that was the answer, and
\* goes only when a call of the panel takes it away.
LEMMA ExecutedNow ==
  ASSUME KeysInv, NEW i \in DOMAIN keys, ExecuteKey(i)
  PROVE  KeysTyped' /\ InTurn(keys)' /\ PanelTrusted' /\ keychain' \subseteq Cloud
<1> USE ProviderAssumption
<1>0. /\ keys \in Seq(KeyCalls) /\ i \in 1..Len(keys) /\ Len(keys) \in Nat /\ keys[i] \in KeyCalls
      /\ keys[i].res = "none" /\ \A j \in 1..(i - 1) : Executed(keys[j])
  BY DEF KeysInv, KeysTyped, ExecuteKey, FirstWaiting, Executed
<1>1. PICK ok \in BOOLEAN :
        /\ keys[i].cmd \in {"has", "test"} => (ok <=> keys[i].p \in keychain)
        /\ keys' = [keys EXCEPT ![i].res = IF ok THEN "yes" ELSE "no"]
        /\ keychain' = CASE ok /\ keys[i].cmd = "set" -> keychain \cup {keys[i].p}
                         [] ok /\ keys[i].cmd = "clear" -> keychain \ {keys[i].p}
                         [] OTHER -> keychain
  BY DEF ExecuteKey
<1> DEFINE r == IF ok THEN "yes" ELSE "no"
           e == [keys[i] EXCEPT !.res = r]
<1>2. /\ e \in KeyCalls /\ e.cmd = keys[i].cmd /\ e.p = keys[i].p /\ e.by = keys[i].by /\ e.res = r
      /\ r \in {"yes", "no"}
  BY <1>0 DEF KeyCalls, CallType
<1>3. keys' = [keys EXCEPT ![i] = e] BY <1>1
<1> HIDE DEF e
<1>4. /\ keys' \in Seq(KeyCalls) /\ Len(keys') = Len(keys)
      /\ \A j \in 1..Len(keys) : keys'[j] = IF j = i THEN e ELSE keys[j]
  BY <1>0, <1>2, <1>3
<1>5. \A j \in 1..Len(keys) : j < i => Executed(keys'[j]) BY <1>0, <1>4
<1>6. \A j \in 1..Len(keys) : j > i => ~Executed(keys'[j])
  BY <1>0, <1>4 DEF KeysInv, InTurn, Executed
<1>7. InTurn(keys') BY <1>4, <1>5, <1>6 DEF InTurn
<1>8. keychain' \subseteq Cloud
  <2>1. keychain \subseteq Cloud BY DEF KeysInv, SettingsTyped
  <2>2. keys[i].cmd = "set" => keys[i].p \in Cloud BY <1>0 DEF KeyCalls
  <2> QED BY <1>1, <2>1, <2>2
<1>9. PanelTrusted'
  <2> SUFFICES ASSUME panel.open, provider \in Cloud
               PROVE  Trusted(keys', keychain', provider, panel.hasKey)
    BY DEF PanelTrusted, ExecuteKey, llmSettings
  <2>1. PICK s \in 0..Len(keys) : Justified(keys, keychain, provider, panel.hasKey, s)
    BY DEF KeysInv, PanelTrusted, Trusted
  <2>2. s # 0 => keys'[s].by = "panel" /\ keys'[s].cmd = "has" /\ keys'[s].p = provider
    BY <2>1, <1>2, <1>4 DEF Justified
  <2>3. \A j \in (s + 1)..Len(keys') : /\ keys'[j].by # "gone"
                                       /\ keys'[j].by = "panel" => keys'[j].p = provider
    BY <2>1, <1>2, <1>4 DEF Justified
  <2>4. ASSUME NEW j \in s..Len(keys), SaysYes(keys', panel.hasKey, j)
        PROVE  provider \in keychain' \/ ClearedSince(keys', j)
    <3>1. j <= i BY <2>4, <1>4, <1>6 DEF SaysYes, Executed
    <3>2. CASE j = i
      <4>1. ok /\ keys[i].cmd \in {"has", "set"} /\ keys[i].by = "panel"
        BY <3>2, <2>4, <1>0, <1>2, <1>4 DEF SaysYes
      <4>2. keys[i].p = provider BY <4>1, <3>2, <2>1, <1>0 DEF Justified
      <4> QED BY <4>1, <4>2, <1>1
    <3>3. CASE j < i
      <4>1. SaysYes(keys, panel.hasKey, j) BY <3>3, <2>4, <1>0, <1>4 DEF SaysYes
      <4>2. provider \in keychain \/ ClearedSince(keys, j) BY <4>1, <2>1 DEF Justified
      <4>3. ClearedSince(keys, j) => ClearedSince(keys', j) BY <1>2, <1>4 DEF ClearedSince, Executed
      <4>4. CASE provider \in keychain'
        BY <4>4
      <4>5. CASE provider \in keychain /\ provider \notin keychain'
        <5>1. ok /\ keys[i].cmd = "clear" /\ keys[i].p = provider BY <4>5, <1>1
        <5>2. keys[i].by = "panel" BY <5>1, <3>3, <2>1, <1>0 DEF Justified, KeyCalls, CallType
        <5>3. i \in (j + 1)..Len(keys') BY <3>3, <1>0, <1>4
        <5> QED BY <5>1, <5>2, <5>3, <1>0, <1>2, <1>4 DEF ClearedSince, Executed
      <4> QED BY <4>2, <4>3, <4>4, <4>5
    <3> QED BY <3>1, <3>2, <3>3
  <2> QED BY <2>1, <2>2, <2>3, <2>4, <1>4 DEF Trusted, Justified
<1> QED BY <1>4, <1>7, <1>8, <1>9 DEF KeysTyped

\* The calls of a panel that was closed stay in their order.
LEMMA OrphansAre ==
  /\ \A ks \in Seq(KeyCalls) : InTurn(ks) => Orphan(ks) \in Seq(KeyCalls) /\ InTurn(Orphan(ks))
  /\ \A sl \in Seq(SlowCalls) : Orphan(sl) \in Seq(SlowCalls)
<1> DEFINE gone(c) == IF c.by = "app" THEN c ELSE [c EXCEPT !.by = "gone"]
<1>1. \A c \in KeyCalls : gone(c) \in KeyCalls /\ gone(c).res = c.res BY DEF KeyCalls, CallType
<1>2. \A c \in SlowCalls : gone(c) \in SlowCalls BY DEF SlowCalls, CallType
<1>3. \A ks : Orphan(ks) = [i \in DOMAIN ks |-> gone(ks[i])] BY DEF Orphan
<1> HIDE DEF gone
<1>4. ASSUME NEW ks \in Seq(KeyCalls), InTurn(ks)
      PROVE  Orphan(ks) \in Seq(KeyCalls) /\ InTurn(Orphan(ks))
  <2>1. /\ Orphan(ks) \in Seq(KeyCalls) /\ Len(Orphan(ks)) = Len(ks)
        /\ \A i \in 1..Len(ks) : Orphan(ks)[i] = gone(ks[i]) /\ ks[i] \in KeyCalls
    BY <1>1, <1>3
  <2> QED BY <1>1, <1>4, <2>1 DEF InTurn, Executed
<1>5. ASSUME NEW sl \in Seq(SlowCalls) PROVE Orphan(sl) \in Seq(SlowCalls) BY <1>2, <1>3
<1> QED BY <1>4, <1>5

\* Nothing under way.
LEMMA EmptyIs == <<>> \in Seq(KeyCalls) /\ <<>> \in Seq(SlowCalls) /\ InTurn(<<>>)
BY DEF InTurn

\* The default provider requires no key.
LEMMA ProviderIs == Default \in Providers /\ Default \notin Cloud /\ Cloud \subseteq Providers
BY ProviderAssumption DEF Providers, Default

UrlType == [of : Providers, kind : {"default", "typed", "service"}]

\* The base URLs the code makes are of the provider they are made for.
LEMMA UrlIs ==
  ASSUME NEW p \in Providers
  PROVE  /\ \A k \in {"default", "typed", "service"} : Url(p, k) \in UrlType /\ Url(p, k).of = p
         /\ DefaultUrl(p) \in UrlType /\ DefaultUrl(p).of = p
         /\ \A b : Binding(b) \in UrlType /\ Binding(b).of = Default
         /\ p = Default => DefaultUrl(p) = Binding(seen)
<1>1. \A q \in Providers, k \in {"default", "typed", "service"} : Url(q, k) \in UrlType /\ Url(q, k).of = q
  BY DEF Url, UrlType
<1>2. \A b : Binding(b) \in UrlType /\ Binding(b).of = Default BY <1>1, ProviderIs DEF Binding
<1> QED BY <1>1, <1>2, ProviderIs DEF DefaultUrl, Providers

\* What the code sets of the panel leaves the rest of it.
LEMMA PanelIs ==
  ASSUME panel \in PanelType
  PROVE  /\ ClosedPanel \in PanelType /\ ~ClosedPanel.open /\ ~ClosedPanel.hasKey /\ ~ClosedPanel.isLoading
         /\ \A b \in BOOLEAN : /\ [panel EXCEPT !.isLoading = b] \in PanelType
                               /\ [panel EXCEPT !.isLoading = b].open = panel.open
                               /\ [panel EXCEPT !.isLoading = b].hasKey = panel.hasKey
         /\ \A b \in BOOLEAN : /\ [panel EXCEPT !.hasKey = b] \in PanelType
                               /\ [panel EXCEPT !.hasKey = b].open = panel.open
                               /\ [panel EXCEPT !.hasKey = b].hasKey = b
                               /\ [panel EXCEPT !.hasKey = b].isLoading = panel.isLoading
<1>1. ClosedPanel \in PanelType /\ ~ClosedPanel.open /\ ~ClosedPanel.hasKey /\ ~ClosedPanel.isLoading
  BY DEF ClosedPanel, PanelType
<1> QED BY <1>1 DEF PanelType

SettingsInv == KeysInv /\ UrlIsProviders

\* A sequence of one.
LEMMA OfOne == ASSUME NEW S, NEW q \in Seq(S), Len(q) = 1 PROVE q = <<q[1]>> /\ q[1] \in S
<1>1. q[1] \in S OBVIOUS
<1>2. <<q[1]>> \in Seq(S) /\ Len(<<q[1]>>) = 1 /\ <<q[1]>>[1] = q[1] BY <1>1
<1> DEFINE r == <<q[1]>>
<1>3. \A i \in 1..Len(q) : q[i] = r[i] BY <1>2
<1> HIDE DEF r
<1>4. q = r BY <1>2, <1>3, SeqEqual DEF r
<1> QED BY <1>1, <1>4 DEF r

\* Two checks, one after the other.
LEMMA TwiceAsked == ASSUME NEW S, NEW q \in Seq(S), NEW r \in Seq(S) PROVE q \o (r \o r) = (q \o r) \o r
BY ConcatAssociative

\* Nothing is added.
LEMMA NoneMore == ASSUME NEW S, NEW q \in Seq(S) PROVE q \o <<>> = q /\ <<>> \o q = q
BY ConcatEmptySeq

\* Calls that follow calls.
LEMMA JoinedAreSeqs ==
  ASSUME NEW S, NEW q \in Seq(S), NEW r \in Seq(S), NEW t \in Seq(S)
  PROVE  q \o r \in Seq(S) /\ q \o r \o t \in Seq(S)
OBVIOUS

\* Calls of q ask for the key of provider p, and none is executed.
Asks(q, p, by) ==
  /\ q \in Seq(KeyCalls)
  /\ \A i \in 1..Len(q) : q[i].res = "none" /\ q[i].by = by /\ q[i].p = p /\ q[i].cmd = "has"
  /\ p \in Cloud => Len(q) = 1

\* What checkApiKey asks.
LEMMA AsksLater ==
  ASSUME NEW p \in Providers, NEW by \in {"app", "panel"}, NEW then \in BOOLEAN
  PROVE  Asks(HasCall(p, by, then), p, by)
BY HasCallIs DEF Asks

\* The same, when no set-up waits for it.
LEMMA AsksNow ==
  ASSUME NEW p \in Providers
  PROVE  Asks(HasCall(p, "panel", FALSE), p, "panel") /\ Asks(HasCall(p, "app", FALSE), p, "app")
<1>1. PICK none \in BOOLEAN : none = FALSE OBVIOUS
<1>2. "panel" \in {"app", "panel"} /\ "app" \in {"app", "panel"} OBVIOUS
<1>3. Asks(HasCall(p, "panel", none), p, "panel") /\ Asks(HasCall(p, "app", none), p, "app")
  BY <1>2, AsksLater
<1> QED BY <1>1, <1>3, Zenon

\* The call of a button.
LEMMA ButtonIs ==
  ASSUME NEW p \in Cloud, NEW cmd \in KeyCmds
  PROVE  /\ Call(cmd, p, "panel", FALSE) \in KeyCalls /\ Call(cmd, p, "panel", FALSE).res = "none"
         /\ Call(cmd, p, "panel", FALSE).by = "panel" /\ Call(cmd, p, "panel", FALSE).p = p
<1>1. PICK none \in BOOLEAN : none = FALSE OBVIOUS
<1> DEFINE c == Call(cmd, p, "panel", none)
<1>2. p \in Providers /\ "panel" \in {"app", "panel", "gone"} BY ProviderIs
<1>3. c \in CallType(KeyCmds) /\ c.res = "none" /\ c.by = "panel" /\ c.p = p BY <1>2, CallHasType
<1> HIDE DEF c
<1>4. c \in KeyCalls BY <1>3 DEF KeyCalls
<1> QED BY <1>1, <1>3, <1>4, Zenon DEF c

\* What App asks of the runtime has its type.
LEMMA SlowNowAre ==
  ASSUME NEW p \in Providers
  PROVE  StatusCall(p, FALSE) \in Seq(SlowCalls) /\ Refresh(p, FALSE) \in Seq(SlowCalls)
<1>1. PICK none \in BOOLEAN : none = FALSE OBVIOUS
<1>2. StatusCall(p, none) \in Seq(SlowCalls) /\ Refresh(p, none) \in Seq(SlowCalls) BY SlowCallsAre
<1> QED BY <1>1, <1>2

\* setLlmSettings with another provider: the panel has asked for its key since.
LEMMA ProviderSet ==
  ASSUME SettingsInv, NEW p \in Providers, NEW ks \in Seq(KeyCalls), InTurn(ks),
         NEW sl \in Seq(SlowCalls), NEW asked \in Seq(KeyCalls), SetProvider(p, asked, ks, sl),
         p \in Cloud => asked = HasCall(p, "panel", FALSE) \o HasCall(p, "panel", FALSE),
         p \notin Cloud => asked = <<>>,
         UNCHANGED <<app, seen, signed, native, cleared>>, configured' \in BOOLEAN
  PROVE  SettingsInv'
<1> USE ProviderIs
<1> DEFINE h == HasCall(p, "panel", FALSE)
           a == HasCall(p, "app", FALSE)
           has == p \in Cloud /\ panel.hasKey
<1>9. Asks(h, p, "panel") /\ Asks(a, p, "app") BY AsksNow, Zenon
<1>2. /\ provider' = p /\ stored' = p /\ chosen' = p /\ url' = DefaultUrl(p)
      /\ panel' = [panel EXCEPT !.hasKey = has]
      /\ keys' = ks \o (IF panel.open THEN asked ELSE <<>>) \o a
      /\ slow' = sl \o StatusCall(p, FALSE) \o Refresh(p, FALSE)
  BY DEF SetProvider
<1>0. (p \in Cloud => asked = h \o h) /\ (p \notin Cloud => asked = <<>>) OBVIOUS
<1> HIDE DEF h, a
<1>1. /\ h \in Seq(KeyCalls) /\ a \in Seq(KeyCalls)
      /\ \A i \in 1..Len(h) : h[i].res = "none" /\ h[i].by = "panel" /\ h[i].p = p /\ h[i].cmd = "has"
      /\ \A i \in 1..Len(a) : a[i].res = "none" /\ a[i].by = "app" /\ a[i].p = p
      /\ p \in Cloud => Len(h) = 1
  BY <1>9 DEF Asks
<1>3. panel' \in PanelType /\ panel'.open = panel.open /\ panel'.hasKey = has
  <2>1. has \in BOOLEAN OBVIOUS
  <2>2. panel \in PanelType BY DEF SettingsInv, KeysInv, SettingsTyped
  <2> HIDE DEF has
  <2> QED BY <1>2, <2>1, <2>2, PanelIs
<1>4. SettingsTyped'
  <2>1. DefaultUrl(p) \in UrlType BY UrlIs
  <2> QED BY <1>2, <1>3, <2>1 DEF SettingsInv, KeysInv, SettingsTyped, native, UrlType
<1>5. SlowTyped'
  <2>1. StatusCall(p, FALSE) \in Seq(SlowCalls) /\ Refresh(p, FALSE) \in Seq(SlowCalls)
    BY SlowNowAre
  <2>2. sl \o StatusCall(p, FALSE) \o Refresh(p, FALSE) \in Seq(SlowCalls) BY <2>1, JoinedAreSeqs
  <2> HIDE DEF has
  <2> QED BY <1>2, <2>2 DEF SlowTyped
<1>6. UrlIsProviders' BY <1>2, UrlIs DEF UrlIsProviders, DefaultUrl
<1>7. CASE ~panel.open \/ p \notin Cloud
  <2>0. ks \o <<>> = ks BY NoneMore
  <2>1. keys' = ks \o a BY <1>2, <1>0, <1>7, <2>0
  <2>2. KeysTyped' /\ InTurn(keys)' BY <1>1, <2>1, AskedLater DEF KeysTyped
  <2>3. PanelTrusted' BY <1>2, <1>3, <1>7 DEF PanelTrusted
  <2> QED BY <1>4, <1>5, <1>6, <2>2, <2>3 DEF SettingsInv, KeysInv
<1>8. CASE panel.open /\ p \in Cloud
  <2> DEFINE ks1 == ks \o h
             ks2 == ks1 \o <<h[1]>>
  <2>1. h = <<h[1]>> /\ h[1] \in KeyCalls /\ 1 \in 1..Len(h)
    <3>1. h \in Seq(KeyCalls) /\ Len(h) = 1 BY <1>1, <1>8
    <3> QED BY <3>1, OfOne
  <2>0. \A i \in 1..Len(h) : h[i].res = "none" BY <1>1
  <2>2. ks1 \in Seq(KeyCalls) /\ InTurn(ks1) BY <1>1, <2>0, AskedLater
  <2>3. keys' = ks2 \o a
    <3>0. h \in Seq(KeyCalls) BY <1>1
    <3>1. ks \o (h \o h) = (ks \o h) \o h BY <3>0, TwiceAsked
    <3>2. keys' = (ks \o (h \o h)) \o a BY <1>0, <1>2, <1>8
    <3> HIDE DEF has
    <3>3. ks2 = (ks \o h) \o h BY <2>1, Zenon DEF ks1, ks2
    <3> QED BY <3>1, <3>2, <3>3, Zenon
  <2> HIDE DEF ks1, ks2
  <2>4. h[1].res = "none" /\ h[1].by = "panel" /\ h[1].p = p /\ h[1].cmd = "has" BY <1>1, <2>1
  <2>5. ks2 \in Seq(KeyCalls) /\ InTurn(ks2) /\ \A kc, k : Trusted(ks2, kc, p, k)
    BY <2>1, <2>2, <2>4, AskedNow DEF ks2
  <2>6. KeysTyped' /\ InTurn(keys)' BY <1>1, <2>3, <2>5, AskedLater DEF KeysTyped
  <2>7. PanelTrusted'
    <3>1. \A i \in 1..Len(a) : a[i].by # "gone" /\ (a[i].by = "panel" => a[i].p = p) BY <1>1
    <3>2. Trusted(keys', keychain', p, panel'.hasKey) BY <1>1, <2>3, <2>5, <3>1, AskedLater
    <3> QED BY <1>2, <3>2 DEF PanelTrusted
  <2> QED BY <1>4, <1>5, <1>6, <2>6, <2>7 DEF SettingsInv, KeysInv
<1> QED BY <1>7, <1>8

\* Neither the calls nor what the panel shows move.
LEMMA RestQuiet ==
  ASSUME SettingsInv, SettingsTyped', SlowTyped', UrlIsProviders', UNCHANGED <<keys, keychain, provider, panel>>
  PROVE  SettingsInv'
BY DEF SettingsInv, KeysInv, KeysTyped, PanelTrusted

\* Calls of App alone, or of the panel about its provider, are asked.
LEMMA MoreAsked ==
  ASSUME SettingsInv, SettingsTyped', SlowTyped', UrlIsProviders', UNCHANGED <<keychain, provider>>,
         panel'.open = panel.open, panel'.hasKey = panel.hasKey,
         NEW extra \in Seq(KeyCalls), keys' = keys \o extra,
         \A i \in 1..Len(extra) : /\ extra[i].res = "none" /\ extra[i].by # "gone"
                                  /\ extra[i].by = "panel" => extra[i].p = provider
  PROVE  SettingsInv'
<1>1. keys \in Seq(KeyCalls) /\ InTurn(keys) BY DEF SettingsInv, KeysInv, KeysTyped
<1>2. KeysTyped' /\ InTurn(keys)' BY <1>1, AskedLater DEF KeysTyped
<1>3. PanelTrusted'
  <2> SUFFICES ASSUME panel.open, provider \in Cloud
               PROVE  Trusted(keys', keychain, provider, panel.hasKey)
    BY DEF PanelTrusted
  <2>1. Trusted(keys, keychain, provider, panel.hasKey) BY DEF SettingsInv, KeysInv, PanelTrusted
  <2> QED BY <1>1, <2>1, AskedLater
<1> QED BY <1>2, <1>3 DEF SettingsInv, KeysInv

\* The first call is answered, and the panel shows what it may.
LEMMA FirstTaken ==
  ASSUME SettingsInv, SettingsTyped', SlowTyped', UNCHANGED <<app, seen, url, keychain, provider>>,
         panel'.open = panel.open, keys # <<>>, keys' = Tail(keys),
         keys[1].by = "panel" /\ keys[1].cmd = "has" => (panel'.hasKey => keys[1].res = "yes"),
         keys[1].by = "panel" /\ keys[1].cmd = "set" => (panel'.hasKey => panel.hasKey \/ keys[1].res = "yes"),
         keys[1].by = "panel" /\ keys[1].cmd = "clear" => ~panel'.hasKey,
         ~(keys[1].by = "panel" /\ keys[1].cmd \in {"has", "set", "clear"}) => (panel'.hasKey => panel.hasKey)
  PROVE  SettingsInv'
<1>1. keys \in Seq(KeyCalls) /\ InTurn(keys) BY DEF SettingsInv, KeysInv, KeysTyped
<1>2. KeysTyped' /\ InTurn(keys)' BY <1>1, AnsweredFirst DEF KeysTyped
<1>3. PanelTrusted'
  <2> SUFFICES ASSUME panel.open, provider \in Cloud
               PROVE  Trusted(keys', keychain, provider, panel'.hasKey)
    BY DEF PanelTrusted
  <2>1. Trusted(keys, keychain, provider, panel.hasKey) BY DEF SettingsInv, KeysInv, PanelTrusted
  <2> QED BY <1>1, <2>1, AnsweredFirst
<1>4. UrlIsProviders' BY DEF SettingsInv, UrlIsProviders, Binding
<1> QED BY <1>2, <1>3, <1>4 DEF SettingsInv, KeysInv

\* What an invariant state is, for the steps below.
LEMMA StateIs ==
  ASSUME SettingsInv
  PROVE  /\ keys \in Seq(KeyCalls) /\ slow \in Seq(SlowCalls) /\ InTurn(keys) /\ panel \in PanelType
         /\ \A i \in DOMAIN slow : slow[i] \in SlowCalls
         /\ \A i \in DOMAIN keys : keys[i] \in KeyCalls
         /\ provider \in Providers
<1>1. keys \in Seq(KeyCalls) /\ slow \in Seq(SlowCalls) /\ InTurn(keys) /\ panel \in PanelType /\ provider \in Providers
  BY DEF SettingsInv, KeysInv, KeysTyped, SlowTyped, SettingsTyped
<1> QED BY <1>1

\* The app starts and quits, the panel opens and closes, its URL is edited, the runtime
\* starts and stops.
LEMMA OpensKeep ==
  ASSUME SettingsInv, Start \/ Quit \/ OpenPanel \/ ClosePanel \/ EditUrl \/ ServiceChanges PROVE SettingsInv'
<1> USE ProviderIs
<1>0. /\ keys \in Seq(KeyCalls) /\ slow \in Seq(SlowCalls) /\ InTurn(keys) /\ panel \in PanelType
      /\ provider \in Providers /\ ClosedPanel \in PanelType /\ ~ClosedPanel.open
  BY StateIs, PanelIs
<1>1. CASE Start
  <2>1. StatusCall(Default, FALSE) \o Refresh(Default, FALSE) \in Seq(SlowCalls) BY SlowNowAre, JoinedAreSeqs
  <2>2. Url(Default, "default") \in UrlType /\ Url(Default, "default").of = Default
    BY UrlIs
  <2>3. SettingsTyped' BY <1>1, <2>2 DEF Start, SettingsInv, KeysInv, SettingsTyped, UrlType, native
  <2>4. (KeysTyped /\ SlowTyped /\ InTurn(keys))' BY <1>1, <2>1, EmptyIs DEF Start, KeysTyped, SlowTyped
  <2>5. PanelTrusted' BY <1>1 DEF Start, PanelTrusted
  <2>6. UrlIsProviders' BY <1>1, <2>2 DEF Start, UrlIsProviders, Binding
  <2> QED BY <2>3, <2>4, <2>5, <2>6 DEF SettingsInv, KeysInv
<1>2. CASE Quit
  <2>1. SettingsTyped' BY <1>0, <1>2 DEF Quit, SettingsInv, KeysInv, SettingsTyped, native, llmSettings
  <2>2. (KeysTyped /\ SlowTyped /\ InTurn(keys))' BY <1>2, EmptyIs DEF Quit, KeysTyped, SlowTyped
  <2>3. (PanelTrusted /\ UrlIsProviders)' BY <1>0, <1>2 DEF Quit, PanelTrusted, UrlIsProviders
  <2> QED BY <2>1, <2>2, <2>3 DEF SettingsInv, KeysInv
<1>3. CASE OpenPanel
  <2> DEFINE h == HasCall(provider, "panel", FALSE)
             e == [ClosedPanel EXCEPT !.open = TRUE]
  <2>1. e \in PanelType BY <1>0 DEF PanelType
  <2>2. panel' = e /\ keys' = keys \o h /\ app = "running" BY <1>3 DEF OpenPanel
  <2>0. Asks(h, provider, "panel") BY <1>0, AsksNow, Zenon
  <2> HIDE DEF h, e
  <2>3. /\ h \in Seq(KeyCalls)
        /\ \A i \in 1..Len(h) : h[i].res = "none" /\ h[i].by = "panel" /\ h[i].p = provider /\ h[i].cmd = "has"
        /\ provider \in Cloud => Len(h) = 1
    BY <2>0 DEF Asks
  <2>4. SettingsTyped' BY <1>3, <2>1, <2>2 DEF OpenPanel, SettingsInv, KeysInv, SettingsTyped, native, llmSettings
  <2>5. SlowTyped' /\ UrlIsProviders'
    BY <1>0, <1>3 DEF OpenPanel, SettingsInv, SlowTyped, UrlIsProviders, llmSettings, Binding
  <2>6. KeysTyped' /\ InTurn(keys)'
    <3>1. \A i \in 1..Len(h) : h[i].res = "none" BY <2>3
    <3> QED BY <1>0, <2>2, <2>3, <3>1, AskedLater DEF KeysTyped
  <2>7. PanelTrusted'
    <3> SUFFICES ASSUME provider \in Cloud PROVE Trusted(keys', keychain, provider, panel'.hasKey)
      BY <1>3 DEF PanelTrusted, OpenPanel, llmSettings, native
    <3>1. h = <<h[1]>> /\ h[1] \in KeyCalls BY <2>3, OfOne
    <3>2. h[1].res = "none" /\ h[1].by = "panel" /\ h[1].p = provider /\ h[1].cmd = "has" BY <2>3
    <3>3. \A kc, has : Trusted(keys \o <<h[1]>>, kc, provider, has) BY <1>0, <3>1, <3>2, AskedNow
    <3> QED BY <2>2, <3>1, <3>3
  <2> QED BY <2>4, <2>5, <2>6, <2>7 DEF SettingsInv, KeysInv
<1>4. CASE ClosePanel
  <2>1. SettingsTyped' BY <1>0, <1>4 DEF ClosePanel, SettingsInv, KeysInv, SettingsTyped, native, llmSettings
  <2>2. (KeysTyped /\ SlowTyped /\ InTurn(keys))' BY <1>0, <1>4, OrphansAre DEF ClosePanel, KeysTyped, SlowTyped
  <2>3. (PanelTrusted /\ UrlIsProviders)'
    BY <1>0, <1>4 DEF ClosePanel, PanelTrusted, SettingsInv, UrlIsProviders, llmSettings, Binding
  <2> QED BY <2>1, <2>2, <2>3 DEF SettingsInv, KeysInv
<1>5. CASE EditUrl
  <2>1. Url(provider, "typed") \in UrlType /\ Url(provider, "typed").of = provider BY <1>0, UrlIs
  <2>2. SettingsTyped' BY <1>5, <2>1 DEF EditUrl, SettingsInv, KeysInv, SettingsTyped, native, UrlType
  <2>3. SlowTyped' /\ UrlIsProviders' BY <1>0, <1>5, <2>1 DEF EditUrl, SlowTyped, UrlIsProviders
  <2> QED BY <1>5, <2>2, <2>3, RestQuiet DEF EditUrl, native
<1>6. CASE ServiceChanges
  <2>1. SettingsTyped' BY <1>6 DEF ServiceChanges, SettingsInv, KeysInv, SettingsTyped, llmSettings
  <2>2. SlowTyped' /\ UrlIsProviders'
    BY <1>0, <1>6 DEF ServiceChanges, SettingsInv, SlowTyped, UrlIsProviders, llmSettings, Binding
  <2> QED BY <1>6, <2>1, <2>2, RestQuiet DEF ServiceChanges, llmSettings
<1> QED BY <1>1, <1>2, <1>3, <1>4, <1>5, <1>6

\* A button is pressed.
LEMMA ButtonsKeep ==
  ASSUME SettingsInv, HandleSaveKey \/ HandleClearKey \/ TestKey \/ TestFree \/ StartFreeAiSetup
  PROVE  SettingsInv'
<1> USE ProviderIs
<1>0. /\ keys \in Seq(KeyCalls) /\ slow \in Seq(SlowCalls) /\ InTurn(keys) /\ panel \in PanelType
      /\ provider \in Providers
  BY StateIs
<1>a. TRUE \in BOOLEAN /\ [panel EXCEPT !.isLoading = TRUE] \in PanelType
      /\ [panel EXCEPT !.isLoading = TRUE].open = panel.open
      /\ [panel EXCEPT !.isLoading = TRUE].hasKey = panel.hasKey
  BY <1>0, PanelIs, Zenon
<1>1. CASE HandleSaveKey \/ HandleClearKey \/ TestKey
  <2>1. PICK cmd \in KeyCmds : provider \in Cloud /\ Button(cmd)
    BY <1>1 DEF HandleSaveKey, HandleClearKey, TestKey, KeyCmds
  <2> DEFINE c == Call(cmd, provider, "panel", FALSE)
  <2>2. c \in KeyCalls /\ c.res = "none" /\ c.by = "panel" /\ c.p = provider
    BY <2>1, ButtonIs, Zenon
  <2>4. keys' = Append(keys, c) /\ panel' = [panel EXCEPT !.isLoading = TRUE] BY <2>1 DEF Button
  <2> HIDE DEF c
  <2>5. keys' = keys \o <<c>> /\ <<c>> \in Seq(KeyCalls) /\ Len(<<c>>) = 1 /\ <<c>>[1] = c
    BY <1>0, <2>2, <2>4, AppendIsConcat
  <2>6. SettingsTyped' BY <1>a, <2>1, <2>4 DEF Button, SettingsInv, KeysInv, SettingsTyped, native, llmSettings
  <2>7. SlowTyped' /\ UrlIsProviders'
    BY <1>0, <2>1 DEF Button, SettingsInv, SlowTyped, UrlIsProviders, llmSettings, Binding
  <2>8. panel'.open = panel.open /\ panel'.hasKey = panel.hasKey BY <1>a, <2>4
  <2> DEFINE extra == <<c>>
  <2>9. \A i \in 1..Len(extra) : /\ extra[i].res = "none" /\ extra[i].by # "gone"
                                 /\ extra[i].by = "panel" => extra[i].p = provider
    BY <2>2, <2>5
  <2>10. UNCHANGED <<keychain, provider>> BY <2>1 DEF Button, native, llmSettings
  <2> QED BY <2>5, <2>6, <2>7, <2>8, <2>9, <2>10, MoreAsked
<1>2. CASE TestFree \/ StartFreeAiSetup
  <2>1. PICK c \in SlowCalls : slow' = Append(slow, c)
    <3>1. \A t \in BOOLEAN, cmd \in SlowCmds, by \in {"app", "panel"} : Call(cmd, provider, by, t) \in SlowCalls
      BY <1>0, SlowCallsAre
    <3>2. FALSE \in BOOLEAN /\ TRUE \in BOOLEAN /\ "propose" \in SlowCmds /\ "refresh" \in SlowCmds
          /\ "app" \in {"app", "panel"} /\ "panel" \in {"app", "panel"}
      BY DEF SlowCmds
    <3>3. CASE TestFree BY <3>1, <3>2, <3>3, Zenon DEF TestFree
    <3>4. CASE StartFreeAiSetup BY <3>1, <3>2, <3>4, Zenon DEF StartFreeAiSetup
    <3> QED BY <1>2, <3>3, <3>4
  <2>2. SlowTyped' BY <1>0, <2>1 DEF SlowTyped
  <2>3. panel' \in PanelType /\ panel'.open = panel.open /\ panel'.hasKey = panel.hasKey
    <3>1. CASE TestFree BY <1>a, <3>1 DEF TestFree
    <3>2. CASE StartFreeAiSetup BY <1>0, <3>2 DEF StartFreeAiSetup
    <3> QED BY <1>2, <3>1, <3>2
  <2>4. SettingsTyped'
    BY <1>2, <2>3 DEF TestFree, StartFreeAiSetup, SettingsInv, KeysInv, SettingsTyped, native, llmSettings
  <2>5. UrlIsProviders' /\ UNCHANGED <<keys, keychain, provider>>
    <3>1. CASE TestFree BY <3>1 DEF TestFree, SettingsInv, UrlIsProviders, native, llmSettings, Binding
    <3>2. CASE StartFreeAiSetup BY <3>2 DEF StartFreeAiSetup, SettingsInv, UrlIsProviders, native, llmSettings, Binding
    <3> QED BY <1>2, <3>1, <3>2
  <2>6. PanelTrusted' BY <2>3, <2>5 DEF SettingsInv, KeysInv, PanelTrusted
  <2> QED BY <2>2, <2>4, <2>5, <2>6 DEF SettingsInv, KeysInv, KeysTyped
<1> QED BY <1>1, <1>2

\* Another provider is chosen in the panel.
LEMMA ChooseKeeps == ASSUME SettingsInv, NEW p \in Providers, ChooseProvider(p) PROVE SettingsInv'
<1> DEFINE h == HasCall(p, "panel", FALSE)
           asked == h \o h
<1>1. keys \in Seq(KeyCalls) /\ slow \in Seq(SlowCalls) /\ InTurn(keys) BY StateIs
<1>2. SetProvider(p, asked, keys, slow) BY DEF ChooseProvider
<1>3. Asks(h, p, "panel") BY AsksNow, Zenon
<1>4. p \notin Cloud => h = <<>> BY DEF HasCall
<1>5. p \in Cloud => asked = h \o h OBVIOUS
<1>6. UNCHANGED <<app, seen, signed, native, cleared>> /\ configured' \in BOOLEAN
  BY DEF ChooseProvider, SettingsInv, KeysInv, SettingsTyped
<1>7. p \in Cloud => asked = HasCall(p, "panel", FALSE) \o HasCall(p, "panel", FALSE) OBVIOUS
<1> HIDE DEF h
<1>8. asked \in Seq(KeyCalls) /\ (p \notin Cloud => asked = <<>>) BY <1>3, <1>4, NoneMore, EmptyIs DEF Asks
<1> HIDE DEF asked
<1> QED BY <1>1, <1>2, <1>6, <1>7, <1>8, ProviderSet

\* A call that is taken out of its place leaves calls.
LEMMA RemovedIsSeq ==
  ASSUME NEW S, NEW q \in Seq(S), NEW i \in DOMAIN q
  PROVE  RemoveAt(q, i) \in Seq(S)
<1>1. SubSeq(q, 1, i - 1) \in Seq(S) /\ SubSeq(q, i + 1, Len(q)) \in Seq(S) OBVIOUS
<1> QED BY <1>1 DEF RemoveAt

\* A check is answered: the provider may become the default one.
LEMMA CheckedKeeps ==
  ASSUME SettingsInv, NEW c, NEW ks \in Seq(KeyCalls), InTurn(ks), NEW sl \in Seq(SlowCalls),
         Checked(c, ks, sl),
         \A kc, p, has : Trusted(keys, kc, p, has) => Trusted(ks, kc, p, has)
  PROVE  SettingsInv'
<1> USE ProviderIs
<1>1. UNCHANGED <<app, seen, signed, native, cleared>> /\ configured' \in BOOLEAN BY DEF Checked
<1>2. CASE c.then /\ provider # Default
  <2>1. SetProvider(Default, <<>>, ks, sl) BY <1>2 DEF Checked
  <2> DEFINE asked == <<>>
  <2>2. asked \in Seq(KeyCalls) /\ asked = <<>> BY EmptyIs
  <2>3. SetProvider(Default, asked, ks, sl) BY <2>1
  <2>4. Default \in Providers /\ Default \notin Cloud OBVIOUS
  <2> HIDE DEF asked
  <2> QED BY <1>1, <2>2, <2>3, <2>4, ProviderSet
<1>3. CASE ~(c.then /\ provider # Default)
  <2>1. keys' = ks /\ slow' = sl /\ UNCHANGED <<llmSettings, panel>> BY <1>3 DEF Checked
  <2>2. SettingsTyped' BY <1>1, <2>1 DEF SettingsInv, KeysInv, SettingsTyped, llmSettings, native
  <2>3. (KeysTyped /\ SlowTyped)' /\ InTurn(keys)' BY <2>1 DEF KeysTyped, SlowTyped
  <2>4. PanelTrusted' BY <1>1, <2>1 DEF SettingsInv, KeysInv, PanelTrusted, llmSettings, native
  <2>5. UrlIsProviders' BY <1>1, <2>1 DEF SettingsInv, UrlIsProviders, llmSettings, Binding
  <2> QED BY <2>2, <2>3, <2>4, <2>5 DEF SettingsInv, KeysInv
<1> QED BY <1>2, <1>3

\* The first call on keys is answered.
LEMMA KeyAnswersKeep ==
  ASSUME SettingsInv, keys # <<>>,
         LET c == keys[1] IN \/ CheckAnswered(c) \/ SaveAnswered(c) \/ ClearAnswered(c)
                             \/ TestAnswered(c) \/ GoneAnswered(c) \/ HasAnswered(c)
  PROVE  SettingsInv'
<1> DEFINE c == keys[1]
<1>0. /\ keys \in Seq(KeyCalls) /\ slow \in Seq(SlowCalls) /\ InTurn(keys) /\ panel \in PanelType
      /\ c \in KeyCalls
  BY StateIs
<1>a. /\ c.p \in Cloud /\ (c.by = "app" => c.cmd = "has") BY <1>0 DEF KeyCalls
<1>b. \A b \in BOOLEAN, d \in BOOLEAN :
        LET e == [panel EXCEPT !.hasKey = b, !.isLoading = d] IN
        e \in PanelType /\ e.open = panel.open /\ e.hasKey = b
  BY <1>0 DEF PanelType
<1>d. panel.hasKey \in BOOLEAN BY <1>0 DEF PanelType
<1> HIDE DEF c
<1>1. CASE CheckAnswered(c)
  <2> DEFINE b == c.res = "yes"
  <2>1. b \in BOOLEAN /\ panel' = [panel EXCEPT !.hasKey = b] BY <1>1 DEF CheckAnswered
  <2> HIDE DEF b
  <2>2. panel' \in PanelType /\ panel'.open = panel.open /\ panel'.hasKey = b BY <1>0, <2>1, PanelIs
  <2>3. SettingsTyped' BY <1>1, <2>2 DEF CheckAnswered, SettingsInv, KeysInv, SettingsTyped, native, llmSettings
  <2>4. SlowTyped' BY <1>0, <1>1 DEF CheckAnswered, SlowTyped
  <2>5. UNCHANGED <<app, seen, url, keychain, provider>> /\ keys' = Tail(keys) /\ c.by = "panel" /\ c.cmd = "has"
    BY <1>1 DEF CheckAnswered, native, llmSettings
  <2>6. panel'.hasKey => c.res = "yes" BY <2>2 DEF b
  <2> QED BY <2>2, <2>3, <2>4, <2>5, <2>6, FirstTaken DEF c
<1>2. CASE SaveAnswered(c)
  <2> DEFINE b == panel.hasKey \/ c.res = "yes"
             none == FALSE
  <2>1. b \in BOOLEAN /\ none \in BOOLEAN /\ panel' = [panel EXCEPT !.hasKey = b, !.isLoading = none]
    BY <1>2 DEF SaveAnswered
  <2> HIDE DEF b, none
  <2>2. panel' \in PanelType /\ panel'.open = panel.open /\ panel'.hasKey = b BY <1>b, <2>1
  <2>3. cleared' \subseteq Cloud BY <1>2 DEF SaveAnswered, SettingsInv, KeysInv, SettingsTyped
  <2>4. SettingsTyped' BY <1>2, <2>2, <2>3 DEF SaveAnswered, SettingsInv, KeysInv, SettingsTyped, native, llmSettings
  <2>5. SlowTyped' BY <1>0, <1>2 DEF SaveAnswered, SlowTyped
  <2>6. UNCHANGED <<app, seen, url, keychain, provider>> /\ keys' = Tail(keys) /\ c.by = "panel" /\ c.cmd = "set"
    BY <1>2 DEF SaveAnswered, native, llmSettings
  <2>7. panel'.hasKey => panel.hasKey \/ c.res = "yes" BY <2>2 DEF b
  <2> QED BY <2>2, <2>4, <2>5, <2>6, <2>7, FirstTaken DEF c
<1>3. CASE ClearAnswered(c)
  <2> DEFINE none == FALSE
  <2>1. none \in BOOLEAN /\ panel' = [panel EXCEPT !.hasKey = none, !.isLoading = none] /\ ~none
    BY <1>3 DEF ClearAnswered
  <2> HIDE DEF none
  <2>2. panel' \in PanelType /\ panel'.open = panel.open /\ panel'.hasKey = none BY <1>b, <2>1
  <2>3. cleared' \subseteq Cloud BY <1>a, <1>3 DEF ClearAnswered, SettingsInv, KeysInv, SettingsTyped
  <2>4. SettingsTyped' BY <1>3, <2>2, <2>3 DEF ClearAnswered, SettingsInv, KeysInv, SettingsTyped, native, llmSettings
  <2>5. SlowTyped' BY <1>0, <1>3 DEF ClearAnswered, SlowTyped
  <2>6. UNCHANGED <<app, seen, url, keychain, provider>> /\ keys' = Tail(keys) /\ c.by = "panel" /\ c.cmd = "clear"
    BY <1>3 DEF ClearAnswered, native, llmSettings
  <2>7. ~panel'.hasKey BY <2>1, <2>2
  <2> QED BY <2>2, <2>4, <2>5, <2>6, <2>7, FirstTaken DEF c
<1>4. CASE TestAnswered(c)
  <2>1. panel' \in PanelType /\ panel'.open = panel.open /\ panel'.hasKey = panel.hasKey
    <3> DEFINE none == FALSE
    <3>1. panel' = panel \/ panel' = [panel EXCEPT !.isLoading = none] BY <1>4 DEF TestAnswered
    <3>2. none \in BOOLEAN OBVIOUS
    <3> HIDE DEF none
    <3> QED BY <1>0, <3>1, <3>2, PanelIs
  <2>2. SlowTyped'
    <3> DEFINE one == Call("propose", c.p, "panel", FALSE)
    <3>1. slow' = Append(slow, one) \/ slow' = slow BY <1>4 DEF TestAnswered
    <3>2. one \in SlowCalls BY <1>a, ProviderIs DEF Call, SlowCalls, SlowCmds, CallType
    <3> HIDE DEF one
    <3> QED BY <1>0, <3>1, <3>2 DEF SlowTyped
  <2>3. SettingsTyped' BY <1>4, <2>1 DEF TestAnswered, SettingsInv, KeysInv, SettingsTyped, native, llmSettings
  <2>4. UNCHANGED <<app, seen, url, keychain, provider>> /\ keys' = Tail(keys) /\ c.cmd = "test"
    BY <1>4 DEF TestAnswered, native, llmSettings
  <2> QED BY <2>1, <2>2, <2>3, <2>4, FirstTaken DEF c
<1>5. CASE GoneAnswered(c)
  <2>1. SettingsTyped' /\ SlowTyped'
    BY <1>0, <1>5 DEF GoneAnswered, SettingsInv, KeysInv, SettingsTyped, SlowTyped, native, llmSettings
  <2>2. UNCHANGED <<app, seen, url, keychain, provider, panel>> /\ keys' = Tail(keys) /\ c.by = "gone"
    BY <1>5 DEF GoneAnswered, native, llmSettings
  <2> QED BY <2>1, <2>2, FirstTaken DEF c
<1>6. CASE HasAnswered(c)
  <2>1. Tail(keys) \in Seq(KeyCalls) /\ InTurn(Tail(keys)) BY <1>0, AnsweredFirst
  <2>2. Checked(c, Tail(keys), slow) /\ c.by = "app" BY <1>6 DEF HasAnswered
  <2>3. \A kc, p, has : Trusted(keys, kc, p, has) => Trusted(Tail(keys), kc, p, has)
    BY <1>0, <2>2, AnsweredFirst DEF c
  <2> QED BY <1>0, <2>1, <2>2, <2>3, CheckedKeeps
<1> QED BY <1>1, <1>2, <1>3, <1>4, <1>5, <1>6 DEF c

\* A call on the runtime is executed or answered, in any order.
LEMMA SlowAnswersKeep ==
  ASSUME SettingsInv, NEW i \in DOMAIN slow,
         ReadStatus(i) \/ StatusAnswered(i) \/ RefreshAnswered(i) \/ ProposeAnswered(i)
  PROVE  SettingsInv'
<1> USE ProviderIs
<1>0. /\ keys \in Seq(KeyCalls) /\ slow \in Seq(SlowCalls) /\ InTurn(keys) /\ panel \in PanelType
      /\ slow[i] \in SlowCalls /\ provider \in Providers /\ RemoveAt(slow, i) \in Seq(SlowCalls)
  BY StateIs, RemovedIsSeq
<1>a. slow[i].p \in Providers /\ slow[i].then \in BOOLEAN BY <1>0 DEF SlowCalls, CallType
<1>1. CASE ReadStatus(i)
  <2>1. PICK r \in {"yes", "no"} : slow' = [slow EXCEPT ![i].res = r] BY <1>1 DEF ReadStatus
  <2> DEFINE e == [slow[i] EXCEPT !.res = r]
  <2>2. e \in SlowCalls BY <1>0 DEF SlowCalls, CallType
  <2>3. slow' = [slow EXCEPT ![i] = e] BY <2>1
  <2> HIDE DEF e
  <2>4. SlowTyped' BY <1>0, <2>2, <2>3 DEF SlowTyped
  <2>5. SettingsTyped' BY <1>1 DEF ReadStatus, SettingsInv, KeysInv, SettingsTyped, native, llmSettings
  <2>6. UrlIsProviders' BY <1>1 DEF ReadStatus, SettingsInv, UrlIsProviders, llmSettings, Binding
  <2>7. UNCHANGED <<keys, keychain, provider, panel>> BY <1>1 DEF ReadStatus, native, llmSettings
  <2> QED BY <2>4, <2>5, <2>6, <2>7, RestQuiet
<1>2. CASE StatusAnswered(i)
  <2>1. Checked(slow[i], keys, RemoveAt(slow, i)) BY <1>2 DEF StatusAnswered
  <2> QED BY <1>0, <2>1, CheckedKeeps
<1>3. CASE RefreshAnswered(i)
  <2> DEFINE known == slow[i].res = "yes"
             p == slow[i].p
             t == slow[i].then
             again == known # seen
             h1 == HasCall(p, "app", t)
             h2 == IF again THEN HasCall(provider, "app", FALSE) ELSE <<>>
             s1 == StatusCall(p, t)
             s2 == IF again THEN StatusCall(provider, FALSE) ELSE <<>>
             extra == h1 \o h2
  <2>1. /\ seen' = known /\ known \in BOOLEAN
        /\ url' = IF provider = Default THEN Binding(known) ELSE url
        /\ keys' = keys \o h1 \o h2
        /\ slow' = RemoveAt(slow, i) \o s1 \o s2
        /\ UNCHANGED <<app, stored, provider, chosen, configured, signed, panel, native, cleared>>
    BY <1>3 DEF RefreshAnswered
  <2>2. Asks(h1, p, "app")
    <3>1. "app" \in {"app", "panel"} OBVIOUS
    <3> QED BY <1>a, <3>1, AsksLater
  <2>3. h2 = <<>> \/ Asks(h2, provider, "app")
    <3>1. Asks(HasCall(provider, "app", FALSE), provider, "app") BY <1>0, AsksNow, Zenon
    <3> QED BY <3>1, Zenon
  <2>4. s1 \in Seq(SlowCalls) BY <1>a, SlowCallsAre
  <2>5. s2 \in Seq(SlowCalls)
    <3>1. StatusCall(provider, FALSE) \in Seq(SlowCalls) BY <1>0, SlowNowAre, Zenon
    <3> QED BY <3>1, EmptyIs, Zenon
  <2>6. Binding(known) \in UrlType /\ Binding(known).of = Default BY <1>0, UrlIs
  <2> HIDE DEF h1, h2, s1, s2, known, again
  <2>7. /\ h1 \in Seq(KeyCalls) /\ h2 \in Seq(KeyCalls)
        /\ \A k \in 1..Len(h1) : h1[k].res = "none" /\ h1[k].by = "app"
        /\ \A k \in 1..Len(h2) : h2[k].res = "none" /\ h2[k].by = "app"
    <3>1. h1 \in Seq(KeyCalls) /\ \A k \in 1..Len(h1) : h1[k].res = "none" /\ h1[k].by = "app"
      BY <2>2 DEF Asks
    <3>2. CASE Asks(h2, provider, "app") BY <3>1, <3>2 DEF Asks
    <3>3. CASE h2 = <<>>
      <4>1. h2 \in Seq(KeyCalls) /\ Len(h2) = 0 BY <3>3, EmptyIs
      <4>2. \A k \in 1..Len(h2) : h2[k].res = "none" /\ h2[k].by = "app" BY <4>1
      <4> QED BY <3>1, <4>1, <4>2
    <3> QED BY <2>3, <3>2, <3>3
  <2>8. extra \in Seq(KeyCalls) /\ \A k \in 1..Len(extra) : extra[k].res = "none" /\ extra[k].by = "app"
    <3>1. /\ Len(extra) = Len(h1) + Len(h2) /\ Len(h1) \in Nat /\ Len(h2) \in Nat /\ extra \in Seq(KeyCalls)
          /\ \A k \in 1..Len(extra) : extra[k] = IF k <= Len(h1) THEN h1[k] ELSE h2[k - Len(h1)]
      BY <2>7
    <3> HIDE DEF extra
    <3>2. ASSUME NEW k \in 1..Len(extra) PROVE extra[k].res = "none" /\ extra[k].by = "app"
      <4>1. CASE k <= Len(h1) BY <4>1, <3>1, <2>7
      <4>2. CASE ~(k <= Len(h1))
        <5>1. k - Len(h1) \in 1..Len(h2) /\ extra[k] = h2[k - Len(h1)] BY <4>2, <3>1
        <5> QED BY <5>1, <2>7
      <4> QED BY <4>1, <4>2
    <3> QED BY <3>1, <3>2
  <2>9. keys' = keys \o extra BY <1>0, <2>1, <2>7, ConcatAssociative
  <2> HIDE DEF extra
  <2>10. SlowTyped'
    <3>1. RemoveAt(slow, i) \o s1 \o s2 \in Seq(SlowCalls) BY <1>0, <2>4, <2>5, JoinedAreSeqs
    <3> QED BY <2>1, <3>1 DEF SlowTyped
  <2>11. SettingsTyped' BY <2>1, <2>6 DEF SettingsInv, KeysInv, SettingsTyped, native, UrlType
  <2>12. UrlIsProviders' BY <2>1, <2>6 DEF SettingsInv, UrlIsProviders, Binding
  <2>13. UNCHANGED <<keychain, provider>> /\ panel' = panel BY <2>1 DEF native
  <2> QED BY <2>8, <2>9, <2>10, <2>11, <2>12, <2>13, MoreAsked
<1>4. CASE ProposeAnswered(i)
  <2>1. panel' \in PanelType /\ panel'.open = panel.open /\ panel'.hasKey = panel.hasKey
    <3> DEFINE none == FALSE
    <3>1. panel' = panel \/ panel' = [panel EXCEPT !.isLoading = none] BY <1>4 DEF ProposeAnswered
    <3>2. none \in BOOLEAN OBVIOUS
    <3> HIDE DEF none
    <3> QED BY <1>0, <3>1, <3>2, PanelIs
  <2>2. SlowTyped' BY <1>0, <1>4 DEF ProposeAnswered, SlowTyped
  <2>3. SettingsTyped' BY <1>4, <2>1 DEF ProposeAnswered, SettingsInv, KeysInv, SettingsTyped, native, llmSettings
  <2>4. UrlIsProviders' /\ UNCHANGED <<keys, keychain, provider>>
    BY <1>4 DEF ProposeAnswered, SettingsInv, UrlIsProviders, native, llmSettings, Binding
  <2>5. PanelTrusted' BY <2>1, <2>4 DEF SettingsInv, KeysInv, PanelTrusted
  <2> QED BY <2>2, <2>3, <2>4, <2>5 DEF SettingsInv, KeysInv, KeysTyped
<1> QED BY <1>1, <1>2, <1>3, <1>4

\* Every step keeps the invariant.
LEMMA SettingsStep == SettingsInv /\ [SettingsNext]_settingsVars => SettingsInv'
<1> SUFFICES ASSUME SettingsInv, [SettingsNext]_settingsVars PROVE SettingsInv' OBVIOUS
<1>1. CASE UNCHANGED settingsVars
  BY <1>1 DEF SettingsInv, KeysInv, SettingsTyped, KeysTyped, SlowTyped, InTurn, PanelTrusted,
              UrlIsProviders, Binding, settingsVars, llmSettings, native
<1>2. CASE \E i \in DOMAIN keys : ExecuteKey(i)
  <2>1. PICK i \in DOMAIN keys : ExecuteKey(i) BY <1>2
  <2>2. KeysTyped' /\ InTurn(keys)' /\ PanelTrusted' /\ keychain' \subseteq Cloud
    BY <2>1, ExecutedNow DEF SettingsInv
  <2>3. SettingsTyped' /\ SlowTyped' /\ UrlIsProviders'
    BY <2>1, <2>2 DEF ExecuteKey, SettingsInv, KeysInv, SettingsTyped, SlowTyped, UrlIsProviders,
                      llmSettings, Binding
  <2> QED BY <2>2, <2>3 DEF SettingsInv, KeysInv
<1>3. CASE Start \/ Quit \/ OpenPanel \/ ClosePanel \/ EditUrl \/ ServiceChanges BY <1>3, OpensKeep
<1>4. CASE \E p \in Providers : ChooseProvider(p) BY <1>4, ChooseKeeps
<1>5. CASE HandleSaveKey \/ HandleClearKey \/ TestKey \/ TestFree \/ StartFreeAiSetup BY <1>5, ButtonsKeep
<1>6. CASE \E i \in DOMAIN keys :
             i = 1 /\ \/ CheckAnswered(keys[i]) \/ SaveAnswered(keys[i]) \/ ClearAnswered(keys[i])
                      \/ TestAnswered(keys[i]) \/ GoneAnswered(keys[i]) \/ HasAnswered(keys[i])
  <2>1. keys # <<>> BY <1>6
  <2> QED BY <1>6, <2>1, KeyAnswersKeep
<1>7. CASE \E i \in DOMAIN slow :
             ReadStatus(i) \/ StatusAnswered(i) \/ RefreshAnswered(i) \/ ProposeAnswered(i)
  BY <1>7, SlowAnswersKeep
<1> QED BY <1>1, <1>2, <1>3, <1>4, <1>5, <1>6, <1>7 DEF SettingsNext

\* The inductive invariant of the settings.
THEOREM SettingsInvariance == SettingsSpec => []SettingsInv
<1>1. SettingsInit => SettingsInv
  <2> SUFFICES ASSUME SettingsInit PROVE SettingsInv OBVIOUS
  <2> USE ProviderIs
  <2>1. ClosedPanel \in PanelType /\ ~ClosedPanel.open BY DEF ClosedPanel, PanelType
  <2>2. Url(Default, "default") \in UrlType BY UrlIs
  <2>3. SettingsTyped BY <2>1, <2>2 DEF SettingsInit, SettingsTyped, UrlType
  <2>4. KeysTyped /\ SlowTyped /\ InTurn(keys) BY EmptyIs DEF SettingsInit, KeysTyped, SlowTyped
  <2>5. PanelTrusted /\ UrlIsProviders BY <2>1 DEF SettingsInit, PanelTrusted, UrlIsProviders
  <2> QED BY <2>3, <2>4, <2>5 DEF SettingsInv, KeysInv
<1> QED BY <1>1, SettingsStep, PTL DEF SettingsSpec

\* Once the panel has all its answers, the mark "Saved" beside the field of a provider
\* means that its key is in the keychain, whichever providers were chosen meanwhile.
THEOREM SavedKeysAreThere == SettingsSpec => []SavedIsSaved
<1>1. SettingsInv => SavedIsSaved
  <2> SUFFICES ASSUME SettingsInv, panel.open, provider \in Cloud, OfPanel(keys) = {}, panel.hasKey
               PROVE  provider \in keychain
    BY DEF SavedIsSaved
  <2>1. keys \in Seq(KeyCalls) BY StateIs
  <2>2. PICK s \in 0..Len(keys) : Justified(keys, keychain, provider, panel.hasKey, s)
    BY DEF SettingsInv, KeysInv, PanelTrusted, Trusted
  <2>3. \A i \in 1..Len(keys) : keys[i].by # "panel" BY <2>1 DEF OfPanel
  <2>4. s = 0 BY <2>1, <2>2, <2>3 DEF Justified
  <2>5. SaysYes(keys, panel.hasKey, 0) /\ ~ClearedSince(keys, 0) BY <2>1, <2>3 DEF SaysYes, ClearedSince
  <2> QED BY <2>1, <2>2, <2>4, <2>5 DEF Justified
<1> QED BY <1>1, SettingsInvariance, PTL

\* The base URL is always one of the chosen provider.
THEOREM UrlsAreProviders == SettingsSpec => []UrlIsProviders
<1>1. SettingsInv => UrlIsProviders BY DEF SettingsInv
<1> QED BY <1>1, SettingsInvariance, PTL

\* Types of the settings, the panel and the calls, for any providers and bounds.
THEOREM SettingsTypes == SettingsSpec => []SettingsTypeOK
<1>1. SettingsInv => SettingsTypeOK
  <2> SUFFICES ASSUME SettingsInv PROVE SettingsTypeOK OBVIOUS
  <2>1. /\ keys \in Seq(KeyCalls) /\ slow \in Seq(SlowCalls) /\ panel \in PanelType BY StateIs
  <2>2. keys \in Seq(CallType(KeyCmds)) BY <2>1 DEF KeyCalls
  <2> QED BY <2>1, <2>2 DEF SettingsInv, KeysInv, SettingsTyped, SettingsTypeOK, KeyCmds, SlowCmds, SlowCalls, PanelType
<1> QED BY <1>1, SettingsInvariance, PTL

\* A call of a button of the panel, and the calls of buttons under way.
OfButton(c) == c.by = "panel" /\ c.cmd # "has"
KeyButtons(ks) == {i \in DOMAIN ks : OfButton(ks[i])}
AtMostOne(S) == \A i, j \in S : i = j

\* The panel is loading exactly while one call of a button is under way.
ButtonInv ==
  /\ AtMostOne(KeyButtons(keys)) /\ AtMostOne(OfPanel(slow))
  /\ KeyButtons(keys) = {} \/ OfPanel(slow) = {}
  /\ panel.isLoading <=> KeyButtons(keys) # {} \/ OfPanel(slow) # {}
  /\ \A i \in DOMAIN slow : slow[i].by = "panel" => slow[i].cmd = "propose"
  /\ ~panel.open => ~panel.isLoading

\* Calls that are not of a button add none.
LEMMA NoButtonAdded ==
  /\ \A ks, extra \in Seq(KeyCalls) :
       (\A i \in 1..Len(extra) : extra[i].by = "panel" => extra[i].cmd = "has") => KeyButtons(ks \o extra) = KeyButtons(ks)
  /\ \A sl, extra \in Seq(SlowCalls) :
       (\A i \in 1..Len(extra) : extra[i].by = "app") =>
         /\ OfPanel(sl \o extra) = OfPanel(sl)
         /\ (\A i \in DOMAIN sl : sl[i].by = "panel" => sl[i].cmd = "propose") =>
              \A i \in DOMAIN (sl \o extra) : (sl \o extra)[i].by = "panel" => (sl \o extra)[i].cmd = "propose"
<1>1. ASSUME NEW ks \in Seq(KeyCalls), NEW extra \in Seq(KeyCalls),
             \A i \in 1..Len(extra) : extra[i].by = "panel" => extra[i].cmd = "has"
      PROVE  KeyButtons(ks \o extra) = KeyButtons(ks)
  <2> DEFINE all == ks \o extra
  <2>1. /\ Len(all) = Len(ks) + Len(extra) /\ Len(ks) \in Nat /\ Len(extra) \in Nat
        /\ DOMAIN all = 1..Len(all) /\ DOMAIN ks = 1..Len(ks)
        /\ \A i \in 1..Len(ks) : all[i] = ks[i]
        /\ \A i \in 1..Len(all) : i > Len(ks) => i - Len(ks) \in 1..Len(extra) /\ all[i] = extra[i - Len(ks)]
    OBVIOUS
  <2> HIDE DEF all
  <2>2. \A i \in 1..Len(all) : i > Len(ks) => ~OfButton(all[i]) BY <1>1, <2>1 DEF OfButton
  <2>3. KeyButtons(all) = KeyButtons(ks) BY <2>1, <2>2 DEF KeyButtons
  <2> QED BY <2>3 DEF all
<1>2. ASSUME NEW sl \in Seq(SlowCalls), NEW extra \in Seq(SlowCalls),
             \A i \in 1..Len(extra) : extra[i].by = "app"
      PROVE  /\ OfPanel(sl \o extra) = OfPanel(sl)
             /\ (\A i \in DOMAIN sl : sl[i].by = "panel" => sl[i].cmd = "propose") =>
                  \A i \in DOMAIN (sl \o extra) : (sl \o extra)[i].by = "panel" => (sl \o extra)[i].cmd = "propose"
  <2> DEFINE all == sl \o extra
  <2>1. /\ Len(all) = Len(sl) + Len(extra) /\ Len(sl) \in Nat /\ Len(extra) \in Nat
        /\ DOMAIN all = 1..Len(all) /\ DOMAIN sl = 1..Len(sl)
        /\ \A i \in 1..Len(sl) : all[i] = sl[i]
        /\ \A i \in 1..Len(all) : i > Len(sl) => i - Len(sl) \in 1..Len(extra) /\ all[i] = extra[i - Len(sl)]
    OBVIOUS
  <2> HIDE DEF all
  <2>2. \A i \in 1..Len(all) : i > Len(sl) => all[i].by # "panel" BY <1>2, <2>1
  <2>3. OfPanel(all) = OfPanel(sl) BY <2>1, <2>2 DEF OfPanel
  <2>4. (\A i \in DOMAIN sl : sl[i].by = "panel" => sl[i].cmd = "propose") =>
          \A i \in DOMAIN all : all[i].by = "panel" => all[i].cmd = "propose"
    BY <2>1, <2>2
  <2> QED BY <2>3, <2>4 DEF all
<1> QED BY <1>1, <1>2

\* A call that is answered and is not of a button leaves the one that is; one of a button was alone.
LEMMA ButtonTaken ==
  ASSUME NEW ks \in Seq(KeyCalls), ks # <<>>, AtMostOne(KeyButtons(ks))
  PROVE  /\ AtMostOne(KeyButtons(Tail(ks)))
         /\ OfButton(ks[1]) => KeyButtons(Tail(ks)) = {} /\ KeyButtons(ks) # {}
         /\ ~OfButton(ks[1]) => (KeyButtons(Tail(ks)) = {} <=> KeyButtons(ks) = {})
<1> DEFINE rest == Tail(ks)
<1>1. /\ Len(rest) = Len(ks) - 1 /\ Len(ks) \in Nat /\ Len(ks) > 0
      /\ DOMAIN rest = 1..Len(rest) /\ DOMAIN ks = 1..Len(ks)
      /\ \A i \in 1..Len(rest) : rest[i] = ks[i + 1] /\ i + 1 \in 1..Len(ks)
      /\ \A i \in 1..Len(ks) : i # 1 => i - 1 \in 1..Len(rest) /\ rest[i - 1] = ks[i]
  OBVIOUS
<1> HIDE DEF rest
<1>2. \A i \in KeyButtons(rest) : i \in Nat /\ i > 0 /\ i + 1 \in KeyButtons(ks) BY <1>1 DEF KeyButtons
<1>3. \A i \in KeyButtons(ks) : i # 1 => i - 1 \in KeyButtons(rest) BY <1>1 DEF KeyButtons
<1>4. 1 \in KeyButtons(ks) <=> OfButton(ks[1]) BY <1>1 DEF KeyButtons
<1>5. AtMostOne(KeyButtons(rest)) BY <1>2 DEF AtMostOne
<1>6. OfButton(ks[1]) => KeyButtons(rest) = {} /\ KeyButtons(ks) # {} BY <1>2, <1>4 DEF AtMostOne
<1>7. ~OfButton(ks[1]) => (KeyButtons(rest) = {} <=> KeyButtons(ks) = {}) BY <1>2, <1>3, <1>4
<1> QED BY <1>5, <1>6, <1>7 DEF rest

\* The same for a call that is taken out of its place.
LEMMA SlowTaken ==
  ASSUME NEW sl \in Seq(SlowCalls), NEW n \in DOMAIN sl, AtMostOne(OfPanel(sl)),
         \A i \in DOMAIN sl : sl[i].by = "panel" => sl[i].cmd = "propose"
  PROVE  /\ AtMostOne(OfPanel(RemoveAt(sl, n)))
         /\ sl[n].by = "panel" => OfPanel(RemoveAt(sl, n)) = {} /\ OfPanel(sl) # {}
         /\ sl[n].by # "panel" => (OfPanel(RemoveAt(sl, n)) = {} <=> OfPanel(sl) = {})
         /\ \A i \in DOMAIN RemoveAt(sl, n) : RemoveAt(sl, n)[i].by = "panel" => RemoveAt(sl, n)[i].cmd = "propose"
<1> DEFINE a == SubSeq(sl, 1, n - 1)
           b == SubSeq(sl, n + 1, Len(sl))
           rest == a \o b
           place(i) == IF i < n THEN i ELSE i + 1
<1>1. n \in 1..Len(sl) /\ Len(sl) \in Nat /\ DOMAIN sl = 1..Len(sl) OBVIOUS
<1>2. /\ a \in Seq(SlowCalls) /\ Len(a) = n - 1 /\ \A i \in 1..(n - 1) : a[i] = sl[i]
      /\ b \in Seq(SlowCalls) /\ Len(b) = Len(sl) - n /\ \A i \in 1..(Len(sl) - n) : b[i] = sl[n + i]
  <2>1. a \in Seq(SlowCalls) /\ Len(a) = n - 1 /\ \A i \in 1..(n - 1) : a[i] = sl[i]
    BY <1>1
  <2>2. b \in Seq(SlowCalls) /\ Len(b) = Len(sl) - n
    BY <1>1
  <2>3. ASSUME NEW i \in 1..(Len(sl) - n) PROVE b[i] = sl[n + i]
    <3>1. b[i] = sl[(n + 1) + i - 1] BY <1>1, SubSeqProperties
    <3>2. (n + 1) + i - 1 = n + i BY <1>1
    <3> QED BY <3>1, <3>2
  <2> QED BY <2>1, <2>2, <2>3
<1> HIDE DEF a, b
<1>3. /\ Len(rest) = Len(sl) - 1 /\ DOMAIN rest = 1..(Len(sl) - 1)
      /\ \A i \in 1..(Len(sl) - 1) : rest[i] = sl[place(i)]
  <2>1. /\ rest \in Seq(SlowCalls) /\ Len(rest) = Len(a) + Len(b)
        /\ \A i \in 1..Len(rest) : rest[i] = IF i <= Len(a) THEN a[i] ELSE b[i - Len(a)]
    BY <1>2, ConcatProperties
  <2> HIDE DEF rest
  <2>2. Len(rest) = Len(sl) - 1 /\ DOMAIN rest = 1..(Len(sl) - 1) BY <1>1, <1>2, <2>1
  <2>3. ASSUME NEW i \in 1..(Len(sl) - 1) PROVE rest[i] = sl[place(i)]
    <3>1. CASE i < n BY <3>1, <1>1, <1>2, <2>1, <2>2
    <3>2. CASE ~(i < n)
      <4>1. i - (n - 1) \in 1..(Len(sl) - n) /\ n + (i - (n - 1)) = i + 1 BY <3>2, <1>1
      <4>2. rest[i] = b[i - (n - 1)] BY <3>2, <1>1, <1>2, <2>1, <2>2
      <4> QED BY <3>2, <4>1, <4>2, <1>2
    <3> QED BY <3>1, <3>2
  <2> QED BY <2>2, <2>3
<1>4. RemoveAt(sl, n) = rest BY DEF RemoveAt, a, b
<1> HIDE DEF rest
<1>5. \A i \in 1..(Len(sl) - 1) : place(i) \in 1..Len(sl) /\ place(i) # n BY <1>1
<1>6. \A i, j \in 1..(Len(sl) - 1) : place(i) = place(j) => i = j BY <1>1
<1>7. \A i \in 1..Len(sl) : i # n => \E j \in 1..(Len(sl) - 1) : place(j) = i
  <2> SUFFICES ASSUME NEW i \in 1..Len(sl), i # n PROVE \E j \in 1..(Len(sl) - 1) : place(j) = i
    OBVIOUS
  <2>1. CASE i < n BY <2>1, <1>1
  <2>2. CASE i > n
    <3>1. i - 1 \in 1..(Len(sl) - 1) /\ place(i - 1) = i BY <2>2, <1>1
    <3> QED BY <3>1
  <2> QED BY <2>1, <2>2, <1>1
<1> HIDE DEF place
<1>8. \A i \in OfPanel(rest) : i \in 1..(Len(sl) - 1) /\ place(i) \in OfPanel(sl) /\ place(i) # n
  BY <1>1, <1>3, <1>5 DEF OfPanel
<1>9. \A i \in OfPanel(sl) : i # n => \E j \in OfPanel(rest) : place(j) = i BY <1>1, <1>3, <1>7 DEF OfPanel
<1>10. n \in OfPanel(sl) <=> sl[n].by = "panel" BY <1>1 DEF OfPanel
<1>11. AtMostOne(OfPanel(rest)) BY <1>6, <1>8 DEF AtMostOne
<1>12. sl[n].by = "panel" => OfPanel(rest) = {} /\ OfPanel(sl) # {} BY <1>8, <1>10 DEF AtMostOne
<1>13. sl[n].by # "panel" => (OfPanel(rest) = {} <=> OfPanel(sl) = {})
  <2>1. OfPanel(sl) = {} => OfPanel(rest) = {} BY <1>8
  <2>2. sl[n].by # "panel" /\ OfPanel(rest) = {} => OfPanel(sl) = {} BY <1>9, <1>10
  <2> QED BY <2>1, <2>2
<1>14. \A i \in DOMAIN rest : rest[i].by = "panel" => rest[i].cmd = "propose" BY <1>1, <1>3, <1>5
<1> QED BY <1>4, <1>11, <1>12, <1>13, <1>14

\* The calls of buttons stay as they are, one or none.
LEMMA ButtonsStay ==
  ASSUME ButtonInv, panel'.isLoading = panel.isLoading, panel'.open = panel.open,
         AtMostOne(KeyButtons(keys')), KeyButtons(keys') = {} <=> KeyButtons(keys) = {},
         AtMostOne(OfPanel(slow')), OfPanel(slow') = {} <=> OfPanel(slow) = {},
         \A i \in DOMAIN slow' : slow'[i].by = "panel" => slow'[i].cmd = "propose"
  PROVE  ButtonInv'
<1>1. (KeyButtons(keys) = {} \/ OfPanel(slow) = {})' BY DEF ButtonInv
<1>2. (panel.isLoading <=> KeyButtons(keys) # {} \/ OfPanel(slow) # {})' BY DEF ButtonInv
<1>3. (~panel.open => ~panel.isLoading)' BY DEF ButtonInv
<1> QED BY <1>1, <1>2, <1>3 DEF ButtonInv

\* No button is under way.
LEMMA NothingIsLoading ==
  ASSUME ~panel'.isLoading, KeyButtons(keys') = {}, OfPanel(slow') = {},
         \A i \in DOMAIN slow' : slow'[i].by = "panel" => slow'[i].cmd = "propose"
  PROVE  ButtonInv'
BY DEF ButtonInv, AtMostOne

\* Nothing under way holds no button.
LEMMA NoneOfNone == KeyButtons(<<>>) = {} /\ OfPanel(<<>>) = {} /\ DOMAIN <<>> = {}
BY DEF KeyButtons, OfPanel

\* App's calls on the runtime are App's.
LEMMA SlowOfApp ==
  ASSUME NEW p \in Providers, NEW then
  PROVE  /\ \A i \in 1..Len(StatusCall(p, then)) : StatusCall(p, then)[i].by = "app"
         /\ \A i \in 1..Len(Refresh(p, then)) : Refresh(p, then)[i].by = "app"
<1>1. \A cmd : Call(cmd, p, "app", then).by = "app" BY DEF Call
<1> DEFINE c == Call("status", p, "app", then)
           d == Call("refresh", p, "app", then)
<1>2. c.by = "app" /\ d.by = "app" BY <1>1
<1>3. StatusCall(p, then) = IF p \in Cloud THEN <<>> ELSE <<c>> BY DEF StatusCall
<1>4. Refresh(p, then) = IF signed THEN <<d>> ELSE <<>> BY DEF Refresh
<1> HIDE DEF c, d
<1> QED BY <1>2, <1>3, <1>4

\* What App asks of the runtime adds no call of the panel.
LEMMA SlowAdded ==
  ASSUME NEW sl \in Seq(SlowCalls), NEW p \in Providers, NEW q \in Providers, NEW r \in BOOLEAN, NEW t \in BOOLEAN,
         NEW e1 \in {StatusCall(p, r), <<>>}, NEW e2 \in {StatusCall(q, t), Refresh(q, t), <<>>},
         \A i \in DOMAIN sl : sl[i].by = "panel" => sl[i].cmd = "propose"
  PROVE  /\ OfPanel(sl \o e1 \o e2) = OfPanel(sl)
         /\ \A i \in DOMAIN (sl \o e1 \o e2) : (sl \o e1 \o e2)[i].by = "panel" => (sl \o e1 \o e2)[i].cmd = "propose"
<1>1. e1 \in Seq(SlowCalls) /\ e2 \in Seq(SlowCalls) BY SlowCallsAre, EmptyIs
<1>2. (\A i \in 1..Len(e1) : e1[i].by = "app") /\ (\A i \in 1..Len(e2) : e2[i].by = "app")
  BY SlowOfApp
<1> DEFINE f == sl \o e1
<1>3. f \in Seq(SlowCalls) BY <1>1
<1>4. OfPanel(f) = OfPanel(sl) /\ \A i \in DOMAIN f : f[i].by = "panel" => f[i].cmd = "propose"
  BY <1>1, <1>2, NoButtonAdded
<1> HIDE DEF f
<1>5. OfPanel(f \o e2) = OfPanel(f) /\ \A i \in DOMAIN (f \o e2) : (f \o e2)[i].by = "panel" => (f \o e2)[i].cmd = "propose"
  BY <1>1, <1>2, <1>3, <1>4, NoButtonAdded
<1> QED BY <1>4, <1>5 DEF f

\* A change of the provider leaves the buttons.
LEMMA SetButtons ==
  ASSUME SettingsInv, NEW p \in Providers, NEW ks \in Seq(KeyCalls), NEW sl \in Seq(SlowCalls),
         NEW asked \in Seq(KeyCalls), SetProvider(p, asked, ks, sl),
         \A i \in 1..Len(asked) : asked[i].cmd = "has",
         \A i \in DOMAIN sl : sl[i].by = "panel" => sl[i].cmd = "propose"
  PROVE  /\ KeyButtons(keys') = KeyButtons(ks) /\ OfPanel(slow') = OfPanel(sl)
         /\ \A i \in DOMAIN slow' : slow'[i].by = "panel" => slow'[i].cmd = "propose"
         /\ panel'.isLoading = panel.isLoading /\ panel'.open = panel.open
<1> DEFINE a == HasCall(p, "app", FALSE)
           more == IF panel.open THEN asked ELSE <<>>
           has == p \in Cloud /\ panel.hasKey
<1>1. /\ panel' = [panel EXCEPT !.hasKey = has]
      /\ keys' = ks \o more \o a
      /\ slow' = sl \o StatusCall(p, FALSE) \o Refresh(p, FALSE)
  BY DEF SetProvider
<1>2. Asks(a, p, "app") BY AsksNow, Zenon
<1>3. more \in Seq(KeyCalls) /\ \A i \in 1..Len(more) : more[i].cmd = "has"
  <2>1. CASE panel.open BY <2>1
  <2>2. CASE ~panel.open
    <3>1. more = <<>> BY <2>2
    <3> HIDE DEF more
    <3>2. more \in Seq(KeyCalls) /\ Len(more) = 0 BY <3>1, EmptyIs
    <3> QED BY <3>2
  <2> QED BY <2>1, <2>2
<1> HIDE DEF a, more
<1>4. KeyButtons(keys') = KeyButtons(ks)
  <2> DEFINE f == ks \o more
  <2>1. f \in Seq(KeyCalls) BY <1>3
  <2>2. KeyButtons(f) = KeyButtons(ks) BY <1>3, NoButtonAdded
  <2>3. a \in Seq(KeyCalls) /\ \A i \in 1..Len(a) : a[i].by = "panel" => a[i].cmd = "has" BY <1>2 DEF Asks
  <2>4. keys' = f \o a BY <1>1
  <2> HIDE DEF f
  <2>5. KeyButtons(f \o a) = KeyButtons(f) BY <2>1, <2>3, NoButtonAdded
  <2> QED BY <2>2, <2>4, <2>5
<1>5. /\ OfPanel(slow') = OfPanel(sl)
      /\ \A i \in DOMAIN slow' : slow'[i].by = "panel" => slow'[i].cmd = "propose"
  <2>1. PICK none \in BOOLEAN : none = FALSE OBVIOUS
  <2> DEFINE e1 == StatusCall(p, none)
             e2 == Refresh(p, none)
  <2>2. e1 \in {StatusCall(p, none), <<>>} /\ e2 \in {StatusCall(p, none), Refresh(p, none), <<>>} OBVIOUS
  <2>3. /\ OfPanel(sl \o e1 \o e2) = OfPanel(sl)
        /\ \A i \in DOMAIN (sl \o e1 \o e2) : (sl \o e1 \o e2)[i].by = "panel" => (sl \o e1 \o e2)[i].cmd = "propose"
    BY <2>2, SlowAdded
  <2>4. slow' = sl \o e1 \o e2 BY <1>1, <2>1
  <2> HIDE DEF e1, e2
  <2> QED BY <2>3, <2>4
<1>6. panel'.isLoading = panel.isLoading /\ panel'.open = panel.open
  <2>1. has \in BOOLEAN /\ panel \in PanelType BY StateIs
  <2> HIDE DEF has
  <2> QED BY <1>1, <2>1, PanelIs
<1> QED BY <1>4, <1>5, <1>6

\* No call of a panel that was closed is of a button.
LEMMA OrphansPress ==
  /\ \A ks \in Seq(KeyCalls) : KeyButtons(Orphan(ks)) = {}
  /\ \A sl \in Seq(SlowCalls) :
       OfPanel(Orphan(sl)) = {} /\ \A i \in DOMAIN Orphan(sl) : Orphan(sl)[i].by # "panel"
<1>1. \A c \in KeyCalls \cup SlowCalls :
        (IF c.by = "app" THEN c ELSE [c EXCEPT !.by = "gone"]).by # "panel"
  BY DEF KeyCalls, SlowCalls, CallType
<1>2. ASSUME NEW ks, ks \in Seq(KeyCalls) \/ ks \in Seq(SlowCalls), NEW i \in DOMAIN Orphan(ks)
      PROVE  Orphan(ks)[i].by # "panel"
  <2>1. i \in DOMAIN ks /\ Orphan(ks)[i] = IF ks[i].by = "app" THEN ks[i] ELSE [ks[i] EXCEPT !.by = "gone"]
    BY <1>2 DEF Orphan
  <2>2. ks[i] \in KeyCalls \cup SlowCalls BY <1>2, <2>1
  <2> HIDE DEF Orphan
  <2> QED BY <1>1, <2>1, <2>2
<1> QED BY <1>2 DEF KeyButtons, OfButton, OfPanel

\* Opening, closing, starting and quitting.
LEMMA OpensPress ==
  ASSUME SettingsInv, ButtonInv, Start \/ Quit \/ OpenPanel \/ ClosePanel \/ EditUrl \/ ServiceChanges
  PROVE  ButtonInv'
<1>0. /\ keys \in Seq(KeyCalls) /\ slow \in Seq(SlowCalls) /\ panel \in PanelType /\ provider \in Providers
      /\ ClosedPanel \in PanelType /\ ~ClosedPanel.open /\ ~ClosedPanel.isLoading
  BY StateIs, PanelIs
<1>1. CASE Start
  <2>1. PICK none \in BOOLEAN : none = FALSE OBVIOUS
  <2> DEFINE e1 == StatusCall(Default, none)
             e2 == Refresh(Default, none)
             nothing == <<>>
  <2>2. e1 \in {StatusCall(Default, none), <<>>} /\ e2 \in {StatusCall(Default, none), Refresh(Default, none), <<>>}
    OBVIOUS
  <2>3. nothing \in Seq(SlowCalls) /\ DOMAIN nothing = {} /\ OfPanel(nothing) = {} BY EmptyIs, NoneOfNone
  <2>a. e1 \in Seq(SlowCalls) /\ e2 \in Seq(SlowCalls) BY ProviderIs, SlowCallsAre
  <2>4. slow' = e1 \o e2 /\ keys' = <<>> /\ panel' = panel /\ app = "closed" BY <1>1, <2>1 DEF Start
  <2> HIDE DEF nothing, e1, e2
  <2>5. /\ OfPanel(nothing \o e1 \o e2) = OfPanel(nothing)
        /\ \A i \in DOMAIN (nothing \o e1 \o e2) :
             (nothing \o e1 \o e2)[i].by = "panel" => (nothing \o e1 \o e2)[i].cmd = "propose"
    <3>1. \A i \in DOMAIN nothing : nothing[i].by = "panel" => nothing[i].cmd = "propose" BY <2>3
    <3>2. nothing \in Seq(SlowCalls) /\ Default \in Providers BY <2>3, ProviderIs
    <3> QED BY <2>2, <3>1, <3>2, SlowAdded
  <2>6. nothing \o e1 = e1 BY <2>a, NoneMore DEF nothing
  <2>7. ~panel'.isLoading BY <2>4 DEF SettingsInv, KeysInv, SettingsTyped, ButtonInv
  <2>8. KeyButtons(keys') = {} BY <2>4, NoneOfNone
  <2> QED BY <2>3, <2>4, <2>5, <2>6, <2>7, <2>8, NothingIsLoading
<1>2. CASE Quit
  <2>1. keys' = <<>> /\ slow' = <<>> /\ panel' = ClosedPanel BY <1>2 DEF Quit
  <2> QED BY <1>0, <2>1, NoneOfNone, NothingIsLoading
<1>3. CASE OpenPanel
  <2> DEFINE h == HasCall(provider, "panel", FALSE)
             e == [ClosedPanel EXCEPT !.open = TRUE]
  <2>1. panel' = e /\ keys' = keys \o h /\ slow' = slow /\ ~panel.open BY <1>3 DEF OpenPanel
  <2>2. Asks(h, provider, "panel") BY <1>0, AsksNow, Zenon
  <2>3. ~e.isLoading BY <1>0 DEF PanelType
  <2> HIDE DEF h, e
  <2>4. KeyButtons(keys \o h) = KeyButtons(keys) BY <1>0, <2>2, NoButtonAdded DEF Asks
  <2>5. KeyButtons(keys) = {} /\ OfPanel(slow) = {} BY <2>1 DEF ButtonInv
  <2> QED BY <2>1, <2>3, <2>4, <2>5, NothingIsLoading DEF ButtonInv
<1>4. CASE ClosePanel
  <2>1. keys' = Orphan(keys) /\ slow' = Orphan(slow) /\ panel' = ClosedPanel BY <1>4 DEF ClosePanel
  <2> QED BY <1>0, <2>1, OrphansPress, NothingIsLoading
<1>5. CASE EditUrl \/ ServiceChanges
  <2>1. UNCHANGED <<keys, slow, panel>> BY <1>5 DEF EditUrl, ServiceChanges
  <2> QED BY <2>1 DEF ButtonInv
<1> QED BY <1>1, <1>2, <1>3, <1>4, <1>5

\* A button is pressed while none is under way.
LEMMA OnePressed ==
  /\ \A ks \in Seq(KeyCalls), c \in KeyCalls : OfButton(c) /\ KeyButtons(ks) = {} =>
       AtMostOne(KeyButtons(Append(ks, c))) /\ KeyButtons(Append(ks, c)) # {}
  /\ \A sl \in Seq(SlowCalls), c \in SlowCalls :
       c.by = "panel" /\ OfPanel(sl) = {} =>
         AtMostOne(OfPanel(Append(sl, c))) /\ OfPanel(Append(sl, c)) # {}
<1>1. ASSUME NEW ks \in Seq(KeyCalls), NEW c \in KeyCalls, OfButton(c), KeyButtons(ks) = {}
      PROVE  AtMostOne(KeyButtons(Append(ks, c))) /\ KeyButtons(Append(ks, c)) # {}
  <2> DEFINE all == Append(ks, c)
  <2>1. /\ Len(ks) \in Nat /\ DOMAIN all = 1..(Len(ks) + 1) /\ all[Len(ks) + 1] = c /\ DOMAIN ks = 1..Len(ks)
        /\ \A i \in 1..Len(ks) : all[i] = ks[i]
    OBVIOUS
  <2> HIDE DEF all
  <2>2. \A i \in KeyButtons(all) : i = Len(ks) + 1 BY <1>1, <2>1 DEF KeyButtons
  <2>3. Len(ks) + 1 \in KeyButtons(all) BY <1>1, <2>1 DEF KeyButtons
  <2> QED BY <2>2, <2>3 DEF AtMostOne, all
<1>2. ASSUME NEW sl \in Seq(SlowCalls), NEW c \in SlowCalls, c.by = "panel", OfPanel(sl) = {}
      PROVE  AtMostOne(OfPanel(Append(sl, c))) /\ OfPanel(Append(sl, c)) # {}
  <2> DEFINE all == Append(sl, c)
  <2>1. /\ Len(sl) \in Nat /\ DOMAIN all = 1..(Len(sl) + 1) /\ all[Len(sl) + 1] = c /\ DOMAIN sl = 1..Len(sl)
        /\ \A i \in 1..Len(sl) : all[i] = sl[i]
    OBVIOUS
  <2> HIDE DEF all
  <2>2. \A i \in OfPanel(all) : i = Len(sl) + 1 BY <1>2, <2>1 DEF OfPanel
  <2>3. Len(sl) + 1 \in OfPanel(all) BY <1>2, <2>1 DEF OfPanel
  <2> QED BY <2>2, <2>3 DEF AtMostOne, all
<1> QED BY <1>1, <1>2

\* The last call keeps to what a panel asks of the runtime.
LEMMA LastOfSlow ==
  ASSUME NEW sl \in Seq(SlowCalls), NEW c \in SlowCalls, c.by = "panel" => c.cmd = "propose",
         \A i \in DOMAIN sl : sl[i].by = "panel" => sl[i].cmd = "propose"
  PROVE  /\ \A i \in DOMAIN Append(sl, c) : Append(sl, c)[i].by = "panel" => Append(sl, c)[i].cmd = "propose"
         /\ c.by # "panel" => OfPanel(Append(sl, c)) = OfPanel(sl)
<1> DEFINE all == Append(sl, c)
<1>1. /\ Len(sl) \in Nat /\ DOMAIN all = 1..(Len(sl) + 1) /\ all[Len(sl) + 1] = c /\ DOMAIN sl = 1..Len(sl)
      /\ \A i \in 1..Len(sl) : all[i] = sl[i]
  OBVIOUS
<1> HIDE DEF all
<1>2. \A i \in DOMAIN all : all[i].by = "panel" => all[i].cmd = "propose" BY <1>1
<1>3. c.by # "panel" => OfPanel(all) = OfPanel(sl) BY <1>1 DEF OfPanel
<1> QED BY <1>2, <1>3 DEF all


\* A button is pressed, while none is under way.
LEMMA ButtonsPress ==
  ASSUME SettingsInv, ButtonInv, HandleSaveKey \/ HandleClearKey \/ TestKey \/ TestFree \/ StartFreeAiSetup
  PROVE  ButtonInv'
<1> USE ProviderIs
<1>0. /\ keys \in Seq(KeyCalls) /\ slow \in Seq(SlowCalls) /\ panel \in PanelType /\ provider \in Providers
  BY StateIs
<1>a. TRUE \in BOOLEAN /\ [panel EXCEPT !.isLoading = TRUE].open = panel.open
      /\ [panel EXCEPT !.isLoading = TRUE].isLoading
  BY <1>0 DEF PanelType
<1>1. CASE HandleSaveKey \/ HandleClearKey \/ TestKey
  <2>1. PICK cmd \in KeyCmds : cmd # "has" /\ provider \in Cloud /\ Button(cmd)
    BY <1>1 DEF HandleSaveKey, HandleClearKey, TestKey, KeyCmds
  <2> DEFINE c == Call(cmd, provider, "panel", FALSE)
  <2>2. c \in KeyCalls /\ OfButton(c)
    <3>1. c \in KeyCalls /\ c.by = "panel" BY <2>1, ButtonIs, Zenon
    <3>2. c.cmd = cmd BY DEF Call
    <3> QED BY <2>1, <3>1, <3>2 DEF OfButton
  <2>3. keys' = Append(keys, c) /\ slow' = slow /\ panel' = [panel EXCEPT !.isLoading = TRUE] /\ panel.open
        /\ ~panel.isLoading
    BY <2>1 DEF Button
  <2> HIDE DEF c
  <2>4. KeyButtons(keys) = {} /\ OfPanel(slow) = {} BY <2>3 DEF ButtonInv
  <2>5. AtMostOne(KeyButtons(keys')) /\ KeyButtons(keys') # {} BY <1>0, <2>2, <2>3, <2>4, OnePressed
  <2>6. panel'.open /\ panel'.isLoading BY <1>a, <2>3
  <2> QED BY <2>3, <2>4, <2>5, <2>6 DEF ButtonInv
<1>2. CASE TestFree
  <2>1. PICK none \in BOOLEAN : none = FALSE OBVIOUS
  <2> DEFINE c == Call("propose", provider, "panel", none)
  <2>2. c \in SlowCalls /\ c.by = "panel" /\ c.cmd = "propose"
    BY <1>0 DEF Call, SlowCalls, CallType, SlowCmds
  <2>3. slow' = Append(slow, c) /\ keys' = keys /\ panel' = [panel EXCEPT !.isLoading = TRUE] /\ panel.open
        /\ ~panel.isLoading
    BY <1>2, <2>1 DEF TestFree
  <2> HIDE DEF c
  <2>4. KeyButtons(keys) = {} /\ OfPanel(slow) = {} BY <2>3 DEF ButtonInv
  <2>5. AtMostOne(OfPanel(slow')) /\ OfPanel(slow') # {} BY <1>0, <2>2, <2>3, <2>4, OnePressed
  <2>6. panel'.open /\ panel'.isLoading BY <1>a, <2>3
  <2>7. \A i \in DOMAIN slow' : slow'[i].by = "panel" => slow'[i].cmd = "propose"
    BY <1>0, <2>2, <2>3, LastOfSlow DEF ButtonInv
  <2> QED BY <2>3, <2>4, <2>5, <2>6, <2>7 DEF ButtonInv
<1>3. CASE StartFreeAiSetup
  <2>1. PICK all \in BOOLEAN : all = TRUE OBVIOUS
  <2> DEFINE c == Call("refresh", provider, "app", all)
  <2>2. c \in SlowCalls /\ c.by = "app" BY <1>0 DEF Call, SlowCalls, CallType, SlowCmds
  <2>3. slow' = Append(slow, c) /\ keys' = keys /\ panel' = panel BY <1>3, <2>1 DEF StartFreeAiSetup
  <2> HIDE DEF c
  <2>4. OfPanel(slow') = OfPanel(slow)
        /\ \A i \in DOMAIN slow' : slow'[i].by = "panel" => slow'[i].cmd = "propose"
    BY <1>0, <2>2, <2>3, LastOfSlow DEF ButtonInv
  <2> QED BY <2>3, <2>4 DEF ButtonInv
<1> QED BY <1>1, <1>2, <1>3

\* The provider may be chosen while a button is under way.
LEMMA ChoosePresses == ASSUME SettingsInv, ButtonInv, NEW p \in Providers, ChooseProvider(p) PROVE ButtonInv'
<1> DEFINE h == HasCall(p, "panel", FALSE)
           asked == h \o h
<1>1. keys \in Seq(KeyCalls) /\ slow \in Seq(SlowCalls) BY StateIs
<1>2. SetProvider(p, asked, keys, slow) BY DEF ChooseProvider
<1>3. Asks(h, p, "panel") BY AsksNow, Zenon
<1> HIDE DEF h
<1>4. asked \in Seq(KeyCalls) /\ \A i \in 1..Len(asked) : asked[i].cmd = "has"
  <2>1. h \in Seq(KeyCalls) /\ \A i \in 1..Len(h) : h[i].cmd = "has" BY <1>3 DEF Asks
  <2>2. /\ asked \in Seq(KeyCalls) /\ Len(asked) = Len(h) + Len(h) /\ Len(h) \in Nat
        /\ \A i \in 1..Len(asked) : asked[i] = IF i <= Len(h) THEN h[i] ELSE h[i - Len(h)]
    BY <2>1
  <2> HIDE DEF asked
  <2>3. ASSUME NEW i \in 1..Len(asked) PROVE asked[i].cmd = "has"
    <3>1. CASE i <= Len(h) BY <3>1, <2>1, <2>2
    <3>2. CASE ~(i <= Len(h))
      <4>1. i - Len(h) \in 1..Len(h) /\ asked[i] = h[i - Len(h)] BY <3>2, <2>2
      <4> QED BY <4>1, <2>1
    <3> QED BY <3>1, <3>2
  <2> QED BY <2>2, <2>3
<1> HIDE DEF asked
<1>5. \A i \in DOMAIN slow : slow[i].by = "panel" => slow[i].cmd = "propose" BY DEF ButtonInv
<1>6. /\ KeyButtons(keys') = KeyButtons(keys) /\ OfPanel(slow') = OfPanel(slow)
      /\ \A i \in DOMAIN slow' : slow'[i].by = "panel" => slow'[i].cmd = "propose"
      /\ panel'.isLoading = panel.isLoading /\ panel'.open = panel.open
  BY <1>1, <1>2, <1>4, <1>5, SetButtons
<1> QED BY <1>6, ButtonsStay DEF ButtonInv

\* A check that is answered: its call was not of a button, and the default provider may follow.
LEMMA CheckedPresses ==
  ASSUME SettingsInv, ButtonInv, NEW c, NEW ks \in Seq(KeyCalls), NEW sl \in Seq(SlowCalls), Checked(c, ks, sl),
         AtMostOne(KeyButtons(ks)), KeyButtons(ks) = {} <=> KeyButtons(keys) = {},
         AtMostOne(OfPanel(sl)), OfPanel(sl) = {} <=> OfPanel(slow) = {},
         \A i \in DOMAIN sl : sl[i].by = "panel" => sl[i].cmd = "propose"
  PROVE  ButtonInv'
<1>1. CASE c.then /\ provider # Default
  <2> DEFINE asked == <<>>
  <2>1. SetProvider(Default, asked, ks, sl) BY <1>1 DEF Checked
  <2>2. asked \in Seq(KeyCalls) /\ Len(asked) = 0 BY EmptyIs
  <2>3. Default \in Providers BY ProviderIs
  <2> HIDE DEF asked
  <2>4. \A i \in 1..Len(asked) : asked[i].cmd = "has" BY <2>2
  <2>5. /\ KeyButtons(keys') = KeyButtons(ks) /\ OfPanel(slow') = OfPanel(sl)
        /\ \A i \in DOMAIN slow' : slow'[i].by = "panel" => slow'[i].cmd = "propose"
        /\ panel'.isLoading = panel.isLoading /\ panel'.open = panel.open
    BY <2>1, <2>2, <2>3, <2>4, SetButtons
  <2> QED BY <2>5, ButtonsStay
<1>2. CASE ~(c.then /\ provider # Default)
  <2>1. keys' = ks /\ slow' = sl /\ panel' = panel BY <1>2 DEF Checked
  <2> QED BY <2>1, ButtonsStay
<1> QED BY <1>1, <1>2

\* A command is executed; its button stays under way.
LEMMA ExecutesPress ==
  ASSUME SettingsInv, ButtonInv, NEW i \in DOMAIN keys, ExecuteKey(i)
  PROVE  ButtonInv'
<1>0. keys \in Seq(KeyCalls) /\ i \in 1..Len(keys) /\ keys[i] \in KeyCalls BY StateIs
<1>1. PICK r \in {"yes", "no"} : keys' = [keys EXCEPT ![i].res = r] BY DEF ExecuteKey
<1>2. slow' = slow /\ panel' = panel BY DEF ExecuteKey
<1> DEFINE e == [keys[i] EXCEPT !.res = r]
<1>3. e.by = keys[i].by /\ e.cmd = keys[i].cmd BY <1>0 DEF KeyCalls, CallType
<1>4. keys' = [keys EXCEPT ![i] = e] BY <1>1
<1> HIDE DEF e
<1>5. DOMAIN keys' = DOMAIN keys /\ \A j \in DOMAIN keys : keys'[j] = IF j = i THEN e ELSE keys[j]
  BY <1>0, <1>4
<1>6. KeyButtons(keys') = KeyButtons(keys) BY <1>3, <1>5 DEF KeyButtons, OfButton
<1> QED BY <1>2, <1>6 DEF ButtonInv

\* The first call on keys is answered; a test may go on to the provider.
LEMMA KeyAnswersPress ==
  ASSUME SettingsInv, ButtonInv, keys # <<>>,
         LET c == keys[1] IN \/ CheckAnswered(c) \/ SaveAnswered(c) \/ ClearAnswered(c)
                             \/ TestAnswered(c) \/ GoneAnswered(c) \/ HasAnswered(c)
  PROVE  ButtonInv'
<1> DEFINE c == keys[1]
<1>0. /\ keys \in Seq(KeyCalls) /\ slow \in Seq(SlowCalls) /\ panel \in PanelType /\ c \in KeyCalls
      /\ Tail(keys) \in Seq(KeyCalls)
  BY StateIs
<1>1. /\ AtMostOne(KeyButtons(Tail(keys)))
      /\ OfButton(c) => KeyButtons(Tail(keys)) = {} /\ KeyButtons(keys) # {}
      /\ ~OfButton(c) => (KeyButtons(Tail(keys)) = {} <=> KeyButtons(keys) = {})
  BY <1>0, ButtonTaken DEF ButtonInv
<1>2. /\ AtMostOne(OfPanel(slow)) /\ (KeyButtons(keys) # {} => OfPanel(slow) = {} /\ panel.open)
      /\ \A i \in DOMAIN slow : slow[i].by = "panel" => slow[i].cmd = "propose"
  BY DEF ButtonInv
<1>a. c.by = "app" => c.cmd = "has" BY <1>0 DEF KeyCalls
<1> HIDE DEF c
<1>3. CASE CheckAnswered(c) \/ GoneAnswered(c)
  <2>1. keys' = Tail(keys) /\ slow' = slow /\ ~OfButton(c) BY <1>3 DEF CheckAnswered, GoneAnswered, OfButton
  <2>2. panel'.isLoading = panel.isLoading /\ panel'.open = panel.open
    <3>1. CASE CheckAnswered(c) BY <1>0, <3>1 DEF CheckAnswered, PanelType
    <3>2. CASE GoneAnswered(c) BY <3>2 DEF GoneAnswered
    <3> QED BY <1>3, <3>1, <3>2
  <2> QED BY <1>1, <1>2, <2>1, <2>2, ButtonsStay
<1>4. CASE SaveAnswered(c) \/ ClearAnswered(c)
  <2>1. keys' = Tail(keys) /\ slow' = slow /\ OfButton(c) BY <1>4 DEF SaveAnswered, ClearAnswered, OfButton
  <2>2. ~panel'.isLoading
    <3> DEFINE shows(b) == [panel EXCEPT !.hasKey = b, !.isLoading = FALSE]
    <3>1. \A b : ~shows(b).isLoading BY <1>0 DEF PanelType
    <3>2. \E b : panel' = shows(b) BY <1>4 DEF SaveAnswered, ClearAnswered
    <3> HIDE DEF shows
    <3> QED BY <3>1, <3>2
  <2> QED BY <1>1, <1>2, <2>1, <2>2, NothingIsLoading
<1>5. CASE TestAnswered(c)
  <2>1. keys' = Tail(keys) /\ OfButton(c) /\ c.cmd = "test" BY <1>5 DEF TestAnswered, OfButton
  <2>2. CASE c.res = "yes"
    <3>1. PICK none \in BOOLEAN : none = FALSE OBVIOUS
    <3> DEFINE d == Call("propose", c.p, "panel", none)
    <3>2. d \in SlowCalls /\ d.by = "panel" /\ d.cmd = "propose"
      <4>1. c.p \in Providers BY <1>0 DEF KeyCalls, CallType
      <4> QED BY <4>1 DEF Call, SlowCalls, CallType, SlowCmds
    <3>3. slow' = Append(slow, d) /\ panel' = panel BY <1>5, <2>2, <3>1 DEF TestAnswered
    <3> HIDE DEF d
    <3>4. AtMostOne(OfPanel(slow')) /\ OfPanel(slow') # {} BY <1>0, <1>1, <1>2, <2>1, <3>2, <3>3, OnePressed
    <3>5. \A i \in DOMAIN slow' : slow'[i].by = "panel" => slow'[i].cmd = "propose"
      BY <1>0, <1>2, <3>2, <3>3, LastOfSlow
    <3>6. panel.open /\ panel.isLoading BY <1>1, <1>2, <2>1 DEF ButtonInv
    <3>7. KeyButtons(keys') = {} BY <1>1, <2>1
    <3> QED BY <3>3, <3>4, <3>5, <3>6, <3>7 DEF ButtonInv, AtMostOne
  <2>3. CASE c.res # "yes"
    <3>1. slow' = slow /\ panel' = [panel EXCEPT !.isLoading = FALSE] BY <1>5, <2>3 DEF TestAnswered
    <3>2. ~panel'.isLoading BY <1>0, <3>1 DEF PanelType
    <3> QED BY <1>1, <1>2, <2>1, <3>1, <3>2, NothingIsLoading
  <2> QED BY <2>2, <2>3
<1>6. CASE HasAnswered(c)
  <2>1. Checked(c, Tail(keys), slow) /\ ~OfButton(c) BY <1>6 DEF HasAnswered, OfButton
  <2> QED BY <1>0, <1>1, <1>2, <2>1, CheckedPresses
<1> QED BY <1>3, <1>4, <1>5, <1>6 DEF c

\* A call on the runtime is executed or answered.
LEMMA SlowAnswersPress ==
  ASSUME SettingsInv, ButtonInv, NEW i \in DOMAIN slow,
         ReadStatus(i) \/ StatusAnswered(i) \/ RefreshAnswered(i) \/ ProposeAnswered(i)
  PROVE  ButtonInv'
<1>0. /\ keys \in Seq(KeyCalls) /\ slow \in Seq(SlowCalls) /\ panel \in PanelType /\ slow[i] \in SlowCalls
      /\ provider \in Providers /\ RemoveAt(slow, i) \in Seq(SlowCalls)
  BY StateIs, RemovedIsSeq
<1>1. /\ AtMostOne(KeyButtons(keys)) /\ AtMostOne(OfPanel(slow))
      /\ \A j \in DOMAIN slow : slow[j].by = "panel" => slow[j].cmd = "propose"
      /\ KeyButtons(keys) = {} \/ OfPanel(slow) = {}
  BY DEF ButtonInv
<1> DEFINE rest == RemoveAt(slow, i)
<1>2. /\ AtMostOne(OfPanel(rest))
      /\ slow[i].by = "panel" => OfPanel(rest) = {} /\ OfPanel(slow) # {}
      /\ slow[i].by # "panel" => (OfPanel(rest) = {} <=> OfPanel(slow) = {})
      /\ \A j \in DOMAIN rest : rest[j].by = "panel" => rest[j].cmd = "propose"
  BY <1>0, <1>1, SlowTaken
<1> HIDE DEF rest
<1>3. CASE ReadStatus(i)
  <2>1. PICK r \in {"yes", "no"} : slow' = [slow EXCEPT ![i].res = r] BY <1>3 DEF ReadStatus
  <2>2. keys' = keys /\ panel' = panel BY <1>3 DEF ReadStatus
  <2> DEFINE e == [slow[i] EXCEPT !.res = r]
  <2>3. e.by = slow[i].by /\ e.cmd = slow[i].cmd BY <1>0 DEF SlowCalls, CallType
  <2>4. slow' = [slow EXCEPT ![i] = e] BY <2>1
  <2> HIDE DEF e
  <2>5. DOMAIN slow' = DOMAIN slow /\ \A j \in DOMAIN slow : slow'[j] = IF j = i THEN e ELSE slow[j]
    BY <1>0, <2>4
  <2>6. OfPanel(slow') = OfPanel(slow) BY <2>3, <2>5 DEF OfPanel
  <2>7. \A j \in DOMAIN slow' : slow'[j].by = "panel" => slow'[j].cmd = "propose" BY <1>1, <2>3, <2>5
  <2> QED BY <1>1, <2>2, <2>6, <2>7, ButtonsStay
<1>4. CASE StatusAnswered(i)
  <2>1. Checked(slow[i], keys, rest) /\ slow[i].cmd = "status" BY <1>4 DEF StatusAnswered, rest
  <2>2. slow[i].by # "panel" BY <1>1, <2>1
  <2>3. rest \in Seq(SlowCalls) BY <1>0 DEF rest
  <2> QED BY <1>0, <1>1, <1>2, <2>1, <2>2, <2>3, CheckedPresses
<1>5. CASE RefreshAnswered(i)
  <2>0. PICK none \in BOOLEAN : none = FALSE OBVIOUS
  <2> DEFINE known == slow[i].res = "yes"
             p == slow[i].p
             t == slow[i].then
             again == known # seen
             h1 == HasCall(p, "app", t)
             h2 == IF again THEN HasCall(provider, "app", FALSE) ELSE <<>>
             e1 == StatusCall(p, t)
             e2 == IF again THEN StatusCall(provider, none) ELSE <<>>
  <2>1. /\ keys' = keys \o h1 \o h2 /\ slow' = rest \o e1 \o e2 /\ panel' = panel
    BY <1>5, <2>0 DEF RefreshAnswered, rest
  <2>2. slow[i].by # "panel" BY <1>1, <1>5 DEF RefreshAnswered
  <2>3. p \in Providers /\ t \in BOOLEAN BY <1>0 DEF SlowCalls, CallType
  <2>4. Asks(h1, p, "app")
    <3>1. "app" \in {"app", "panel"} OBVIOUS
    <3> QED BY <2>3, <3>1, AsksLater
  <2>5. h2 = <<>> \/ Asks(h2, provider, "app")
    <3>1. Asks(HasCall(provider, "app", FALSE), provider, "app") BY <1>0, AsksNow, Zenon
    <3> QED BY <3>1, Zenon
  <2> HIDE DEF h1, h2, e1, e2, known, again, p, t
  <2>7. h1 \in Seq(KeyCalls) /\ \A k \in 1..Len(h1) : h1[k].by = "panel" => h1[k].cmd = "has" BY <2>4 DEF Asks
  <2>8. h2 \in Seq(KeyCalls) /\ \A k \in 1..Len(h2) : h2[k].by = "panel" => h2[k].cmd = "has"
    <3>1. CASE h2 = <<>>
      <4>1. h2 \in Seq(KeyCalls) /\ Len(h2) = 0 BY <3>1, EmptyIs
      <4> QED BY <4>1
    <3>2. CASE Asks(h2, provider, "app") BY <3>2 DEF Asks
    <3> QED BY <2>5, <3>1, <3>2
  <2>9. KeyButtons(keys') = KeyButtons(keys)
    <3> DEFINE f == keys \o h1
    <3>1. f \in Seq(KeyCalls) /\ KeyButtons(f) = KeyButtons(keys) BY <1>0, <2>7, NoButtonAdded
    <3> HIDE DEF f
    <3>2. KeyButtons(f \o h2) = KeyButtons(f) BY <2>8, <3>1, NoButtonAdded
    <3> QED BY <2>1, <3>1, <3>2 DEF f
  <2>10. rest \in Seq(SlowCalls) BY <1>0 DEF rest
  <2>11. /\ OfPanel(rest \o e1 \o e2) = OfPanel(rest)
         /\ \A j \in DOMAIN (rest \o e1 \o e2) :
              (rest \o e1 \o e2)[j].by = "panel" => (rest \o e1 \o e2)[j].cmd = "propose"
    <3>1. \A j \in DOMAIN rest : rest[j].by = "panel" => rest[j].cmd = "propose" BY <1>2
    <3>2. provider \in Providers BY <1>0
    <3>3. /\ e1 \in Seq(SlowCalls) /\ \A k \in 1..Len(e1) : e1[k].by = "app"
          /\ e2 \in Seq(SlowCalls) /\ \A k \in 1..Len(e2) : e2[k].by = "app"
      <4>1. e1 \in Seq(SlowCalls) /\ \A k \in 1..Len(e1) : e1[k].by = "app"
        BY <2>3, SlowCallsAre, SlowOfApp DEF e1
      <4>2. StatusCall(provider, none) \in Seq(SlowCalls)
            /\ \A k \in 1..Len(StatusCall(provider, none)) : StatusCall(provider, none)[k].by = "app"
        BY <3>2, SlowCallsAre, SlowOfApp
      <4>3. CASE e2 = StatusCall(provider, none) BY <4>1, <4>2, <4>3
      <4>4. CASE e2 = <<>>
        <5>1. e2 \in Seq(SlowCalls) /\ Len(e2) = 0 BY <4>4, EmptyIs
        <5> QED BY <4>1, <5>1
      <4> QED BY <4>3, <4>4 DEF e2
    <3> DEFINE f == rest \o e1
    <3>4. f \in Seq(SlowCalls) BY <2>10, <3>3
    <3>5. OfPanel(f) = OfPanel(rest) /\ \A j \in DOMAIN f : f[j].by = "panel" => f[j].cmd = "propose"
      BY <2>10, <3>1, <3>3, NoButtonAdded
    <3> HIDE DEF f
    <3>6. OfPanel(f \o e2) = OfPanel(f) /\ \A j \in DOMAIN (f \o e2) : (f \o e2)[j].by = "panel" => (f \o e2)[j].cmd = "propose"
      BY <3>3, <3>4, <3>5, NoButtonAdded
    <3> QED BY <3>5, <3>6 DEF f
  <2> QED BY <1>1, <1>2, <2>1, <2>2, <2>9, <2>11, ButtonsStay
<1>6. CASE ProposeAnswered(i)
  <2>1. /\ slow' = rest /\ keys' = keys
        /\ panel' = IF slow[i].by = "panel" THEN [panel EXCEPT !.isLoading = FALSE] ELSE panel
    BY <1>6 DEF ProposeAnswered, rest
  <2>2. CASE slow[i].by = "panel"
    <3>1. ~panel'.isLoading BY <1>0, <2>1, <2>2 DEF PanelType
    <3>2. KeyButtons(keys) = {} BY <1>1, <1>2, <2>2
    <3> QED BY <1>2, <2>1, <2>2, <3>1, <3>2, NothingIsLoading
  <2>3. CASE slow[i].by # "panel"
    BY <1>1, <1>2, <2>1, <2>3, ButtonsStay
  <2> QED BY <2>2, <2>3
<1> QED BY <1>3, <1>4, <1>5, <1>6

\* Every step keeps one button.
LEMMA ButtonStep == SettingsInv /\ ButtonInv /\ [SettingsNext]_settingsVars => ButtonInv'
<1> SUFFICES ASSUME SettingsInv, ButtonInv, [SettingsNext]_settingsVars PROVE ButtonInv' OBVIOUS
<1>1. CASE UNCHANGED settingsVars BY <1>1 DEF ButtonInv, settingsVars
<1>2. CASE \E i \in DOMAIN keys : ExecuteKey(i) BY <1>2, ExecutesPress
<1>3. CASE Start \/ Quit \/ OpenPanel \/ ClosePanel \/ EditUrl \/ ServiceChanges BY <1>3, OpensPress
<1>4. CASE \E p \in Providers : ChooseProvider(p) BY <1>4, ChoosePresses
<1>5. CASE HandleSaveKey \/ HandleClearKey \/ TestKey \/ TestFree \/ StartFreeAiSetup BY <1>5, ButtonsPress
<1>6. CASE \E i \in DOMAIN keys :
             i = 1 /\ \/ CheckAnswered(keys[i]) \/ SaveAnswered(keys[i]) \/ ClearAnswered(keys[i])
                      \/ TestAnswered(keys[i]) \/ GoneAnswered(keys[i]) \/ HasAnswered(keys[i])
  <2>1. keys # <<>> BY <1>6
  <2> QED BY <1>6, <2>1, KeyAnswersPress
<1>7. CASE \E i \in DOMAIN slow :
             ReadStatus(i) \/ StatusAnswered(i) \/ RefreshAnswered(i) \/ ProposeAnswered(i)
  BY <1>7, SlowAnswersPress
<1> QED BY <1>1, <1>2, <1>3, <1>4, <1>5, <1>6, <1>7 DEF SettingsNext

\* The panel has one button under way at most, of the keychain or of the runtime, and its
\* buttons are disabled exactly as long.
THEOREM OneButtonAtATime == SettingsSpec => []OneButton
<1>1. SettingsInit => ButtonInv
  BY NoneOfNone, NothingIsLoading DEF SettingsInit, ButtonInv, AtMostOne, ClosedPanel
<1>2. SettingsInv /\ ButtonInv => OneButton
  <2> SUFFICES ASSUME ButtonInv PROVE OneButton OBVIOUS
  <2> DEFINE ofKeys == {<<"k", i>> : i \in {j \in OfPanel(keys) : keys[j].cmd # "has"}}
             ofSlow == {<<"s", i>> : i \in OfPanel(slow)}
  <2>1. {j \in OfPanel(keys) : keys[j].cmd # "has"} = KeyButtons(keys) BY DEF KeyButtons, OfButton, OfPanel
  <2>2. ofKeys = {<<"k", i>> : i \in KeyButtons(keys)} BY <2>1
  <2> HIDE DEF ofKeys, ofSlow
  <2>3. \A b \in ofKeys, d \in ofKeys : b = d BY <2>2 DEF ButtonInv, AtMostOne
  <2>4. \A b \in ofSlow, d \in ofSlow : b = d BY DEF ButtonInv, AtMostOne, ofSlow
  <2>5. (ofKeys = {} <=> KeyButtons(keys) = {}) /\ (ofSlow = {} <=> OfPanel(slow) = {}) BY <2>2 DEF ofSlow
  <2>6. \A b, d \in ofKeys \cup ofSlow : b = d BY <2>3, <2>4, <2>5 DEF ButtonInv
  <2>7. panel.isLoading <=> ofKeys \cup ofSlow # {} BY <2>5 DEF ButtonInv
  <2> QED BY <2>6, <2>7 DEF OneButton, ofKeys, ofSlow
<1> QED BY <1>1, <1>2, SettingsInvariance, ButtonStep, PTL DEF SettingsSpec

-----------------------------------------------------------------------------
(* The workflow of phases: AgentWorkflow.                                  *)

OutputType == [phase : 0..5, marked : BOOLEAN]
StateType == [currentPhase : WorkflowPhase, completedPhases : Seq(WorkflowPhase), ralphMode : BOOLEAN,
           status : [WorkflowPhase -> Statuses5], output : [WorkflowPhase -> OutputType]]
PhaseAt(i) == IF i < 5 THEN i ELSE 5

\* A state of the workflow with n phases completed, o being what the panel shows.
Ordered(s, o) ==
  LET n == Len(s.completedPhases) IN
  /\ s \in StateType /\ o \in OutputType
  /\ s.currentPhase = PhaseAt(n + 1)
  /\ \A i \in 1..n : s.completedPhases[i] = PhaseAt(i)
  /\ \A p \in WorkflowPhase :
       /\ s.status[p] = IF p <= n THEN "completed"
                        ELSE IF p = n + 1 /\ n > 0 THEN "in_progress" ELSE "pending"
       /\ s.output[p].phase = IF p <= n THEN p ELSE 0
  /\ o = IF n = 0 THEN NoOutput ELSE s.output[PhaseAt(n)]

SessionType == [open : BOOLEAN, fails : BOOLEAN, iterations : Seq(BOOLEAN), currentIteration : Nat,
             status : {"running", "completed", "failed"}, final : Nat, asked : BOOLEAN]
FormTyped == featureDescription \in Descriptions /\ ralphMode \in BOOLEAN /\ selectedAgents \subseteq AgentRole
WorkflowInv ==
  /\ FormTyped /\ Ordered(workflowState, currentOutput)
  /\ session \in SessionType /\ RalphIsBounded

\* A new workflow.
LEMMA StartIsOrdered == ASSUME NEW r \in BOOLEAN PROVE Ordered(CreateWorkflowState(r), NoOutput)
<1> DEFINE s == CreateWorkflowState(r)
<1>1. s.completedPhases = <<>> /\ Len(s.completedPhases) = 0 BY DEF CreateWorkflowState
<1>2. s \in StateType /\ NoOutput \in OutputType
  BY DEF CreateWorkflowState, StateType, OutputType, NoOutput, WorkflowPhase, Statuses5
<1> QED BY <1>1, <1>2 DEF Ordered, CreateWorkflowState, PhaseAt, WorkflowPhase, NoOutput

\* executePhase returns the output of its phase.
LEMMA OutputOfPhase ==
  ASSUME FormTyped, NEW p \in WorkflowPhase
  PROVE  ExecutePhase(p) \in OutputType /\ ExecutePhase(p).phase = p
<1>1. p \in {1, 2, 3, 4, 5} BY DEF WorkflowPhase
<1>2. /\ ExecutePhase(1) = ExecuteResearchPhase /\ ExecutePhase(2) = ExecuteSpecifyPhase
      /\ ExecutePhase(3) = ExecutePlanPhase /\ ExecutePhase(4) = ExecuteWorkPhase
      /\ ExecutePhase(5) = ExecuteReviewPhase
  BY DEF ExecutePhase
<1>3. ExecuteResearchPhase \in OutputType /\ ExecuteResearchPhase.phase = 1 BY DEF ExecuteResearchPhase, OutputType
<1>4. ExecuteSpecifyPhase \in OutputType /\ ExecuteSpecifyPhase.phase = 2 BY DEF ExecuteSpecifyPhase, OutputType
<1>5. ExecutePlanPhase \in OutputType /\ ExecutePlanPhase.phase = 3 BY DEF ExecutePlanPhase, OutputType
<1>6. ExecuteWorkPhase \in OutputType /\ ExecuteWorkPhase.phase = 4 BY DEF ExecuteWorkPhase, OutputType
<1>7. ExecuteReviewPhase \in OutputType /\ ExecuteReviewPhase.phase = 5 BY DEF ExecuteReviewPhase, OutputType
<1> QED BY <1>1, <1>2, <1>3, <1>4, <1>5, <1>6, <1>7

\* advancePhase completes the current phase and no other.
LEMMA AdvanceIsOrdered ==
  ASSUME NEW s, NEW o, Ordered(s, o), NEW out \in OutputType, out.phase = s.currentPhase
  PROVE  Ordered(AdvancePhase(s, out), out)
<1> DEFINE n == Len(s.completedPhases)
           p == s.currentPhase
           next == IF p = 5 THEN p ELSE p + 1
           t == AdvancePhase(s, out)
<1>1. /\ s \in StateType /\ n \in Nat /\ p = PhaseAt(n + 1) /\ p \in WorkflowPhase
      /\ s.completedPhases \in Seq(WorkflowPhase)
      /\ s.status \in [WorkflowPhase -> Statuses5] /\ s.output \in [WorkflowPhase -> OutputType]
  BY DEF Ordered, StateType
<1>2. next \in WorkflowPhase BY <1>1 DEF WorkflowPhase
<1>3. /\ t \in StateType
      /\ t.currentPhase = next /\ t.completedPhases = Append(s.completedPhases, p)
      /\ \A q \in WorkflowPhase :
           /\ t.status[q] = IF q = p THEN "completed" ELSE IF q = p + 1 THEN "in_progress" ELSE s.status[q]
           /\ t.output[q] = IF q = p THEN out ELSE s.output[q]
  <2> DEFINE st == [q \in WorkflowPhase |-> IF q = p THEN "completed"
                                            ELSE IF q = p + 1 THEN "in_progress" ELSE s.status[q]]
             op == [q \in WorkflowPhase |-> IF q = p THEN out ELSE s.output[q]]
             cp == Append(s.completedPhases, p)
  <2>1. st \in [WorkflowPhase -> Statuses5] BY <1>1 DEF Statuses5
  <2>2. op \in [WorkflowPhase -> OutputType] BY <1>1
  <2>3. cp \in Seq(WorkflowPhase) BY <1>1
  <2>4. \A q \in WorkflowPhase :
           /\ st[q] = IF q = p THEN "completed" ELSE IF q = p + 1 THEN "in_progress" ELSE s.status[q]
           /\ op[q] = IF q = p THEN out ELSE s.output[q]
    OBVIOUS
  <2>5. t = [currentPhase |-> next, completedPhases |-> cp, ralphMode |-> s.ralphMode,
             status |-> st, output |-> op]
    BY Zenon DEF AdvancePhase
  <2>6. s.ralphMode \in BOOLEAN BY <1>1 DEF StateType
  <2> HIDE DEF t, st, op, cp, next
  <2>7. /\ t.currentPhase = next /\ t.completedPhases = cp /\ t.status = st /\ t.output = op
    BY <2>5
  <2>8. t \in StateType BY <1>2, <2>1, <2>2, <2>3, <2>5, <2>6 DEF StateType
  <2> QED BY <2>4, <2>7, <2>8 DEF cp
<1> HIDE DEF t
<1>4. /\ Len(t.completedPhases) = n + 1
      /\ \A i \in 1..n : t.completedPhases[i] = s.completedPhases[i]
      /\ t.completedPhases[n + 1] = p
  BY <1>1, <1>3
<1>5. next = PhaseAt(n + 2) /\ p = PhaseAt(n + 1) BY <1>1 DEF PhaseAt
<1>6. \A i \in 1..(n + 1) : t.completedPhases[i] = PhaseAt(i) BY <1>1, <1>4, <1>5 DEF Ordered
<1>7. \A q \in WorkflowPhase :
        /\ t.status[q] = IF q <= n + 1 THEN "completed" ELSE IF q = n + 2 THEN "in_progress" ELSE "pending"
        /\ t.output[q].phase = IF q <= n + 1 THEN q ELSE 0
  <2>1. \A q \in WorkflowPhase :
           /\ s.status[q] = IF q <= n THEN "completed"
                            ELSE IF q = n + 1 /\ n > 0 THEN "in_progress" ELSE "pending"
           /\ s.output[q].phase = IF q <= n THEN q ELSE 0
    BY DEF Ordered
  <2> TAKE q \in WorkflowPhase
  <2> HIDE DEF n, p
  <2>2. /\ q \in Nat /\ q <= 5 /\ n \in Nat
        /\ p = IF n < 4 THEN n + 1 ELSE 5
    BY <1>1 DEF WorkflowPhase, PhaseAt
  <2>3. out.phase = p BY DEF p
  <2>4. t.output[q].phase = IF q = p THEN p ELSE s.output[q].phase BY <1>3, <2>3
  <2>5. t.status[q] = IF q = p THEN "completed" ELSE IF q = p + 1 THEN "in_progress" ELSE s.status[q]
    BY <1>3
  <2> QED BY <2>1, <2>2, <2>4, <2>5
<1>8. out = t.output[PhaseAt(n + 1)] BY <1>1, <1>3
<1> DEFINE m == Len(t.completedPhases)
<1>10. /\ m \in Nat /\ m > 0 /\ t.currentPhase = PhaseAt(m + 1)
       /\ \A i \in 1..m : t.completedPhases[i] = PhaseAt(i)
       /\ \A q \in WorkflowPhase :
            /\ t.status[q] = IF q <= m THEN "completed" ELSE IF q = m + 1 THEN "in_progress" ELSE "pending"
            /\ t.output[q].phase = IF q <= m THEN q ELSE 0
       /\ out = t.output[PhaseAt(m)]
  BY <1>1, <1>3, <1>4, <1>5, <1>6, <1>7, <1>8
<1>9. Ordered(t, out) BY <1>3, <1>10 DEF Ordered
<1> QED BY <1>9 DEF t

\* It moves to the phase that follows, the last one to itself.
LEMMA AdvanceMoves ==
  ASSUME NEW s \in StateType, NEW out
  PROVE  AdvancePhase(s, out).currentPhase = IF s.currentPhase = 5 THEN 5 ELSE s.currentPhase + 1
BY DEF AdvancePhase

\* The current phase is one of the five.
LEMMA CurrentIsPhase == ASSUME NEW s, NEW o, Ordered(s, o) PROVE s.currentPhase \in WorkflowPhase
BY DEF Ordered, StateType

\* The phases of a full run are executed in their order.
LEMMA FullRunIsOrdered ==
  ASSUME FormTyped
  PROVE  Ordered(RunCompleteWorkflow, ExecutePhase(5))
<1> DEFINE s0 == CreateWorkflowState(ralphMode)
           s1 == AdvancePhase(s0, ExecutePhase(1))
           s2 == AdvancePhase(s1, ExecutePhase(2))
           s3 == AdvancePhase(s2, ExecutePhase(3))
           s4 == AdvancePhase(s3, ExecutePhase(4))
           s5 == AdvancePhase(s4, ExecutePhase(5))
<1>0. \A p \in 1..5 : ExecutePhase(p) \in OutputType /\ ExecutePhase(p).phase = p
  BY OutputOfPhase DEF WorkflowPhase
<1>a. ASSUME NEW s, NEW o, Ordered(s, o), NEW p \in 1..4, s.currentPhase = p
      PROVE  Ordered(AdvancePhase(s, ExecutePhase(p)), ExecutePhase(p))
             /\ AdvancePhase(s, ExecutePhase(p)).currentPhase = p + 1
  <2>1. s \in StateType BY <1>a DEF Ordered
  <2>2. ExecutePhase(p) \in OutputType /\ ExecutePhase(p).phase = p BY <1>0
  <2>3. Ordered(AdvancePhase(s, ExecutePhase(p)), ExecutePhase(p)) BY <1>a, <2>2, AdvanceIsOrdered
  <2>4. AdvancePhase(s, ExecutePhase(p)).currentPhase = p + 1 BY <1>a, <2>1, AdvanceMoves
  <2> QED BY <2>3, <2>4
<1>1. Ordered(s0, NoOutput) /\ s0.currentPhase = 1
  BY StartIsOrdered DEF FormTyped, CreateWorkflowState
<1> HIDE DEF s0
<1>2. Ordered(s1, ExecutePhase(1)) /\ s1.currentPhase = 2
  BY <1>a, <1>1
<1> HIDE DEF s1
<1>3. Ordered(s2, ExecutePhase(2)) /\ s2.currentPhase = 3
  BY <1>a, <1>2
<1> HIDE DEF s2
<1>4. Ordered(s3, ExecutePhase(3)) /\ s3.currentPhase = 4
  BY <1>a, <1>3
<1> HIDE DEF s3
<1>5. Ordered(s4, ExecutePhase(4)) /\ s4.currentPhase = 5
  BY <1>a, <1>4
<1> HIDE DEF s4
<1>b. ExecutePhase(5) \in OutputType /\ ExecutePhase(5).phase = 5 BY <1>0
<1>6. Ordered(s5, ExecutePhase(5)) BY <1>b, <1>5, AdvanceIsOrdered
<1>7. RunCompleteWorkflow = s5 BY DEF RunCompleteWorkflow, s0, s1, s2, s3, s4
<1> QED BY <1>6, <1>7

\* A Ralph session is created, asked for and recorded.
LEMMA SessionKeeps ==
  ASSUME session \in SessionType, RalphIsBounded,
         CreateRalphSession \/ AskRalph \/ \E completed \in BOOLEAN : RecordRalphIteration(completed)
  PROVE  session' \in SessionType /\ RalphIsBounded'
<1> USE WorkflowAssumption
<1> DEFINE n == Len(session.iterations)
<1>0. /\ n \in Nat /\ session.iterations \in Seq(BOOLEAN) /\ session.currentIteration = n
      /\ n > 0 => session.iterations # <<>>
  BY DEF SessionType, RalphIsBounded
<1>1. CASE CreateRalphSession
  <2>1. PICK fails \in BOOLEAN : session' = [NoSession EXCEPT !.open = TRUE, !.fails = fails]
    BY <1>1 DEF CreateRalphSession
  <2>4. session' = [open |-> TRUE, fails |-> fails, iterations |-> <<>>, currentIteration |-> 0,
                    status |-> "running", final |-> 0, asked |-> FALSE]
    BY <2>1 DEF NoSession
  <2>2. /\ session'.iterations = <<>> /\ session'.currentIteration = 0
        /\ session'.final = 0 /\ ~session'.asked
    BY <2>4
  <2>5. session' \in SessionType
    <3>1. NoSession \in SessionType BY DEF NoSession, SessionType
    <3> QED BY <2>1, <3>1 DEF SessionType
  <2>3. Len(session'.iterations) = 0 BY <2>2
  <2> QED BY <2>2, <2>3, <2>5 DEF RalphIsBounded, LastCompleted
<1>2. CASE AskRalph
  <2>1. session' = ShouldContinueRalph(session) /\ ~session.asked BY <1>2 DEF AskRalph
  <2>2. CASE session.status # "running"
    <3>1. session' = session BY <2>1, <2>2 DEF ShouldContinueRalph
    <3> QED BY <3>1 DEF RalphIsBounded, LastCompleted
  <2>3. CASE session.status = "running" /\ n >= MaxIterations
    <3>1. PICK st \in {"failed", "completed"} : session' = [session EXCEPT !.status = st]
      BY <2>1, <2>3, <1>0 DEF ShouldContinueRalph
    <3>2. /\ session' \in SessionType /\ session'.iterations = session.iterations
          /\ session'.currentIteration = n /\ session'.final = session.final /\ ~session'.asked
      BY <3>1, <2>1, <1>0 DEF SessionType
    <3>3. ~(session.final > 0) BY <2>3 DEF RalphIsBounded
    <3> QED BY <3>2, <3>3 DEF RalphIsBounded, LastCompleted
  <2>4. CASE session.status = "running" /\ ~(n >= MaxIterations) /\ LastCompleted(session)
    <3>1. session' = [session EXCEPT !.status = "completed", !.final = n]
      BY <2>1, <2>4, <1>0 DEF ShouldContinueRalph
    <3>2. /\ session' \in SessionType /\ session'.iterations = session.iterations
          /\ session'.currentIteration = n /\ session'.final = n /\ ~session'.asked
          /\ session'.status = "completed"
      BY <3>1, <2>1, <1>0 DEF SessionType
    <3> QED BY <3>2, <2>4 DEF RalphIsBounded, LastCompleted
  <2>5. CASE session.status = "running" /\ ~(n >= MaxIterations) /\ ~LastCompleted(session)
    <3>1. session' = [session EXCEPT !.asked = TRUE] BY <2>1, <2>5, <1>0 DEF ShouldContinueRalph
    <3>2. /\ session' \in SessionType /\ session'.iterations = session.iterations
          /\ session'.currentIteration = n /\ session'.final = session.final
          /\ session'.status = "running"
      BY <3>1, <2>5, <1>0 DEF SessionType
    <3> QED BY <3>2, <2>5, <1>0 DEF RalphIsBounded, LastCompleted
  <2> QED BY <2>2, <2>3, <2>4, <2>5
<1>3. CASE \E completed \in BOOLEAN : RecordRalphIteration(completed)
  <2>1. PICK completed \in BOOLEAN : RecordRalphIteration(completed) BY <1>3
  <2>8. session.asked BY <2>1 DEF RecordRalphIteration
  <2>9. session.status = "running" /\ n < MaxIterations /\ ~LastCompleted(session)
    BY <2>8 DEF RalphIsBounded
  <2>10. session.final \in Nat /\ ~(session.final > 0) BY <2>9 DEF RalphIsBounded, SessionType
  <2>2. /\ session.asked /\ session.status = "running" /\ n < MaxIterations /\ ~LastCompleted(session)
        /\ session.final = 0
    BY <2>8, <2>9, <2>10
  <2> DEFINE it == Append(session.iterations, completed)
  <2>6. it \in Seq(BOOLEAN) /\ Len(it) = n + 1 /\ \A i \in 1..n : it[i] = session.iterations[i]
    BY <1>0
  <2>7. session' = [session EXCEPT !.iterations = it, !.currentIteration = n + 1, !.asked = FALSE]
    BY <2>1, <1>0 DEF RecordRalphIteration
  <2> HIDE DEF it, n
  <2>11. n + 1 \in Nat BY <1>0 DEF n
  <2>12. session' \in SessionType BY <2>6, <2>7, <2>11 DEF SessionType
  <2>3. /\ session' \in SessionType /\ session'.iterations = it
        /\ session'.currentIteration = n + 1 /\ session'.final = 0 /\ ~session'.asked
    BY <2>2, <2>7, <2>12 DEF SessionType
  <2> USE DEF n
  <2>4. Len(session'.iterations) = n + 1 /\ \A i \in 1..n : session'.iterations[i] = session.iterations[i]
    BY <2>3, <2>6
  <2>5. \A i \in 1..n : ~session.iterations[i] BY <2>2, <1>0 DEF RalphIsBounded, LastCompleted
  <2> QED BY <2>2, <2>3, <2>4, <2>5, <1>0 DEF RalphIsBounded
<1> QED BY <1>1, <1>2, <1>3

\* Every step keeps the invariant.
LEMMA WorkflowStep == WorkflowInv /\ [WorkflowNext]_workflowVars => WorkflowInv'
<1> SUFFICES ASSUME WorkflowInv, [WorkflowNext]_workflowVars PROVE WorkflowInv' OBVIOUS
<1> USE WorkflowAssumption
<1>0. FormTyped /\ Ordered(workflowState, currentOutput) /\ session \in SessionType /\ RalphIsBounded
  BY DEF WorkflowInv
<1>1. ASSUME UNCHANGED <<workflowState, currentOutput, session>>, FormTyped' PROVE WorkflowInv'
  BY <1>0, <1>1 DEF WorkflowInv, RalphIsBounded, LastCompleted
<1>2. ASSUME UNCHANGED <<formVars, session>>, Ordered(workflowState', currentOutput') PROVE WorkflowInv'
  BY <1>0, <1>2 DEF WorkflowInv, RalphIsBounded, LastCompleted, formVars, FormTyped
<1>3. CASE UNCHANGED workflowVars BY <1>0, <1>1, <1>3 DEF workflowVars, formVars, FormTyped
<1>4. CASE RunPhase
  <2>1. workflowState.currentPhase \in WorkflowPhase BY <1>0, CurrentIsPhase
  <2>2. Ordered(workflowState', currentOutput')
    BY <2>1, <1>0, <1>4, OutputOfPhase, AdvanceIsOrdered DEF RunPhase
  <2> QED BY <2>2, <1>2, <1>4 DEF RunPhase
<1>5. CASE RunFullWorkflow BY <1>0, <1>2, <1>5, FullRunIsOrdered DEF RunFullWorkflow
<1>6. CASE ResetWorkflow BY <1>0, <1>2, <1>6, StartIsOrdered DEF ResetWorkflow, FormTyped
<1>7. CASE EditDescription \/ SetRalphMode BY <1>0, <1>1, <1>7 DEF EditDescription, SetRalphMode, FormTyped
<1>8. CASE \E agent \in AgentRole : ToggleAgent(agent)
  <2>1. PICK agent \in AgentRole : ToggleAgent(agent) BY <1>8
  <2>2. selectedAgents' \subseteq AgentRole BY <2>1, <1>0 DEF ToggleAgent, FormTyped
  <2> QED BY <2>1, <2>2, <1>0, <1>1 DEF ToggleAgent, FormTyped
<1>9. CASE \E group \in AgentGroups : SelectAgentGroup(group)
  <2>1. PICK group \in AgentGroups : SelectAgentGroup(group) BY <1>9
  <2>2. selectedAgents' \subseteq AgentRole BY <2>1, <1>0 DEF SelectAgentGroup, FormTyped
  <2> QED BY <2>1, <2>2, <1>0, <1>1 DEF SelectAgentGroup, FormTyped
<1>10. CASE CreateRalphSession \/ AskRalph \/ \E completed \in BOOLEAN : RecordRalphIteration(completed)
  <2>1. UNCHANGED <<workflowState, currentOutput, formVars>>
    BY <1>10 DEF CreateRalphSession, AskRalph, RecordRalphIteration
  <2>2. session' \in SessionType /\ RalphIsBounded' BY <1>0, <1>10, SessionKeeps
  <2> QED BY <1>0, <2>1, <2>2 DEF WorkflowInv, formVars, FormTyped
<1> QED BY <1>3, <1>4, <1>5, <1>6, <1>7, <1>8, <1>9, <1>10 DEF WorkflowNext

\* The inductive invariant of the workflow.
THEOREM WorkflowInvariance == WorkflowSpec => []WorkflowInv
<1>1. WorkflowInit => WorkflowInv
  <2> SUFFICES ASSUME WorkflowInit PROVE WorkflowInv OBVIOUS
  <2>1. Ordered(workflowState, currentOutput) BY StartIsOrdered DEF WorkflowInit
  <2>2. session \in SessionType /\ RalphIsBounded
    BY WorkflowAssumption DEF WorkflowInit, SessionType, NoSession, RalphIsBounded, LastCompleted
  <2> QED BY <2>1, <2>2 DEF WorkflowInv, WorkflowInit, FormTyped, Descriptions
<1> QED BY <1>1, WorkflowStep, PTL DEF WorkflowSpec

\* Phases are completed in their order, each with its own output, however often the panel
\* advances, runs the whole workflow or starts again.
THEOREM PhasesAreInOrder == WorkflowSpec => []PhasesInOrder
<1>1. WorkflowInv => PhasesInOrder
  <2> SUFFICES ASSUME WorkflowInv PROVE PhasesInOrder OBVIOUS
  <2> DEFINE n == Len(workflowState.completedPhases)
  <2>1. Ordered(workflowState, currentOutput) BY DEF WorkflowInv
  <2>2. n \in Nat /\ DOMAIN workflowState.completedPhases = 1..n BY <2>1 DEF Ordered, StateType
  <2>3. \A p \in WorkflowPhase : IsCompleted(p) <=> p <= n
    BY <2>1, <2>2 DEF Ordered, IsCompleted, PhaseAt, WorkflowPhase
  <2>4. \A p \in WorkflowPhase : IsPending(p) <=> p > n + 1
    BY <2>1, <2>2 DEF Ordered, IsPending, PhaseAt, WorkflowPhase
  <2> QED BY <2>1, <2>2, <2>3, <2>4 DEF PhasesInOrder, Ordered, PhaseAt, WorkflowPhase
<1> QED BY <1>1, WorkflowInvariance, PTL

\* A Ralph session ends within its iterations: it is neither asked nor recorded beyond.
THEOREM RalphEnds == WorkflowSpec => []RalphIsBounded
<1>1. WorkflowInv => RalphIsBounded BY DEF WorkflowInv
<1> QED BY <1>1, WorkflowInvariance, PTL

\* Types of the workflow, for any roles and bounds.
THEOREM WorkflowTypes == WorkflowSpec => []WorkflowTypeOK
<1>1. WorkflowInv => WorkflowTypeOK
  BY DEF WorkflowInv, WorkflowTypeOK, Ordered, StateType, OutputType, FormTyped, SessionType
<1> QED BY <1>1, WorkflowInvariance, PTL

-----------------------------------------------------------------------------
(* Side by side.                                                           *)

\* Every component starts and moves within its own module's steps.
LEMMA SupportMoves ==
  /\ SupportInit => LimitInit /\ RedisInit /\ RecordInit /\ ViewInit /\ SettingsInit /\ WorkflowInit
  /\ [SupportNext]_supportVars =>
       /\ [LimitNext]_limitVars /\ [RedisNext]_redisVars /\ [RecordNext]_recordVars
       /\ [ViewNext]_vars /\ [SettingsNext]_settingsVars /\ [WorkflowNext]_workflowVars
BY DEF SupportInit, SupportNext, supportVars, apiSide, desktopSide

\* What the components do side by side are behaviours of each, so that the
\* theorems above hold there; the client of Redis without its fairness.
THEOREM SupportIsEachComponents ==
  SupportSpec => /\ LimitSpec /\ (RedisInit /\ [][RedisNext]_redisVars) /\ RecordSpec
                 /\ ViewSpec /\ SettingsSpec /\ WorkflowSpec
BY SupportMoves, PTL
   DEF SupportSpec, LimitSpec, RecordSpec, ViewSpec, SettingsSpec, WorkflowSpec
=============================================================================
