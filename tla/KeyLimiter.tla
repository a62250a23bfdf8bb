----------------------------- MODULE KeyLimiter -----------------------------
(* apiKeyRateLimiter: one token bucket per API key, refilled lazily when the *)
(* key is used, forgotten when it has been idle, and never more than          *)
(* MaxBuckets of them.  Next to it, as a yardstick, the token bucket every    *)
(* key would have if it were refilled at every instant and never forgotten.   *)
(*                                                                            *)
(* Tokens are counted in units of 1/Period of a request, so that the refill   *)
(* of elapsed * ratePerMin / 60 tokens is exact.                              *)
EXTENDS Integers, FiniteSets

CONSTANTS
  KeyIDs,
  Rate,           \* ratePerMin
  Period,         \* 60 seconds
  IdleTTL,        \* bucketIdleTTL
  SweepInterval,  \* sweepInterval
  MaxBuckets,     \* maxBuckets
  MaxTime         \* bound: the clock stops here

ASSUME LimiterAssumption ==
  /\ IsFiniteSet(KeyIDs)
  /\ Rate \in Nat \ {0}
  /\ Period \in Nat \ {0}
  /\ IdleTTL \in Nat
  /\ Period <= IdleTTL
  /\ SweepInterval \in Nat
  /\ MaxBuckets \in Nat \ {0}
  /\ MaxTime \in Nat

VARIABLES
  now,
  buckets,    \* the keys that have a bucket
  tokens,     \* key -> tokenBucket.tokens
  lastSeen,   \* key -> tokenBucket.lastSeen
  lastSweep,  \* 0: never (the clock starts at 1)
  ideal       \* history: key -> tokens of the bucket that is never forgotten

vars == <<now, buckets, tokens, lastSeen, lastSweep, ideal>>

One == Period
Full == Rate * Period
Capped(t) == IF t > Full THEN Full ELSE t

\* Mutant of Refilled: a bucket overflows.
RefilledUncapped(k) == tokens[k] + (now - lastSeen[k]) * Rate

\* The tokens of a bucket after the refill.
Refilled(k) == Capped(tokens[k] + (now - lastSeen[k]) * Rate)

-----------------------------------------------------------------------------
\* Mutant of Stale: buckets are forgotten before they are full again.
StaleEarly == {k \in buckets : now - lastSeen[k] >= IdleTTL - 1}

Stale == {k \in buckets : now - lastSeen[k] >= IdleTTL}

\* evictStaleLocked: the sweep is throttled unless the table is full.
Sweeps ==
  \/ Cardinality(buckets) >= MaxBuckets
  \/ lastSweep = 0
  \/ now - lastSweep >= SweepInterval

Kept == IF Sweeps THEN buckets \ Stale ELSE buckets

\* Mutant of Hold: lastSeen stays, so the same time is credited again.
HoldUnseen(k, t) ==
  /\ buckets' = Kept \cup {k}
  /\ tokens' = [j \in KeyIDs |-> IF j = k THEN t ELSE IF j \in Kept THEN tokens[j] ELSE 0]
  /\ lastSeen' = [j \in KeyIDs |->
                    IF j \in Kept THEN lastSeen[j] ELSE IF j = k THEN now ELSE 0]

\* The bucket of k holds t tokens from now on.
Hold(k, t) ==
  /\ buckets' = Kept \cup {k}
  /\ tokens' = [j \in KeyIDs |-> IF j = k THEN t ELSE IF j \in Kept THEN tokens[j] ELSE 0]
  /\ lastSeen' = [j \in KeyIDs |-> IF j = k THEN now ELSE IF j \in Kept THEN lastSeen[j] ELSE 0]

Swept == lastSweep' = IF Sweeps THEN now ELSE lastSweep

\* allow(k): the first request of a key, or the first after it was forgotten.
AllowNew(k) ==
  /\ k \notin Kept
  /\ Cardinality(Kept) < MaxBuckets
  /\ Hold(k, Full - One)
  /\ Swept
  /\ ideal' = [ideal EXCEPT ![k] = @ - One]
  /\ UNCHANGED now

\* allow(k): the bucket is refilled and has a token.
AllowKnown(k) ==
  /\ k \in Kept
  /\ Refilled(k) >= One
  /\ Hold(k, Refilled(k) - One)
  /\ Swept
  /\ ideal' = [ideal EXCEPT ![k] = @ - One]
  /\ UNCHANGED now

\* allow(k): it has none; the refill stays.
RefuseSpent(k) ==
  /\ k \in Kept
  /\ Refilled(k) < One
  /\ Hold(k, Refilled(k))
  /\ Swept
  /\ UNCHANGED <<now, ideal>>

\* Mutant of RefuseFull: a new key is let pass without a bucket.
LetPassFull(k) ==
  /\ k \notin Kept
  /\ Cardinality(Kept) >= MaxBuckets
  /\ Hold(k, Full - One)
  /\ Swept
  /\ ideal' = [ideal EXCEPT ![k] = @ - One]
  /\ UNCHANGED now

\* allow(k): no place for a new bucket.
RefuseFull(k) ==
  /\ k \notin Kept
  /\ Cardinality(Kept) >= MaxBuckets
  /\ buckets' = Kept
  /\ tokens' = [j \in KeyIDs |-> IF j \in Kept THEN tokens[j] ELSE 0]
  /\ lastSeen' = [j \in KeyIDs |-> IF j \in Kept THEN lastSeen[j] ELSE 0]
  /\ Swept
  /\ UNCHANGED <<now, ideal>>

\* Time passes; the clock is read under the limiter's mutex and never goes back.
Tick ==
  /\ now < MaxTime
  /\ now' = now + 1
  /\ ideal' = [k \in KeyIDs |-> Capped(ideal[k] + Rate)]
  /\ UNCHANGED <<buckets, tokens, lastSeen, lastSweep>>

Init ==
  /\ now = 1
  /\ buckets = {}
  /\ tokens = [k \in KeyIDs |-> 0]
  /\ lastSeen = [k \in KeyIDs |-> 0]
  /\ lastSweep = 0
  /\ ideal = [k \in KeyIDs |-> Full]

Next ==
  \/ Tick
  \/ \E k \in KeyIDs : AllowNew(k) \/ AllowKnown(k) \/ RefuseSpent(k) \/ RefuseFull(k)

Spec == Init /\ [][Next]_vars

-----------------------------------------------------------------------------
(* Properties.                                                             *)

\* Every variable keeps its type.
TypeOK ==
  /\ now \in Nat \ {0}
  /\ buckets \subseteq KeyIDs
  /\ tokens \in [KeyIDs -> 0..Full]
  /\ lastSeen \in [KeyIDs -> 0..now]
  /\ lastSweep \in 0..now
  /\ ideal \in [KeyIDs -> 0..Full]

\* The table never outgrows maxBuckets, whatever keys are used.
TableBounded == Cardinality(buckets) <= MaxBuckets

\* Forgetting an idle bucket and refilling lazily change nothing: every key has
\* exactly the tokens it would have in a bucket that is never forgotten.
LimiterExact ==
  \A k \in KeyIDs : ideal[k] = IF k \in buckets THEN Refilled(k) ELSE Full

\* A request passes only if its key has a token left, and is refused for its
\* rate only if it has none.
VerdictIsIdeal ==
  [][\A k \in KeyIDs :
       /\ AllowNew(k) \/ AllowKnown(k) => ideal[k] >= One
       /\ RefuseSpent(k) => ideal[k] < One]_vars
=============================================================================
