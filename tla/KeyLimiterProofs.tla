-------------------------- MODULE KeyLimiterProofs --------------------------
(* The limiter is an exact token bucket for any rate, period, idle time,    *)
(* sweep interval, size of the table and set of keys: KeyLimiter proved.    *)
EXTENDS KeyLimiter, FiniteSetTheorems, TLAPS

LimiterInv == TypeOK /\ TableBounded /\ LimiterExact

\* The numbers the limiter works with.
LEMMA Numbers == Full \in Nat /\ One \in Nat \ {0} /\ One <= Full
<1>1. Rate \in Nat /\ Rate >= 1 /\ Period \in Nat /\ Period >= 1
  BY LimiterAssumption
<1>2. Full \in Nat
  BY <1>1 DEF Full
<1>3. Rate * Period >= Period
  <2>1. PICK r \in Nat : Rate = r + 1
    BY <1>1, Rate = (Rate - 1) + 1, Rate - 1 \in Nat
  <2>2. (r + 1) * Period = r * Period + Period
    BY <1>1, <2>1
  <2>3. r * Period \in Nat
    BY <1>1, <2>1
  <2>4. QED
    BY <1>1, <2>1, <2>2, <2>3
<1>4. QED
  BY <1>1, <1>2, <1>3 DEF Full, One

\* A capped amount is between nothing and full.
LEMMA CappedRange == \A t \in Nat : Capped(t) \in 0..Full /\ (t <= Full => Capped(t) = t)
  BY Numbers DEF Capped

\* Waiting an instant and refilling is refilling and adding an instant's tokens.
LEMMA RefillTick ==
  ASSUME NEW t \in Nat, NEW e \in Nat
  PROVE  Capped(t + (e + 1) * Rate) = Capped(Capped(t + e * Rate) + Rate)
<1>1. Rate \in Nat
  BY LimiterAssumption
<1>2. (e + 1) * Rate = e * Rate + Rate /\ e * Rate \in Nat
  BY <1>1
<1> DEFINE p == e * Rate
<1>3. p \in Nat /\ (e + 1) * Rate = p + Rate
  BY <1>2
<1> HIDE DEF p
<1>4. Capped(t + (p + Rate)) = Capped(Capped(t + p) + Rate)
  BY <1>1, <1>3, Numbers DEF Capped
<1>5. QED
  BY <1>3, <1>4 DEF p

\* A bucket that has been idle for IdleTTL is full.
LEMMA IdleIsFull ==
  ASSUME NEW t \in Nat, NEW e \in Nat, e >= IdleTTL
  PROVE  Capped(t + e * Rate) = Full
<1>1. Rate \in Nat /\ Period \in Nat /\ e >= Period
  BY LimiterAssumption
<1>2. PICK d \in Nat : e = Period + d
  BY <1>1, e - Period \in Nat, e = Period + (e - Period)
<1>3. (Period + d) * Rate = Period * Rate + d * Rate
  BY <1>1, <1>2
<1>4. Period * Rate = Rate * Period /\ d * Rate \in Nat
  BY <1>1, <1>2
<1>5. e * Rate >= Full /\ e * Rate \in Nat
  BY <1>1, <1>2, <1>3, <1>4, Numbers DEF Full
<1>6. QED
  BY <1>5, Numbers DEF Capped

\* The tables of the limiter are finite.
LEMMA TableFinite ==
  ASSUME NEW S, S \subseteq KeyIDs
  PROVE  IsFiniteSet(S) /\ Cardinality(S) \in Nat
  BY LimiterAssumption, FS_Subset, FS_CardinalityType

\* A refilled bucket holds a number of tokens.
LEMMA RefilledRange ==
  ASSUME TypeOK, NEW k \in KeyIDs
  PROVE  Refilled(k) \in 0..Full
<1>1. tokens[k] \in Nat /\ now - lastSeen[k] \in Nat /\ Rate \in Nat
  BY LimiterAssumption, Numbers DEF TypeOK
<1>2. (now - lastSeen[k]) * Rate \in Nat
  BY <1>1
<1>3. QED
  BY <1>1, <1>2, CappedRange DEF Refilled

\* The keys that keep their bucket, and those that lose it, were counted right.
LEMMA KeptExact ==
  ASSUME LimiterInv
  PROVE  /\ Kept \subseteq buckets
         /\ Cardinality(Kept) <= MaxBuckets
         /\ \A j \in Kept : ideal[j] = Refilled(j)
         /\ \A j \in KeyIDs \ Kept : ideal[j] = Full
<1>1. Kept \subseteq buckets
  BY DEF Kept
<1>2. Cardinality(Kept) <= MaxBuckets
  <2>1. IsFiniteSet(buckets) /\ Cardinality(buckets) \in Nat /\ Cardinality(Kept) \in Nat
    BY <1>1, TableFinite DEF LimiterInv, TypeOK
  <2>2. Cardinality(Kept) <= Cardinality(buckets)
    BY <1>1, <2>1, FS_Subset
  <2>3. QED
    BY <2>1, <2>2, LimiterAssumption DEF LimiterInv, TableBounded
<1>3. \A j \in Kept : ideal[j] = Refilled(j)
  BY <1>1 DEF LimiterInv, LimiterExact, TypeOK
<1>4. ASSUME NEW j \in KeyIDs \ Kept PROVE ideal[j] = Full
  <2>1. CASE j \notin buckets
    BY <2>1 DEF LimiterInv, LimiterExact
  <2>2. CASE j \in buckets
    <3>1. j \in Stale
      BY <1>4, <2>2 DEF Kept
    <3>2. now - lastSeen[j] >= IdleTTL /\ now - lastSeen[j] \in Nat /\ tokens[j] \in Nat
      BY <3>1, Numbers DEF Stale, LimiterInv, TypeOK
    <3>3. Refilled(j) = Full
      BY <3>2, IdleIsFull DEF Refilled
    <3>4. QED
      BY <2>2, <3>3 DEF LimiterInv, LimiterExact
  <2>3. QED
    BY <2>1, <2>2
<1>5. QED
  BY <1>1, <1>2, <1>3, <1>4

\* A call of allow that leaves key k with t tokens, in the limiter and in ideal.
LEMMA HoldInv ==
  ASSUME LimiterInv, NEW k \in KeyIDs, NEW t \in 0..Full, Hold(k, t), Swept, now' = now,
         k \in Kept \/ Cardinality(Kept) < MaxBuckets,
         ideal' = [ideal EXCEPT ![k] = t]
  PROVE  LimiterInv'
<1> USE DEF LimiterInv
<1>1. now \in Nat \ {0} /\ ideal \in [KeyIDs -> 0..Full] /\ ideal'[k] = t
  BY DEF TypeOK
<1>2. \A j \in KeyIDs : j # k => ideal'[j] = ideal[j]
  BY <1>1
<1>3. /\ buckets' = Kept \cup {k}
      /\ tokens'[k] = t /\ lastSeen'[k] = now
      /\ \A j \in Kept : j # k => tokens'[j] = tokens[j] /\ lastSeen'[j] = lastSeen[j]
  BY KeptExact DEF Hold, TypeOK
<1>4. TypeOK'
  <2>1. tokens' \in [KeyIDs -> 0..Full] /\ lastSeen' \in [KeyIDs -> 0..now']
    BY <1>1, KeptExact, Numbers DEF Hold, TypeOK
  <2>2. lastSweep' \in 0..now'
    BY <1>1 DEF Swept, TypeOK
  <2>3. ideal' \in [KeyIDs -> 0..Full]
    BY <1>1
  <2>4. buckets' \subseteq KeyIDs
    BY <1>3, KeptExact DEF TypeOK
  <2>5. QED
    BY <1>1, <2>1, <2>2, <2>3, <2>4 DEF TypeOK
<1>5. TableBounded'
  <2>1. IsFiniteSet(Kept) /\ Cardinality(Kept) \in Nat
    BY TableFinite, KeptExact DEF TypeOK
  <2>2. CASE k \in Kept
    BY <1>3, <2>2, KeptExact, Kept \cup {k} = Kept DEF TableBounded
  <2>3. CASE k \notin Kept
    <3>1. Cardinality(Kept \cup {k}) = Cardinality(Kept) + 1
      BY <2>1, <2>3, FS_AddElement
    <3>2. QED
      BY <1>3, <2>1, <2>3, <3>1, LimiterAssumption DEF TableBounded
  <2>4. QED
    BY <2>2, <2>3
<1>6. Refilled(k)' = t
  <2>1. (now - now) * Rate = 0
    BY <1>1, LimiterAssumption
  <2>2. Refilled(k)' = Capped(t + (now - now) * Rate)
    BY <1>3 DEF Refilled, Capped
  <2>3. QED
    BY <2>1, <2>2, CappedRange, Numbers
<1>7. ASSUME NEW j \in KeyIDs
      PROVE  ideal'[j] = IF j \in buckets' THEN Refilled(j)' ELSE Full
  <2>1. CASE j = k
    BY <1>1, <1>3, <1>6, <2>1
  <2>2. CASE j # k /\ j \in Kept
    <3>1. Refilled(j)' = Refilled(j)
      BY <1>3, <2>2 DEF Refilled, Capped
    <3>2. QED
      BY <1>2, <1>3, <2>2, <3>1, KeptExact
  <2>3. CASE j # k /\ j \notin Kept
    BY <1>2, <1>3, <2>3, KeptExact
  <2>4. QED
    BY <2>1, <2>2, <2>3
<1>8. LimiterExact'
  BY <1>7 DEF LimiterExact
<1>9. QED
  BY <1>4, <1>5, <1>8

\* The limiter starts empty, and every key starts with all its tokens.
LEMMA InitInv == Init => LimiterInv
<1> SUFFICES ASSUME Init PROVE LimiterInv
  OBVIOUS
<1>1. Cardinality({}) = 0
  BY FS_EmptySet
<1>2. QED
  BY <1>1, Numbers, LimiterAssumption DEF Init, LimiterInv, TypeOK, TableBounded, LimiterExact

\* Time passes.
LEMMA TickInv == LimiterInv /\ Tick => LimiterInv'
<1> SUFFICES ASSUME LimiterInv, Tick PROVE LimiterInv'
  OBVIOUS
<1> USE DEF LimiterInv
<1>1. /\ now \in Nat \ {0} /\ now' = now + 1 /\ Rate \in Nat
      /\ UNCHANGED <<buckets, tokens, lastSeen, lastSweep>>
  BY LimiterAssumption DEF Tick, TypeOK
<1>2. \A k \in KeyIDs : ideal[k] \in 0..Full /\ ideal'[k] = Capped(ideal[k] + Rate)
  BY DEF Tick, TypeOK
<1>3. \A k \in KeyIDs : Capped(ideal[k] + Rate) \in 0..Full
  BY <1>1, <1>2, CappedRange, Numbers
<1>4. ideal' \in [KeyIDs -> 0..Full]
  BY <1>3 DEF Tick
<1>5. TypeOK'
  <2>1. \A k \in KeyIDs : lastSeen[k] \in 0..(now + 1)
    BY <1>1 DEF TypeOK
  <2>2. lastSeen' \in [KeyIDs -> 0..now'] /\ lastSweep' \in 0..now' /\ now' \in Nat \ {0}
    BY <1>1, <2>1 DEF TypeOK
  <2>3. QED
    BY <1>1, <1>4, <2>2 DEF TypeOK
<1>6. TableBounded'
  BY <1>1 DEF TableBounded
<1>7. ASSUME NEW k \in KeyIDs
      PROVE  ideal'[k] = IF k \in buckets' THEN Refilled(k)' ELSE Full
  <2>1. CASE k \in buckets
    <3>1. tokens[k] \in Nat /\ now - lastSeen[k] \in Nat
      BY Numbers DEF TypeOK
    <3>2. (now + 1) - lastSeen[k] = (now - lastSeen[k]) + 1
      BY <1>1, <3>1 DEF TypeOK
    <3>3. Refilled(k)' = Capped(tokens[k] + ((now - lastSeen[k]) + 1) * Rate)
      BY <1>1, <3>2 DEF Refilled, Capped
    <3>4. Refilled(k)' = Capped(Refilled(k) + Rate)
      BY <3>1, <3>3, RefillTick DEF Refilled
    <3>5. QED
      BY <1>1, <1>2, <2>1, <3>4 DEF LimiterExact
  <2>2. CASE k \notin buckets
    <3>1. ideal[k] = Full
      BY <2>2 DEF LimiterExact
    <3>2. Capped(Full + Rate) = Full
      BY <1>1, Numbers DEF Capped
    <3>3. QED
      BY <1>1, <1>2, <2>2, <3>1, <3>2
  <2>3. QED
    BY <2>1, <2>2
<1>8. LimiterExact'
  BY <1>7 DEF LimiterExact
<1>9. QED
  BY <1>5, <1>6, <1>8

\* allow, with each of its four outcomes.
LEMMA AllowInv ==
  ASSUME LimiterInv, NEW k \in KeyIDs,
         AllowNew(k) \/ AllowKnown(k) \/ RefuseSpent(k) \/ RefuseFull(k)
  PROVE  LimiterInv'
<1>1. ideal \in [KeyIDs -> 0..Full] /\ Refilled(k) \in 0..Full
  BY RefilledRange DEF LimiterInv, TypeOK
<1>2. CASE AllowNew(k)
  <2>1. ideal[k] = Full
    BY <1>2, KeptExact DEF AllowNew
  <2>2. Full - One \in 0..Full
    BY Numbers
  <2>3. QED
    BY <1>2, <2>1, <2>2, HoldInv DEF AllowNew
<1>3. CASE AllowKnown(k)
  <2>1. ideal[k] = Refilled(k)
    BY <1>3, KeptExact DEF AllowKnown
  <2>2. Refilled(k) - One \in 0..Full
    BY <1>1, <1>3, Numbers DEF AllowKnown
  <2>3. QED
    BY <1>3, <2>1, <2>2, HoldInv DEF AllowKnown
<1>4. CASE RefuseSpent(k)
  <2>1. ideal[k] = Refilled(k)
    BY <1>4, KeptExact DEF RefuseSpent
  <2>2. ideal' = [ideal EXCEPT ![k] = Refilled(k)]
    BY <1>1, <1>4, <2>1 DEF RefuseSpent
  <2>3. QED
    BY <1>1, <1>4, <2>2, HoldInv DEF RefuseSpent
<1>5. CASE RefuseFull(k)
  <2> USE DEF LimiterInv
  <2>1. /\ buckets' = Kept /\ now' = now /\ ideal' = ideal /\ now \in Nat \ {0}
        /\ \A j \in Kept : tokens'[j] = tokens[j] /\ lastSeen'[j] = lastSeen[j]
    BY <1>5, KeptExact DEF RefuseFull, TypeOK
  <2>2. tokens' \in [KeyIDs -> 0..Full] /\ lastSeen' \in [KeyIDs -> 0..now']
    BY <1>5, <2>1, KeptExact, Numbers DEF RefuseFull, TypeOK
  <2>3. lastSweep' \in 0..now'
    BY <1>5, <2>1 DEF RefuseFull, Swept, TypeOK
  <2>4. TypeOK' /\ TableBounded'
    BY <1>1, <2>1, <2>2, <2>3, KeptExact DEF TypeOK, TableBounded
  <2>5. \A j \in Kept : Refilled(j)' = Refilled(j)
    BY <2>1 DEF Refilled, Capped
  <2>6. LimiterExact'
    BY <2>1, <2>5, KeptExact DEF LimiterExact, TypeOK
  <2>7. QED
    BY <2>4, <2>6
<1>6. QED
  BY <1>2, <1>3, <1>4, <1>5

\* LimiterInv is inductive.
THEOREM LimiterInvariant == Spec => []LimiterInv
<1>1. ASSUME LimiterInv, UNCHANGED vars PROVE LimiterInv'
  BY <1>1 DEF vars, LimiterInv, TypeOK, TableBounded, LimiterExact, Refilled, Capped
<1>2. LimiterInv /\ [Next]_vars => LimiterInv'
  BY <1>1, TickInv, AllowInv DEF Next
<1>3. QED
  BY InitInv, <1>2, PTL DEF Spec

\* apiKeyRateLimiter: the types of the limiter's state.
THEOREM LimiterTypeOK == Spec => []TypeOK
  BY LimiterInvariant, PTL DEF LimiterInv

\* evictStaleLocked and allow: the table stays within maxBuckets.
THEOREM TableStaysBounded == Spec => []TableBounded
  BY LimiterInvariant, PTL DEF LimiterInv

\* bucketIdleTTL: forgetting idle buckets does not change the limits.
THEOREM EvictionInvisible == Spec => []LimiterExact
  BY LimiterInvariant, PTL DEF LimiterInv

\* allow: its verdict is the one of a bucket that is never forgotten.
THEOREM VerdictCorrect == Spec => VerdictIsIdeal
<1> DEFINE Fair == \A k \in KeyIDs :
                     /\ AllowNew(k) \/ AllowKnown(k) => ideal[k] >= One
                     /\ RefuseSpent(k) => ideal[k] < One
<1>1. ASSUME LimiterInv PROVE Fair
  <2>1. ASSUME NEW k \in KeyIDs, AllowNew(k) PROVE ideal[k] >= One
    BY <1>1, <2>1, KeptExact, Numbers DEF AllowNew
  <2>2. ASSUME NEW k \in KeyIDs, AllowKnown(k) PROVE ideal[k] >= One
    BY <1>1, <2>2, KeptExact DEF AllowKnown
  <2>3. ASSUME NEW k \in KeyIDs, RefuseSpent(k) PROVE ideal[k] < One
    BY <1>1, <2>3, KeptExact DEF RefuseSpent
  <2>4. QED
    BY <2>1, <2>2, <2>3
<1>2. LimiterInv /\ [Next]_vars => [Fair]_vars
  BY <1>1
<1>3. QED
  BY <1>2, LimiterInvariant, PTL DEF Spec, VerdictIsIdeal
=============================================================================
