--------------------------- MODULE RateLimiterProofs ---------------------------
(***************************************************************************)
(* Theorems about RateLimiter, for any set of addresses and any numbers of *)
(* which a regular sweep leaves a bucket the time to fill up.              *)
(***************************************************************************)
EXTENDS RateLimiter, FiniteSetTheorems, TLAPS

-----------------------------------------------------------------------------
\* Arithmetic.

LEMMA Numbers ==
  /\ Burst \in Nat \ {0} /\ Rate \in Nat \ {0} /\ SweepEvery \in Nat \ {0}
  /\ BucketTTL \in Nat \ {0} /\ ForcedTTL \in Nat \ {0} /\ MaxBuckets \in Nat \ {0}
  /\ ForcedTTL < BucketTTL /\ Burst <= BucketTTL * Rate
BY NumbersAssumption

LEMMA MinOfTwo ==
  ASSUME NEW a \in Int, NEW b \in Int
  PROVE  Min({a, b}) = IF a <= b THEN a ELSE b
<1> DEFINE m == IF a <= b THEN a ELSE b
<1>1. m \in {a, b} /\ \A y \in {a, b} : m <= y
  OBVIOUS
<1>2. \A x \in {a, b} : (\A y \in {a, b} : x <= y) => x = m
  OBVIOUS
<1> QED BY <1>1, <1>2 DEF Min

LEMMA MaxOfTwo ==
  ASSUME NEW a \in Int, NEW b \in Int
  PROVE  Max({a, b}) = IF a >= b THEN a ELSE b
<1> DEFINE m == IF a >= b THEN a ELSE b
<1>1. m \in {a, b} /\ \A y \in {a, b} : m >= y
  OBVIOUS
<1>2. \A x \in {a, b} : (\A y \in {a, b} : x >= y) => x = m
  OBVIOUS
<1> QED BY <1>1, <1>2 DEF Max

\* More ticks, more requests.
LEMMA LongerIsMore ==
  ASSUME NEW m \in Nat, NEW n \in Nat, m <= n
  PROVE  m * Rate \in Nat /\ m * Rate <= n * Rate /\ (n + 1) * Rate = n * Rate + Rate
BY Numbers

\* What a flood can win an address.
Gain == IF Burst >= ForcedTTL * Rate THEN Burst - ForcedTTL * Rate ELSE 0

LEMMA GainFacts ==
  /\ Gain \in Nat
  /\ Gain = Max({0, Burst - ForcedTTL * Rate})
  /\ Burst - Gain <= ForcedTTL * Rate
<1>1. ForcedTTL * Rate \in Nat
  BY Numbers, LongerIsMore
<1> QED
  BY <1>1, Numbers, MaxOfTwo DEF Gain

-----------------------------------------------------------------------------
\* The inductive invariant, of a table t.

Buckets == [tokens : 0 .. Burst, idle : 0 .. BucketTTL + 1]

TableOK(t) ==
  /\ IsFiniteSet(DOMAIN t) /\ DOMAIN t \subseteq Keys
  /\ Cardinality(DOMAIN t) <= MaxBuckets
  /\ \A k \in DOMAIN t : t[k] \in Buckets

\* So many ticks without a request have given n requests back, or filled the bucket.
Earned(n, ticks) == n = Burst \/ n >= ticks * Rate

EarnedOK(t) ==
  \A k \in DOMAIN t : Earned(t[k].tokens, t[k].idle) /\ Earned(ideal[k], t[k].idle)

Held(t, k) == IF k \in DOMAIN t THEN t[k].tokens ELSE Burst

\* Nobody is given less than their share, nor more than a flood can win them.
ShareOK(t, flood) ==
  \A k \in Keys :
    /\ Held(t, k) >= ideal[k] /\ Held(t, k) <= ideal[k] + Gain
    /\ ~flood => Held(t, k) = ideal[k]

TypedOK ==
  /\ lastSweep \in 0 .. SweepEvery + 1
  /\ ideal \in [Keys -> 0 .. Burst]
  /\ flooded \in BOOLEAN
  /\ refused \subseteq Keys

IInv ==
  /\ TypedOK
  /\ TableOK(buckets) /\ EarnedOK(buckets) /\ ShareOK(buckets, flooded)
  /\ RefusedForCause

-----------------------------------------------------------------------------
\* Sweeps.

\* Who a sweep keeps, and who it drops: of those idle for just ttl, some.
LEMMA SweepFacts ==
  ASSUME NEW t, NEW ttl, NEW swept \in Sweep(t, ttl)
  PROVE  /\ DOMAIN swept \subseteq DOMAIN t
         /\ \A k \in DOMAIN swept : swept[k] = t[k] /\ ~(t[k].idle > ttl)
         /\ \A k \in DOMAIN t \ DOMAIN swept : t[k].idle > ttl \/ t[k].idle = ttl
BY DEF Sweep

LEMMA SweepTable ==
  ASSUME NEW t, NEW ttl, TableOK(t), EarnedOK(t), NEW swept \in Sweep(t, ttl)
  PROVE  TableOK(swept) /\ EarnedOK(swept)
<1>1. DOMAIN swept \subseteq DOMAIN t
  BY SweepFacts
<1>2. IsFiniteSet(DOMAIN swept) /\ Cardinality(DOMAIN swept) <= Cardinality(DOMAIN t)
  BY <1>1, FS_Subset DEF TableOK
<1>3. Cardinality(DOMAIN swept) \in Nat /\ Cardinality(DOMAIN t) \in Nat
  BY <1>2, FS_CardinalityType DEF TableOK
<1>4. \A k \in DOMAIN swept : swept[k] = t[k]
  BY SweepFacts
<1>5. Cardinality(DOMAIN swept) <= MaxBuckets
  BY <1>2, <1>3, Numbers DEF TableOK
<1>6. TableOK(swept)
  BY <1>1, <1>2, <1>4, <1>5 DEF TableOK
<1>7. EarnedOK(swept)
  BY <1>1, <1>4 DEF EarnedOK
<1> QED BY <1>6, <1>7

\* Whoever is dropped has waited for ttl, and has been given back what that earns.
LEMMA DroppedEarned ==
  ASSUME TypedOK, NEW t, NEW ttl \in Nat, TableOK(t), EarnedOK(t),
         NEW swept \in Sweep(t, ttl), NEW k \in DOMAIN t \ DOMAIN swept
  PROVE  /\ t[k].tokens = Burst \/ t[k].tokens >= ttl * Rate
         /\ ideal[k] = Burst \/ ideal[k] >= ttl * Rate
<1>1. t[k].idle \in Nat /\ ttl <= t[k].idle
  BY SweepFacts, Numbers DEF TableOK, Buckets
<1>2. ttl * Rate \in Nat /\ t[k].idle * Rate \in Nat /\ ttl * Rate <= t[k].idle * Rate
  BY <1>1, LongerIsMore
<1>3. t[k].tokens \in 0 .. Burst /\ ideal[k] \in 0 .. Burst
  BY DEF TableOK, Buckets, TypedOK
<1>4. /\ t[k].tokens = Burst \/ t[k].tokens >= t[k].idle * Rate
      /\ ideal[k] = Burst \/ ideal[k] >= t[k].idle * Rate
  BY DEF EarnedOK, Earned
<1> QED
  BY <1>2, <1>3, <1>4, Numbers

\* Who is not dropped holds what they held; who is, a full bucket.
LEMMA SweepHeld ==
  ASSUME NEW t, NEW ttl, NEW swept \in Sweep(t, ttl), NEW k
  PROVE  Held(swept, k) = IF k \in DOMAIN t \ DOMAIN swept THEN Burst ELSE Held(t, k)
BY SweepFacts DEF Held

\* A bucket that a regular sweep drops is full, in fact and by rights.
LEMMA RegularSweepShare ==
  ASSUME TypedOK, NEW t, NEW flood \in BOOLEAN, TableOK(t), EarnedOK(t), ShareOK(t, flood),
         NEW swept \in Sweep(t, BucketTTL)
  PROVE  ShareOK(swept, flood)
<1> SUFFICES ASSUME NEW k \in Keys PROVE Held(swept, k) = Held(t, k)
  BY DEF ShareOK
<1>1. CASE k \in DOMAIN t \ DOMAIN swept
  <2>1. t[k].tokens = Burst \/ t[k].tokens >= BucketTTL * Rate
    BY <1>1, DroppedEarned, Numbers
  <2>2. t[k].tokens \in 0 .. Burst /\ BucketTTL * Rate \in Nat
    BY <1>1, LongerIsMore, Numbers DEF TableOK, Buckets
  <2>3. t[k].tokens = Burst
    BY <2>1, <2>2, Numbers
  <2> QED BY <1>1, <2>3, SweepHeld DEF Held
<1>2. CASE k \notin DOMAIN t \ DOMAIN swept
  BY <1>2, SweepHeld
<1> QED BY <1>1, <1>2

\* One that a forced sweep drops may not be, by no more than Gain.
LEMMA ForcedSweepShare ==
  ASSUME TypedOK, NEW t, NEW flood \in BOOLEAN, TableOK(t), EarnedOK(t), ShareOK(t, flood),
         NEW swept \in Sweep(t, ForcedTTL)
  PROVE  ShareOK(swept, TRUE)
<1> SUFFICES ASSUME NEW k \in Keys
             PROVE  Held(swept, k) >= ideal[k] /\ Held(swept, k) <= ideal[k] + Gain
  BY DEF ShareOK
<1>1. CASE k \in DOMAIN t \ DOMAIN swept
  <2>1. ideal[k] = Burst \/ ideal[k] >= ForcedTTL * Rate
    BY <1>1, DroppedEarned, Numbers
  <2>2. ideal[k] \in 0 .. Burst /\ ForcedTTL * Rate \in Nat
    BY LongerIsMore, Numbers DEF TypedOK
  <2>3. Held(swept, k) = Burst
    BY <1>1, SweepHeld
  <2> QED BY <2>1, <2>2, <2>3, GainFacts, Numbers
<1>2. CASE k \notin DOMAIN t \ DOMAIN swept
  <2>1. Held(swept, k) = Held(t, k)
    BY <1>2, SweepHeld
  <2> QED BY <2>1 DEF ShareOK
<1> QED BY <1>1, <1>2

LEMMA SweptOK ==
  ASSUME IInv, NEW due \in BOOLEAN, NEW swept \in Swept(due)
  PROVE  TableOK(swept) /\ EarnedOK(swept) /\ ShareOK(swept, flooded)
<1>1. CASE due
  BY <1>1, SweepTable, RegularSweepShare DEF IInv, Swept, TypedOK
<1>2. CASE ~due
  BY <1>2 DEF IInv, Swept
<1> QED BY <1>1, <1>2

\* The table that k's bucket is looked for in.
Given(k, table, flood) ==
  /\ TableOK(table) /\ EarnedOK(table) /\ ShareOK(table, flood)
  /\ TurnedAway(k, table) => \A j \in DOMAIN table : table[j].idle <= ForcedTTL

LEMMA TableKept ==
  ASSUME IInv, NEW k \in Keys, NEW due \in BOOLEAN, NEW swept \in Swept(due),
         NEW table \in Tables(k, swept)
  PROVE  Given(k, table, flooded \/ Forced(k, swept))
<1>1. TableOK(swept) /\ EarnedOK(swept) /\ ShareOK(swept, flooded)
  BY SweptOK
<1>2. CASE Forced(k, swept)
  <2>1. table \in Sweep(swept, ForcedTTL)
    BY <1>2 DEF Tables
  <2>2. TableOK(table) /\ EarnedOK(table) /\ ShareOK(table, TRUE)
    BY <1>1, <2>1, SweepTable, ForcedSweepShare DEF IInv, TypedOK
  <2>3. \A j \in DOMAIN table : table[j].idle <= ForcedTTL
    BY <1>1, <2>1, SweepFacts, Numbers DEF TableOK, Buckets
  <2> QED BY <1>2, <2>2, <2>3 DEF Given
<1>3. CASE ~Forced(k, swept)
  <2>1. table = swept /\ (flooded \/ Forced(k, swept)) = flooded
    BY <1>3 DEF Tables, IInv, TypedOK
  <2>2. ~TurnedAway(k, table)
    BY <1>3, <2>1 DEF Forced, TurnedAway
  <2> QED BY <1>1, <2>1, <2>2 DEF Given
<1> QED BY <1>2, <1>3

-----------------------------------------------------------------------------
\* Requests.

LEMMA InvInit == Init => IInv
<1> SUFFICES ASSUME Init PROVE IInv
  OBVIOUS
<1>1. DOMAIN buckets = {}
  BY DEF Init
<1>2. TableOK(buckets)
  BY <1>1, Numbers, FS_EmptySet DEF TableOK
<1>3. TypedOK
  <2>1. lastSweep = 0 /\ flooded = FALSE /\ refused = {} /\ ideal = [k \in Keys |-> Burst]
    BY DEF Init
  <2>2. 0 \in 0 .. SweepEvery + 1 /\ Burst \in 0 .. Burst
    BY Numbers
  <2>3. ideal \in [Keys -> 0 .. Burst]
    BY <2>1, <2>2
  <2> QED BY <2>1, <2>2, <2>3 DEF TypedOK
<1>4. EarnedOK(buckets) /\ RefusedForCause
  BY <1>1 DEF Init, EarnedOK, RefusedForCause
<1>5. ShareOK(buckets, flooded)
  <2> SUFFICES ASSUME NEW k \in Keys
               PROVE  /\ Held(buckets, k) >= ideal[k] /\ Held(buckets, k) <= ideal[k] + Gain
                      /\ ~flooded => Held(buckets, k) = ideal[k]
    BY DEF ShareOK
  <2>1. Held(buckets, k) = Burst /\ ideal[k] = Burst
    BY <1>1 DEF Init, Held
  <2> QED BY <2>1, GainFacts, Numbers
<1> QED
  BY <1>2, <1>3, <1>4, <1>5 DEF IInv

\* There is a place for k's bucket.
LEMMA TouchedTable ==
  ASSUME NEW k \in Keys, NEW table, TableOK(table), ~TurnedAway(k, table),
         NEW n \in 0 .. Burst, Touched(k, table, n)
  PROVE  /\ TableOK(buckets')
         /\ \A j \in Keys \ {k} : Held(buckets', j) = Held(table, j)
         /\ Held(buckets', k) = n
<1> DEFINE t == table
<1>1. TableOK(t)
  OBVIOUS
<1> HIDE DEF t
<1>2. DOMAIN buckets' = DOMAIN t \cup {k}
  BY DEF Touched, t
<1>3. \A j \in DOMAIN buckets' : buckets'[j] = IF j = k THEN [tokens |-> n, idle |-> 0] ELSE t[j]
  BY DEF Touched, t
<1>4. IsFiniteSet(DOMAIN buckets') /\ Cardinality(DOMAIN buckets') <= MaxBuckets
  <2>1. CASE k \in DOMAIN t
    <3>1. DOMAIN buckets' = DOMAIN t
      BY <1>2, <2>1
    <3> QED BY <1>1, <3>1 DEF TableOK
  <2>2. CASE k \notin DOMAIN t
    <3>1. IsFiniteSet(DOMAIN t) /\ ~Full(t)
      BY <1>1, <2>2 DEF TableOK, TurnedAway, t
    <3>2. Cardinality(DOMAIN t \cup {k}) = Cardinality(DOMAIN t) + 1 /\ IsFiniteSet(DOMAIN t \cup {k})
      BY <2>2, <3>1, FS_AddElement
    <3>3. Cardinality(DOMAIN t) \in Nat
      BY <3>1, FS_CardinalityType
    <3> QED BY <1>2, <3>1, <3>2, <3>3, Numbers DEF Full
  <2> QED BY <2>1, <2>2
<1>5. \A j \in DOMAIN buckets' : buckets'[j] \in Buckets
  BY <1>1, <1>2, <1>3, Numbers DEF TableOK, Buckets
<1>6. DOMAIN buckets' \subseteq Keys
  BY <1>1, <1>2 DEF TableOK
<1>7. TableOK(buckets')
  BY <1>4, <1>5, <1>6 DEF TableOK
<1>8. \A j \in Keys \ {k} : Held(buckets', j) = Held(t, j)
  BY <1>2, <1>3 DEF Held
<1>9. Held(buckets', k) = n
  BY <1>2, <1>3 DEF Held
<1> QED BY <1>7, <1>8, <1>9 DEF t

\* An idle bucket has earned what it holds; k's was seen now and need not have.
LEMMA TouchedEarned ==
  ASSUME NEW k \in Keys, NEW table, TableOK(table), EarnedOK(table),
         NEW n \in 0 .. Burst, Touched(k, table, n),
         ideal' \in [Keys -> 0 .. Burst], \A j \in Keys \ {k} : ideal'[j] = ideal[j]
  PROVE  EarnedOK(buckets)'
<1> SUFFICES ASSUME NEW j \in DOMAIN buckets'
             PROVE  Earned(buckets'[j].tokens, buckets'[j].idle) /\ Earned(ideal'[j], buckets'[j].idle)
  BY DEF EarnedOK
<1>2. j \in Keys
  BY DEF Touched, TableOK
<1>3. CASE j = k
  <2>1. buckets'[j] = [tokens |-> n, idle |-> 0]
    BY <1>3 DEF Touched
  <2> QED BY <1>2, <2>1, Numbers DEF Earned
<1>4. CASE j # k
  <2>1. j \in DOMAIN table /\ buckets'[j] = table[j]
    BY <1>4 DEF Touched
  <2> QED BY <1>2, <1>4, <2>1 DEF EarnedOK
<1> QED BY <1>3, <1>4

\* What k holds before it is asked for a request.
LEMMA LeftHeld ==
  ASSUME IInv, NEW k \in Keys, NEW table, NEW flood \in BOOLEAN, Given(k, table, flood)
  PROVE  /\ Left(k, table) = Held(table, k) /\ Left(k, table) \in 0 .. Burst
         /\ Left(k, table) >= ideal[k] /\ Left(k, table) <= ideal[k] + Gain
         /\ ~flood => Left(k, table) = ideal[k]
<1>1. Left(k, table) = Held(table, k)
  BY DEF Left, Held
<1>2. Held(table, k) \in 0 .. Burst
  BY Numbers DEF Given, TableOK, Buckets, Held
<1> QED
  BY <1>1, <1>2 DEF Given, ShareOK

\* The histories of a request are of their types.
HistoryOK(flood) == flood \in BOOLEAN /\ flooded' = flood /\ lastSweep' \in 0 .. SweepEvery + 1

LEMMA AdmitNext ==
  ASSUME IInv, NEW k \in Keys, NEW table, NEW flood, HistoryOK(flood), Given(k, table, flood),
         Admit(k, table)
  PROVE  IInv'
<1> DEFINE left == Left(k, table)
<1>1. /\ ~TurnedAway(k, table) /\ left >= 1 /\ Touched(k, table, left - 1)
      /\ ideal' = [ideal EXCEPT ![k] = IF @ > 0 THEN @ - 1 ELSE 0] /\ refused' = {}
  BY DEF Admit
<1>2. /\ left \in 0 .. Burst /\ left >= ideal[k] /\ left <= ideal[k] + Gain
      /\ ~flooded' => left = ideal[k]
  BY LeftHeld DEF HistoryOK
<1> HIDE DEF left
<1>3. left - 1 \in 0 .. Burst
  BY <1>1, <1>2, Numbers
<1>4. ideal' \in [Keys -> 0 .. Burst] /\ \A j \in Keys \ {k} : ideal'[j] = ideal[j]
  BY <1>1, Numbers DEF IInv, TypedOK
<1>5. TypedOK'
  BY <1>1, <1>4 DEF TypedOK, HistoryOK
<1>6. /\ TableOK(buckets')
      /\ \A j \in Keys \ {k} : Held(buckets', j) = Held(table, j)
      /\ Held(buckets', k) = left - 1
  BY <1>1, <1>3, TouchedTable DEF Given
<1>7. EarnedOK(buckets)'
  BY <1>1, <1>3, <1>4, TouchedEarned DEF Given
<1>8. ShareOK(buckets, flooded)'
  <2> SUFFICES ASSUME NEW j \in Keys
               PROVE  /\ Held(buckets', j) >= ideal'[j] /\ Held(buckets', j) <= ideal'[j] + Gain
                      /\ ~flooded' => Held(buckets', j) = ideal'[j]
    BY DEF ShareOK, Held
  <2>1. CASE j = k
    <3>1. ideal[k] \in 0 .. Burst /\ ideal'[k] = IF ideal[k] > 0 THEN ideal[k] - 1 ELSE 0
      BY <1>1 DEF IInv, TypedOK
    <3>2. left - 1 >= ideal'[k] /\ left - 1 <= ideal'[k] + Gain
      BY <1>1, <1>2, <3>1, GainFacts, Numbers
    <3>3. left = ideal[k] => left - 1 = ideal'[k]
      BY <1>1, <1>2, <3>1, Numbers
    <3> QED BY <1>2, <1>6, <2>1, <3>2, <3>3
  <2>2. CASE j # k
    BY <1>4, <1>6, <2>2 DEF Given, ShareOK, HistoryOK
  <2> QED BY <2>1, <2>2
<1>9. RefusedForCause'
  BY <1>1 DEF RefusedForCause
<1> QED
  BY <1>5, <1>6, <1>7, <1>8, <1>9 DEF IInv, TableOK

LEMMA TablesShrink ==
  ASSUME NEW due \in BOOLEAN, NEW swept \in Swept(due), NEW k, NEW table \in Tables(k, swept)
  PROVE  DOMAIN table \subseteq DOMAIN buckets
<1>1. DOMAIN swept \subseteq DOMAIN buckets
  BY SweepFacts DEF Swept
<1>2. DOMAIN table \subseteq DOMAIN swept
  BY SweepFacts DEF Tables
<1> QED BY <1>1, <1>2

\* A regular sweep drops nobody who was seen within ForcedTTL.
LEMMA LatelySeenStay ==
  ASSUME IInv, \A j \in DOMAIN buckets : buckets[j].idle <= ForcedTTL,
         NEW due \in BOOLEAN, NEW swept \in Swept(due)
  PROVE  DOMAIN swept = DOMAIN buckets /\ \A j \in DOMAIN buckets : swept[j] = buckets[j]
<1>1. \A j \in DOMAIN buckets : buckets[j].idle \in Nat /\ buckets[j].idle < BucketTTL
  BY Numbers DEF IInv, TableOK, Buckets
<1>2. CASE due
  <2>1. swept \in Sweep(buckets, BucketTTL)
    BY <1>2 DEF Swept
  <2>2. /\ DOMAIN swept \subseteq DOMAIN buckets
        /\ \A j \in DOMAIN swept : swept[j] = buckets[j]
        /\ \A j \in DOMAIN buckets \ DOMAIN swept :
             buckets[j].idle > BucketTTL \/ buckets[j].idle = BucketTTL
    BY <2>1, SweepFacts
  <2>3. DOMAIN buckets \ DOMAIN swept = {}
    BY <1>1, <2>2, Numbers
  <2> QED BY <2>2, <2>3
<1>3. CASE ~due
  BY <1>3 DEF Swept
<1> QED BY <1>2, <1>3

LEMMA RefuseNext ==
  ASSUME IInv, NEW k \in Keys, NEW due \in BOOLEAN, NEW swept \in Swept(due),
         NEW table \in Tables(k, swept), HistoryOK(flooded \/ Forced(k, swept)), Refuse(k, table)
  PROVE  IInv'
<1> DEFINE flood == flooded \/ Forced(k, swept)
<1>1. Given(k, table, flood) /\ HistoryOK(flood)
  BY TableKept
<1> HIDE DEF flood
<1>2. refused' = refused \cup {k} /\ UNCHANGED ideal
  BY DEF Refuse
<1>3. TypedOK'
  BY <1>1, <1>2 DEF IInv, TypedOK, HistoryOK
<1>4. TableOK(buckets') /\ EarnedOK(buckets)' /\ \A j \in Keys : Held(buckets', j) = Held(table, j)
  <2>1. CASE ~TurnedAway(k, table) /\ Left(k, table) < 1 /\ Touched(k, table, Left(k, table))
    <3>1. Left(k, table) = Held(table, k) /\ Left(k, table) \in 0 .. Burst
      BY <1>1, LeftHeld DEF HistoryOK
    <3>2. ideal' \in [Keys -> 0 .. Burst] /\ \A j \in Keys \ {k} : ideal'[j] = ideal[j]
      BY <1>2 DEF IInv, TypedOK
    <3> QED BY <1>1, <2>1, <3>1, <3>2, TouchedTable, TouchedEarned DEF Given
  <2>2. CASE TurnedAway(k, table) /\ buckets' = table
    BY <1>1, <1>2, <2>2 DEF EarnedOK, Given
  <2> QED BY <2>1, <2>2 DEF Refuse
<1>5. ShareOK(buckets, flooded)'
  BY <1>1, <1>2, <1>4 DEF ShareOK, Held, Given, HistoryOK
<1>6. RefusedForCause'
  <2> SUFFICES ASSUME NEW r \in refused', ~(ideal[r] < 1)
               PROVE  /\ r \notin DOMAIN buckets' /\ Full(buckets')
                      /\ \A j \in DOMAIN buckets' : buckets'[j].idle <= ForcedTTL
    BY <1>2 DEF RefusedForCause, Full
  <2>1. r \in refused => /\ r \notin DOMAIN buckets /\ Full(buckets)
                         /\ \A j \in DOMAIN buckets : buckets[j].idle <= ForcedTTL
    BY DEF IInv, RefusedForCause
  <2>2. CASE TurnedAway(k, table) /\ buckets' = table
    <3>1. r \notin DOMAIN table
      BY <1>2, <2>1, <2>2, TablesShrink DEF TurnedAway
    <3> QED BY <1>1, <2>2, <3>1 DEF Given, TurnedAway, Full
  <2>3. CASE ~TurnedAway(k, table) /\ Left(k, table) < 1 /\ Touched(k, table, Left(k, table))
    <3>1. r # k
      <4>1. ideal[k] <= Left(k, table) /\ ideal[k] \in 0 .. Burst /\ Left(k, table) \in 0 .. Burst
        BY <1>1, LeftHeld DEF IInv, TypedOK, HistoryOK
      <4> QED BY <2>3, <4>1, Numbers
    <3>2. r \in refused
      BY <1>2, <3>1
    <3>3. DOMAIN swept = DOMAIN buckets /\ \A j \in DOMAIN buckets : swept[j] = buckets[j]
      BY <2>1, <3>2, LatelySeenStay
    <3>4. k \in DOMAIN table
      BY <2>3, Numbers DEF Left
    <3>5. DOMAIN table \subseteq DOMAIN swept
      BY SweepFacts DEF Tables
    <3>6. table = swept
      BY <3>4, <3>5 DEF Tables, Forced
    <3>7. DOMAIN buckets' = DOMAIN buckets
      BY <2>3, <3>3, <3>4, <3>6 DEF Touched
    <3>8. \A j \in DOMAIN buckets' : buckets'[j].idle = 0 \/ buckets'[j] = buckets[j]
      BY <2>3, <3>3, <3>6, <3>7 DEF Touched
    <3> QED BY <2>1, <3>2, <3>7, <3>8, Numbers DEF Full
  <2> QED BY <2>2, <2>3 DEF Refuse
<1> QED
  BY <1>3, <1>4, <1>5, <1>6 DEF IInv, TableOK

LEMMA AllowNext ==
  ASSUME IInv, NEW k \in Keys, Allow(k)
  PROVE  IInv'
<1>1. PICK due \in BOOLEAN : \E swept \in Swept(due) : \E table \in Tables(k, swept) :
        /\ MayBeDue(due)
        /\ lastSweep' = IF due \/ Forced(k, swept) THEN 0 ELSE lastSweep
        /\ flooded' = (flooded \/ Forced(k, swept))
        /\ Admit(k, table) \/ Refuse(k, table)
  BY DEF Allow
<1>2. PICK swept \in Swept(due) : \E table \in Tables(k, swept) :
        /\ lastSweep' = IF due \/ Forced(k, swept) THEN 0 ELSE lastSweep
        /\ flooded' = (flooded \/ Forced(k, swept))
        /\ Admit(k, table) \/ Refuse(k, table)
  BY <1>1
<1> PICK table \in Tables(k, swept) : Admit(k, table) \/ Refuse(k, table)
  BY <1>2
<1>3. Forced(k, swept) \in BOOLEAN /\ flooded \in BOOLEAN /\ lastSweep \in 0 .. SweepEvery + 1
  BY DEF Forced, IInv, TypedOK
<1>4. HistoryOK(flooded \/ Forced(k, swept))
  BY <1>2, <1>3, Numbers DEF HistoryOK
<1>5. Given(k, table, flooded \/ Forced(k, swept))
  BY TableKept
<1> QED
  BY <1>2, <1>4, <1>5, AdmitNext, RefuseNext

-----------------------------------------------------------------------------
\* Time.

LEMMA RefilledFacts ==
  ASSUME NEW n \in 0 .. Burst
  PROVE  /\ Refilled(n) \in 0 .. Burst
         /\ Refilled(n) = IF Burst <= n + Rate THEN Burst ELSE n + Rate
BY Numbers, MinOfTwo DEF Refilled

LEMMA EarnedRefilled ==
  ASSUME NEW n \in 0 .. Burst, NEW ticks \in Nat, Earned(n, ticks),
         NEW later \in Nat, later <= ticks + 1
  PROVE  Earned(Refilled(n), later)
<1>1. CASE n = Burst
  BY <1>1, RefilledFacts, Numbers DEF Earned
<1>2. CASE n >= ticks * Rate
  <2>1. /\ later * Rate <= (ticks + 1) * Rate /\ (ticks + 1) * Rate = ticks * Rate + Rate
        /\ ticks * Rate \in Nat /\ later * Rate \in Nat
    BY LongerIsMore
  <2>2. n + Rate >= later * Rate
    BY <1>2, <2>1, Numbers
  <2> QED BY <2>2, RefilledFacts, Numbers DEF Earned
<1> QED BY <1>1, <1>2 DEF Earned

LEMMA TickNext ==
  ASSUME IInv, Tick
  PROVE  IInv'
<1>1. /\ DOMAIN buckets' = DOMAIN buckets
      /\ ideal' = [k \in Keys |-> Refilled(ideal[k])] /\ refused' = {} /\ UNCHANGED flooded
      /\ lastSweep' = Min({SweepEvery + 1, lastSweep + 1})
  BY DEF Tick
<1>2. \A k \in Keys : ideal[k] \in 0 .. Burst /\ ideal'[k] = Refilled(ideal[k])
  BY <1>1 DEF IInv, TypedOK
<1>3. ASSUME NEW k \in DOMAIN buckets
      PROVE  /\ k \in Keys /\ buckets[k].tokens \in 0 .. Burst /\ buckets[k].idle \in Nat
             /\ buckets'[k].tokens = Refilled(buckets[k].tokens)
             /\ buckets'[k].idle \in 0 .. BucketTTL + 1
             /\ buckets'[k].idle <= buckets[k].idle + 1
             /\ buckets'[k] \in Buckets
  <2>1. k \in Keys /\ buckets[k].tokens \in 0 .. Burst /\ buckets[k].idle \in 0 .. BucketTTL + 1
    BY DEF IInv, TableOK, Buckets
  <2>2. buckets'[k] = [tokens |-> Refilled(buckets[k].tokens),
                       idle |-> Min({BucketTTL + 1, buckets[k].idle + 1})]
    BY DEF Tick
  <2>3. Min({BucketTTL + 1, buckets[k].idle + 1})
          = IF BucketTTL + 1 <= buckets[k].idle + 1 THEN BucketTTL + 1 ELSE buckets[k].idle + 1
    BY <2>1, Numbers, MinOfTwo
  <2>4. Refilled(buckets[k].tokens) \in 0 .. Burst
    BY <2>1, RefilledFacts
  <2> QED BY <2>1, <2>2, <2>3, <2>4, Numbers DEF Buckets
<1>4. TypedOK'
  <2>1. lastSweep \in 0 .. SweepEvery + 1
    BY DEF IInv, TypedOK
  <2>2. lastSweep' = IF SweepEvery + 1 <= lastSweep + 1 THEN SweepEvery + 1 ELSE lastSweep + 1
    <3>1. SweepEvery + 1 \in Int /\ lastSweep + 1 \in Int
      BY <2>1, Numbers
    <3>2. Min({SweepEvery + 1, lastSweep + 1})
            = IF SweepEvery + 1 <= lastSweep + 1 THEN SweepEvery + 1 ELSE lastSweep + 1
      BY <3>1, MinOfTwo
    <3> QED BY <1>1, <3>2
  <2>3. ideal' \in [Keys -> 0 .. Burst]
    BY <1>1, <1>2, RefilledFacts
  <2> QED BY <1>1, <2>1, <2>2, <2>3, Numbers DEF IInv, TypedOK
<1>5. TableOK(buckets')
  BY <1>1, <1>3 DEF IInv, TableOK
<1>6. EarnedOK(buckets)'
  <2> SUFFICES ASSUME NEW k \in DOMAIN buckets'
               PROVE  Earned(buckets'[k].tokens, buckets'[k].idle) /\ Earned(ideal'[k], buckets'[k].idle)
    BY DEF EarnedOK
  <2>1. Earned(buckets[k].tokens, buckets[k].idle) /\ Earned(ideal[k], buckets[k].idle)
    BY <1>1 DEF IInv, EarnedOK
  <2>2. buckets'[k].idle \in Nat /\ k \in DOMAIN buckets
    BY <1>1, <1>3, Numbers
  <2> QED BY <1>2, <1>3, <2>1, <2>2, EarnedRefilled
<1>7. ShareOK(buckets, flooded)'
  <2> SUFFICES ASSUME NEW k \in Keys
               PROVE  /\ Held(buckets', k) >= ideal'[k] /\ Held(buckets', k) <= ideal'[k] + Gain
                      /\ ~flooded => Held(buckets', k) = ideal'[k]
    BY <1>1 DEF ShareOK, Held
  <2>1. Held(buckets, k) \in 0 .. Burst /\ Held(buckets', k) = Refilled(Held(buckets, k))
    BY <1>1, <1>3, RefilledFacts, Numbers DEF Held
  <2>2. /\ Held(buckets, k) >= ideal[k] /\ Held(buckets, k) <= ideal[k] + Gain
        /\ ~flooded => Held(buckets, k) = ideal[k]
    BY DEF IInv, ShareOK
  <2> QED BY <1>2, <2>1, <2>2, RefilledFacts, GainFacts, Numbers
<1>8. RefusedForCause'
  BY <1>1 DEF RefusedForCause
<1> QED
  BY <1>4, <1>5, <1>6, <1>7, <1>8 DEF IInv, TableOK

LEMMA InvNext == IInv /\ [Next]_vars => IInv'
<1> SUFFICES ASSUME IInv, [Next]_vars PROVE IInv'
  OBVIOUS
<1>1. CASE UNCHANGED vars
  BY <1>1 DEF vars, IInv, TypedOK, TableOK, EarnedOK, ShareOK, Held, RefusedForCause, Full
<1>2. CASE Next
  BY <1>2, AllowNext, TickNext DEF Next
<1> QED BY <1>1, <1>2

-----------------------------------------------------------------------------
\* The theorems.

\* The inductive invariant holds in every reachable state.
THEOREM SafetyInvariant == Spec => []IInv
BY InvInit, InvNext, PTL DEF Spec

\* Being forgotten is never a way around the limit: short of a flood nobody may ask for
\* more than the limiter with a bucket for ever would let them, nobody ever for less,
\* and the table stays below its ceiling.
THEOREM LimitNeverEvaded == Spec => []LimitKept
<1>1. IInv => LimitKept
  <2> SUFFICES ASSUME IInv, NEW k \in Keys
               PROVE  /\ Held(buckets, k) \in ideal[k] .. ideal[k] + Gain
                      /\ ~flooded => Held(buckets, k) = ideal[k]
    BY GainFacts DEF IInv, TableOK, LimitKept, Held
  <2>1. Held(buckets, k) \in Int /\ ideal[k] \in Int
    BY Numbers DEF IInv, TypedOK, TableOK, Buckets, Held
  <2>2. /\ Held(buckets, k) >= ideal[k] /\ Held(buckets, k) <= ideal[k] + Gain
        /\ ~flooded => Held(buckets, k) = ideal[k]
    BY DEF IInv, ShareOK
  <2> QED BY <2>1, <2>2, GainFacts
<1> QED
  BY <1>1, SafetyInvariant, PTL

\* Who is refused has used up their share, or met a table full of addresses that were
\* all seen lately.
THEOREM RefusalsJustified == Spec => []RefusedForCause
<1>1. IInv => RefusedForCause
  BY DEF IInv
<1> QED
  BY <1>1, SafetyInvariant, PTL
=============================================================================
