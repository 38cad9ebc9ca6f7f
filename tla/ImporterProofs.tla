----------------------------- MODULE ImporterProofs -----------------------------
(***************************************************************************)
(* Theorems about Importer, for any number of imports, any spreadsheets    *)
(* and any guest lists.                                                    *)
(***************************************************************************)
EXTENDS Importer, FiniteSetTheorems, WellFoundedInduction, TLAPS

-----------------------------------------------------------------------------
\* Sets of naturals.

LEMMA HasLeast ==
  ASSUME NEW S, S \subseteq Nat, S # {}
  PROVE  \E x \in S : \A y \in S : x <= y
<1>1. PICK x \in S : \A y \in S : <<y, x>> \notin OpToRel(<, Nat)
  BY NatLessThanWellFounded, WFMin, Zenon
<1>2. \A y \in S : ~(y < x)
  <2> TAKE y \in S
  <2>1. <<y, x>> \in Nat \X Nat
    OBVIOUS
  <2> QED BY <1>1, <2>1 DEF OpToRel
<1> QED BY <1>2

LEMMA MinFacts ==
  ASSUME NEW S, S \subseteq Nat, S # {}
  PROVE  Min(S) \in S /\ \A y \in S : Min(S) <= y
BY HasLeast DEF Min

LEMMA FiniteFacts ==
  ASSUME NEW S, IsFiniteSet(S)
  PROVE  /\ Cardinality(S) \in Nat
         /\ Cardinality(S) = 0 <=> S = {}
BY FS_CardinalityType, FS_EmptySet

Without(S, x) == S \ {x}

LEMMA WithoutOne ==
  ASSUME NEW S, IsFiniteSet(S), NEW x \in S
  PROVE  /\ IsFiniteSet(Without(S, x))
         /\ Cardinality(Without(S, x)) = Cardinality(S) - 1
         /\ Without(S, x) \subseteq S
BY FS_RemoveElement DEF Without

\* So large a finite set of naturals has no last element.
Endless(n) ==
  \E S \in SUBSET Nat :
    /\ IsFiniteSet(S) /\ S # {} /\ Cardinality(S) = n
    /\ ~\E x \in S : \A y \in S : y <= x

LEMMA HasGreatest ==
  ASSUME NEW S, S \subseteq Nat, IsFiniteSet(S), S # {}
  PROVE  \E x \in S : \A y \in S : y <= x
<1> SUFFICES ASSUME ~\E x \in S : \A y \in S : y <= x PROVE FALSE
  OBVIOUS
<1>1. Endless(Cardinality(S)) /\ Cardinality(S) \in Nat
  BY FiniteFacts DEF Endless
<1> DEFINE N == {n \in Nat : Endless(n)}
<1>2. PICK n \in N : \A m \in N : n <= m
  <2>1. N \subseteq Nat /\ N # {}
    BY <1>1
  <2> HIDE DEF N
  <2> QED BY <2>1, HasLeast
<1>3. PICK T \in SUBSET Nat :
        /\ IsFiniteSet(T) /\ T # {} /\ Cardinality(T) = n
        /\ ~\E x \in T : \A y \in T : y <= x
  BY <1>2 DEF Endless
<1>4. PICK x \in T : TRUE
  BY <1>3
<1> DEFINE R == Without(T, x)
<1>5. IsFiniteSet(R) /\ Cardinality(R) = n - 1 /\ R \subseteq T /\ Cardinality(R) \in Nat
  BY <1>3, <1>4, WithoutOne, FiniteFacts
<1>6. R # {}
  BY <1>3, <1>4 DEF Without
<1>7. ~Endless(n - 1)
  <2>1. n - 1 \in Nat /\ n \in Nat
    BY <1>5
  <2>2. ~(n <= n - 1)
    BY <2>1
  <2> QED BY <1>2, <2>1, <2>2
<1>8. PICK z \in R : \A y \in R : y <= z
  <2> HIDE DEF R
  <2> QED BY <1>5, <1>6, <1>7 DEF Endless
<1>9. \A y \in T : y <= z \/ y = x
  BY <1>8 DEF Without
<1>10. x \in Nat /\ z \in Nat
  BY <1>3, <1>4, <1>5, <1>8
<1> QED
  BY <1>3, <1>4, <1>5, <1>8, <1>9, <1>10

Below(S, x) == {z \in S : z < x}

LEMMA BelowFacts ==
  ASSUME NEW S, S \subseteq Nat, IsFiniteSet(S), NEW x
  PROVE  IsFiniteSet(Below(S, x)) /\ Cardinality(Below(S, x)) \in Nat
BY FS_Subset, FS_CardinalityType DEF Below

\* A rank below the size of a set is some element's.
LEMMA RankTaken ==
  ASSUME NEW S, S \subseteq Nat, IsFiniteSet(S), NEW n \in Nat, n < Cardinality(S)
  PROVE  \E y \in S : Cardinality(Below(S, y)) = n
<1> DEFINE rank(y) == Cardinality(Below(S, y))
           C == {y \in S : rank(y) >= n}
<1>0. \A y : rank(y) \in Nat
  BY BelowFacts
<1>1. C # {}
  <2>1. S # {}
    BY FiniteFacts
  <2>2. PICK x \in S : \A y \in S : y <= x
    BY <2>1, HasGreatest
  <2>3. \A y \in S : y < x <=> y # x
    <3> TAKE y \in S
    <3>1. y <= x /\ x \in Nat /\ y \in Nat
      BY <2>2
    <3> QED BY <3>1
  <2>6. Below(S, x) = Without(S, x)
    BY <2>3 DEF Below, Without
  <2>4. rank(x) = Cardinality(S) - 1
    BY <2>6, WithoutOne
  <2>5. Cardinality(S) \in Nat
    BY FiniteFacts
  <2> QED BY <2>4, <2>5
<1>2. PICK y \in C : \A z \in C : y <= z
  BY <1>1, HasLeast
<1>3. CASE rank(y) = n
  BY <1>2, <1>3
<1>4. CASE rank(y) # n
  <2>1. rank(y) > n
    BY <1>0, <1>2, <1>4
  <2> DEFINE B == Below(S, y)
  <2>2. IsFiniteSet(B) /\ B \subseteq Nat /\ B \subseteq S
    BY BelowFacts DEF Below
  <2>3. B # {}
    BY <1>0, <2>1, <2>2, FiniteFacts
  <2>4. PICK m \in B : \A z \in B : z <= m
    <3> HIDE DEF B
    <3> QED BY <2>2, <2>3, HasGreatest
  <2>5. m \in S /\ m < y /\ m \in Nat /\ y \in Nat
    BY <1>2, <2>4 DEF Below
  <2>6. Below(S, m) = Without(B, m)
    <3>1. \A z \in S : z < m <=> z < y /\ z # m
      <4> TAKE z \in S
      <4>1. z \in Nat /\ (z < y => z <= m)
        BY <2>4 DEF Below
      <4> QED BY <2>5, <4>1
    <3> QED BY <3>1 DEF Below, Without
  <2>7. rank(m) = rank(y) - 1
    BY <2>2, <2>4, <2>6, WithoutOne
  <2>8. m \in C
    BY <1>0, <2>1, <2>5, <2>7
  <2> QED BY <1>2, <2>5, <2>8
<1> QED BY <1>3, <1>4

\* Of two elements, the larger has the larger rank, and all are below the size.
LEMMA RanksDiffer ==
  ASSUME NEW S, S \subseteq Nat, IsFiniteSet(S), NEW x \in S
  PROVE  /\ Cardinality(Below(S, x)) < Cardinality(S)
         /\ \A y \in S : Cardinality(Below(S, x)) = Cardinality(Below(S, y)) => x = y
<1>1. \A a, b \in S : a < b => Cardinality(Below(S, a)) < Cardinality(Below(S, b))
  <2> TAKE a, b \in S
  <2> HAVE a < b
  <2>0. a \in Nat /\ b \in Nat /\ \A z \in S : z < a => z < b /\ z # a
    OBVIOUS
  <2>1. Below(S, a) \subseteq Without(Below(S, b), a) /\ a \in Below(S, b)
    BY <2>0 DEF Below, Without
  <2>2. /\ IsFiniteSet(Below(S, b)) /\ Cardinality(Below(S, b)) \in Nat
        /\ Cardinality(Below(S, a)) \in Nat
    BY BelowFacts
  <2>3. /\ IsFiniteSet(Without(Below(S, b), a))
        /\ Cardinality(Without(Below(S, b), a)) = Cardinality(Below(S, b)) - 1
    BY <2>1, <2>2, WithoutOne
  <2>4. Cardinality(Below(S, a)) <= Cardinality(Without(Below(S, b), a))
    BY <2>1, <2>3, FS_Subset
  <2> QED BY <2>2, <2>3, <2>4
<1>2. Cardinality(Below(S, x)) < Cardinality(S)
  <2>1. Below(S, x) \subseteq Without(S, x)
    BY DEF Below, Without
  <2>2. IsFiniteSet(Without(S, x)) /\ Cardinality(Without(S, x)) = Cardinality(S) - 1
    BY WithoutOne
  <2>3. Cardinality(Below(S, x)) <= Cardinality(Without(S, x))
    BY <2>1, <2>2, FS_Subset
  <2>4. Cardinality(S) \in Nat /\ Cardinality(Below(S, x)) \in Nat
    BY BelowFacts, FiniteFacts
  <2> QED BY <2>2, <2>3, <2>4
<1>3. ASSUME NEW y \in S, Cardinality(Below(S, x)) = Cardinality(Below(S, y)) PROVE x = y
  <2>1. ~(x < y) /\ ~(y < x)
    <3>1. /\ x < y => Cardinality(Below(S, x)) < Cardinality(Below(S, y))
          /\ y < x => Cardinality(Below(S, y)) < Cardinality(Below(S, x))
      BY <1>1
    <3>2. Cardinality(Below(S, x)) \in Nat
      BY BelowFacts
    <3> QED BY <1>3, <3>1, <3>2
  <2> QED BY <2>1
<1> QED BY <1>2, <1>3

\* Ids are given out one by one: each is free, and no two are the same.
LEMMA GivenFacts ==
  ASSUME NEW S, S \subseteq Nat, IsFiniteSet(S),
         NEW free, free \subseteq Nat, IsFiniteSet(free),
         Cardinality(S) <= Cardinality(free)
  PROVE  /\ \A x \in S : Given(x, S, free) \in free
         /\ \A x, y \in S : Given(x, S, free) = Given(y, S, free) => x = y
<1>1. ASSUME NEW x \in S
      PROVE  /\ Given(x, S, free) \in free
             /\ Cardinality(Below(free, Given(x, S, free))) = Cardinality(Below(S, x))
  <2>1. /\ Cardinality(Below(S, x)) \in Nat
        /\ Cardinality(Below(S, x)) < Cardinality(S)
    BY BelowFacts, RanksDiffer
  <2>2. Cardinality(S) \in Nat /\ Cardinality(free) \in Nat
    BY FiniteFacts
  <2>3. Cardinality(Below(S, x)) < Cardinality(free)
    BY <2>1, <2>2
  <2>4. \E y \in free : Cardinality(Below(free, y)) = Cardinality(Below(S, x))
    BY <2>1, <2>3, RankTaken
  <2> QED BY <2>4 DEF Given, Below
<1>2. ASSUME NEW x \in S, NEW y \in S, Given(x, S, free) = Given(y, S, free) PROVE x = y
  <2>1. Cardinality(Below(S, x)) = Cardinality(Below(S, y))
    BY <1>1, <1>2
  <2> QED BY <2>1, RanksDiffer
<1> QED BY <1>1, <1>2

-----------------------------------------------------------------------------
\* Targets: the claims of the lines that come first.

Claimed(rows, f, i) == UNION {f[j] : j \in {j \in Lines(rows) : j < i}}

\* A function that gives the first n lines their targets.
Targeted(rows, snap, n, f) ==
  /\ f = [i \in 1 .. n |-> f[i]]
  /\ \A i \in 1 .. n : f[i] = Target(rows, snap, i, Claimed(rows, f, i))

LEMMA LinesFacts ==
  ASSUME NEW rows \in Seq(Row)
  PROVE  /\ Len(rows) \in Nat /\ DOMAIN rows = 1 .. Len(rows)
         /\ Lines(rows) \subseteq 1 .. Len(rows)
         /\ \A i \in Lines(rows) : rows[i].name \in Names /\ Key(rows[i]) \in Labels
<1>1. Len(rows) \in Nat /\ DOMAIN rows = 1 .. Len(rows) /\ \A i \in DOMAIN rows : rows[i] \in Row
  OBVIOUS
<1>2. ASSUME NEW i \in Lines(rows) PROVE rows[i].name \in Names /\ Key(rows[i]) \in Labels
  <2>1. rows[i] \in Row /\ rows[i].name # Null
    BY <1>1, <1>2 DEF Lines
  <2> QED BY <2>1, ConstantsAssumption DEF Row, NullOr, Key
<1> QED BY <1>1, <1>2 DEF Lines

LEMMA ClaimsAgree ==
  ASSUME NEW rows, NEW f, NEW g, NEW i,
         \A j \in Lines(rows) : j < i => f[j] = g[j]
  PROVE  Claimed(rows, f, i) = Claimed(rows, g, i)
<1>1. \A j \in {j \in Lines(rows) : j < i} : f[j] = g[j]
  OBVIOUS
<1>2. {f[j] : j \in {j \in Lines(rows) : j < i}} = {g[j] : j \in {j \in Lines(rows) : j < i}}
  BY <1>1
<1> QED BY <1>2 DEF Claimed

LEMMA TargetedNext ==
  ASSUME NEW rows \in Seq(Row), NEW snap, NEW n \in Nat, NEW f, Targeted(rows, snap, n, f)
  PROVE  \E g : Targeted(rows, snap, n + 1, g)
<1> DEFINE next == Target(rows, snap, n + 1, Claimed(rows, f, n + 1))
           g    == [i \in 1 .. n + 1 |-> IF i = n + 1 THEN next ELSE f[i]]
<1>1. \A j \in 1 .. n : j \in 1 .. n + 1 /\ j # n + 1 /\ g[j] = f[j]
  OBVIOUS
<1>2. g = [i \in 1 .. n + 1 |-> g[i]]
  OBVIOUS
<1>3. g[n + 1] = next
  OBVIOUS
<1> HIDE DEF g
<1>4. ASSUME NEW i \in 1 .. n + 1 PROVE Claimed(rows, g, i) = Claimed(rows, f, i)
  <2>1. \A j \in Lines(rows) : j < i => j \in 1 .. n
    BY LinesFacts
  <2>2. \A j \in Lines(rows) : j < i => g[j] = f[j]
    BY <1>1, <2>1
  <2> QED BY <2>2, ClaimsAgree
<1>5. ASSUME NEW i \in 1 .. n + 1 PROVE g[i] = Target(rows, snap, i, Claimed(rows, g, i))
  <2>1. CASE i = n + 1
    BY <1>3, <1>4, <2>1
  <2>2. CASE i # n + 1
    <3>1. i \in 1 .. n
      BY <2>2
    <3> QED BY <1>1, <1>4, <3>1 DEF Targeted
  <2> QED BY <2>1, <2>2
<1> QED BY <1>2, <1>5 DEF Targeted

LEMMA TargetedExists ==
  ASSUME NEW rows \in Seq(Row), NEW snap, NEW n \in Nat
  PROVE  \E f : Targeted(rows, snap, n, f)
<1> DEFINE Missing == {m \in Nat : ~\E f : Targeted(rows, snap, m, f)}
<1> SUFFICES ASSUME Missing # {} PROVE FALSE
  OBVIOUS
<1>1. PICK m \in Missing : \A l \in Missing : m <= l
  <2>1. Missing \subseteq Nat
    OBVIOUS
  <2> HIDE DEF Missing
  <2> QED BY <2>1, HasLeast
<1>2. CASE m = 0
  <2>1. Targeted(rows, snap, 0, [i \in 1 .. 0 |-> {}])
    BY DEF Targeted
  <2> QED BY <1>1, <1>2, <2>1
<1>3. CASE m # 0
  <2>1. m - 1 \in Nat /\ m - 1 \notin Missing
    <3>1. m \in Nat
      BY <1>1
    <3>2. m - 1 \in Nat /\ ~(m <= m - 1)
      BY <1>3, <3>1
    <3> HIDE DEF Missing
    <3> QED BY <1>1, <3>2
  <2>2. \E f : Targeted(rows, snap, m - 1, f)
    BY <2>1
  <2>3. \E f : Targeted(rows, snap, m - 1 + 1, f)
    BY <2>1, <2>2, TargetedNext
  <2>4. m - 1 + 1 = m
    BY <1>1
  <2> QED BY <1>1, <2>3, <2>4
<1> QED BY <1>2, <1>3

LEMMA TargetsFacts ==
  ASSUME NEW rows \in Seq(Row), NEW snap
  PROVE  Targeted(rows, snap, Len(rows), Targets(rows, snap))
<1> DEFINE whole(f) == [i \in DOMAIN rows |-> Target(rows, snap, i, Claimed(rows, f, i))]
<1>1. Targets(rows, snap) = CHOOSE f : f = whole(f)
  BY DEF Targets, Claimed
<1>2. PICK f : Targeted(rows, snap, Len(rows), f)
  BY LinesFacts, TargetedExists
<1>3. f = whole(f)
  BY <1>2, LinesFacts DEF Targeted
<1>4. Targets(rows, snap) = whole(Targets(rows, snap))
  BY <1>1, <1>3
<1> QED
  BY <1>4, LinesFacts DEF Targeted

-----------------------------------------------------------------------------
\* Plans.

SnapOK(snap) ==
  /\ DOMAIN snap.label \subseteq GroupIds
  /\ snap.guest \in [GuestIds -> NullOr(GuestRow)]

\* What is planned for the lines of k.
EntryOK(rows, snap, k, entry) ==
  /\ entry.existing \in NullOr(Remembered(snap))
  /\ entry.guests \in [DOMAIN entry.guests -> NullOr(GuestIds)]
  /\ DOMAIN entry.guests # {} /\ DOMAIN entry.guests \subseteq LinesOf(rows, k)
  /\ entry.enforcePrimary /\ entry.existing # Null =>
       \E i \in DOMAIN entry.guests : rows[i].principal

\* No two groups of lines are written to one invitation.
PlanOK(rows, snap, plan) ==
  /\ DOMAIN plan \subseteq Keys(rows)
  /\ \A k \in DOMAIN plan : EntryOK(rows, snap, k, plan[k])
  /\ \A k, l \in DOMAIN plan :
       plan[k].existing # Null /\ plan[k].existing = plan[l].existing => k = l

LEMMA RememberedWithin ==
  ASSUME NEW snap, SnapOK(snap)
  PROVE  Remembered(snap) \subseteq GroupIds /\ Null \notin Remembered(snap)
<1>1. \A p \in GuestIds : snap.guest[p] # Null => snap.guest[p].group \in GroupIds
  BY DEF SnapOK, GuestRow, NullOr
<1> QED
  BY <1>1, ConstantsAssumption DEF SnapOK, Remembered

LEMMA OnlyFacts ==
  ASSUME NEW S, Null \notin S
  PROVE  /\ Only(S) \in NullOr(S)
         /\ Only(S) = Null <=> S = {}
BY DEF Only, NullOr

LEMMA OpeningFacts ==
  ASSUME NEW rows \in Seq(Row), NEW k \in Keys(rows)
  PROVE  /\ Opening(rows, k) \in Lines(rows)
         /\ Opening(rows, k) \in 1 .. Len(rows)
         /\ Key(rows[Opening(rows, k)]) = k
<1>1. LinesOf(rows, k) \subseteq Nat /\ LinesOf(rows, k) # {}
  BY LinesFacts DEF LinesOf, Keys
<1>2. Opening(rows, k) \in LinesOf(rows, k)
  BY <1>1, MinFacts DEF Opening
<1> QED
  BY <1>2, LinesFacts DEF LinesOf

LEMMA InferredWithin ==
  ASSUME NEW rows, NEW k, NEW snap
  PROVE  InferGroupByMembers(rows, k, snap) \subseteq Remembered(snap)
<1>1. \A name : PlaceOf(snap, name) \subseteq Remembered(snap)
  BY DEF PlaceOf, Known, Remembered
<1> DEFINE known == {i \in LinesOf(rows, k) : Known(snap, rows[i].name) # {}}
           place == [i \in known |-> PlaceOf(snap, rows[i].name)]
<1>2. \A i \in known : place[i] \subseteq Remembered(snap)
  BY <1>1
<1>3. \A best \in SUBSET known : UNION {place[i] : i \in best} \subseteq Remembered(snap)
  BY <1>2
<1> QED
  BY <1>3 DEF InferGroupByMembers

LEMMA TargetWithin ==
  ASSUME NEW rows, NEW snap, NEW i, NEW claimed
  PROVE  Target(rows, snap, i, claimed) \subseteq Remembered(snap) \ claimed
<1>1. \A k : ByLabel(snap, k) \subseteq Remembered(snap)
  BY DEF ByLabel, Remembered
<1> QED
  BY <1>1, InferredWithin DEF Target

\* The invitation of the lines of k, a set of at most one.
TargetOf(rows, snap, k) == Targets(rows, snap)[Opening(rows, k)]

LEMMA TargetOfFacts ==
  ASSUME NEW rows \in Seq(Row), NEW snap, NEW k \in Keys(rows)
  PROVE  /\ TargetOf(rows, snap, k) \subseteq Remembered(snap)
         /\ \A l \in Keys(rows) :
              l # k => TargetOf(rows, snap, k) \cap TargetOf(rows, snap, l) = {}
<1> DEFINE f    == Targets(rows, snap)
           o(l) == Opening(rows, l)
<1>1. \A l \in Keys(rows) :
        f[o(l)] = Target(rows, snap, o(l), Claimed(rows, f, o(l)))
  BY TargetsFacts, OpeningFacts DEF Targeted
<1>2. \A l \in Keys(rows) : f[o(l)] \subseteq Remembered(snap) \ Claimed(rows, f, o(l))
  BY <1>1, TargetWithin
<1>3. \A l, m \in Keys(rows) : o(l) < o(m) => f[o(l)] \cap f[o(m)] = {}
  <2> TAKE l, m \in Keys(rows)
  <2> HAVE o(l) < o(m)
  <2>1. o(l) \in Lines(rows)
    BY OpeningFacts
  <2>2. f[o(l)] \subseteq Claimed(rows, f, o(m))
    BY <2>1 DEF Claimed
  <2> QED BY <1>2, <2>2
<1>4. ASSUME NEW l \in Keys(rows), l # k PROVE f[o(k)] \cap f[o(l)] = {}
  <2>1. o(l) \in Nat /\ o(k) \in Nat /\ o(l) # o(k)
    BY <1>4, OpeningFacts, LinesFacts
  <2>2. o(k) < o(l) \/ o(l) < o(k)
    BY <2>1
  <2> QED BY <1>3, <2>2
<1> QED
  BY <1>2, <1>4 DEF TargetOf

LEMMA EntryMade ==
  ASSUME NEW rows \in Seq(Row), NEW snap, SnapOK(snap), NEW k \in Keys(rows),
         NEW target, target \subseteq Remembered(snap), Survivors(rows, snap, k, target) # {}
  PROVE  /\ EntryOK(rows, snap, k, GroupPlan(rows, snap, k, target))
         /\ GroupPlan(rows, snap, k, target).existing = Only(target)
<1> DEFINE entry  == GroupPlan(rows, snap, k, target)
           lines  == Survivors(rows, snap, k, target)
           marked == {i \in lines : rows[i].principal}
<1>1. /\ entry.existing = Only(target)
      /\ entry.enforcePrimary = EnforcePrimary(marked, target)
      /\ entry.guests = [i \in lines |-> Only(Known(snap, rows[i].name))]
  BY DEF GroupPlan
<1> HIDE DEF entry
<1>2. Null \notin target
  BY RememberedWithin
<1>3. entry.existing \in NullOr(Remembered(snap)) /\ (entry.existing = Null <=> target = {})
  BY <1>1, <1>2, OnlyFacts DEF NullOr
<1>4. \A name : Known(snap, name) \subseteq GuestIds /\ Null \notin GuestIds
  BY ConstantsAssumption DEF Known
<1>5. \A name : Only(Known(snap, name)) \in NullOr(GuestIds)
  BY <1>4, OnlyFacts DEF NullOr
<1>6. entry.guests \in [DOMAIN entry.guests -> NullOr(GuestIds)] /\ DOMAIN entry.guests = lines
  BY <1>1, <1>5
<1>7. lines # {} /\ lines \subseteq LinesOf(rows, k)
  BY DEF Survivors
<1>8. entry.enforcePrimary /\ entry.existing # Null => \E i \in lines : rows[i].principal
  BY <1>1, <1>3 DEF EnforcePrimary
<1>9. EntryOK(rows, snap, k, entry)
  <2> HIDE DEF lines
  <2> QED BY <1>3, <1>6, <1>7, <1>8 DEF EntryOK
<1> QED
  BY <1>1, <1>9 DEF entry

LEMMA ReconcileOK ==
  ASSUME NEW rows \in Seq(Row), NEW snap, SnapOK(snap)
  PROVE  PlanOK(rows, snap, Reconcile(rows, snap))
<1> DEFINE plan == Reconcile(rows, snap)
           K    == {k \in Keys(rows) : Survivors(rows, snap, k, TargetOf(rows, snap, k)) # {}}
<1>1. plan = [k \in K |-> GroupPlan(rows, snap, k, TargetOf(rows, snap, k))]
  BY DEF Reconcile, TargetOf
<1> HIDE DEF plan
<1>2. DOMAIN plan = K /\ \A k \in K : plan[k] = GroupPlan(rows, snap, k, TargetOf(rows, snap, k))
  BY <1>1
<1>3. \A k \in K : /\ EntryOK(rows, snap, k, plan[k])
                   /\ plan[k].existing = Only(TargetOf(rows, snap, k))
  BY <1>2, TargetOfFacts, EntryMade
<1>4. \A k \in K : plan[k].existing # Null => plan[k].existing \in TargetOf(rows, snap, k)
  <2> TAKE k \in K
  <2>1. Null \notin TargetOf(rows, snap, k)
    BY TargetOfFacts, RememberedWithin
  <2> QED BY <1>3, <2>1, OnlyFacts DEF NullOr
<1>5. \A k, l \in K : plan[k].existing # Null /\ plan[k].existing = plan[l].existing => k = l
  <2> TAKE k, l \in K
  <2> HAVE plan[k].existing # Null /\ plan[k].existing = plan[l].existing
  <2>1. plan[k].existing \in TargetOf(rows, snap, k) \cap TargetOf(rows, snap, l)
    BY <1>4
  <2> QED BY <2>1, TargetOfFacts
<1>6. PlanOK(rows, snap, plan)
  <2>1. K \subseteq Keys(rows)
    OBVIOUS
  <2> HIDE DEF K
  <2> QED BY <1>2, <1>3, <1>5, <2>1 DEF PlanOK
<1> QED
  BY <1>6 DEF plan

-----------------------------------------------------------------------------
\* What a plan makes of the tables.

LEMMA FreeFacts ==
  /\ FreeGroups \subseteq GroupIds /\ FreeGroups \subseteq Nat /\ IsFiniteSet(FreeGroups)
  /\ FreeGroups \cap Live(list) = {}
  /\ \A u \in Uploads : FreeGroups \cap Remembered(upload[u].snap) = {}
  /\ FreeGuests \subseteq GuestIds /\ FreeGuests \subseteq Nat /\ IsFiniteSet(FreeGuests)
  /\ FreeGuests \cap Listed(list) = {}
<1>1. FreeGroups \subseteq GroupIds /\ FreeGuests \subseteq GuestIds
  BY DEF FreeGroups, FreeGuests
<1>2. IsFiniteSet(FreeGroups) /\ IsFiniteSet(FreeGuests)
  BY <1>1, FS_Subset, ConstantsAssumption
<1> QED
  BY <1>1, <1>2, ConstantsAssumption DEF FreeGroups, FreeGuests

\* The first line a plan writes for k.
First(plan, k) == Min(DOMAIN plan[k].guests)

LEMMA FirstFacts ==
  ASSUME NEW rows \in Seq(Row), NEW snap, NEW plan, PlanOK(rows, snap, plan),
         NEW k \in DOMAIN plan
  PROVE  First(plan, k) \in 1 .. Len(rows) /\ Key(rows[First(plan, k)]) = k
<1>1. DOMAIN plan[k].guests \subseteq LinesOf(rows, k) /\ DOMAIN plan[k].guests # {}
  BY DEF PlanOK, EntryOK
<1>2. LinesOf(rows, k) \subseteq 1 .. Len(rows) /\ 1 .. Len(rows) \subseteq Nat
  BY LinesFacts DEF LinesOf
<1>3. First(plan, k) \in LinesOf(rows, k)
  BY <1>1, <1>2, MinFacts DEF First
<1> QED
  BY <1>2, <1>3 DEF LinesOf

LEMMA CreatedFinite ==
  ASSUME NEW rows \in Seq(Row), NEW snap, NEW plan, PlanOK(rows, snap, plan)
  PROVE  LET firsts == {First(plan, k) : k \in Created(plan)} IN
         /\ firsts \subseteq Nat /\ IsFiniteSet(firsts)
         /\ Cardinality(firsts) <= Cardinality(Created(plan))
         /\ IsFiniteSet(Created(plan))
<1> DEFINE C      == Created(plan)
           firsts == {First(plan, k) : k \in C}
           f      == [k \in C |-> First(plan, k)]
<1>1. \A k \in C : k \in DOMAIN plan
  BY DEF Created
<1>2. \A k \in C : f[k] \in 1 .. Len(rows) /\ Key(rows[f[k]]) = k
  BY <1>1, FirstFacts
<1>3. f \in [C -> 1 .. Len(rows)] /\ f \in [C -> firsts] /\ firsts \subseteq 1 .. Len(rows)
  BY <1>2
<1>4. \A k, l \in C : f[k] = f[l] => k = l
  BY <1>2
<1>5. \A x \in firsts : \E k \in C : f[k] = x
  OBVIOUS
<1> HIDE DEF f, firsts, C
<1>6. IsFiniteSet(1 .. Len(rows)) /\ 1 .. Len(rows) \subseteq Nat
  BY FS_Interval, LinesFacts
<1>7. f \in Injection(C, 1 .. Len(rows)) /\ f \in Surjection(C, firsts)
  BY <1>3, <1>4, <1>5 DEF Injection, Surjection, IsInjective
<1>8. IsFiniteSet(C)
  BY <1>6, <1>7, FS_Injection
<1>9. IsFiniteSet(firsts) /\ Cardinality(firsts) <= Cardinality(C)
  BY <1>7, <1>8, FS_Surjection
<1> QED
  BY <1>3, <1>6, <1>8, <1>9 DEF firsts, C

\* A plan applied with the ids there are, as Apply does.
Spot(plan, k)        == Place(plan, Made(plan), k)
Who(plan, k, i)      == Person(plan, Made(plan), k, i)
After(rows, plan, t) == Applied(rows, plan, Made(plan), t)

Labelled(plan, t, g) == UpdateGroupLabel(plan, Made(plan), t, g)

\* A plan that may be applied: it is of rows and of what is no longer free, and
\* there are ids for everybody.
Applicable(rows, plan) ==
  /\ rows \in Seq(Row)
  /\ \E snap : /\ SnapOK(snap) /\ PlanOK(rows, snap, plan)
               /\ FreeGroups \cap Remembered(snap) = {}
  /\ Cardinality(Created(plan)) <= Cardinality(FreeGroups)
  /\ Cardinality(Inserted(plan)) <= Cardinality(FreeGuests)

LEMMA PlaceFacts ==
  ASSUME NEW rows, NEW plan, Applicable(rows, plan)
  PROVE  /\ \A k \in DOMAIN plan :
              /\ Spot(plan, k) \in GroupIds
              /\ k \in Created(plan) => Spot(plan, k) \in FreeGroups
              /\ k \notin Created(plan) => /\ Spot(plan, k) = plan[k].existing
                                           /\ Spot(plan, k) \notin FreeGroups
         /\ \A k, l \in DOMAIN plan : Spot(plan, k) = Spot(plan, l) => k = l
<1> DEFINE C      == Created(plan)
           firsts == {First(plan, k) : k \in C}
<1>1. PICK snap : /\ SnapOK(snap) /\ PlanOK(rows, snap, plan)
                  /\ FreeGroups \cap Remembered(snap) = {}
  BY DEF Applicable
<1>2. rows \in Seq(Row)
  BY DEF Applicable
<1>3. /\ firsts \subseteq Nat /\ IsFiniteSet(firsts) /\ Cardinality(firsts) \in Nat
      /\ Cardinality(firsts) <= Cardinality(C) /\ IsFiniteSet(C)
  BY <1>1, <1>2, CreatedFinite, FS_CardinalityType
<1>4. Cardinality(firsts) <= Cardinality(FreeGroups)
  <2>1. Cardinality(FreeGroups) \in Nat /\ Cardinality(C) <= Cardinality(FreeGroups)
    BY FreeFacts, FS_CardinalityType DEF Applicable
  <2>2. Cardinality(C) \in Nat
    BY <1>3, FS_CardinalityType
  <2> HIDE DEF firsts, C
  <2> QED BY <1>3, <2>1, <2>2
<1>5. \A k \in C : Spot(plan, k) = Given(First(plan, k), firsts, FreeGroups)
  BY DEF Spot, Place, Made, First
<1>6. \A k \in C : First(plan, k) \in firsts
  OBVIOUS
<1> HIDE DEF firsts
<1>7. /\ \A x \in firsts : Given(x, firsts, FreeGroups) \in FreeGroups
      /\ \A x, y \in firsts : Given(x, firsts, FreeGroups) = Given(y, firsts, FreeGroups) => x = y
  BY <1>3, <1>4, FreeFacts, GivenFacts
<1>8. \A k \in C : Spot(plan, k) \in FreeGroups
  BY <1>5, <1>6, <1>7
<1>9. \A k \in DOMAIN plan \ C :
        /\ Spot(plan, k) = plan[k].existing /\ plan[k].existing # Null
        /\ Spot(plan, k) \in Remembered(snap)
  BY <1>1 DEF Spot, Place, Made, Created, PlanOK, EntryOK, NullOr
<1>10. Remembered(snap) \subseteq GroupIds
  BY <1>1, RememberedWithin
<1>11. \A k, l \in C : Spot(plan, k) = Spot(plan, l) => k = l
  <2> TAKE k, l \in C
  <2> HAVE Spot(plan, k) = Spot(plan, l)
  <2>1. First(plan, k) = First(plan, l)
    BY <1>5, <1>6, <1>7
  <2>2. k \in DOMAIN plan /\ l \in DOMAIN plan
    BY DEF Created
  <2> QED BY <1>1, <1>2, <2>1, <2>2, FirstFacts
<1>12. \A k, l \in DOMAIN plan : Spot(plan, k) = Spot(plan, l) => k = l
  <2> TAKE k, l \in DOMAIN plan
  <2> HAVE Spot(plan, k) = Spot(plan, l)
  <2>1. CASE k \in C /\ l \in C
    BY <1>11, <2>1
  <2>2. CASE k \notin C /\ l \notin C
    BY <1>1, <1>9, <2>2 DEF PlanOK
  <2>3. k \in C <=> l \in C
    <3> HIDE DEF C
    <3> QED BY <1>1, <1>8, <1>9
  <2> QED BY <2>1, <2>2, <2>3
<1> QED
  BY <1>1, <1>8, <1>9, <1>10, <1>12, FreeFacts

LEMMA LineOfEntry ==
  ASSUME NEW rows, NEW plan, Applicable(rows, plan),
         NEW k \in DOMAIN plan, NEW i \in DOMAIN plan[k].guests
  PROVE  /\ i \in Lines(rows) /\ Key(rows[i]) = k
         /\ plan[k].guests[i] \in NullOr(GuestIds)
BY DEF Applicable, PlanOK, EntryOK, LinesOf

LEMMA WrittenFacts ==
  ASSUME NEW rows, NEW plan, Applicable(rows, plan), NEW i \in Written(plan)
  PROVE  /\ i \in Lines(rows) /\ i \in Nat /\ rows[i].name \in Names
         /\ Key(rows[i]) \in DOMAIN plan /\ i \in DOMAIN plan[Key(rows[i])].guests
         /\ i \in Inserted(plan) <=> plan[Key(rows[i])].guests[i] = Null
<1>1. PICK k \in DOMAIN plan : i \in DOMAIN plan[k].guests
  BY DEF Written
<1>2. i \in Lines(rows) /\ Key(rows[i]) = k
  BY <1>1, LineOfEntry
<1>3. i \in Nat /\ rows[i].name \in Names
  BY <1>2, LinesFacts DEF Applicable
<1>4. \A l \in DOMAIN plan : i \in DOMAIN plan[l].guests => l = k
  BY <1>2, LineOfEntry
<1>5. i \in Inserted(plan) <=> plan[k].guests[i] = Null
  BY <1>1, <1>4 DEF Inserted
<1> QED
  BY <1>1, <1>2, <1>3, <1>5

LEMMA InsertedFacts ==
  ASSUME NEW rows, NEW plan, Applicable(rows, plan), NEW i \in Inserted(plan)
  PROVE  /\ i \in Written(plan)
         /\ \A k : Who(plan, k, i) \in FreeGuests
         /\ \A j \in Inserted(plan) :
              Given(i, Inserted(plan), FreeGuests) = Given(j, Inserted(plan), FreeGuests) => i = j
<1>1. Inserted(plan) \subseteq Written(plan)
  BY DEF Inserted, Written
<1>2. Inserted(plan) \subseteq 1 .. Len(rows) /\ Len(rows) \in Nat
  BY <1>1, WrittenFacts, LinesFacts DEF Applicable
<1>3. IsFiniteSet(Inserted(plan)) /\ Inserted(plan) \subseteq Nat
  <2>1. IsFiniteSet(1 .. Len(rows)) /\ 1 .. Len(rows) \subseteq Nat
    BY <1>2, FS_Interval
  <2> QED BY <1>2, <2>1, FS_Subset
<1>4. /\ Given(i, Inserted(plan), FreeGuests) \in FreeGuests
      /\ \A j \in Inserted(plan) :
           Given(i, Inserted(plan), FreeGuests) = Given(j, Inserted(plan), FreeGuests) => i = j
  BY <1>3, FreeFacts, GivenFacts DEF Applicable
<1> QED
  BY <1>1, <1>4 DEF Who, Person, Made

\* The plans that say who heads g.
Said(plan, g) == {k \in DOMAIN plan : plan[k].enforcePrimary /\ g = Spot(plan, k)}

\* Who was, or was not, the primary of g, after the plans were heard.
Flagged(plan, p, g, primary) ==
  IF Said(plan, g) = {} THEN primary
  ELSE \E k \in Said(plan, g) : p = Who(plan, k, plan[k].primary)

\* A guest that was there keeps their place; one that was not takes a free id and
\* heads nothing unless a plan says so.
Kept(plan, p, before, row) ==
  /\ row \in GuestRow /\ row.group = before.group /\ row.norm = before.norm
  /\ row.primary = Flagged(plan, p, row.group, before.primary)

Arrived(rows, plan, p, row) ==
  /\ p \in FreeGuests /\ row \in GuestRow
  /\ row.primary = Flagged(plan, p, row.group, FALSE)
  /\ \E i \in Inserted(plan) :
       /\ p = Given(i, Inserted(plan), FreeGuests)
       /\ row.norm = rows[i].name
       /\ row.group = Spot(plan, Key(rows[i]))

LEMMA FlaggedRow ==
  ASSUME NEW plan, NEW p, NEW guest \in GuestRow
  PROVE  LET row == [guest EXCEPT !.primary = Heading(plan, Made(plan), p, guest)] IN
         /\ row \in GuestRow
         /\ row.full = guest.full /\ row.norm = guest.norm /\ row.group = guest.group
         /\ row.primary = Flagged(plan, p, guest.group, guest.primary)
<1>1. Heading(plan, Made(plan), p, guest) = Flagged(plan, p, guest.group, guest.primary)
  BY DEF Heading, SetGroupPrimary, Spot, Who, Flagged, Said
<1>2. Flagged(plan, p, guest.group, guest.primary) \in BOOLEAN
  BY DEF Flagged, GuestRow
<1> QED
  BY <1>1, <1>2 DEF GuestRow

LEMMA AppliedGuest ==
  ASSUME NEW rows, NEW plan, Applicable(rows, plan), NEW t \in Tables,
         Listed(t) \cap FreeGuests = {}, NEW p \in GuestIds
  PROVE  LET row == After(rows, plan, t).guest[p] IN
         /\ t.guest[p] # Null => Kept(plan, p, t.guest[p], row)
         /\ t.guest[p] = Null => row = Null \/ Arrived(rows, plan, p, row)
         /\ /\ t.guest[p] = Null
            /\ \E i \in Inserted(plan) : p = Who(plan, Key(rows[i]), i)
            /\ \A i \in Written(plan) : Who(plan, Key(rows[i]), i) = p => i \in Inserted(plan)
            => row # Null
<1> DEFINE lines == {i \in Written(plan) : Who(plan, Key(rows[i]), i) = p}
           guest == IF lines = {} THEN t.guest[p]
                    ELSE WriteLine(rows, plan, Made(plan), Min(lines), t.guest[p])
           row   == After(rows, plan, t).guest[p]
<1>1. row = IF guest = Null THEN Null
            ELSE [guest EXCEPT !.primary = Heading(plan, Made(plan), p, guest)]
  BY DEF After, Applied, Labelled, Spot, Who
<1>2. t.guest[p] \in NullOr(GuestRow) /\ Null \notin GuestRow
  BY ConstantsAssumption DEF Tables
<1>3. lines # {} => Min(lines) \in lines
  <2>1. lines \subseteq Nat
    BY WrittenFacts
  <2> HIDE DEF lines
  <2> QED BY <2>1, MinFacts
<1>4. CASE lines # {} /\ Min(lines) \in Inserted(plan)
  <2> DEFINE i == Min(lines)
  <2>1. p \in FreeGuests
    BY <1>3, <1>4, InsertedFacts
  <2>2. t.guest[p] = Null
    BY <2>1 DEF Listed
  <2>3. guest = InsertImportedGuest(rows, plan, Made(plan), i)
    BY <1>4 DEF WriteLine
  <2>4. i \in Written(plan)
    BY <1>4, InsertedFacts
  <2> HIDE DEF i, guest, row, lines
  <2>5. rows[i].name \in Names /\ Spot(plan, Key(rows[i])) \in GroupIds
    BY <2>4, WrittenFacts, PlaceFacts
  <2>6. /\ guest \in GuestRow /\ guest.primary = FALSE
        /\ guest.full = rows[i].name /\ guest.norm = rows[i].name
        /\ guest.group = Spot(plan, Key(rows[i]))
    BY <2>3, <2>5 DEF InsertImportedGuest, Spot, GuestRow
  <2>7. guest # Null
    BY <1>2, <2>6
  <2>8. row = [guest EXCEPT !.primary = Heading(plan, Made(plan), p, guest)]
    BY <1>1, <2>7
  <2>9. /\ row \in GuestRow
        /\ row.full = guest.full /\ row.norm = guest.norm /\ row.group = guest.group
        /\ row.primary = Flagged(plan, p, guest.group, guest.primary)
    BY <2>6, <2>8, FlaggedRow
  <2>10. i \in Inserted(plan) /\ p = Given(i, Inserted(plan), FreeGuests)
    BY <1>3, <1>4 DEF i, lines, Who, Person, Made
  <2>11. Arrived(rows, plan, p, row)
    BY <2>1, <2>6, <2>9, <2>10 DEF Arrived
  <2>12. row # Null
    BY <1>2, <2>9
  <2> QED BY <2>2, <2>11, <2>12 DEF row
<1>5. CASE ~(lines # {} /\ Min(lines) \in Inserted(plan)) /\ t.guest[p] = Null
  <2>1. guest = Null
    BY <1>5 DEF WriteLine
  <2>2. ~ /\ \E i \in Inserted(plan) : p = Who(plan, Key(rows[i]), i)
          /\ \A i \in Written(plan) : Who(plan, Key(rows[i]), i) = p => i \in Inserted(plan)
    BY <1>3, <1>5, InsertedFacts
  <2> QED BY <1>1, <1>5, <2>1, <2>2
<1>6. CASE ~(lines # {} /\ Min(lines) \in Inserted(plan)) /\ t.guest[p] # Null
  <2>1. t.guest[p] \in GuestRow
    BY <1>2, <1>6 DEF NullOr
  <2>2. /\ guest \in GuestRow /\ guest.group = t.guest[p].group
        /\ guest.norm = t.guest[p].norm /\ guest.primary = t.guest[p].primary
    <3>1. CASE lines = {}
      BY <2>1, <3>1
    <3>2. CASE lines # {}
      <4> DEFINE i == Min(lines)
      <4>1. guest = UpdateGuestIdentity(rows, plan, Made(plan), i, t.guest[p])
        BY <1>6, <3>2 DEF WriteLine
      <4>2. i \in Written(plan)
        BY <1>3, <3>2
      <4> HIDE DEF i, guest
      <4>3. rows[i].name \in Names
        BY <4>2, WrittenFacts
      <4> QED BY <2>1, <4>1, <4>3 DEF UpdateGuestIdentity, GuestRow
    <3> QED BY <3>1, <3>2
  <2> HIDE DEF guest, row
  <2>3. row = [guest EXCEPT !.primary = Heading(plan, Made(plan), p, guest)]
    BY <1>1, <1>2, <2>2
  <2>4. Kept(plan, p, t.guest[p], row)
    BY <2>2, <2>3, FlaggedRow DEF Kept
  <2> QED BY <1>6, <2>4 DEF row
<1> QED
  BY <1>4, <1>5, <1>6

-----------------------------------------------------------------------------
\* The tables after a plan.

HomesOK(t)   == \A p \in Listed(t) : t.guest[p].group \in Live(t)
NamesOnce(t) == \A p, q \in Listed(t) : t.guest[p].norm = t.guest[q].norm => p = q

\* An insert the tables refuse: its name is taken, or its invitation is gone.
Collides(rows, plan, t) ==
  \E i \in Inserted(plan) :
    \/ rows[i].name \in NamesOf(t)
    \/ \E j \in Inserted(plan) : j < i /\ rows[j].name = rows[i].name
    \/ plan[Key(rows[i])].existing \notin {Null} \cup Live(t)

LEMMA TablesFacts ==
  ASSUME NEW t \in Tables
  PROVE  /\ Null \notin GuestRow /\ Null \notin Labels
         /\ \A g \in GroupIds : t.label[g] \in NullOr(Labels)
         /\ \A p \in GuestIds : t.guest[p] \in NullOr(GuestRow)
         /\ \A p \in Listed(t) : p \in GuestIds /\ t.guest[p] \in GuestRow
BY ConstantsAssumption DEF Tables, Listed, NullOr

LEMMA AppliedLabels ==
  ASSUME NEW rows, NEW plan, Applicable(rows, plan), NEW t \in Tables, NEW g \in GroupIds
  PROVE  LET label == After(rows, plan, t).label[g] IN
         /\ label \in NullOr(Labels)
         /\ t.label[g] # Null => label # Null
         /\ (\E k \in Created(plan) : Spot(plan, k) = g) => label # Null
<1> DEFINE given == Labelled(plan, t, g)
           label == After(rows, plan, t).label[g]
<1>1. label = IF given = {} THEN t.label[g] ELSE Only(given)
  BY DEF After, Applied, Labelled, Spot, Who
<1>2. given \subseteq DOMAIN plan
  BY DEF Labelled, UpdateGroupLabel, Spot, Created, Renamed
<1>3. DOMAIN plan \subseteq Labels
  <2>1. rows \in Seq(Row) /\ DOMAIN plan \subseteq Keys(rows)
    BY DEF Applicable, PlanOK
  <2> QED BY <2>1, LinesFacts DEF Keys
<1>4. given # {} => label \in Labels
  BY <1>1, <1>2, <1>3 DEF Only
<1>5. (\E k \in Created(plan) : Spot(plan, k) = g) => given # {}
  BY DEF Labelled, UpdateGroupLabel, Spot
<1> HIDE DEF given, label
<1>6. /\ label \in NullOr(Labels)
      /\ t.label[g] # Null => label # Null
      /\ (\E k \in Created(plan) : Spot(plan, k) = g) => label # Null
  BY <1>1, <1>4, <1>5, TablesFacts DEF NullOr
<1> QED
  BY <1>6 DEF label

LEMMA AppliedTables ==
  ASSUME NEW rows, NEW plan, Applicable(rows, plan),
         NEW t \in Tables, Listed(t) \cap FreeGuests = {}
  PROVE  /\ After(rows, plan, t) \in Tables
         /\ Live(t) \subseteq Live(After(rows, plan, t))
<1> DEFINE after == After(rows, plan, t)
<1>1. \A p \in GuestIds : after.guest[p] \in NullOr(GuestRow)
  BY AppliedGuest, TablesFacts DEF Kept, Arrived, NullOr
<1>2. \A g \in GroupIds : after.label[g] \in NullOr(Labels)
  BY AppliedLabels
<1>3. /\ after = [label |-> after.label, guest |-> after.guest]
      /\ after.label = [g \in GroupIds |-> after.label[g]]
      /\ after.guest = [p \in GuestIds |-> after.guest[p]]
  BY DEF After, Applied, Labelled, Spot, Who
<1>4. Live(t) \subseteq Live(after)
  BY AppliedLabels DEF Live
<1> HIDE DEF after
<1>5. after \in Tables
  BY <1>1, <1>2, <1>3 DEF Tables
<1> QED
  BY <1>4, <1>5 DEF after

LEMMA AppliedHomes ==
  ASSUME NEW rows, NEW plan, Applicable(rows, plan),
         NEW t \in Tables, Listed(t) \cap FreeGuests = {},
         HomesOK(t), ~Collides(rows, plan, t)
  PROVE  HomesOK(After(rows, plan, t))
<1> DEFINE after == After(rows, plan, t)
<1> SUFFICES ASSUME NEW p \in Listed(after) PROVE after.guest[p].group \in Live(after)
  BY DEF HomesOK
<1>1. p \in GuestIds /\ after.guest[p] # Null
  BY DEF Listed
<1>2. CASE t.guest[p] # Null
  <2>1. after.guest[p].group = t.guest[p].group
    BY <1>1, <1>2, AppliedGuest DEF Kept
  <2>2. t.guest[p].group \in Live(t)
    BY <1>1, <1>2 DEF HomesOK, Listed
  <2> QED BY <2>1, <2>2, AppliedTables
<1>3. CASE t.guest[p] = Null
  <2>0. Arrived(rows, plan, p, after.guest[p])
    BY <1>1, <1>3, AppliedGuest
  <2>1. PICK i \in Inserted(plan) : after.guest[p].group = Spot(plan, Key(rows[i]))
    BY <2>0 DEF Arrived
  <2> DEFINE k == Key(rows[i])
  <2>2. k \in DOMAIN plan
    BY <2>1, InsertedFacts, WrittenFacts
  <2>3. CASE k \in Created(plan)
    <3>1. Spot(plan, k) \in GroupIds
      BY <2>2, PlaceFacts
    <3>2. after.label[Spot(plan, k)] # Null
      BY <2>3, <3>1, AppliedLabels
    <3> QED BY <2>1, <3>1, <3>2 DEF Live
  <2>4. CASE k \notin Created(plan)
    <3>1. plan[k].existing # Null /\ Spot(plan, k) = plan[k].existing
      BY <2>2, <2>4, PlaceFacts DEF Created
    <3>2. plan[k].existing \in {Null} \cup Live(t)
      BY <2>1 DEF Collides
    <3> QED BY <2>1, <3>1, <3>2, AppliedTables
  <2> QED BY <2>3, <2>4
<1> QED
  BY <1>2, <1>3

LEMMA AppliedNames ==
  ASSUME NEW rows, NEW plan, Applicable(rows, plan),
         NEW t \in Tables, Listed(t) \cap FreeGuests = {},
         NamesOnce(t), ~Collides(rows, plan, t)
  PROVE  NamesOnce(After(rows, plan, t))
<1> DEFINE after == After(rows, plan, t)
<1> SUFFICES ASSUME NEW p \in Listed(after), NEW q \in Listed(after),
                    after.guest[p].norm = after.guest[q].norm
             PROVE  p = q
  BY DEF NamesOnce
<1>1. ASSUME NEW x \in Listed(after)
      PROVE  \/ x \in Listed(t) /\ after.guest[x].norm = t.guest[x].norm
             \/ \E i \in Inserted(plan) : /\ x = Given(i, Inserted(plan), FreeGuests)
                                          /\ after.guest[x].norm = rows[i].name
  <2>1. x \in GuestIds /\ after.guest[x] # Null
    BY DEF Listed
  <2>2. \/ t.guest[x] # Null /\ Kept(plan, x, t.guest[x], after.guest[x])
        \/ Arrived(rows, plan, x, after.guest[x])
    BY <2>1, AppliedGuest
  <2> QED BY <2>1, <2>2 DEF Kept, Arrived, Listed
<1>2. \A i \in Inserted(plan) : \A x \in Listed(t) : t.guest[x].norm # rows[i].name
  BY DEF Collides, NamesOf
<1>3. \A i, j \in Inserted(plan) : rows[i].name = rows[j].name => i = j
  <2> TAKE i, j \in Inserted(plan)
  <2> HAVE rows[i].name = rows[j].name
  <2>1. i \in Lines(rows) /\ j \in Lines(rows) /\ i \in Nat /\ j \in Nat
    BY InsertedFacts, WrittenFacts
  <2>2. Lines(rows) \subseteq 1 .. Len(rows) /\ Len(rows) \in Nat
    BY LinesFacts DEF Applicable
  <2>3. ~(i < j) /\ ~(j < i)
    BY <2>1, <2>2 DEF Lines
  <2> QED BY <2>1, <2>3
<1> HIDE DEF after
<1> QED
  BY <1>1, <1>2, <1>3 DEF NamesOnce

\* An invitation some plan says something of is headed by whom that plan names,
\* and there is one such plan; one that none speaks of has the heads it had.

-----------------------------------------------------------------------------
\* The inductive invariant.

Places == {"idle", "groups", "apply", "report"}

\* An import has a plan of its file and its snapshot, or none yet; and the one it
\* is about to apply is what Reconcile makes of them.
ImportOK(r) ==
  /\ r \in [at : Places, file : Seq(Row), replace : BOOLEAN, snap : {r.snap}, plan : {r.plan}]
  /\ r.snap = [label |-> r.snap.label, guest |-> r.snap.guest]
  /\ SnapOK(r.snap)
  /\ PlanOK(r.file, r.snap, r.plan)
  /\ r.at = "apply" => r.plan = Reconcile(r.file, r.snap)
  /\ r.replace => r.at = "apply" /\ r.snap = NoSnapshot

\* What an import has read of t is there to be read again.
Current(r, t) ==
  /\ r.at = "groups" => [r.snap EXCEPT !.guest = t.guest] \in Snapshots(t)
  /\ r.at = "apply" /\ ~r.replace => r.snap \in Snapshots(t)

\* One import at a time, planned from the list it meets.
IInv ==
  /\ list \in Tables
  /\ HomesOK(list) /\ NamesOnce(list)
  /\ upload = [u \in Uploads |-> upload[u]]
  /\ \A u \in Uploads : ImportOK(upload[u]) /\ Current(upload[u], list)
  /\ \A u, v \in Uploads : upload[u].at # "idle" /\ upload[v].at # "idle" => u = v
  /\ imports \in 0 .. MaxImports

LEMMA NoTablesFacts ==
  /\ NoTables \in Tables
  /\ Listed(NoTables) = {} /\ Live(NoTables) = {}
  /\ HomesOK(NoTables) /\ NamesOnce(NoTables)
BY DEF NoTables, Tables, NullOr, Listed, Live, HomesOK, NamesOnce

LEMMA NothingPlanned ==
  ASSUME NEW rows, NEW snap
  PROVE  PlanOK(rows, snap, <<>>)
BY DEF PlanOK

LEMMA NoSnapshotOK ==
  /\ SnapOK(NoSnapshot)
  /\ NoSnapshot = [label |-> NoSnapshot.label, guest |-> NoSnapshot.guest]
BY DEF NoSnapshot, NoTables, SnapOK, NullOr

LEMMA IdleOK ==
  /\ ImportOK(Idle) /\ ImportOK([Idle EXCEPT !.at = "report"])
  /\ \A t : Current(Idle, t) /\ Current([Idle EXCEPT !.at = "report"], t)
<1>1. <<>> \in Seq(Row)
  OBVIOUS
<1>2. PlanOK(<<>>, NoSnapshot, <<>>)
  BY NothingPlanned
<1> QED
  BY <1>1, <1>2, NoSnapshotOK DEF ImportOK, Idle, Places, Current

LEMMA InvInit == Init => IInv
<1> SUFFICES ASSUME Init PROVE IInv
  OBVIOUS
<1>1. list \in Tables /\ HomesOK(list) /\ NamesOnce(list)
  BY ConstantsAssumption, SchemaAssumption DEF Init, HomesOK, NamesOnce
<1>2. upload = [u \in Uploads |-> upload[u]] /\ \A u \in Uploads : upload[u] = Idle
  BY DEF Init
<1>3. Idle.at = "idle"
  BY DEF Idle
<1>4. imports \in 0 .. MaxImports
  BY MaxImportsAssumption DEF Init
<1> QED
  BY <1>1, <1>2, <1>3, <1>4, IdleOK DEF IInv

-----------------------------------------------------------------------------
\* Steps of an import.

\* The import that is under way, or begins, goes on: the others are idle.
LEMMA OneGoesOn ==
  ASSUME IInv, NEW u \in Uploads, Ready \/ upload[u].at # "idle",
         NEW r, NEW t, ImportOK(r), Current(r, t), upload' = [upload EXCEPT ![u] = r]
  PROVE  /\ upload' = [v \in Uploads |-> upload'[v]]
         /\ \A v \in Uploads : ImportOK(upload'[v]) /\ Current(upload'[v], t)
         /\ \A v, w \in Uploads : upload'[v].at # "idle" /\ upload'[w].at # "idle" => v = w
<1>1. /\ upload' = [v \in Uploads |-> IF v = u THEN r ELSE upload[v]]
      /\ \A v \in Uploads : upload'[v] = IF v = u THEN r ELSE upload[v]
  BY DEF IInv
<1>2. \A v \in Uploads \ {u} : upload[v].at = "idle"
  BY DEF IInv, Ready
<1>3. \A v \in Uploads \ {u} : ImportOK(upload[v]) /\ Current(upload[v], t)
  BY <1>2 DEF IInv, Current
<1>4. \A v \in Uploads : ImportOK(upload'[v]) /\ Current(upload'[v], t)
  BY <1>1, <1>3
<1>5. \A v, w \in Uploads : upload'[v].at # "idle" /\ upload'[w].at # "idle" => v = w
  BY <1>1, <1>2
<1>6. upload' = [v \in Uploads |-> upload'[v]]
  BY <1>1
<1> QED
  BY <1>4, <1>5, <1>6

LEMMA BeginNext ==
  ASSUME IInv, NEW u \in Uploads, Ready, NEW r, ImportOK(r), Current(r, list), Begin(u, r)
  PROVE  IInv'
<1>1. /\ upload' = [v \in Uploads |-> upload'[v]]
      /\ \A v \in Uploads : ImportOK(upload'[v]) /\ Current(upload'[v], list)
      /\ \A v, w \in Uploads : upload'[v].at # "idle" /\ upload'[w].at # "idle" => v = w
  BY OneGoesOn DEF Begin
<1>2. imports' \in 0 .. MaxImports
  BY MaxImportsAssumption DEF IInv, Ready, Begin
<1> QED
  BY <1>1, <1>2 DEF IInv, Begin, HomesOK, NamesOnce, ImportOK, Current

LEMMA SnapshotsOK ==
  ASSUME NEW t \in Tables, NEW snap \in Snapshots(t)
  PROVE  /\ DOMAIN snap.label \subseteq GroupIds
         /\ snap = [label |-> snap.label, guest |-> snap.guest]
<1>1. PICK S \in SUBSET Live(t) : snap = [label |-> [g \in S |-> t.label[g]], guest |-> t.guest]
  BY DEF Snapshots, FirstOfEachLabel
<1> QED
  BY <1>1 DEF Live

LEMMA ListGroupsNext ==
  ASSUME IInv, NEW u \in Uploads, Ready, NEW file \in Files, ListGroups(u, file)
  PROVE  IInv'
<1>1. PICK snap \in Snapshots(list) :
        Begin(u, [at |-> "groups", file |-> file, replace |-> FALSE,
                  snap |-> [snap EXCEPT !.guest = NoTables.guest], plan |-> <<>>])
  BY DEF ListGroups
<1> DEFINE bare == [snap EXCEPT !.guest = NoTables.guest]
           r    == [at |-> "groups", file |-> file, replace |-> FALSE, snap |-> bare, plan |-> <<>>]
<1>2. /\ bare = [label |-> bare.label, guest |-> bare.guest]
      /\ SnapOK(bare)
  BY SnapshotsOK DEF IInv, SnapOK, NoTables, NullOr
<1>3. file \in Seq(Row)
  BY ConstantsAssumption
<1> HIDE DEF bare
<1>4. ImportOK(r)
  BY <1>2, <1>3, NothingPlanned DEF ImportOK, Places
<1>5. [bare EXCEPT !.guest = list.guest] = snap
  BY SnapshotsOK DEF IInv, bare, Snapshots
<1>6. Current(r, list)
  BY <1>5 DEF Current
<1> QED
  BY <1>1, <1>4, <1>6, BeginNext DEF bare

LEMMA ReplaceNext ==
  ASSUME IInv, NEW u \in Uploads, Ready, NEW file \in Files, Replace(u, file)
  PROVE  IInv'
<1> DEFINE plan == Reconcile(file, NoSnapshot)
           r    == [at |-> "apply", file |-> file, replace |-> TRUE, snap |-> NoSnapshot,
                    plan |-> plan]
<1>1. file \in Seq(Row)
  BY ConstantsAssumption
<1>2. PlanOK(file, NoSnapshot, plan) /\ plan = Reconcile(file, NoSnapshot)
  BY <1>1, NoSnapshotOK, ReconcileOK
<1> HIDE DEF plan
<1>3. ImportOK(r) /\ Current(r, list)
  BY <1>1, <1>2, NoSnapshotOK DEF ImportOK, Places, Current
<1> QED
  BY <1>3, BeginNext DEF Replace, plan

LEMMA ListGuestsNext ==
  ASSUME IInv, NEW u \in Uploads, ListGuests(u)
  PROVE  IInv'
<1> DEFINE snap == [upload[u].snap EXCEPT !.guest = list.guest]
           plan == Reconcile(upload[u].file, snap)
           r    == [upload[u] EXCEPT !.at = "apply", !.snap = snap, !.plan = plan]
<1>1. ImportOK(upload[u])
  BY DEF IInv
<1>2. snap = [label |-> snap.label, guest |-> snap.guest] /\ SnapOK(snap)
  BY <1>1 DEF IInv, ImportOK, SnapOK, Tables
<1>3. upload[u].file \in Seq(Row)
  BY <1>1 DEF ImportOK
<1>4. PlanOK(upload[u].file, snap, plan) /\ plan = Reconcile(upload[u].file, snap)
  BY <1>2, <1>3, ReconcileOK
<1>5. upload' = [upload EXCEPT ![u] = r] /\ UNCHANGED <<list, imports>>
  BY DEF ListGuests, IInv
<1>8. upload[u].at = "groups"
  BY DEF ListGuests
<1>9. snap \in Snapshots(list)
  BY <1>8 DEF IInv, Current
<1> HIDE DEF snap, plan
<1>6. ImportOK(r) /\ Current(r, list)
  <2>1. /\ r.at = "apply" /\ r.snap = snap /\ r.plan = plan
        /\ r.file = upload[u].file /\ r.replace = upload[u].replace
        /\ r \in [at : Places, file : Seq(Row), replace : BOOLEAN, snap : {snap}, plan : {plan}]
    BY <1>1 DEF ImportOK, Places
  <2>2. ~upload[u].replace
    BY <1>1, <1>8 DEF ImportOK
  <2> HIDE DEF r
  <2> QED BY <1>2, <1>4, <1>9, <2>1, <2>2 DEF ImportOK, Current
<1> HIDE DEF r
<1>7. /\ upload' = [v \in Uploads |-> upload'[v]]
      /\ \A v \in Uploads : ImportOK(upload'[v]) /\ Current(upload'[v], list)
      /\ \A v, w \in Uploads : upload'[v].at # "idle" /\ upload'[w].at # "idle" => v = w
  BY <1>5, <1>6, <1>8, OneGoesOn
<1> QED
  BY <1>5, <1>7 DEF IInv, HomesOK, NamesOnce, ImportOK, Current

LEMMA OverNext ==
  ASSUME IInv, NEW u \in Uploads, upload[u].at # "idle", Over(u)
  PROVE  IInv'
<1>1. /\ upload' = [v \in Uploads |-> upload'[v]]
      /\ \A v \in Uploads : ImportOK(upload'[v]) /\ Current(upload'[v], list)
      /\ \A v, w \in Uploads : upload'[v].at # "idle" /\ upload'[w].at # "idle" => v = w
  BY OneGoesOn, IdleOK DEF Over
<1> QED
  BY <1>1 DEF IInv, Over, HomesOK, NamesOnce, ImportOK, Current

\* What a plan meets, and that it may be applied to it.
LEMMA MetFacts ==
  ASSUME IInv, NEW u \in Uploads, IdsRemain(u)
  PROVE  /\ Met(u) \in Tables /\ HomesOK(Met(u)) /\ NamesOnce(Met(u))
         /\ Listed(Met(u)) \cap FreeGuests = {}
         /\ Applicable(upload[u].file, upload[u].plan)
<1>1. Met(u) \in {NoTables, list}
  BY DEF Met
<1>2. Applicable(upload[u].file, upload[u].plan)
  BY FreeFacts DEF IInv, ImportOK, Applicable, IdsRemain
<1> QED
  BY <1>1, <1>2, NoTablesFacts, FreeFacts DEF IInv

-----------------------------------------------------------------------------
\* A plan that meets the list it was made from.

Single(S) == \A x, y \in S : x = y

\* The snapshot is of t, and no two of its invitations have one label.
SnapOf(snap, t) ==
  /\ snap.guest = t.guest
  /\ DOMAIN snap.label \subseteq Live(t)
  /\ \A g \in DOMAIN snap.label : snap.label[g] = t.label[g]
  /\ \A g, h \in DOMAIN snap.label : snap.label[g] = snap.label[h] => g = h

LEMMA SnapshotsFacts ==
  ASSUME NEW t, NEW snap \in Snapshots(t)
  PROVE  SnapOf(snap, t)
<1>1. PICK S \in FirstOfEachLabel(t) : snap = [label |-> [g \in S |-> t.label[g]], guest |-> t.guest]
  BY DEF Snapshots
<1>2. S \subseteq Live(t)
  BY DEF FirstOfEachLabel
<1>3. ASSUME NEW g \in S, NEW h \in S, t.label[g] = t.label[h] PROVE g = h
  <2> DEFINE same == {x \in S : t.label[x] = t.label[g]}
  <2>1. Cardinality(same) = 1
    BY <1>2 DEF FirstOfEachLabel
  <2>2. IsFiniteSet(same)
    BY <1>2, FS_Subset, ConstantsAssumption DEF Live
  <2>3. g \in same /\ h \in same
    BY <1>3
  <2> HIDE DEF same
  <2>4. PICK x : same = {x}
    BY <2>1, <2>2, FS_Singleton
  <2> QED BY <2>3, <2>4
<1> QED
  BY <1>1, <1>2, <1>3 DEF SnapOf

LEMMA KnownSingle ==
  ASSUME NEW t, NEW snap, SnapOf(snap, t), NamesOnce(t), NEW name
  PROVE  /\ Single(Known(snap, name)) /\ Single(PlaceOf(snap, name))
         /\ Known(snap, name) = {p \in Listed(t) : t.guest[p].norm = name}
         /\ PlaceOf(snap, name) = {t.guest[p].group : p \in Known(snap, name)}
         /\ \A label : Single(ByLabel(snap, label))
BY DEF SnapOf, NamesOnce, Known, PlaceOf, ByLabel, Single, Listed

LEMMA InferredSingle ==
  ASSUME NEW rows \in Seq(Row), NEW k, NEW snap, \A name : Single(PlaceOf(snap, name))
  PROVE  Single(InferGroupByMembers(rows, k, snap))
<1> DEFINE known    == {i \in LinesOf(rows, k) : Known(snap, rows[i].name) # {}}
           place    == [i \in known |-> PlaceOf(snap, rows[i].name)]
           count(i) == Cardinality({j \in known : j <= i /\ place[j] = place[i]})
           best     == {i \in known :
                          \A j \in known \ {i} :
                            \/ count(j) < count(i)
                            \/ count(j) = count(i) /\ i < j}
<1>1. InferGroupByMembers(rows, k, snap) \subseteq UNION {place[i] : i \in best}
  BY DEF InferGroupByMembers
<1>2. known \subseteq 1 .. Len(rows) /\ Len(rows) \in Nat
  BY LinesFacts DEF LinesOf
<1>3. \A i \in known : count(i) \in Nat
  <2> HIDE DEF known, place
  <2>1. IsFiniteSet(1 .. Len(rows))
    BY <1>2, FS_Interval
  <2>2. IsFiniteSet(known)
    BY <1>2, <2>1, FS_Subset
  <2> QED BY <2>2, FS_Subset, FS_CardinalityType
<1>4. \A i \in known : Single(place[i])
  OBVIOUS
<1>5. Single(best)
  <2> SUFFICES ASSUME NEW i \in best, NEW j \in best, i # j PROVE FALSE
    BY DEF Single
  <2>1. i \in known /\ j \in known
    OBVIOUS
  <2> HIDE DEF count, known
  <2>2. /\ count(j) < count(i) \/ (count(j) = count(i) /\ i < j)
        /\ count(i) < count(j) \/ (count(i) = count(j) /\ j < i)
    BY <2>1
  <2>3. count(i) \in Nat /\ count(j) \in Nat /\ i \in Nat /\ j \in Nat
    BY <1>2, <1>3, <2>1
  <2> HIDE DEF best
  <2> QED BY <2>2, <2>3
<1>6. best \subseteq known
  OBVIOUS
<1> HIDE DEF best, place, known
<1> QED
  BY <1>1, <1>4, <1>5, <1>6 DEF Single

LEMMA TargetOfSingle ==
  ASSUME NEW rows \in Seq(Row), NEW t, NEW snap, SnapOf(snap, t), NamesOnce(t),
         NEW k \in Keys(rows)
  PROVE  Single(TargetOf(rows, snap, k))
<1> DEFINE claimed == Claimed(rows, Targets(rows, snap), Opening(rows, k))
<1>1. TargetOf(rows, snap, k) = Target(rows, snap, Opening(rows, k), claimed)
  BY TargetsFacts, OpeningFacts DEF Targeted, TargetOf
<1> HIDE DEF claimed
<1>2. \A l : Single(ByLabel(snap, l)) /\ Single(InferGroupByMembers(rows, l, snap))
  BY KnownSingle, InferredSingle
<1>3. \A S : Single(S) => Single(S \ claimed)
  BY DEF Single
<1>4. Single({})
  BY DEF Single
<1> QED
  BY <1>1, <1>2, <1>3, <1>4 DEF Target

\* The lines of k are written to one invitation of t, or to a new one: every line
\* to the guest of its name, there, or to nobody if t has none of that name.
EntryLands(rows, t, k, entry) ==
  /\ entry.existing # Null => entry.existing \in Live(t)
  /\ entry.existing # Null /\ ~entry.updateLabel => t.label[entry.existing] = k
  /\ entry.existing = Null => entry.enforcePrimary
  /\ entry.primary \in DOMAIN entry.guests
  /\ \A i \in DOMAIN entry.guests :
       LET p == entry.guests[i] IN
       IF p = Null THEN rows[i].name \notin NamesOf(t)
       ELSE /\ p \in Listed(t) /\ t.guest[p].norm = rows[i].name
            /\ entry.existing # Null /\ t.guest[p].group = entry.existing

LEMMA ReconcileFacts ==
  ASSUME NEW rows, NEW snap
  PROVE  LET plan == Reconcile(rows, snap) IN
         /\ DOMAIN plan =
              {k \in Keys(rows) : Survivors(rows, snap, k, TargetOf(rows, snap, k)) # {}}
         /\ \A k \in DOMAIN plan :
              plan[k] = GroupPlan(rows, snap, k, TargetOf(rows, snap, k))
BY DEF Reconcile, TargetOf

\* A set of at most one element, that is not Null, as a value.
LEMMA OnlySingle ==
  ASSUME NEW S, Null \notin S, Single(S)
  PROVE  IF Only(S) = Null THEN S = {} ELSE S = {Only(S)}
BY DEF Only, Single

LEMMA EntryLandsFacts ==
  ASSUME NEW rows \in Seq(Row), NEW t \in Tables, HomesOK(t), NamesOnce(t),
         NEW snap, SnapOK(snap), SnapOf(snap, t), NEW k \in Keys(rows),
         Survivors(rows, snap, k, TargetOf(rows, snap, k)) # {}
  PROVE  EntryLands(rows, t, k, GroupPlan(rows, snap, k, TargetOf(rows, snap, k)))
<1> DEFINE target == TargetOf(rows, snap, k)
           entry  == GroupPlan(rows, snap, k, target)
           lines  == Survivors(rows, snap, k, target)
           marked == {i \in lines : rows[i].principal}
<1>1. /\ entry.existing = Only(target)
      /\ entry.updateLabel = (target \notin {{}, ByLabel(snap, k)})
      /\ entry.enforcePrimary = EnforcePrimary(marked, target)
      /\ entry.primary = Min(IF marked = {} THEN lines ELSE marked)
      /\ entry.guests = [i \in lines |-> Only(Known(snap, rows[i].name))]
  BY DEF GroupPlan
<1> HIDE DEF entry
<1>2. target \subseteq Remembered(snap) /\ Null \notin target /\ Single(target)
  BY TargetOfFacts, TargetOfSingle, RememberedWithin
<1>3. IF entry.existing = Null THEN target = {} ELSE target = {entry.existing}
  BY <1>1, <1>2, OnlySingle
<1>4. Remembered(snap) \subseteq Live(t)
  BY DEF Remembered, SnapOf, HomesOK, Listed
<1>5. lines \subseteq Nat /\ lines # {}
  BY LinesFacts DEF Survivors, LinesOf
<1>6. entry.primary \in lines
  <2> HIDE DEF lines
  <2>1. marked \subseteq lines
    OBVIOUS
  <2> HIDE DEF marked
  <2> QED BY <1>1, <1>5, <2>1, MinFacts
<1>7. entry.existing # Null /\ ~entry.updateLabel => t.label[entry.existing] = k
  <2> HAVE entry.existing # Null /\ ~entry.updateLabel
  <2> HIDE DEF target
  <2>1. entry.existing \in ByLabel(snap, k)
    BY <1>1, <1>3
  <2> QED BY <2>1 DEF ByLabel, SnapOf
<1>8. ASSUME NEW i \in lines
      PROVE  LET p == entry.guests[i] IN
             IF p = Null THEN rows[i].name \notin NamesOf(t)
             ELSE /\ p \in Listed(t) /\ t.guest[p].norm = rows[i].name
                  /\ entry.existing # Null /\ t.guest[p].group = entry.existing
  <2> DEFINE known == Known(snap, rows[i].name)
  <2>1. /\ Single(known) /\ known = {p \in Listed(t) : t.guest[p].norm = rows[i].name}
        /\ PlaceOf(snap, rows[i].name) = {t.guest[p].group : p \in known}
    BY KnownSingle
  <2>2. PlaceOf(snap, rows[i].name) \subseteq target
    BY <1>8 DEF Survivors
  <2>3. entry.guests[i] = Only(known)
    BY <1>1, <1>8
  <2>4. Null \notin known
    BY <2>1, ConstantsAssumption DEF Listed
  <2> HIDE DEF known, target, lines
  <2>5. IF entry.guests[i] = Null THEN known = {} ELSE known = {entry.guests[i]}
    BY <2>1, <2>3, <2>4, OnlySingle
  <2>6. CASE entry.guests[i] = Null
    <3>1. known = {}
      BY <2>5, <2>6
    <3> QED BY <2>1, <2>6, <3>1 DEF NamesOf
  <2>7. CASE entry.guests[i] # Null
    <3>1. known = {entry.guests[i]}
      BY <2>5, <2>7
    <3>2. t.guest[entry.guests[i]].group \in target
      BY <2>1, <2>2, <3>1
    <3>3. entry.existing # Null /\ t.guest[entry.guests[i]].group = entry.existing
      BY <1>3, <3>2
    <3> QED BY <2>1, <2>7, <3>1, <3>3
  <2> QED BY <2>6, <2>7
<1>9. entry.existing # Null => entry.existing \in Live(t)
  BY <1>2, <1>3, <1>4
<1>10. entry.existing = Null => entry.enforcePrimary
  BY <1>1, <1>3 DEF EnforcePrimary
<1>11. DOMAIN entry.guests = lines
  BY <1>1
<1> HIDE DEF lines
<1>12. EntryLands(rows, t, k, entry)
  BY <1>6, <1>7, <1>8, <1>9, <1>10, <1>11 DEF EntryLands
<1> QED BY <1>12 DEF entry

\* The plan may be applied to t, and every entry of it lands there.
Landing(rows, plan, t) ==
  /\ Applicable(rows, plan)
  /\ t \in Tables /\ Listed(t) \cap FreeGuests = {} /\ NamesOnce(t)
  /\ ~Collides(rows, plan, t)
  /\ \A k \in DOMAIN plan : EntryLands(rows, t, k, plan[k])

\* No insert is refused where every entry lands.
LEMMA NoneCollides ==
  ASSUME NEW rows, NEW plan, NEW t, Applicable(rows, plan),
         \A k \in DOMAIN plan : EntryLands(rows, t, k, plan[k])
  PROVE  ~Collides(rows, plan, t)
<1> SUFFICES ASSUME NEW i \in Inserted(plan)
             PROVE  /\ rows[i].name \notin NamesOf(t)
                    /\ \A j \in Inserted(plan) : ~(j < i /\ rows[j].name = rows[i].name)
                    /\ plan[Key(rows[i])].existing \in {Null} \cup Live(t)
  BY DEF Collides
<1>1. \A j \in Inserted(plan) :
        /\ j \in Lines(rows) /\ j \in 1 .. Len(rows) /\ Len(rows) \in Nat
        /\ Key(rows[j]) \in DOMAIN plan /\ j \in DOMAIN plan[Key(rows[j])].guests
        /\ plan[Key(rows[j])].guests[j] = Null
  BY InsertedFacts, WrittenFacts, LinesFacts DEF Applicable
<1>2. EntryLands(rows, t, Key(rows[i]), plan[Key(rows[i])])
  BY <1>1
<1>3. rows[i].name \notin NamesOf(t) /\ plan[Key(rows[i])].existing \in {Null} \cup Live(t)
  BY <1>1, <1>2 DEF EntryLands
<1>4. ASSUME NEW j \in Inserted(plan), j < i, rows[j].name = rows[i].name PROVE FALSE
  <2>1. j \in 1 .. i - 1
    BY <1>1, <1>4
  <2> QED BY <1>1, <1>4, <2>1 DEF Lines
<1> QED
  BY <1>3, <1>4

LEMMA LandingFacts ==
  ASSUME IInv, NEW u \in Uploads, Apply(u)
  PROVE  /\ Landing(upload[u].file, upload[u].plan, Met(u))
         /\ SnapOf(upload[u].snap, Met(u))
         /\ upload[u].plan = Reconcile(upload[u].file, upload[u].snap)
         /\ list' = After(upload[u].file, upload[u].plan, Met(u))
<1> DEFINE rows == upload[u].file
           snap == upload[u].snap
           plan == upload[u].plan
           t    == Met(u)
<1>1. IdsRemain(u) /\ list' = After(rows, plan, t) /\ upload[u].at = "apply"
  BY DEF Apply, After
<1>2. /\ t \in Tables /\ HomesOK(t) /\ NamesOnce(t) /\ Listed(t) \cap FreeGuests = {}
      /\ Applicable(rows, plan)
  BY <1>1, MetFacts
<1>3. /\ rows \in Seq(Row) /\ SnapOK(snap) /\ plan = Reconcile(rows, snap)
      /\ upload[u].replace => snap = NoSnapshot
  BY <1>1 DEF IInv, ImportOK
<1>4. SnapOf(snap, t)
  <2>1. CASE upload[u].replace
    <3>1. snap = NoSnapshot /\ t = NoTables
      BY <1>3, <2>1 DEF Met
    <3>2. SnapOf(NoSnapshot, NoTables)
      BY DEF SnapOf, NoSnapshot, NoTables
    <3> HIDE DEF snap, t
    <3> QED BY <3>1, <3>2
  <2>2. CASE ~upload[u].replace
    BY <1>1, <2>2, SnapshotsFacts DEF IInv, Current, Met
  <2> QED BY <2>1, <2>2
<1> HIDE DEF rows, snap, plan, t
<1>5. ASSUME NEW k \in DOMAIN plan PROVE EntryLands(rows, t, k, plan[k])
  <2>1. /\ k \in Keys(rows) /\ Survivors(rows, snap, k, TargetOf(rows, snap, k)) # {}
        /\ plan[k] = GroupPlan(rows, snap, k, TargetOf(rows, snap, k))
    BY <1>3, ReconcileFacts
  <2>2. EntryLands(rows, t, k, GroupPlan(rows, snap, k, TargetOf(rows, snap, k)))
    BY <1>2, <1>3, <1>4, <2>1, EntryLandsFacts
  <2> QED BY <2>1, <2>2
<1>6. ~Collides(rows, plan, t)
  BY <1>2, <1>5, NoneCollides
<1> QED
  BY <1>1, <1>2, <1>3, <1>4, <1>5, <1>6 DEF Landing, rows, snap, plan, t

LEMMA ApplyNext ==
  ASSUME IInv, NEW u \in Uploads, Apply(u)
  PROVE  IInv'
<1> DEFINE after == After(upload[u].file, upload[u].plan, Met(u))
<1>1. /\ list' = after /\ UNCHANGED imports /\ upload[u].at # "idle"
      /\ upload' = [upload EXCEPT ![u] = [Idle EXCEPT !.at = "report"]]
      /\ IdsRemain(u) /\ ~Collides(upload[u].file, upload[u].plan, Met(u))
  BY LandingFacts DEF Apply, Landing
<1>2. after \in Tables /\ HomesOK(after) /\ NamesOnce(after)
  BY <1>1, MetFacts, AppliedTables, AppliedHomes, AppliedNames
<1> HIDE DEF after
<1>3. /\ upload' = [v \in Uploads |-> upload'[v]]
      /\ \A v \in Uploads : ImportOK(upload'[v]) /\ Current(upload'[v], after)
      /\ \A v, w \in Uploads : upload'[v].at # "idle" /\ upload'[w].at # "idle" => v = w
  BY <1>1, OneGoesOn, IdleOK
<1>4. HomesOK(list)' /\ NamesOnce(list)'
  BY <1>1, <1>2 DEF HomesOK, NamesOnce
<1> QED
  BY <1>1, <1>2, <1>3, <1>4 DEF IInv, HomesOK, NamesOnce, ImportOK, Current

LEMMA InvNext == IInv /\ [Next]_vars => IInv'
<1> SUFFICES ASSUME IInv, [Next]_vars PROVE IInv'
  OBVIOUS
<1>1. ASSUME NEW u \in Uploads,
             \/ Ready /\ \E file \in Files : ListGroups(u, file) \/ Replace(u, file)
             \/ ListGuests(u) \/ Apply(u) \/ SaveReport(u) \/ Abort(u)
      PROVE  IInv'
  BY <1>1, ListGroupsNext, ReplaceNext, ListGuestsNext, ApplyNext, OverNext
     DEF SaveReport, Abort
<1>2. CASE UNCHANGED vars
  BY <1>2 DEF vars, IInv, HomesOK, NamesOnce, ImportOK, Current
<1> QED
  BY <1>1, <1>2 DEF Next

-----------------------------------------------------------------------------
\* The theorems.

\* The inductive invariant holds in every reachable state: one import at a time, with
\* a plan of its file and of the list as it is (Reconcile), and names and invitations
\* that the schema accepts (migrations).
THEOREM SafetyInvariant == Spec => []IInv
BY InvInit, InvNext, PTL DEF Spec

\* The step of an import that is applied is Apply.
LEMMA AppliesIsApply ==
  ASSUME IInv, [Next]_vars, NEW u \in Uploads, Applies(u)
  PROVE  Apply(u)
<1>1. upload[u].at = "apply" /\ upload'[u].at = "report"
  BY DEF Applies
<1>2. upload' # upload
  BY <1>1
<1>3. PICK v \in Uploads :
        \/ Ready /\ \E file \in Files : ListGroups(v, file) \/ Replace(v, file)
        \/ ListGuests(v) \/ Apply(v) \/ Over(v)
  BY <1>2 DEF Next, vars, SaveReport, Abort
<1>4. u = v
  BY <1>1, <1>3 DEF IInv, ListGroups, Replace, Begin, ListGuests, Apply, Over
<1>5. ~Ready /\ ~ListGuests(v)
  BY <1>1, <1>4 DEF Ready, ListGuests
<1>6. ~Over(v)
  BY <1>1, <1>4 DEF IInv, Over, Idle
<1> QED
  BY <1>3, <1>4, <1>5, <1>6

\* The step of an import that is applied lands.
LEMMA AppliesLands ==
  ASSUME IInv, [Next]_vars, NEW u \in Uploads, Applies(u)
  PROVE  /\ Landing(upload[u].file, upload[u].plan, Met(u))
         /\ list' = After(upload[u].file, upload[u].plan, Met(u))
BY AppliesIsApply, LandingFacts

\* The row of the guest that a line is written to.
LEMMA LineLands ==
  ASSUME NEW rows, NEW plan, NEW t, Landing(rows, plan, t), NEW i \in Written(plan)
  PROVE  LET k   == Key(rows[i])
             p   == Who(plan, k, i)
             row == After(rows, plan, t).guest[p]
         IN  /\ p \in GuestIds /\ row # Null
             /\ row.norm = rows[i].name /\ row.group = Spot(plan, k)
<1> DEFINE k   == Key(rows[i])
           p   == Who(plan, k, i)
           row == After(rows, plan, t).guest[p]
<1>1. Applicable(rows, plan) /\ t \in Tables /\ Listed(t) \cap FreeGuests = {}
  BY DEF Landing
<1>2. k \in DOMAIN plan /\ i \in DOMAIN plan[k].guests
      /\ (i \in Inserted(plan) <=> plan[k].guests[i] = Null)
  BY <1>1, WrittenFacts
<1>3. ASSUME NEW j \in Written(plan), j \notin Inserted(plan)
      PROVE  LET l == Key(rows[j]) IN
             /\ Who(plan, l, j) = plan[l].guests[j] /\ plan[l].guests[j] \in Listed(t)
             /\ t.guest[plan[l].guests[j]].norm = rows[j].name
             /\ plan[l].existing # Null /\ t.guest[plan[l].guests[j]].group = plan[l].existing
  <2> DEFINE l == Key(rows[j])
  <2>1. l \in DOMAIN plan /\ j \in DOMAIN plan[l].guests /\ plan[l].guests[j] # Null
    BY <1>1, <1>3, WrittenFacts
  <2>2. EntryLands(rows, t, l, plan[l])
    BY <2>1 DEF Landing
  <2>3. Who(plan, l, j) = plan[l].guests[j]
    BY <1>3 DEF Who, Person, Made
  <2> HIDE DEF l
  <2>4. /\ plan[l].guests[j] \in Listed(t)
        /\ t.guest[plan[l].guests[j]].norm = rows[j].name
        /\ plan[l].existing # Null /\ t.guest[plan[l].guests[j]].group = plan[l].existing
    BY <2>1, <2>2 DEF EntryLands
  <2> QED BY <2>3, <2>4 DEF l
<1>4. CASE i \in Inserted(plan)
  <2>1. p \in FreeGuests /\ p \in GuestIds /\ p = Given(i, Inserted(plan), FreeGuests)
    BY <1>1, <1>4, InsertedFacts, FreeFacts DEF Who, Person, Made
  <2> HIDE DEF p, k
  <2>2. p \notin Listed(t) /\ t.guest[p] = Null
    BY <1>1, <2>1 DEF Listed
  <2>3. \A j \in Written(plan) : Who(plan, Key(rows[j]), j) = p => j \in Inserted(plan)
    BY <1>3, <2>2
  <2>4. \E j \in Inserted(plan) : p = Who(plan, Key(rows[j]), j)
    BY <1>4 DEF p, k
  <2>5. row # Null /\ Arrived(rows, plan, p, row)
    BY <1>1, <2>1, <2>2, <2>3, <2>4, AppliedGuest
  <2> HIDE DEF row
  <2>6. PICK j \in Inserted(plan) :
          /\ p = Given(j, Inserted(plan), FreeGuests)
          /\ row.norm = rows[j].name
          /\ row.group = Spot(plan, Key(rows[j]))
    BY <2>5 DEF Arrived
  <2>7. i = j
    BY <1>1, <1>4, <2>1, <2>6, InsertedFacts
  <2> QED BY <2>1, <2>5, <2>6, <2>7 DEF p, k, row
<1>5. CASE i \notin Inserted(plan)
  <2>1. /\ p \in Listed(t) /\ t.guest[p].norm = rows[i].name
        /\ plan[k].existing # Null /\ t.guest[p].group = plan[k].existing
    BY <1>3, <1>5
  <2>2. Spot(plan, k) = plan[k].existing
    BY <1>1, <1>2, <2>1, PlaceFacts DEF Created
  <2> HIDE DEF p, k
  <2>3. p \in GuestIds /\ t.guest[p] # Null
    BY <2>1 DEF Listed
  <2>4. Kept(plan, p, t.guest[p], row)
    BY <1>1, <2>3, AppliedGuest
  <2> HIDE DEF row
  <2>5. row # Null /\ row.norm = t.guest[p].norm /\ row.group = t.guest[p].group
    BY <2>4, ConstantsAssumption DEF Kept
  <2> QED BY <2>1, <2>2, <2>3, <2>5 DEF p, k, row
<1> QED BY <1>4, <1>5

\* Where the lines of one invitation are, and what it is called.
LEMMA PlaceLands ==
  ASSUME NEW rows, NEW plan, NEW t, Landing(rows, plan, t)
  PROVE  LET after == After(rows, plan, t) IN
         /\ \A k \in DOMAIN plan : after.label[Spot(plan, k)] = k
         /\ \A i \in Written(plan) : PlaceOf(after, rows[i].name) = {Spot(plan, Key(rows[i]))}
<1> DEFINE after == After(rows, plan, t)
<1>1. Applicable(rows, plan) /\ t \in Tables /\ Listed(t) \cap FreeGuests = {}
  BY DEF Landing
<1>2. ASSUME NEW k \in DOMAIN plan PROVE after.label[Spot(plan, k)] = k
  <2> DEFINE g     == Spot(plan, k)
             given == Labelled(plan, t, g)
  <2>1. /\ g \in GroupIds /\ \A l \in DOMAIN plan : g = Spot(plan, l) => l = k
        /\ k \notin Created(plan) => g = plan[k].existing
    BY <1>1, PlaceFacts
  <2>2. given \subseteq {k}
    BY <2>1 DEF Labelled, UpdateGroupLabel, Spot, Created, Renamed
  <2>3. after.label[g] = IF given = {} THEN t.label[g] ELSE Only(given)
    BY <2>1 DEF After, Applied, Labelled, Spot, Who
  <2>4. given # {} => Only(given) = k
    BY <2>2 DEF Only
  <2>5. given = {} => t.label[g] = k
    <3> HAVE given = {}
    <3>1. k \notin Created(plan)
      BY <1>2 DEF Labelled, UpdateGroupLabel, Spot
    <3>2. plan[k].existing # Null /\ g = plan[k].existing
      BY <2>1, <3>1 DEF Created
    <3>3. EntryLands(rows, t, k, plan[k])
      BY DEF Landing
    <3>4. g \in Live(t)
      BY <3>2, <3>3 DEF EntryLands
    <3>5. k \notin Renamed(plan)
      BY <3>4 DEF Labelled, UpdateGroupLabel, Spot
    <3> QED BY <3>2, <3>3, <3>5 DEF EntryLands, Renamed
  <2> QED BY <2>3, <2>4, <2>5
<1>3. ASSUME NEW i \in Written(plan)
      PROVE  PlaceOf(after, rows[i].name) = {Spot(plan, Key(rows[i]))}
  <2> DEFINE k == Key(rows[i])
             p == Who(plan, k, i)
  <2>1. /\ p \in GuestIds /\ after.guest[p] # Null
        /\ after.guest[p].norm = rows[i].name /\ after.guest[p].group = Spot(plan, k)
    BY LineLands
  <2>2. NamesOnce(after)
    BY AppliedNames DEF Landing
  <2> HIDE DEF after, k, p
  <2>3. Known(after, rows[i].name) = {p}
    BY <2>1, <2>2 DEF Known, NamesOnce, Listed
  <2>4. PlaceOf(after, rows[i].name) = {Spot(plan, k)}
    BY <2>1, <2>3 DEF PlaceOf
  <2> QED BY <2>4 DEF k
<1> QED BY <1>2, <1>3

HeadedByOne(t, g) == \E p : Heads(t, g) = {p}

\* Who heads an invitation after a plan that meets the list it was made from.
LEMMA HeadsLand ==
  ASSUME NEW rows, NEW plan, NEW t, Landing(rows, plan, t),
         NEW g \in Live(After(rows, plan, t))
  PROVE  /\ Said(plan, g) = {} =>
              g \in Live(t) /\ Heads(After(rows, plan, t), g) = Heads(t, g)
         /\ Said(plan, g) # {} => HeadedByOne(After(rows, plan, t), g)
<1> DEFINE after == After(rows, plan, t)
<1>1. Applicable(rows, plan) /\ t \in Tables /\ Listed(t) \cap FreeGuests = {}
  BY DEF Landing
<1>2. ASSUME NEW x \in GuestIds
      PROVE  /\ t.guest[x] # Null => Kept(plan, x, t.guest[x], after.guest[x]) /\ after.guest[x] # Null
             /\ t.guest[x] = Null => after.guest[x] = Null \/ Arrived(rows, plan, x, after.guest[x])
  BY <1>1, AppliedGuest, ConstantsAssumption DEF Kept
<1>3. CASE Said(plan, g) = {}
  <2>1. g \in Live(t)
    <3> DEFINE given == Labelled(plan, t, g)
    <3>1. g \in GroupIds /\ after.label[g] # Null
      BY DEF Live
    <3>2. after.label[g] = IF given = {} THEN t.label[g] ELSE Only(given)
      BY <3>1 DEF After, Applied, Labelled, Spot, Who
    <3>3. \A k \in Created(plan) : plan[k].enforcePrimary
      BY DEF Created, Landing, EntryLands
    <3>4. \A k \in Created(plan) : Spot(plan, k) # g
      BY <1>3, <3>3 DEF Said, Created
    <3> QED BY <3>1, <3>2, <3>4 DEF Labelled, UpdateGroupLabel, Spot, Live
  <2> HIDE DEF after
  <2>2. ASSUME NEW x \in GuestIds
        PROVE  x \in Heads(after, g) <=> x \in Heads(t, g)
    <3>1. CASE t.guest[x] # Null
      <4>1. /\ after.guest[x] # Null /\ after.guest[x].group = t.guest[x].group
            /\ after.guest[x].group = g => after.guest[x].primary = t.guest[x].primary
        BY <1>2, <1>3, <3>1 DEF Kept, Flagged
      <4> QED BY <3>1, <4>1 DEF Heads, Members, Listed
    <3>2. CASE t.guest[x] = Null
      BY <1>2, <1>3, <3>2 DEF Arrived, Flagged, Heads, Members, Listed
    <3> QED BY <3>1, <3>2
  <2>3. Heads(after, g) = Heads(t, g)
    BY <2>2 DEF Heads, Members, Listed
  <2> QED BY <1>3, <2>1, <2>3 DEF after
<1>4. CASE Said(plan, g) # {}
  <2>1. PICK k \in Said(plan, g) : TRUE
    BY <1>4
  <2>2. k \in DOMAIN plan /\ g = Spot(plan, k)
    BY <2>1 DEF Said
  <2>3. \A l \in Said(plan, g) : l = k
    BY <1>1, <2>2, PlaceFacts DEF Said
  <2> DEFINE i == plan[k].primary
             p == Who(plan, k, i)
  <2>4. i \in DOMAIN plan[k].guests /\ i \in Written(plan) /\ Key(rows[i]) = k
    <3>1. i \in DOMAIN plan[k].guests
      BY <2>2 DEF Landing, EntryLands
    <3> QED BY <1>1, <2>2, <3>1, LineOfEntry DEF Written
  <2>5. p \in GuestIds /\ after.guest[p] # Null /\ after.guest[p].group = g
    BY <2>2, <2>4, LineLands
  <2> HIDE DEF after
  <2>6. \A x \in GuestIds : Flagged(plan, x, g, TRUE) <=> x = p
    BY <2>1, <2>3, <1>4 DEF Flagged
  <2>7. \A x \in GuestIds : after.guest[x] # Null /\ after.guest[x].group = g =>
          (after.guest[x].primary <=> x = p)
    <3> TAKE x \in GuestIds
    <3> HAVE after.guest[x] # Null /\ after.guest[x].group = g
    <3>1. \A b : Flagged(plan, x, g, b) = Flagged(plan, x, g, TRUE)
      BY <1>4 DEF Flagged
    <3>2. \E b : after.guest[x].primary = Flagged(plan, x, g, b)
      BY <1>2 DEF Kept, Arrived
    <3> QED BY <2>6, <3>1, <3>2
  <2> HIDE DEF p
  <2>8. Heads(after, g) = {p}
    BY <2>5, <2>7 DEF Heads, Members, Listed
  <2> QED BY <1>4, <2>8 DEF HeadedByOne, after
<1> QED BY <1>3, <1>4

\* Apply's order of statements (repo.go), when nobody else writes: an import leaves an
\* invitation headed once if it was, and makes none that is not.
THEOREM ImportsKeepHeads == Spec => HeadsKept
<1>1. ASSUME IInv, [Next]_vars, NEW u \in Uploads, Applies(u), NEW g \in Live(list')
      PROVE  \/ g \in Live(Met(u)) /\ Cardinality(Heads(Met(u), g)) # 1
             \/ Cardinality(Heads(list', g)) = 1
  <2> DEFINE rows == upload[u].file
             plan == upload[u].plan
             t    == Met(u)
  <2>1. Landing(rows, plan, t) /\ list' = After(rows, plan, t)
    BY <1>1, AppliesLands
  <2> DEFINE after == After(rows, plan, t)
  <2> HIDE DEF rows, plan, t
  <2>4. g \in Live(after) /\ Heads(list', g) = Heads(after, g)
    BY <1>1, <2>1 DEF Live, Heads, Members, Listed
  <2>5. /\ Said(plan, g) = {} => g \in Live(t) /\ Heads(after, g) = Heads(t, g)
        /\ Said(plan, g) # {} => HeadedByOne(after, g)
    BY <2>1, <2>4, HeadsLand
  <2>3. HeadedByOne(after, g) => Cardinality(Heads(after, g)) = 1
    BY FS_Singleton DEF HeadedByOne
  <2> QED BY <2>4, <2>5, <2>3 DEF t
<1>2. IInv /\ [Next]_vars =>
        [\A u \in Uploads : Applies(u) =>
           \A g \in Live(list') :
             \/ g \in Live(Met(u)) /\ Cardinality(Heads(Met(u), g)) # 1
             \/ Cardinality(Heads(list', g)) = 1]_vars
  BY <1>1
<1> QED
  BY <1>2, SafetyInvariant, PTL DEF Spec, HeadsKept

\* Reconcile and Apply together: lines written end up on an invitation with the
\* label the file gives them, and two of them on one exactly when the file puts them
\* together.
THEOREM FilesAreFollowed == Spec => FileIsFollowed
<1>1. ASSUME IInv, [Next]_vars, NEW u \in Uploads, Applies(u)
      PROVE  LET rows  == upload[u].file
                 place == [i \in DOMAIN rows |-> PlaceOf(list', rows[i].name)]
             IN  \A i \in Written(upload[u].plan) :
                   /\ \E g \in place[i] : list'.label[g] = Key(rows[i])
                   /\ \A j \in Written(upload[u].plan) :
                        place[i] = place[j] <=> Key(rows[i]) = Key(rows[j])
  <2> DEFINE rows  == upload[u].file
             plan  == upload[u].plan
             t     == Met(u)
             place == [i \in DOMAIN rows |-> PlaceOf(list', rows[i].name)]
  <2>1. Landing(rows, plan, t) /\ list' = After(rows, plan, t)
    BY <1>1, AppliesLands
  <2>2. Applicable(rows, plan)
    BY <2>1 DEF Landing
  <2> HIDE DEF plan, t
  <2>3. ASSUME NEW i \in Written(plan)
        PROVE  /\ place[i] = {Spot(plan, Key(rows[i]))} /\ Key(rows[i]) \in DOMAIN plan
               /\ list'.label[Spot(plan, Key(rows[i]))] = Key(rows[i])
    <3>1. i \in DOMAIN rows /\ Key(rows[i]) \in DOMAIN plan
      BY <2>2, WrittenFacts DEF Lines
    <3>2. place[i] = PlaceOf(list', rows[i].name)
      BY <3>1
    <3> HIDE DEF place, rows
    <3> QED BY <2>1, <3>1, <3>2, PlaceLands
  <2> HIDE DEF place, rows
  <2>4. \A k, l \in DOMAIN plan : Spot(plan, k) = Spot(plan, l) => k = l
    BY <2>2, PlaceFacts
  <2>5. \A i, j \in Written(plan) : place[i] = place[j] <=> Key(rows[i]) = Key(rows[j])
    BY <2>3, <2>4
  <2> QED BY <2>3, <2>5 DEF place, rows, plan
<1>2. IInv /\ [Next]_vars =>
        [\A u \in Uploads : Applies(u) =>
           LET rows    == upload[u].file
               place   == [i \in DOMAIN rows |-> PlaceOf(list', rows[i].name)]
           IN  \A i \in Written(upload[u].plan) :
                 /\ \E g \in place[i] : list'.label[g] = Key(rows[i])
                 /\ \A j \in Written(upload[u].plan) :
                      place[i] = place[j] <=> Key(rows[i]) = Key(rows[j])]_vars
  BY <1>1
<1> QED
  BY <1>2, SafetyInvariant, PTL DEF Spec, FileIsFollowed

-----------------------------------------------------------------------------
\* A file that is uploaded again.

LabelsOnce(t) == \A g, h \in Live(t) : t.label[g] = t.label[h] => g = h

\* The plan was made from t, met it, and no two invitations of t had one label.
MadeFrom(rows, snap, plan, t) ==
  /\ rows \in Seq(Row) /\ plan = Reconcile(rows, snap)
  /\ Landing(rows, plan, t) /\ HomesOK(t) /\ FreeGroups \cap Live(t) = {}
  /\ SnapOK(snap) /\ SnapOf(snap, t) /\ DOMAIN snap.label = Live(t) /\ LabelsOnce(t)

\* What the keys that open before k have claimed.
Claims(rows, snap, k) ==
  UNION {TargetOf(rows, snap, l) : l \in {l \in Keys(rows) : Opening(rows, l) < Opening(rows, k)}}

LEMMA TargetOfRule ==
  ASSUME NEW rows \in Seq(Row), NEW snap, NEW k \in Keys(rows)
  PROVE  LET claims  == Claims(rows, snap, k)
             byLabel == ByLabel(snap, k) \ claims
         IN  TargetOf(rows, snap, k) =
               IF byLabel # {} THEN byLabel
               ELSE InferGroupByMembers(rows, k, snap) \ claims
<1> DEFINE f       == Targets(rows, snap)
           claimed == Claimed(rows, f, Opening(rows, k))
           claims  == Claims(rows, snap, k)
<1>1. /\ Opening(rows, k) \in Lines(rows) /\ Key(rows[Opening(rows, k)]) = k
      /\ Opening(rows, k) \in 1 .. Len(rows)
  BY OpeningFacts
<1>2. f[Opening(rows, k)] = Target(rows, snap, Opening(rows, k), claimed)
  BY <1>1, TargetsFacts DEF Targeted
<1>3. \A i \in 1 .. Len(rows) : f[i] # {} => i \in Lines(rows) /\ i = Opening(rows, Key(rows[i]))
  BY TargetsFacts DEF Targeted, Target
<1>4. \A i \in Lines(rows) : i \in 1 .. Len(rows) /\ Key(rows[i]) \in Keys(rows)
  BY LinesFacts DEF Keys
<1>5. \A l \in Keys(rows) : Opening(rows, l) \in Lines(rows) /\ f[Opening(rows, l)] = TargetOf(rows, snap, l)
  BY OpeningFacts DEF TargetOf
<1> HIDE DEF f
<1>6. claimed \subseteq claims
  <2> SUFFICES ASSUME NEW j \in Lines(rows), j < Opening(rows, k), NEW x \in f[j]
               PROVE  x \in claims
    BY DEF Claimed
  <2>1. j = Opening(rows, Key(rows[j])) /\ Key(rows[j]) \in Keys(rows)
    BY <1>3, <1>4
  <2>2. x \in TargetOf(rows, snap, Key(rows[j]))
    BY <1>5, <2>1
  <2> QED BY <2>1, <2>2 DEF Claims
<1>7. claims \subseteq claimed
  BY <1>5 DEF Claims, Claimed
<1>8. claimed = claims
  BY <1>6, <1>7
<1> HIDE DEF claimed, claims
<1>9. TargetOf(rows, snap, k) = Target(rows, snap, Opening(rows, k), claims)
  BY <1>1, <1>2, <1>5, <1>8
<1> QED
  BY <1>1, <1>9 DEF Target, claims

\* An inferred invitation is one some line of k is on.
LEMMA InferredIsOn ==
  ASSUME NEW rows, NEW k, NEW snap, \A name : Single(PlaceOf(snap, name)),
         NEW g \in InferGroupByMembers(rows, k, snap)
  PROVE  \E i \in LinesOf(rows, k) : PlaceOf(snap, rows[i].name) = {g}
<1> DEFINE known == {i \in LinesOf(rows, k) : Known(snap, rows[i].name) # {}}
           place == [i \in known |-> PlaceOf(snap, rows[i].name)]
<1>1. \A best \in SUBSET known :
        g \in UNION {place[i] : i \in best} => \E i \in known : g \in place[i]
  OBVIOUS
<1>2. \E i \in known : g \in place[i]
  BY <1>1 DEF InferGroupByMembers
<1>3. PICK i \in LinesOf(rows, k) : g \in PlaceOf(snap, rows[i].name)
  BY <1>2
<1>4. PlaceOf(snap, rows[i].name) = {g}
  BY <1>3 DEF Single
<1> QED BY <1>4

\* Where the lines of k are no less known, are where they were, and no invitation
\* has shrunk, nothing new is inferred.
LEMMA InferredAgain ==
  ASSUME NEW rows \in Seq(Row), NEW k, NEW snap, NEW again,
         \A i \in LinesOf(rows, k) :
           /\ Known(snap, rows[i].name) # {} /\ Known(again, rows[i].name) # {}
           /\ PlaceOf(snap, rows[i].name) = PlaceOf(again, rows[i].name),
         \A g : Size(snap, g) \in Nat /\ Size(again, g) \in Nat /\ Size(snap, g) <= Size(again, g)
  PROVE  InferGroupByMembers(rows, k, again) \subseteq InferGroupByMembers(rows, k, snap)
<1> DEFINE knownOf(s) == {i \in LinesOf(rows, k) : Known(s, rows[i].name) # {}}
           placeOf(s) == [i \in knownOf(s) |-> PlaceOf(s, rows[i].name)]
           inferred(known, place, s) ==
             LET count(i) == Cardinality({j \in known : j <= i /\ place[j] = place[i]})
                 best     == {i \in known :
                                \A j \in known \ {i} :
                                  \/ count(j) < count(i)
                                  \/ count(j) = count(i) /\ i < j}
             IN  {g \in UNION {place[i] : i \in best} :
                    \A i \in best : count(i) >= 2 /\ count(i) * 2 >= Size(s, g)}
<1>1. knownOf(again) = knownOf(snap) /\ placeOf(again) = placeOf(snap)
  OBVIOUS
<1>2. \A s : InferGroupByMembers(rows, k, s) = inferred(knownOf(s), placeOf(s), s)
  BY DEF InferGroupByMembers
<1>3. inferred(knownOf(snap), placeOf(snap), again) \subseteq
        inferred(knownOf(snap), placeOf(snap), snap)
  <2> DEFINE known    == knownOf(snap)
             place    == placeOf(snap)
             count(i) == Cardinality({j \in known : j <= i /\ place[j] = place[i]})
  <2>1. IsFiniteSet(known)
    <3>1. known \subseteq 1 .. Len(rows) /\ Len(rows) \in Nat
      BY LinesFacts DEF LinesOf
    <3>2. IsFiniteSet(1 .. Len(rows))
      BY <3>1, FS_Interval
    <3> HIDE DEF known
    <3> QED BY <3>1, <3>2, FS_Subset
  <2> HIDE DEF known, place
  <2>2. \A i : count(i) \in Nat
    BY <2>1, FS_Subset, FS_CardinalityType
  <2>3. \A i, g : count(i) * 2 >= Size(again, g) => count(i) * 2 >= Size(snap, g)
    <3> TAKE i, g
    <3>1. /\ count(i) \in Nat /\ Size(snap, g) \in Nat /\ Size(again, g) \in Nat
          /\ Size(snap, g) <= Size(again, g)
      BY <2>2
    <3> HIDE DEF count
    <3> QED BY <3>1
  <2>4. inferred(known, place, again) \subseteq inferred(known, place, snap)
    BY <2>3
  <2> QED BY <2>4 DEF known, place
<1> HIDE DEF knownOf, placeOf, inferred
<1> QED BY <1>1, <1>2, <1>3

\* What MadeFrom says of the targets of a plan and of its places.
LEMMA MadeTargets ==
  ASSUME NEW rows, NEW snap, NEW plan, NEW t, MadeFrom(rows, snap, plan, t), NEW k \in Keys(rows)
  PROVE  /\ Single(TargetOf(rows, snap, k)) /\ TargetOf(rows, snap, k) \subseteq Live(t)
         /\ \A l \in Keys(rows) :
              l # k => TargetOf(rows, snap, k) \cap TargetOf(rows, snap, l) = {}
         /\ k \in DOMAIN plan <=> Survivors(rows, snap, k, TargetOf(rows, snap, k)) # {}
         /\ k \in DOMAIN plan =>
              IF TargetOf(rows, snap, k) = {} THEN Spot(plan, k) \notin Live(t)
              ELSE TargetOf(rows, snap, k) = {Spot(plan, k)}
<1> DEFINE target == TargetOf(rows, snap, k)
<1>1. /\ rows \in Seq(Row) /\ SnapOK(snap) /\ SnapOf(snap, t) /\ NamesOnce(t) /\ HomesOK(t)
      /\ plan = Reconcile(rows, snap) /\ Applicable(rows, plan)
      /\ FreeGroups \cap Live(t) = {}
  BY DEF MadeFrom, Landing
<1>2. /\ target \subseteq Remembered(snap) /\ Null \notin target /\ Single(target)
      /\ \A l \in Keys(rows) : l # k => target \cap TargetOf(rows, snap, l) = {}
  BY <1>1, TargetOfFacts, TargetOfSingle, RememberedWithin
<1>3. target \subseteq Live(t)
  <2>1. Remembered(snap) \subseteq Live(t)
    BY <1>1 DEF Remembered, SnapOf, HomesOK, Listed
  <2> QED BY <1>2, <2>1
<1>4. /\ k \in DOMAIN plan <=> Survivors(rows, snap, k, target) # {}
      /\ k \in DOMAIN plan => plan[k] = GroupPlan(rows, snap, k, target)
  BY <1>1, ReconcileFacts
<1>5. ASSUME k \in DOMAIN plan
      PROVE  IF target = {} THEN Spot(plan, k) \notin Live(t) ELSE target = {Spot(plan, k)}
  <2>1. plan[k].existing = Only(target)
    BY <1>4, <1>5 DEF GroupPlan
  <2> HIDE DEF target
  <2>2. IF plan[k].existing = Null THEN target = {} ELSE target = {plan[k].existing}
    BY <1>2, <2>1, OnlySingle
  <2>3. IF plan[k].existing = Null THEN Spot(plan, k) \in FreeGroups
        ELSE Spot(plan, k) = plan[k].existing
    BY <1>1, <1>5, PlaceFacts DEF Created
  <2> QED BY <1>1, <2>2, <2>3
<1> HIDE DEF target
<1>6. /\ Single(target) /\ target \subseteq Live(t)
      /\ \A l \in Keys(rows) : l # k => target \cap TargetOf(rows, snap, l) = {}
      /\ k \in DOMAIN plan <=> Survivors(rows, snap, k, target) # {}
      /\ k \in DOMAIN plan =>
           IF target = {} THEN Spot(plan, k) \notin Live(t) ELSE target = {Spot(plan, k)}
  BY <1>2, <1>3, <1>4, <1>5
<1> QED BY <1>6 DEF target

\* A target that does not have the label of its lines was inferred from them, and
\* the plan writes there.
LEMMA InferredIsPlanned ==
  ASSUME NEW rows, NEW snap, NEW plan, NEW t, MadeFrom(rows, snap, plan, t), NEW k \in Keys(rows),
         NEW g \in TargetOf(rows, snap, k), g \notin ByLabel(snap, k)
  PROVE  k \in DOMAIN plan /\ Spot(plan, k) = g
<1>1. rows \in Seq(Row) /\ SnapOf(snap, t) /\ NamesOnce(t)
  BY DEF MadeFrom, Landing
<1>2. g \in InferGroupByMembers(rows, k, snap)
  BY <1>1, TargetOfRule
<1>3. PICK i \in LinesOf(rows, k) : PlaceOf(snap, rows[i].name) = {g}
  <2>1. \A name : Single(PlaceOf(snap, name))
    BY <1>1, KnownSingle
  <2> QED BY <1>2, <2>1, InferredIsOn
<1>4. k \in DOMAIN plan
  BY <1>3, MadeTargets DEF Survivors
<1>5. TargetOf(rows, snap, k) = {Spot(plan, k)}
  BY <1>4, MadeTargets
<1> QED BY <1>4, <1>5

\* The invitations after the plan: those it wrote to have the labels of their lines,
\* the others are as they were.
LEMMA MadeLabels ==
  ASSUME NEW rows, NEW snap, NEW plan, NEW t, MadeFrom(rows, snap, plan, t)
  PROVE  LET after  == After(rows, plan, t)
             places == {Spot(plan, k) : k \in DOMAIN plan}
         IN  /\ \A k \in DOMAIN plan : /\ Spot(plan, k) \in Live(after)
                                       /\ after.label[Spot(plan, k)] = k
             /\ \A g \in GroupIds \ places : after.label[g] = t.label[g]
             /\ Live(t) \subseteq Live(after)
             /\ LabelsOnce(after)
<1> DEFINE after  == After(rows, plan, t)
           places == {Spot(plan, k) : k \in DOMAIN plan}
<1>1. /\ Landing(rows, plan, t) /\ Applicable(rows, plan) /\ t \in Tables
      /\ Listed(t) \cap FreeGuests = {} /\ rows \in Seq(Row) /\ LabelsOnce(t)
      /\ SnapOf(snap, t) /\ DOMAIN snap.label = Live(t) /\ DOMAIN plan \subseteq Keys(rows)
  BY DEF MadeFrom, Landing, Applicable, PlanOK
<1>2. ASSUME NEW k \in DOMAIN plan
      PROVE  Spot(plan, k) \in Live(after) /\ after.label[Spot(plan, k)] = k
  <2>1. after.label[Spot(plan, k)] = k /\ Spot(plan, k) \in GroupIds
    BY <1>1, PlaceLands, PlaceFacts
  <2>2. k # Null
    BY <1>1, LinesFacts, TablesFacts DEF Keys
  <2> HIDE DEF after
  <2> QED BY <2>1, <2>2 DEF Live
<1>3. ASSUME NEW g \in GroupIds \ places PROVE after.label[g] = t.label[g]
  <2>1. Labelled(plan, t, g) = {}
    BY DEF Labelled, UpdateGroupLabel, Spot, Created, Renamed
  <2> QED BY <2>1 DEF After, Applied, Labelled, Spot, Who
<1>4. Live(t) \subseteq Live(after)
  BY <1>1, AppliedTables
<1> HIDE DEF after
<1>5. ASSUME NEW g \in Live(t), t.label[g] \in DOMAIN plan PROVE g \in places
  <2> DEFINE k == t.label[g]
  <2>1. g \in ByLabel(snap, k) /\ k \in Keys(rows)
    BY <1>1, <1>5 DEF ByLabel, SnapOf
  <2>2. CASE g \in Claims(rows, snap, k)
    <3>1. PICK l \in Keys(rows) : /\ Opening(rows, l) < Opening(rows, k)
                                  /\ g \in TargetOf(rows, snap, l)
      BY <2>2 DEF Claims
    <3>2. l # k
      BY <1>1, <2>1, <3>1, OpeningFacts
    <3>3. g \notin ByLabel(snap, l)
      BY <2>1, <3>2 DEF ByLabel
    <3> QED BY <3>1, <3>3, InferredIsPlanned
  <2>3. CASE g \notin Claims(rows, snap, k)
    <3>1. g \in TargetOf(rows, snap, k)
      BY <1>1, <2>1, <2>3, TargetOfRule
    <3>2. TargetOf(rows, snap, k) = {Spot(plan, k)}
      BY <1>5, <2>1, <3>1, MadeTargets
    <3> QED BY <1>5, <3>1, <3>2
  <2> QED BY <2>2, <2>3
<1>6. LabelsOnce(after)
  <2> SUFFICES ASSUME NEW g \in Live(after), NEW h \in Live(after), after.label[g] = after.label[h]
               PROVE  g = h
    BY DEF LabelsOnce
  <2>1. \A x \in Live(after) : x \in GroupIds
    BY DEF Live
  <2>2. \A x \in Live(after) \ places :
          x \in Live(t) /\ after.label[x] = t.label[x] /\ t.label[x] \notin DOMAIN plan
    BY <1>3, <1>5 DEF Live
  <2>3. \A x \in places : \E k \in DOMAIN plan : x = Spot(plan, k) /\ after.label[x] = k
    BY <1>2
  <2> HIDE DEF places
  <2>4. CASE g \in places \/ h \in places
    BY <2>2, <2>3, <2>4
  <2>5. CASE g \notin places /\ h \notin places
    BY <1>1, <2>2, <2>5 DEF LabelsOnce
  <2> QED BY <2>4, <2>5
<1>7. /\ \A k \in DOMAIN plan : /\ Spot(plan, k) \in Live(after)
                                /\ after.label[Spot(plan, k)] = k
      /\ \A g \in GroupIds \ places : after.label[g] = t.label[g]
      /\ Live(t) \subseteq Live(after) /\ LabelsOnce(after)
  BY <1>2, <1>3, <1>4, <1>6
<1> QED BY <1>7 DEF after

\* The lines after the plan: each is known, and where one was not written it is
\* known where it was, which is not where its lines go.
LEMMA MadeLines ==
  ASSUME NEW rows, NEW snap, NEW plan, NEW t, MadeFrom(rows, snap, plan, t), NEW i \in Lines(rows)
  PROVE  LET after == After(rows, plan, t) IN
         /\ Known(after, rows[i].name) # {}
         /\ i \notin Written(plan) =>
              /\ Known(snap, rows[i].name) # {}
              /\ PlaceOf(after, rows[i].name) = PlaceOf(snap, rows[i].name)
         /\ Key(rows[i]) \notin DOMAIN plan => i \notin Written(plan)
<1> DEFINE after == After(rows, plan, t)
           name  == rows[i].name
           k     == Key(rows[i])
           target == TargetOf(rows, snap, k)
<1>1. /\ Landing(rows, plan, t) /\ Applicable(rows, plan) /\ t \in Tables
      /\ Listed(t) \cap FreeGuests = {} /\ rows \in Seq(Row) /\ NamesOnce(t)
      /\ SnapOf(snap, t) /\ plan = Reconcile(rows, snap)
  BY DEF MadeFrom, Landing
<1>2. k \in Keys(rows) /\ i \in LinesOf(rows, k)
  BY DEF Keys, LinesOf
<1>3. i \in Written(plan) => k \in DOMAIN plan
  BY <1>1, WrittenFacts
<1>4. NamesOnce(after) /\ after \in Tables
  BY <1>1, AppliedNames, AppliedTables DEF Landing
<1>5. CASE i \in Written(plan)
  <2>1. Who(plan, k, i) \in Known(after, name)
    BY <1>1, <1>5, LineLands DEF Known
  <2> QED BY <1>3, <1>5, <2>1
<1>6. CASE i \notin Written(plan)
  <2>1. i \notin Survivors(rows, snap, k, target)
    <3> SUFFICES ASSUME i \in Survivors(rows, snap, k, target) PROVE FALSE
      OBVIOUS
    <3>1. k \in DOMAIN plan /\ plan[k] = GroupPlan(rows, snap, k, target)
      BY <1>1, <1>2, ReconcileFacts
    <3>2. DOMAIN plan[k].guests = Survivors(rows, snap, k, target)
      BY <3>1 DEF GroupPlan
    <3> QED BY <1>6, <3>1, <3>2 DEF Written
  <2>2. PlaceOf(snap, name) # {}
    BY <1>2, <2>1 DEF Survivors
  <2>3. PICK p \in Known(snap, name) : TRUE
    BY <2>2 DEF PlaceOf
  <2>4. p \in GuestIds /\ t.guest[p] # Null /\ t.guest[p].norm = name
    BY <1>1, <2>3 DEF Known, SnapOf
  <2>5. Kept(plan, p, t.guest[p], after.guest[p])
    BY <1>1, <2>4, AppliedGuest
  <2> HIDE DEF after
  <2>6. after.guest[p] # Null /\ after.guest[p].norm = name /\ after.guest[p].group = t.guest[p].group
    BY <2>4, <2>5, ConstantsAssumption DEF Kept
  <2>7. Known(after, name) = {p}
    BY <1>4, <2>4, <2>6 DEF Known, NamesOnce, Listed
  <2>8. Known(snap, name) = {p}
    BY <1>1, <2>3, KnownSingle DEF Single
  <2>9. snap.guest[p].group = t.guest[p].group
    BY <1>1 DEF SnapOf
  <2>10. PlaceOf(after, name) = PlaceOf(snap, name)
    BY <2>6, <2>7, <2>8, <2>9 DEF PlaceOf
  <2> QED BY <1>3, <1>6, <2>7, <2>8, <2>10 DEF after
<1> QED BY <1>5, <1>6

\* A snapshot of the list the plan made shows all of it.
MadeAgain(rows, plan, t, again) ==
  /\ SnapOf(again, After(rows, plan, t)) /\ SnapOK(again)
  /\ DOMAIN again.label = Live(After(rows, plan, t))

LEMMA MadeSizes ==
  ASSUME NEW rows, NEW snap, NEW plan, NEW t, MadeFrom(rows, snap, plan, t),
         NEW again, MadeAgain(rows, plan, t, again), NEW g
  PROVE  Size(snap, g) \in Nat /\ Size(again, g) \in Nat /\ Size(snap, g) <= Size(again, g)
<1> DEFINE before == {p \in GuestIds : snap.guest[p] # Null /\ snap.guest[p].group = g}
           after  == {p \in GuestIds : again.guest[p] # Null /\ again.guest[p].group = g}
<1>1. /\ Applicable(rows, plan) /\ t \in Tables /\ Listed(t) \cap FreeGuests = {}
      /\ snap.guest = t.guest /\ again.guest = After(rows, plan, t).guest
  BY DEF MadeFrom, Landing, SnapOf, MadeAgain
<1>2. \A p \in GuestIds : t.guest[p] # Null =>
        Kept(plan, p, t.guest[p], After(rows, plan, t).guest[p])
  BY <1>1, AppliedGuest
<1>3. before \subseteq after
  BY <1>1, <1>2, ConstantsAssumption DEF Kept
<1>4. IsFiniteSet(after)
  BY ConstantsAssumption, FS_Subset
<1> HIDE DEF before, after
<1>5. IsFiniteSet(before) /\ Cardinality(before) <= Cardinality(after)
  BY <1>3, <1>4, FS_Subset
<1>6. Cardinality(before) \in Nat /\ Cardinality(after) \in Nat
  BY <1>4, <1>5, FS_CardinalityType
<1> QED
  BY <1>5, <1>6 DEF before, after, Size

\* A target of the second reconciliation: where the first one wrote, or what it was
\* where nothing was written.
Settled(rows, snap, plan, again, k) ==
  TargetOf(rows, again, k) = IF k \in DOMAIN plan THEN {Spot(plan, k)} ELSE TargetOf(rows, snap, k)

LEMMA SettledStep ==
  ASSUME NEW rows, NEW snap, NEW plan, NEW t, MadeFrom(rows, snap, plan, t),
         NEW again, MadeAgain(rows, plan, t, again), NEW k \in Keys(rows),
         \A l \in Keys(rows) : Opening(rows, l) < Opening(rows, k) =>
           Settled(rows, snap, plan, again, l)
  PROVE  /\ Settled(rows, snap, plan, again, k)
         /\ TargetOf(rows, again, k) \in {{}, ByLabel(again, k)}
<1> DEFINE after  == After(rows, plan, t)
           places == {Spot(plan, l) : l \in DOMAIN plan}
           claims == Claims(rows, again, k)
<1>1. /\ rows \in Seq(Row) /\ Applicable(rows, plan) /\ DOMAIN plan \subseteq Keys(rows)
      /\ SnapOf(snap, t) /\ NamesOnce(t) /\ DOMAIN snap.label = Live(t)
      /\ LabelsOnce(t)
  BY DEF MadeFrom, Landing, Applicable, PlanOK
<1>2. /\ \A l \in DOMAIN plan : /\ Spot(plan, l) \in Live(after)
                                /\ after.label[Spot(plan, l)] = l
      /\ \A g \in GroupIds \ places : after.label[g] = t.label[g]
      /\ Live(t) \subseteq Live(after)
      /\ LabelsOnce(after)
  BY MadeLabels
<1>3. \A label : ByLabel(again, label) = {g \in Live(after) : after.label[g] = label}
  BY DEF MadeAgain, SnapOf, ByLabel
<1>4. \A label : ByLabel(snap, label) = {g \in Live(t) : t.label[g] = label}
  BY <1>1 DEF SnapOf, ByLabel
<1> HIDE DEF after
<1>5. TargetOf(rows, again, k) =
        LET byLabel == ByLabel(again, k) \ claims IN
        IF byLabel # {} THEN byLabel ELSE InferGroupByMembers(rows, k, again) \ claims
  BY <1>1, TargetOfRule
<1>6. \A g \in claims : \E l \in Keys(rows) :
        /\ Opening(rows, l) < Opening(rows, k) /\ l # k
        /\ g \in IF l \in DOMAIN plan THEN {Spot(plan, l)} ELSE TargetOf(rows, snap, l)
  <2> TAKE g \in claims
  <2>1. PICK l \in Keys(rows) : /\ Opening(rows, l) < Opening(rows, k)
                                /\ g \in TargetOf(rows, again, l)
    BY DEF Claims
  <2>2. l # k
    BY <1>1, <2>1, OpeningFacts
  <2> QED BY <2>1, <2>2 DEF Settled
<1>7. \A l \in Keys(rows) : Opening(rows, l) < Opening(rows, k) =>
        (IF l \in DOMAIN plan THEN {Spot(plan, l)} ELSE TargetOf(rows, snap, l)) \subseteq claims
  BY DEF Claims, Settled
<1> HIDE DEF claims
\* An invitation that was written to has its label, and nobody claims it before.
<1>8. CASE k \in DOMAIN plan
  <2> DEFINE g == Spot(plan, k)
  <2>1. ByLabel(again, k) = {g}
    BY <1>2, <1>3, <1>8 DEF LabelsOnce
  <2>2. g \notin claims
    <3> SUFFICES ASSUME g \in claims PROVE FALSE
      OBVIOUS
    <3>1. PICK l \in Keys(rows) : /\ l # k
            /\ g \in IF l \in DOMAIN plan THEN {Spot(plan, l)} ELSE TargetOf(rows, snap, l)
      BY <1>6
    <3>2. CASE l \in DOMAIN plan
      BY <1>1, <1>8, <3>1, <3>2, PlaceFacts
    <3>3. CASE l \notin DOMAIN plan
      <4>1. g \in TargetOf(rows, snap, l) /\ g \in Live(t)
        BY <3>1, <3>3, MadeTargets
      <4>2. g \in TargetOf(rows, snap, k)
        BY <1>8, <4>1, MadeTargets
      <4> QED BY <3>1, <4>1, <4>2, MadeTargets
    <3> QED BY <3>2, <3>3
  <2>3. TargetOf(rows, again, k) = {g}
    BY <1>5, <2>1, <2>2
  <2> QED BY <1>8, <2>1, <2>3 DEF Settled
\* One that only conflicts would be written to keeps its label.
<1>9. CASE k \notin DOMAIN plan /\ TargetOf(rows, snap, k) # {}
  <2>1. PICK g \in TargetOf(rows, snap, k) : TRUE
    BY <1>9
  <2>2. TargetOf(rows, snap, k) = {g} /\ g \in Live(t)
    BY <2>1, MadeTargets DEF Single
  <2>3. g \in ByLabel(snap, k)
    BY <1>9, <2>1, InferredIsPlanned
  <2>4. g \notin places
    <3> SUFFICES ASSUME NEW l \in DOMAIN plan, g = Spot(plan, l) PROVE FALSE
      OBVIOUS
    <3>1. l \in Keys(rows) /\ l # k
      BY <1>1, <1>9
    <3>2. g \in TargetOf(rows, snap, l)
      BY <2>2, <3>1, MadeTargets
    <3> QED BY <2>1, <3>1, <3>2, MadeTargets
  <2>5. ByLabel(again, k) = {g}
    <3>1. g \in Live(after) /\ after.label[g] = k
      BY <1>2, <1>4, <2>2, <2>3, <2>4 DEF Live
    <3> QED BY <1>2, <1>3, <3>1 DEF LabelsOnce
  <2>6. g \notin claims
    <3> SUFFICES ASSUME g \in claims PROVE FALSE
      OBVIOUS
    <3>1. PICK l \in Keys(rows) : /\ l # k
            /\ g \in IF l \in DOMAIN plan THEN {Spot(plan, l)} ELSE TargetOf(rows, snap, l)
      BY <1>6
    <3>2. l \notin DOMAIN plan
      BY <2>4, <3>1
    <3> QED BY <2>1, <3>1, <3>2, MadeTargets
  <2>7. TargetOf(rows, again, k) = {g}
    BY <1>5, <2>5, <2>6
  <2> QED BY <1>9, <2>2, <2>5, <2>7 DEF Settled
\* Where there was none, there is none.
<1>10. CASE k \notin DOMAIN plan /\ TargetOf(rows, snap, k) = {}
  <2>1. /\ ByLabel(snap, k) \subseteq Claims(rows, snap, k)
        /\ InferGroupByMembers(rows, k, snap) \subseteq Claims(rows, snap, k)
    BY <1>1, <1>10, TargetOfRule
  <2>2. ByLabel(again, k) = {}
    <3> SUFFICES ASSUME NEW g \in Live(after), after.label[g] = k PROVE FALSE
      BY <1>3
    <3>1. g \notin places
      BY <1>2, <1>10
    <3>2. g \in Live(t) /\ t.label[g] = k
      BY <1>2, <3>1 DEF Live
    <3>3. PICK l \in Keys(rows) : /\ Opening(rows, l) < Opening(rows, k)
                                  /\ g \in TargetOf(rows, snap, l)
      BY <1>4, <2>1, <3>2 DEF Claims
    <3>4. l # k
      BY <1>1, <3>3, OpeningFacts
    <3>5. g \notin ByLabel(snap, l)
      BY <1>4, <3>2, <3>4
    <3> QED BY <3>1, <3>3, <3>5, InferredIsPlanned
  <2>3. InferGroupByMembers(rows, k, again) \subseteq InferGroupByMembers(rows, k, snap)
    <3>1. \A name : /\ Known(again, name) = Known(after, name)
                    /\ PlaceOf(again, name) = PlaceOf(after, name)
      BY DEF MadeAgain, SnapOf, Known, PlaceOf, after
    <3>2. \A i \in LinesOf(rows, k) :
            /\ Known(snap, rows[i].name) # {} /\ Known(after, rows[i].name) # {}
            /\ PlaceOf(snap, rows[i].name) = PlaceOf(after, rows[i].name)
      BY <1>10, MadeLines DEF LinesOf, after
    <3>3. \A g : Size(snap, g) \in Nat /\ Size(again, g) \in Nat /\ Size(snap, g) <= Size(again, g)
      BY MadeSizes
    <3> QED BY <1>1, <3>1, <3>2, <3>3, InferredAgain
  <2>4. Claims(rows, snap, k) \subseteq claims
    <3> SUFFICES ASSUME NEW l \in Keys(rows), Opening(rows, l) < Opening(rows, k),
                        NEW g \in TargetOf(rows, snap, l)
                 PROVE  g \in claims
      BY DEF Claims
    <3>1. g \in IF l \in DOMAIN plan THEN {Spot(plan, l)} ELSE TargetOf(rows, snap, l)
      BY MadeTargets
    <3> QED BY <1>7, <3>1
  <2>5. TargetOf(rows, again, k) = {}
    BY <1>5, <2>1, <2>2, <2>3, <2>4
  <2> QED BY <1>10, <2>5 DEF Settled
<1> QED BY <1>8, <1>9, <1>10

\* Key after key, in the order their lines open.
LEMMA AllSettled ==
  ASSUME NEW rows, NEW snap, NEW plan, NEW t, MadeFrom(rows, snap, plan, t),
         NEW again, MadeAgain(rows, plan, t, again), NEW k \in Keys(rows)
  PROVE  TargetOf(rows, again, k) \in {{}, ByLabel(again, k)}
<1> DEFINE N == {Opening(rows, l) : l \in {l \in Keys(rows) : ~Settled(rows, snap, plan, again, l)}}
<1>1. rows \in Seq(Row)
  BY DEF MadeFrom
<1>2. \A l \in Keys(rows) : Opening(rows, l) \in Nat
  BY <1>1, OpeningFacts, LinesFacts
<1>3. N = {}
  <2> SUFFICES ASSUME N # {} PROVE FALSE
    OBVIOUS
  <2>1. N \subseteq Nat
    BY <1>2
  <2>2. PICK n \in N : \A m \in N : n <= m
    <3> HIDE DEF N
    <3> QED BY <2>1, HasLeast
  <2>3. PICK l \in Keys(rows) : n = Opening(rows, l) /\ ~Settled(rows, snap, plan, again, l)
    BY <2>2
  <2>4. \A m \in Keys(rows) : Opening(rows, m) < Opening(rows, l) =>
          Settled(rows, snap, plan, again, m)
    <3> TAKE m \in Keys(rows)
    <3> HAVE Opening(rows, m) < Opening(rows, l)
    <3>1. ~(n <= Opening(rows, m))
      BY <1>2, <2>3
    <3> QED BY <2>2, <3>1
  <2> QED BY <2>3, <2>4, SettledStep
<1>4. \A l \in Keys(rows) : Settled(rows, snap, plan, again, l)
  BY <1>3
<1> QED
  BY <1>4, SettledStep

\* The file has nothing left to insert, to create or to relabel.
LEMMA NothingLeft ==
  ASSUME NEW rows, NEW snap, NEW plan, NEW t, MadeFrom(rows, snap, plan, t),
         NEW again, MadeAgain(rows, plan, t, again)
  PROVE  LET next == Reconcile(rows, again) IN
         Inserted(next) = {} /\ Created(next) = {} /\ Renamed(next) = {}
<1> DEFINE next == Reconcile(rows, again)
<1>1. ASSUME NEW k \in DOMAIN next
      PROVE  /\ k \in Keys(rows)
             /\ Survivors(rows, again, k, TargetOf(rows, again, k)) # {}
             /\ next[k] = GroupPlan(rows, again, k, TargetOf(rows, again, k))
  BY ReconcileFacts
<1> HIDE DEF next
<1>7. ASSUME NEW k \in DOMAIN next
      PROVE  LET target == TargetOf(rows, again, k) IN
             /\ next[k].existing = Only(target)
             /\ next[k].updateLabel = (target \notin {{}, ByLabel(again, k)})
             /\ next[k].guests = [i \in Survivors(rows, again, k, target) |->
                                    Only(Known(again, rows[i].name))]
  <2> DEFINE target == TargetOf(rows, again, k)
             entry  == GroupPlan(rows, again, k, target)
  <2>1. /\ entry.existing = Only(target)
        /\ entry.updateLabel = (target \notin {{}, ByLabel(again, k)})
        /\ entry.guests = [i \in Survivors(rows, again, k, target) |->
                             Only(Known(again, rows[i].name))]
    BY DEF GroupPlan
  <2>2. next[k] = entry
    BY <1>1
  <2> HIDE DEF entry, target
  <2> QED BY <2>1, <2>2 DEF target
<1>2. rows \in Seq(Row) /\ SnapOK(again) /\ again.guest = After(rows, plan, t).guest
  BY DEF MadeFrom, MadeAgain, SnapOf
<1>3. \A i \in Lines(rows) : Known(again, rows[i].name) # {} /\ PlaceOf(again, rows[i].name) # {}
  <2>1. \A i \in Lines(rows) : Known(After(rows, plan, t), rows[i].name) # {}
    BY MadeLines
  <2> QED BY <1>2, <2>1 DEF Known, PlaceOf
<1>4. Renamed(next) = {}
  BY <1>1, <1>7, AllSettled DEF Renamed
<1>5. Created(next) = {}
  <2> SUFFICES ASSUME NEW k \in Created(next) PROVE FALSE
    OBVIOUS
  <2> DEFINE target == TargetOf(rows, again, k)
  <2>1. k \in DOMAIN next /\ Only(target) = Null
    BY <1>7 DEF Created
  <2>2. Null \notin target
    BY <1>1, <1>2, <2>1, TargetOfFacts, RememberedWithin
  <2>3. target = {}
    BY <2>1, <2>2, OnlyFacts
  <2>4. PICK i \in Lines(rows) : PlaceOf(again, rows[i].name) \subseteq {}
    BY <1>1, <2>1, <2>3 DEF Survivors, LinesOf
  <2> QED BY <1>3, <2>4
<1>6. Inserted(next) = {}
  <2> SUFFICES ASSUME NEW k \in DOMAIN next, NEW i \in DOMAIN next[k].guests,
                      next[k].guests[i] = Null
               PROVE  FALSE
    BY DEF Inserted
  <2>1. i \in Lines(rows) /\ Only(Known(again, rows[i].name)) = Null
    BY <1>1, <1>7 DEF Survivors, LinesOf
  <2>2. Null \notin Known(again, rows[i].name)
    BY ConstantsAssumption DEF Known
  <2> QED BY <1>3, <2>1, <2>2, OnlyFacts
<1> QED
  BY <1>4, <1>5, <1>6 DEF next

\* Where labels tell invitations apart a snapshot shows all of them.
LEMMA SnapshotsWhole ==
  ASSUME NEW t, LabelsOnce(t), NEW snap \in Snapshots(t)
  PROVE  DOMAIN snap.label = Live(t)
<1>1. PICK S \in FirstOfEachLabel(t) : snap = [label |-> [g \in S |-> t.label[g]], guest |-> t.guest]
  BY DEF Snapshots
<1>2. S \subseteq Live(t)
  BY DEF FirstOfEachLabel
<1>3. ASSUME NEW g \in Live(t) PROVE g \in S
  <2> DEFINE same == {h \in S : t.label[h] = t.label[g]}
  <2>1. Cardinality(same) = 1
    BY <1>1 DEF FirstOfEachLabel
  <2>2. PICK h \in same : TRUE
    BY <2>1, FS_EmptySet
  <2> QED BY <1>2, <2>2 DEF LabelsOnce
<1> QED BY <1>1, <1>2, <1>3

LEMMA ImportSettles ==
  ASSUME IInv, [Next]_vars, NEW u \in Uploads, Applies(u),
         \A g, h \in Live(Met(u)) : list.label[g] = list.label[h] => g = h,
         NEW again \in Snapshots(list')
  PROVE  LET next == Reconcile(upload[u].file, again) IN
         Inserted(next) \cup Created(next) \cup Renamed(next) = {}
<1> DEFINE rows == upload[u].file
           snap == upload[u].snap
           plan == upload[u].plan
           t    == Met(u)
<1>1. /\ Landing(rows, plan, t) /\ SnapOf(snap, t) /\ plan = Reconcile(rows, snap)
      /\ list' = After(rows, plan, t)
  BY AppliesIsApply, LandingFacts
<1>2. upload[u].at = "apply" /\ IdsRemain(u)
  BY AppliesIsApply DEF Apply
<1>3. HomesOK(t)
  BY <1>2, MetFacts
<1>4. rows \in Seq(Row) /\ SnapOK(snap) /\ (upload[u].replace => snap = NoSnapshot)
  BY <1>2 DEF IInv, ImportOK
<1>5. /\ LabelsOnce(t) /\ DOMAIN snap.label = Live(t) /\ FreeGroups \cap Live(t) = {}
  <2>1. CASE upload[u].replace
    <3>1. t = NoTables /\ snap = NoSnapshot
      BY <1>4, <2>1 DEF Met
    <3>2. Live(NoTables) = {} /\ DOMAIN NoSnapshot.label = {}
      BY DEF Live, NoTables, NoSnapshot
    <3> HIDE DEF t, snap
    <3> QED BY <3>1, <3>2 DEF LabelsOnce
  <2>2. CASE ~upload[u].replace
    <3>1. t = list /\ snap \in Snapshots(list)
      BY <1>2, <2>2 DEF IInv, Current, Met
    <3>2. LabelsOnce(list)
      BY <3>1 DEF LabelsOnce
    <3> QED BY <3>1, <3>2, SnapshotsWhole, FreeFacts
  <2> QED BY <2>1, <2>2
<1> HIDE DEF rows, snap, plan, t
<1>6. MadeFrom(rows, snap, plan, t)
  BY <1>1, <1>3, <1>4, <1>5 DEF MadeFrom
<1> DEFINE after == After(rows, plan, t)
<1>7. LabelsOnce(after)
  BY <1>6, MadeLabels
<1>8. again \in Snapshots(after) /\ after \in Tables
  BY <1>1, AppliedTables DEF Landing
<1> HIDE DEF after
<1>9. SnapOf(again, after) /\ DOMAIN again.label = Live(after)
  BY <1>7, <1>8, SnapshotsFacts, SnapshotsWhole
<1>10. SnapOK(again)
  BY <1>8, <1>9 DEF SnapOK, SnapOf, Live, Tables
<1>11. MadeAgain(rows, plan, t, again)
  BY <1>9, <1>10 DEF MadeAgain, after
<1>12. LET next == Reconcile(rows, again) IN
       Inserted(next) = {} /\ Created(next) = {} /\ Renamed(next) = {}
  BY <1>6, <1>11, NothingLeft
<1> QED
  BY <1>12 DEF rows

\* Reconcile after Apply: an import whose report was lost is uploaded again without
\* harm.  Where no two invitations had one label, a file that was applied has nothing
\* left to insert, to create or to relabel.
THEOREM ImportsSettleAtOnce == Spec => SettlesAtOnce
<1>1. IInv /\ [Next]_vars =>
        [\A u \in Uploads :
           /\ Applies(u)
           /\ \A g, h \in Live(Met(u)) : list.label[g] = list.label[h] => g = h
           => \A snap \in Snapshots(list') :
                LET again == Reconcile(upload[u].file, snap) IN
                Inserted(again) \cup Created(again) \cup Renamed(again) = {}]_vars
  BY ImportSettles
<1> QED
  BY <1>1, SafetyInvariant, PTL DEF Spec, SettlesAtOnce
=============================================================================
