----------------------------- MODULE RateLimiter -----------------------------
(***************************************************************************)
(* The public rate limiter: a token bucket per address, in a table that    *)
(* forgets addresses.  A sweep drops the buckets idle for BucketTTL, at    *)
(* most every SweepEvery; a newcomer who finds the table full has it swept *)
(* of all that were idle for ForcedTTL, and is turned away if that does    *)
(* not help.                                                               *)
(*                                                                         *)
(* Posts and the typeahead have a limiter each, with nothing in common;    *)
(* this is one of them.  Allow holds its mutex throughout: one action.     *)
(*                                                                         *)
(* Time goes in ticks, in each of which a bucket regains Rate requests.    *)
(* What is so many ticks old may be that old and a little more, or not     *)
(* quite: exactly at a limit of the code's it may have passed it or not.   *)
(* What a bucket would hold had nothing ever been forgotten is kept beside *)
(* the table, and is what the limiter is measured by.                      *)
(***************************************************************************)
EXTENDS Integers, FiniteSets, FiniteSetsExt

CONSTANTS
  Keys,       \* addresses
  Burst,      \* requests of a full bucket
  Rate,       \* requests a bucket regains in a tick
  SweepEvery, \* ticks between two sweeps
  BucketTTL,  \* ticks an idle bucket is kept
  ForcedTTL,  \* ticks it is kept by a forced sweep
  MaxBuckets  \* buckets the table may have

\* NewRateLimiter's numbers and the constants beside it: a bucket that is dropped
\* by a regular sweep has had the time to fill up.
ASSUME NumbersAssumption ==
  /\ {Burst, Rate, SweepEvery, BucketTTL, ForcedTTL, MaxBuckets} \subseteq Nat \ {0}
  /\ ForcedTTL < BucketTTL
  /\ Burst <= BucketTTL * Rate

VARIABLES
  buckets,   \* the table: what each address in it may still ask, and its idle ticks
  lastSweep, \* ticks since the last sweep
  ideal,     \* history: what each address may still ask, had it never been forgotten
  flooded,   \* history: whether the table was ever full
  refused    \* history: who was refused in this tick since the last request let in

vars == <<buckets, lastSweep, ideal, flooded, refused>>

Init ==
  /\ buckets = <<>>
  /\ lastSweep = 0
  /\ ideal = [k \in Keys |-> Burst]
  /\ flooded = FALSE
  /\ refused = {}

-----------------------------------------------------------------------------
\* The tables that dropping the buckets idle for more than ttl may leave.
Sweep(table, ttl) ==
  LET over == {j \in DOMAIN table : table[j].idle > ttl}
      due  == {j \in DOMAIN table : table[j].idle = ttl}
  IN  {[k \in DOMAIN table \ (over \cup some) |-> table[k]] : some \in SUBSET due}

Full(table) == Cardinality(DOMAIN table) >= MaxBuckets

\* Whether it may be, or must be, time for a regular sweep.
MayBeDue(due) == IF due THEN lastSweep >= SweepEvery ELSE lastSweep <= SweepEvery

Swept(due) == IF due THEN Sweep(buckets, BucketTTL) ELSE {buckets}

Forced(k, swept) == k \notin DOMAIN swept /\ Full(swept)

\* Variant: a full table is not swept for a newcomer.
TablesUnswept(k, swept) == {swept}

\* The tables in which k's bucket may be looked for, or made.
Tables(k, swept) == IF Forced(k, swept) THEN Sweep(swept, ForcedTTL) ELSE {swept}

TurnedAway(k, table) == k \notin DOMAIN table /\ Full(table)

Left(k, table) == IF k \in DOMAIN table THEN table[k].tokens ELSE Burst

\* Variant: an address is seen only when its bucket is made.
TouchedAtBirth(k, table, tokens) ==
  buckets' = [j \in DOMAIN table \cup {k} |->
    IF j # k THEN table[j]
    ELSE [tokens |-> tokens, idle |-> IF k \in DOMAIN table THEN table[k].idle ELSE 0]]

\* k's bucket holds so much, and k was seen now.
Touched(k, table, tokens) ==
  buckets' = [j \in DOMAIN table \cup {k} |->
    IF j = k THEN [tokens |-> tokens, idle |-> 0] ELSE table[j]]

\* Allow answers yes.
Admit(k, table) ==
  /\ ~TurnedAway(k, table) /\ Left(k, table) >= 1
  /\ Touched(k, table, Left(k, table) - 1)
  /\ ideal' = [ideal EXCEPT ![k] = IF @ > 0 THEN @ - 1 ELSE 0]
  /\ refused' = {}

\* Allow answers no: the bucket is empty, or there is no place for one.
Refuse(k, table) ==
  /\ \/ ~TurnedAway(k, table) /\ Left(k, table) < 1 /\ Touched(k, table, Left(k, table))
     \/ TurnedAway(k, table) /\ buckets' = table
  /\ refused' = refused \cup {k}
  /\ UNCHANGED ideal

Allow(k) ==
  \E due \in BOOLEAN : \E swept \in Swept(due) : \E table \in Tables(k, swept) :
    /\ MayBeDue(due)
    /\ lastSweep' = IF due \/ Forced(k, swept) THEN 0 ELSE lastSweep
    /\ flooded' = (flooded \/ Forced(k, swept))
    /\ Admit(k, table) \/ Refuse(k, table)

Refilled(n) == Min({Burst, n + Rate})

\* Bound: idle and lastSweep count to the first tick that makes a difference.
Tick ==
  /\ buckets' = [k \in DOMAIN buckets |->
       [tokens |-> Refilled(buckets[k].tokens),
        idle   |-> Min({BucketTTL + 1, buckets[k].idle + 1})]]
  /\ lastSweep' = Min({SweepEvery + 1, lastSweep + 1})
  /\ ideal' = [k \in Keys |-> Refilled(ideal[k])]
  /\ refused' = {}
  /\ UNCHANGED flooded

Next == Tick \/ \E k \in Keys : Allow(k)

Spec == Init /\ [][Next]_vars

-----------------------------------------------------------------------------
\* The table has its ceiling, and no address may ask for less than its share.  As
\* long as the table was never full none may ask for more, whatever was swept: to
\* be forgotten is never a way around the limit.  After a flood, an address that
\* was forgotten early gained at most what it had not yet regained then, and may
\* gain as much again the next time.
LimitKept ==
  /\ Cardinality(DOMAIN buckets) <= MaxBuckets
  /\ \A k \in Keys :
       LET held == IF k \in DOMAIN buckets THEN buckets[k].tokens ELSE Burst
           gain == Max({0, Burst - ForcedTTL * Rate})
       IN /\ held \in ideal[k] .. ideal[k] + gain
          /\ ~flooded => held = ideal[k]

\* "Once reached (after a forced sweep), new keys are denied": who is refused has
\* used up their share, or met a table full of addresses that were all seen within
\* ForcedTTL.
RefusedForCause ==
  \A k \in refused :
    \/ ideal[k] < 1
    \/ /\ k \notin DOMAIN buckets /\ Full(buckets)
       /\ \A j \in DOMAIN buckets : buckets[j].idle <= ForcedTTL
=============================================================================
