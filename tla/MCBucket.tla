------------------------------- MODULE MCBucket -------------------------------
(***************************************************************************)
(* Small instances of Bucket for TLC.                                      *)
(***************************************************************************)
EXTENDS Bucket, TLC

\* Each set spelled out, so that a missing manifest can be compared with it.
Galleries == {S \cup {} : S \in SUBSET Images}

\* No step of the library or of the panel reads what visitors have, and none of a
\* visitor reads the library: deletions, and uploads that break off, are looked at
\* while nobody visits.
HalvesApart ==
  \/ unwanted \cup stray = {}
  \/ cache = {} /\ \A v \in Visitors : visitor[v] = NoVisit

Symmetric == Permutations(Visitors) \cup Permutations(Tasks)
=============================================================================
