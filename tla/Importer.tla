------------------------------ MODULE Importer ------------------------------
(***************************************************************************)
(* An import that has the guest list for itself: from its snapshot to its  *)
(* commit nobody else writes, so that the statements of its transaction    *)
(* come to what they come to together.  What others make of them is in     *)
(* ImportTransaction, whose statements come to the same when no other      *)
(* transaction is open.                                                    *)
(***************************************************************************)
EXTENDS ImportPlan

CONSTANTS
  Uploads,    \* who imports: the panel and the operator, one at a time
  MaxImports  \* bound: imports started

ASSUME MaxImportsAssumption == MaxImports \in Nat

VARIABLES
  list,    \* tables guest_groups (the label of each) and guests
  upload,  \* each import: where it is, its file, its mode, its snapshot and its plan
  imports  \* imports started

vars == <<list, upload, imports>>

Idle == [at |-> "idle", file |-> <<>>, replace |-> FALSE, snap |-> NoSnapshot, plan |-> <<>>]

Init ==
  /\ list \in Lists
  /\ upload = [u \in Uploads |-> Idle]
  /\ imports = 0

Ready == imports < MaxImports /\ \A u \in Uploads : upload[u].at = "idle"

Begin(u, request) ==
  /\ imports' = imports + 1
  /\ upload' = [upload EXCEPT ![u] = request]
  /\ UNCHANGED list

\* The file is parsed and the invitations are listed.
ListGroups(u, file) ==
  \E snap \in Snapshots(list) :
    Begin(u, [at |-> "groups", file |-> file, replace |-> FALSE,
              snap |-> [snap EXCEPT !.guest = NoTables.guest], plan |-> <<>>])

\* The second statement of the snapshot; the plan is made from the two.
ListGuests(u) ==
  /\ upload[u].at = "groups"
  /\ LET snap == [upload[u].snap EXCEPT !.guest = list.guest] IN
     upload' = [upload EXCEPT ![u].at = "apply", ![u].snap = snap,
                              ![u].plan = Reconcile(upload[u].file, snap)]
  /\ UNCHANGED <<list, imports>>

\* The operator asks for the whole list to be replaced: nothing is read.
Replace(u, file) ==
  Begin(u, [at |-> "apply", file |-> file, replace |-> TRUE, snap |-> NoSnapshot,
            plan |-> Reconcile(file, NoSnapshot)])

\* What the plan's writes meet.
Met(u) == IF upload[u].replace THEN NoTables ELSE list

FreeGroups == GroupIds \ (Live(list) \cup UNION {Remembered(upload[u].snap) : u \in Uploads})
FreeGuests == {p \in GuestIds \ Listed(list) : \A u \in Uploads : upload[u].snap.guest[p] = Null}

\* Bound: an import waits until there are ids for everybody it inserts.
IdsRemain(u) ==
  /\ Cardinality(Created(upload[u].plan)) <= Cardinality(FreeGroups)
  /\ Cardinality(Inserted(upload[u].plan)) <= Cardinality(FreeGuests)

\* The element of free that x, one of S, is given: smallest to smallest.
Given(x, S, free) ==
  CHOOSE y \in free :
    Cardinality({z \in free : z < y}) = Cardinality({z \in S : z < x})

\* The ids the inserts return.
Made(plan) ==
  LET First(k) == Min(DOMAIN plan[k].guests) IN
  [place  |-> [k \in Created(plan) |->
                 Given(First(k), {First(j) : j \in Created(plan)}, FreeGroups)],
   person |-> [i \in Inserted(plan) |-> Given(i, Inserted(plan), FreeGuests)]]

\* The whole transaction.  No insert is refused: the names and the invitations are
\* those of the snapshot.
Apply(u) ==
  /\ upload[u].at = "apply"
  /\ IdsRemain(u)
  /\ list' = Applied(upload[u].file, upload[u].plan, Made(upload[u].plan), Met(u))
  /\ upload' = [upload EXCEPT ![u] = [Idle EXCEPT !.at = "report"]]
  /\ UNCHANGED imports

Over(u) ==
  /\ upload' = [upload EXCEPT ![u] = Idle]
  /\ UNCHANGED <<list, imports>>

\* The report is saved; or it is not, and the caller gets an error for an import
\* that happened.
SaveReport(u) == upload[u].at = "report" /\ Over(u)

\* An import breaks off before its commit.
Abort(u) == upload[u].at \in {"groups", "apply"} /\ Over(u)

Next ==
  \E u \in Uploads :
    \/ Ready /\ \E file \in Files : ListGroups(u, file) \/ Replace(u, file)
    \/ ListGuests(u)
    \/ Apply(u)
    \/ SaveReport(u)
    \/ Abort(u)

Spec == Init /\ [][Next]_vars

-----------------------------------------------------------------------------
\* Properties.

\* What a step does when it is the import u that is applied.
Applies(u) == upload[u].at = "apply" /\ upload'[u].at = "report"

\* An import whose report is lost is an error to its caller, who uploads the
\* file again: once applied, a file has nothing left to insert, to create or to
\* relabel.  (Not so where two invitations had one label: which of them the file
\* means is then up to the order of the query.)
SettlesAtOnce ==
  [][\A u \in Uploads :
       /\ Applies(u)
       /\ \A g, h \in Live(Met(u)) : list.label[g] = list.label[h] => g = h
       => \A snap \in Snapshots(list') :
            LET again == Reconcile(upload[u].file, snap) IN
            Inserted(again) \cup Created(again) \cup Renamed(again) = {}]_vars

\* Lines written end up on an invitation with the label the file gives them, and
\* two of them on one invitation exactly when the file puts them together: the
\* others are conflicts.
FileIsFollowed ==
  [][\A u \in Uploads : Applies(u) =>
       LET rows    == upload[u].file
           place   == [i \in DOMAIN rows |-> PlaceOf(list', rows[i].name)]
       IN  \A i \in Written(upload[u].plan) :
             /\ \E g \in place[i] : list'.label[g] = Key(rows[i])
             /\ \A j \in Written(upload[u].plan) :
                  place[i] = place[j] <=> Key(rows[i]) = Key(rows[j])]_vars

\* An import leaves an invitation headed once if it was, and makes none that is
\* not: a mark on a line that was not written takes the head from nobody.
HeadsKept ==
  [][\A u \in Uploads : Applies(u) =>
       \A g \in Live(list') :
         \/ g \in Live(Met(u)) /\ Cardinality(Heads(Met(u), g)) # 1
         \/ Cardinality(Heads(list', g)) = 1]_vars
=============================================================================
