------------------------------- MODULE Ledger -------------------------------
(***************************************************************************)
(* What the gift list promises, whatever its statements do to each other:  *)
(* gifts are put up, changed and taken down, and every declaration happens *)
(* at one instant, against the gift as it stands at that instant.          *)
(*                                                                         *)
(* There are no requests, locks or answers here.  Gifts, where a           *)
(* declaration is a read, a lock, a sum and an insert, implements this     *)
(* specification (GiftsRefinement).                                        *)
(***************************************************************************)
EXTENDS Integers, FiniteSets

CONSTANTS
  Gifts,
  Contributions,
  Groups,
  Rows,    \* what a gift on the list may look like
  Prices,  \* what a contribution may amount to
  Null     \* no gift, no contribution, no signature

Statuses == {"declared", "confirmed", "cancelled"}

VARIABLES
  shelf,   \* the gift list: a row, or Null for what is not on it
  book,    \* the ledger
  signers, \* the invitations that may sign
  revived  \* gifts of which a cancelled contribution was taken back

vars == <<shelf, book, signers, revived>>

EntriesFor(g) == {i \in Contributions : book[i] # Null /\ book[i].gift = g}

\* The centavos promised to g, one element for each.
Promised(g) ==
  {p \in Contributions \X Prices :
     /\ p[1] \in EntriesFor(g)
     /\ book[p[1]].status # "cancelled"
     /\ p[2] <= book[p[1]].amount}

WholeQuotas(g, amount) == shelf[g].quota # Null => amount % shelf[g].quota = 0

UnitsRemain(g, amount) ==
  shelf[g].quota # Null /\ shelf[g].maxUnits # Null =>
    Cardinality(Promised(g)) \div shelf[g].quota + amount \div shelf[g].quota
      <= shelf[g].maxUnits

Init ==
  /\ shelf   = [g \in Gifts |-> Null]
  /\ book    = [i \in Contributions |-> Null]
  /\ signers = Groups
  /\ revived = {}

\* A declaration enters the book: the gift takes money, the amount is whole
\* quotas of it, and the units are there, all at this instant.  Only where a
\* cancelled contribution was taken back may the units be overdrawn.
Declare(i) ==
  LET entry == book'[i] IN
  /\ book[i] = Null
  /\ book' = [book EXCEPT ![i] = entry]
  /\ entry.status = "declared"
  /\ entry.group \in signers \cup {Null}
  /\ entry.amount \in Prices
  /\ shelf[entry.gift] # Null
  /\ shelf[entry.gift].active /\ shelf[entry.gift].kind = "pix"
  /\ WholeQuotas(entry.gift, entry.amount)
  /\ entry.gift \in revived \/ UnitsRemain(entry.gift, entry.amount)
  /\ UNCHANGED <<shelf, signers, revived>>

\* The couple finds that a contribution arrived, or that it did not, or takes
\* that back.
Moderate(i) ==
  /\ book[i] # Null
  /\ \E status \in Statuses \ {book[i].status} : book' = [book EXCEPT ![i].status = status]
  /\ revived' = IF book[i].status = "cancelled" THEN revived \cup {book[i].gift} ELSE revived
  /\ UNCHANGED <<shelf, signers>>

\* A gift is put up or changed into another one that may be on the list.
Shelve(g) ==
  /\ shelf'[g] \in Rows
  /\ shelf' = [shelf EXCEPT ![g] = shelf'[g]]
  /\ UNCHANGED <<book, signers, revived>>

\* Only a gift that nobody ever gave to is taken off the list.
Unshelve(g) ==
  /\ EntriesFor(g) = {}
  /\ shelf' = [shelf EXCEPT ![g] = Null]
  /\ UNCHANGED <<book, signers, revived>>

\* An invitation goes, and its signatures with it; what it promised stays.
Unsign(group) ==
  /\ signers' = signers \ {group}
  /\ book' = [i \in Contributions |->
                IF book[i] # Null /\ book[i].group = group
                THEN [book[i] EXCEPT !.group = Null] ELSE book[i]]
  /\ UNCHANGED <<shelf, revived>>

Next ==
  \/ book' # book /\ \E i \in Contributions : Declare(i) \/ Moderate(i)
  \/ shelf' # shelf /\ \E g \in Gifts : Shelve(g) \/ Unshelve(g)
  \/ signers' # signers /\ \E group \in signers : Unsign(group)

Spec == Init /\ [][Next]_vars
=============================================================================
