------------------------------- MODULE Gifts -------------------------------
(***************************************************************************)
(* The gift list and the contribution ledger (internal/gifts), at the      *)
(* granularity PostgreSQL runs it: one action per SQL statement.  Every    *)
(* request is served by a handler of its own; the handlers meet only in    *)
(* the database, in its default READ COMMITTED mode:                       *)
(*                                                                         *)
(*   - a statement sees what was committed when it started (its snapshot); *)
(*   - SELECT ... FOR UPDATE, UPDATE and DELETE wait while another         *)
(*     transaction holds the row's lock.  Once the lock is free a waiting  *)
(*     UPDATE or DELETE looks at the row's current columns, but what its   *)
(*     WHERE asked of OTHER tables is not asked again;                     *)
(*   - a foreign key is checked when the statement ends, against what is   *)
(*     committed by then.                                                  *)
(*                                                                         *)
(* A conditional UPDATE or DELETE is therefore two actions: evaluating its *)
(* WHERE, and writing the row once its lock is free.                       *)
(*                                                                         *)
(* Titles, pictures, the savings goal, the store link of a link card and   *)
(* the position in the list are left out: no decision but validateGift-    *)
(* Params's shape check reads them, and they are taken as well-formed.     *)
(***************************************************************************)
EXTENDS Integers, FiniteSets

CONSTANTS
  Clients,        \* concurrent requests: guests' and the couple's
  Gifts,          \* gift ids, each given out at most once
  Contributions,  \* ledger ids, each given out at most once
  Groups,         \* invitations a contribution may be signed by
  Offers,         \* amounts a guest may send; Null leaves the amount out
  GiftInputs,     \* gift forms the couple may send
  MaxAmount,      \* maxAmountCentavos
  Null,           \* SQL NULL, an absent JSON field
  Absent,         \* a gift id not given out yet
  Deleted         \* a gift whose row was deleted

NullOr(S) == S \cup {Null}

Prices     == 1 .. MaxAmount
UnitLimits == Nat \ {0}
Kinds      == {"pix", "link"}
Statuses   == {"declared", "confirmed", "cancelled"}

GiftForm == [kind : Kinds \cup {""}, quota : NullOr(Prices),
             maxUnits : NullOr(UnitLimits), active : BOOLEAN]

GiftRow == [kind : Kinds, quota : NullOr(Prices), maxUnits : NullOr(UnitLimits),
            active : BOOLEAN]

LedgerRow == [gift : Gifts, group : NullOr(Groups), amount : Prices,
              status : Statuses]

ASSUME ConstantsAssumption ==
  /\ IsFiniteSet(Contributions)
  /\ MaxAmount \in Nat \ {0}
  /\ Offers \subseteq NullOr(Int)
  /\ GiftInputs \subseteq GiftForm
  /\ Null \notin Int \cup Clients \cup Groups \cup LedgerRow \cup GiftRow
  /\ Absent \notin GiftForm /\ Deleted \notin GiftForm /\ Absent # Deleted

VARIABLES
  gift,     \* table gifts
  ledger,   \* table contributions
  groups,   \* table guest_groups: the ids present
  lock,     \* the request holding a gift row FOR UPDATE, or Null
  pc,       \* where each request is
  req,      \* what each request carries from one statement to the next
  reply,    \* the answer the last step sent, "none" when it sent none
  reopened, \* history: gifts of which a cancelled contribution was revived
  repriced  \* history: gifts whose kind, quota or limit was changed

tables  == <<gift, ledger, groups>>
history == <<reopened, repriced>>
vars    == <<gift, ledger, groups, lock, pc, req, reply, reopened, repriced>>

-----------------------------------------------------------------------------
\* Where a request may be and what it carries.

DeclarePCs == {"lock", "sum", "insert"}
EditPCs    == {"update", "explain", "reread"}
RemovePCs  == {"delete", "deactivate"}

DeclareReq == [gift : Gifts, amount : Prices, group : NullOr(Groups)]
EditReq    == [gift : Gifts, row : GiftRow, noRows : BOOLEAN]
RemoveReq  == [gift : Gifts]

Replies == {"none", "declared", "previewed", "saved", "deleted", "deactivated",
            "moderated", "notFound", "external", "invalidAmount", "noUnits",
            "unknownGroup", "kindRequired", "invalidGift", "kindLocked",
            "invalidTransition", "foreignKey", "failed"}

Present(g) == gift[g] \notin {Absent, Deleted}

RowsOf(g) == {i \in Contributions : ledger[i] # Null /\ ledger[i].gift = g}

\* The centavos of g's ledger rows with a status in S, one element for each, so
\* that what the rows add up to is a cardinality (the three sums of gifts.sql:
\* declared, confirmed, and everything not cancelled).
Centavos(g, S) ==
  {p \in Contributions \X Prices :
     /\ p[1] \in RowsOf(g)
     /\ ledger[p[1]].status \in S
     /\ p[2] <= ledger[p[1]].amount}

CentavosOf(g, S) == Cardinality(Centavos(g, S))

SumGiftNonCancelled(g) == CentavosOf(g, Statuses \ {"cancelled"})

-----------------------------------------------------------------------------
\* The rules of service.go, as functions of a gift row.

ValidGift(form) ==
  \/ form.kind = "pix"  /\ (form.maxUnits # Null => form.quota # Null)
  \/ form.kind = "link" /\ form.quota = Null /\ form.maxUnits = Null

ValidAmount(quota, amount) ==
  /\ amount \in Prices
  /\ quota # Null => amount % quota = 0

\* An omitted amount is one quota; a gift without quotas needs an amount.
ResolveAmount(quota, offer) == IF offer = Null THEN quota ELSE offer

AmountResolves(quota, offer) ==
  IF offer = Null THEN quota # Null ELSE ValidAmount(quota, offer)

UnitLimited(row) == row.quota # Null /\ row.maxUnits # Null

HasUnits(row, held, amount) ==
  UnitLimited(row) => (held \div row.quota) + (amount \div row.quota) <= row.maxUnits

\* What the guests' page shows: only money that arrived uses a unit up.
UnitsLeft(g) ==
  LET left == gift[g].maxUnits - CentavosOf(g, {"confirmed"}) \div gift[g].quota
  IN  IF left < 0 THEN 0 ELSE left

\* Why a guest may not give to g at all, or "open".
Closed(g) == IF ~Present(g) THEN "notFound"
             ELSE IF ~gift[g].active THEN "notFound"
             ELSE IF gift[g].kind = "link" THEN "external" ELSE "open"
-----------------------------------------------------------------------------
Init ==
  /\ gift     = [g \in Gifts |-> Absent]
  /\ ledger   = [i \in Contributions |-> Null]
  /\ groups   = Groups
  /\ lock     = [g \in Gifts |-> Null]
  /\ pc       = [c \in Clients |-> "idle"]
  /\ req      = [c \in Clients |-> Null]
  /\ reply    = "none"
  /\ reopened = {}
  /\ repriced = {}

\* Variant: an early return without the deferred Rollback.
AnswerWithoutRollback(c, what) ==
  /\ pc'    = [pc EXCEPT ![c] = "idle"]
  /\ req'   = [req EXCEPT ![c] = Null]
  /\ reply' = what
  /\ UNCHANGED lock

\* Request c is over: it answers what and lets go of the row it had locked.
Answer(c, what) ==
  /\ pc'    = [pc EXCEPT ![c] = "idle"]
  /\ req'   = [req EXCEPT ![c] = Null]
  /\ lock'  = [g \in Gifts |-> IF lock[g] = c THEN Null ELSE lock[g]]
  /\ reply' = what

\* Request c goes on to the statement at with r in hand, answering nothing yet.
GoTo(c, at, r) ==
  /\ pc'    = [pc EXCEPT ![c] = at]
  /\ req'   = [req EXCEPT ![c] = r]
  /\ reply' = "none"

-----------------------------------------------------------------------------
\* Guests.

PixPreview(c, g, offer) ==
  /\ pc[c] = "idle"
  /\ Answer(c, IF Closed(g) # "open" THEN Closed(g)
               ELSE IF ~AmountResolves(gift[g].quota, offer) THEN "invalidAmount"
               ELSE IF ~HasUnits(gift[g],
                                 CentavosOf(g, {"declared"}) + CentavosOf(g, {"confirmed"}),
                                 ResolveAmount(gift[g].quota, offer)) THEN "noUnits"
               ELSE "previewed")
  /\ UNCHANGED <<tables, history>>

\* Bound: a declaration starts only while the ids left in Contributions
\* suffice for it and for those already under way.
LedgerHasRoom ==
  Cardinality({i \in Contributions : ledger[i] = Null})
    > Cardinality({c \in Clients : pc[c] \in DeclarePCs})

\* Service.Declare up to the transaction: the gift as it is read here decides
\* the refusals and the amount.
DeclareRead(c, g, offer, group) ==
  /\ pc[c] = "idle"
  /\ LedgerHasRoom
  /\ \/ /\ Closed(g) # "open"
        /\ Answer(c, Closed(g))
     \/ /\ Closed(g) = "open"
        /\ ~AmountResolves(gift[g].quota, offer)
        /\ Answer(c, "invalidAmount")
     \/ /\ Closed(g) = "open"
        /\ AmountResolves(gift[g].quota, offer)
        /\ GoTo(c, "lock", [gift |-> g, group |-> group,
                            amount |-> ResolveAmount(gift[g].quota, offer)])
        /\ UNCHANGED lock
  /\ UNCHANGED <<tables, history>>

\* Variant: the row is locked but what the unlocked read decided is trusted.
DeclareLockTrusting(c) ==
  /\ pc[c] = "lock"
  /\ Present(req[c].gift)
  /\ lock[req[c].gift] = Null
  /\ lock' = [lock EXCEPT ![req[c].gift] = c]
  /\ GoTo(c, "sum", req[c])
  /\ UNCHANGED <<tables, history>>

\* CreateContribution: GetGiftForUpdate, and the same checks on the locked row.
DeclareLock(c) ==
  LET g == req[c].gift IN
  /\ pc[c] = "lock"
  /\ lock[g] = Null
  /\ \/ /\ Closed(g) # "open"
        /\ Answer(c, Closed(g))
     \/ /\ Closed(g) = "open"
        /\ ~ValidAmount(gift[g].quota, req[c].amount)
        /\ Answer(c, "invalidAmount")
     \/ /\ Closed(g) = "open"
        /\ ValidAmount(gift[g].quota, req[c].amount)
        /\ lock' = [lock EXCEPT ![g] = c]
        /\ GoTo(c, "sum", req[c])
  /\ UNCHANGED <<tables, history>>

\* Variant: availability judged by the number the page shows.
DeclareSumOfConfirmed(c) ==
  LET g == req[c].gift IN
  /\ pc[c] = "sum"
  /\ HasUnits(gift[g], CentavosOf(g, {"confirmed"}), req[c].amount)
  /\ GoTo(c, "insert", req[c])
  /\ UNCHANGED <<tables, lock, history>>

\* Variant: the transaction ends with the checks, and the row is inserted after it.
DeclareSumAndCommit(c) ==
  LET g == req[c].gift IN
  /\ pc[c] = "sum"
  /\ HasUnits(gift[g], SumGiftNonCancelled(g), req[c].amount)
  /\ lock' = [lock EXCEPT ![g] = Null]
  /\ GoTo(c, "insert", req[c])
  /\ UNCHANGED <<tables, history>>

\* CreateContribution: SumGiftNonCancelled and checkAvailability.
DeclareSum(c) ==
  LET g == req[c].gift IN
  /\ pc[c] = "sum"
  /\ \/ /\ ~HasUnits(gift[g], SumGiftNonCancelled(g), req[c].amount)
        /\ Answer(c, "noUnits")
     \/ /\ HasUnits(gift[g], SumGiftNonCancelled(g), req[c].amount)
        /\ GoTo(c, "insert", req[c])
        /\ UNCHANGED lock
  /\ UNCHANGED <<tables, history>>

\* CreateContribution: InsertContribution and the commit.  A commit whose
\* acknowledgement is lost has happened all the same.
DeclareInsert(c) ==
  /\ pc[c] = "insert"
  /\ \/ /\ req[c].group \notin NullOr(groups)
        /\ Answer(c, "unknownGroup")
        /\ UNCHANGED ledger
     \/ /\ req[c].group \in NullOr(groups)
        /\ \E i \in Contributions :
             /\ ledger[i] = Null
             /\ ledger' = [ledger EXCEPT ![i] =
                  [gift |-> req[c].gift, group |-> req[c].group,
                   amount |-> req[c].amount, status |-> "declared"]]
        /\ \/ Answer(c, "declared")
           \/ Answer(c, "failed")
  /\ UNCHANGED <<gift, groups, history>>

-----------------------------------------------------------------------------
\* The couple.

\* Variant: the two halves of the WHERE joined the wrong way.
KindMayChangeBoth(g, row, noRows) == gift[g].kind = row.kind /\ noRows

\* UpdateGift's WHERE: the kind stays, or the gift has no ledger rows.
KindMayChange(g, row, noRows) == gift[g].kind = row.kind \/ noRows

\* Variant: the form is not validated.
CreateGiftUnchecked(c, form) ==
  LET row == IF form.kind = "" THEN [form EXCEPT !.kind = "pix"] ELSE form IN
  /\ pc[c] = "idle"
  /\ \E g \in Gifts :
       /\ gift[g] = Absent
       /\ gift' = [gift EXCEPT ![g] = row]
       /\ GoTo(c, "reread", [gift |-> g, row |-> row, noRows |-> TRUE])
  /\ UNCHANGED <<ledger, groups, lock, history>>

CreateGift(c, form) ==
  LET row == IF form.kind = "" THEN [form EXCEPT !.kind = "pix"] ELSE form IN
  /\ pc[c] = "idle"
  /\ \/ /\ ~ValidGift(row)
        /\ Answer(c, "invalidGift")
        /\ UNCHANGED gift
     \/ /\ ValidGift(row)
        /\ \E g \in Gifts :
             /\ gift[g] = Absent
             /\ gift' = [gift EXCEPT ![g] = row]
             /\ GoTo(c, "reread", [gift |-> g, row |-> row, noRows |-> TRUE])
        /\ UNCHANGED lock
  /\ UNCHANGED <<ledger, groups, history>>

\* UpdateGift: validation, then the statement's snapshot of gift and ledger.
UpdateGiftScan(c, g, form) ==
  /\ pc[c] = "idle"
  /\ gift[g] # Absent
  /\ \/ /\ form.kind = ""
        /\ Answer(c, "kindRequired")
     \/ /\ form.kind # ""
        /\ ~ValidGift(form)
        /\ Answer(c, "invalidGift")
     \/ /\ form.kind # ""
        /\ ValidGift(form)
        /\ LET noRows == RowsOf(g) = {}
               hit    == Present(g) /\ KindMayChange(g, form, noRows)
           IN  GoTo(c, IF hit THEN "update" ELSE "explain",
                    [gift |-> g, row |-> form, noRows |-> noRows])
        /\ UNCHANGED lock
  /\ UNCHANGED <<tables, history>>

\* UpdateGift: the write.  The row's own columns are looked at again, the
\* ledger is not.
UpdateGiftWrite(c) ==
  LET g == req[c].gift
      row == req[c].row IN
  /\ pc[c] = "update"
  /\ lock[g] = Null
  /\ \/ /\ Present(g)
        /\ KindMayChange(g, row, req[c].noRows)
        /\ gift' = [gift EXCEPT ![g] = row]
        /\ repriced' = IF /\ gift[g].kind = row.kind
                          /\ gift[g].quota = row.quota
                          /\ gift[g].maxUnits = row.maxUnits
                       THEN repriced ELSE repriced \cup {g}
        /\ GoTo(c, "reread", req[c])
     \/ /\ ~(Present(g) /\ KindMayChange(g, row, req[c].noRows))
        /\ GoTo(c, "explain", req[c])
        /\ UNCHANGED <<gift, repriced>>
  /\ UNCHANGED <<ledger, groups, lock, reopened>>

\* Zero rows written: an unknown gift, or a kind its ledger locks.
UpdateGiftExplain(c) ==
  /\ pc[c] = "explain"
  /\ Answer(c, IF Present(req[c].gift) THEN "kindLocked" ELSE "notFound")
  /\ UNCHANGED <<tables, history>>

\* CreateGift and UpdateGift end by reading the gift back.
GetGiftBack(c) ==
  /\ pc[c] = "reread"
  /\ Answer(c, IF Present(req[c].gift) THEN "saved" ELSE "notFound")
  /\ UNCHANGED <<tables, history>>

\* DeleteGiftIfNoContributions: the snapshot.
DeleteGiftScan(c, g) ==
  /\ pc[c] = "idle"
  /\ gift[g] # Absent
  /\ GoTo(c, IF Present(g) /\ RowsOf(g) = {} THEN "delete" ELSE "deactivate", [gift |-> g])
  /\ UNCHANGED <<tables, lock, history>>

\* Variant: contributions.gift_id without its foreign key.
DeleteGiftWriteUnreferenced(c) ==
  /\ pc[c] = "delete"
  /\ lock[req[c].gift] = Null
  /\ gift' = [gift EXCEPT ![req[c].gift] = Deleted]
  /\ Answer(c, "deleted")
  /\ UNCHANGED <<ledger, groups, history>>

\* DeleteGiftIfNoContributions: the delete, and the foreign key of contributions.
DeleteGiftWrite(c) ==
  LET g == req[c].gift IN
  /\ pc[c] = "delete"
  /\ lock[g] = Null
  /\ \/ /\ ~Present(g)
        /\ GoTo(c, "deactivate", req[c])
        /\ UNCHANGED <<gift, lock>>
     \/ /\ Present(g)
        /\ RowsOf(g) # {}
        /\ Answer(c, "foreignKey")
        /\ UNCHANGED gift
     \/ /\ Present(g)
        /\ RowsOf(g) = {}
        /\ gift' = [gift EXCEPT ![g] = Deleted]
        /\ Answer(c, "deleted")
  /\ UNCHANGED <<ledger, groups, history>>

DeactivateGift(c) ==
  LET g == req[c].gift IN
  /\ pc[c] = "deactivate"
  /\ lock[g] = Null
  /\ \/ /\ Present(g)
        /\ gift' = [gift EXCEPT ![g].active = FALSE]
        /\ Answer(c, "deactivated")
     \/ /\ ~Present(g)
        /\ Answer(c, "notFound")
        /\ UNCHANGED gift
  /\ UNCHANGED <<ledger, groups, history>>

\* UpdateContributionStatus: any status into any other.
ModerateContribution(c, i, status) ==
  /\ pc[c] = "idle"
  /\ \/ /\ ledger[i] = Null
        /\ Answer(c, "notFound")
        /\ UNCHANGED <<ledger, reopened>>
     \/ /\ ledger[i] # Null
        /\ ledger[i].status = status
        /\ Answer(c, "invalidTransition")
        /\ UNCHANGED <<ledger, reopened>>
     \/ /\ ledger[i] # Null
        /\ ledger[i].status # status
        /\ ledger' = [ledger EXCEPT ![i].status = status]
        /\ reopened' = IF ledger[i].status = "cancelled"
                       THEN reopened \cup {ledger[i].gift} ELSE reopened
        /\ Answer(c, "moderated")
  /\ UNCHANGED <<gift, groups, repriced>>

-----------------------------------------------------------------------------
\* The surroundings.

\* Variant: ON DELETE CASCADE, as guests.group_id has it.
InvitationRemovedCascading(group) ==
  /\ group \in groups
  /\ groups' = groups \ {group}
  /\ ledger' = [i \in Contributions |->
                  IF ledger[i] # Null /\ ledger[i].group = group THEN Null ELSE ledger[i]]
  /\ reply' = "none"
  /\ UNCHANGED <<gift, lock, pc, req, history>>

\* The guest list deletes an invitation: ON DELETE SET NULL.
InvitationRemoved(group) ==
  /\ group \in groups
  /\ groups' = groups \ {group}
  /\ ledger' = [i \in Contributions |->
                  IF ledger[i] # Null /\ ledger[i].group = group
                  THEN [ledger[i] EXCEPT !.group = Null] ELSE ledger[i]]
  /\ reply' = "none"
  /\ UNCHANGED <<gift, lock, pc, req, history>>

\* The connection, the request's context or the process gives up between two
\* statements: the open transaction is rolled back, earlier ones stand.
Abort(c) ==
  /\ pc[c] # "idle"
  /\ Answer(c, "failed")
  /\ UNCHANGED <<tables, history>>

Begin(c) ==
  \/ \E g \in Gifts :
       \/ \E offer \in Offers :
            \/ PixPreview(c, g, offer)
            \/ \E group \in NullOr(Groups) : DeclareRead(c, g, offer, group)
       \/ \E form \in GiftInputs : UpdateGiftScan(c, g, form)
       \/ DeleteGiftScan(c, g)
  \/ \E form \in GiftInputs : CreateGift(c, form)
  \/ \E i \in Contributions, status \in Statuses : ModerateContribution(c, i, status)

Advance(c) ==
  \/ DeclareLock(c) \/ DeclareSum(c) \/ DeclareInsert(c)
  \/ UpdateGiftWrite(c) \/ UpdateGiftExplain(c) \/ GetGiftBack(c)
  \/ DeleteGiftWrite(c) \/ DeactivateGift(c)

Next ==
  \/ \E c \in Clients : Begin(c) \/ Advance(c) \/ Abort(c)
  \/ \E group \in Groups : InvitationRemoved(group)

Spec == Init /\ [][Next]_vars

\* A request keeps running, and PostgreSQL serves the waiters of a row's lock
\* in the order they came, so none of them waits for ever.
FairSpec == Spec /\ \A c \in Clients : SF_vars(Advance(c))
-----------------------------------------------------------------------------
\* Type invariant.

Carries(c) ==
  /\ pc[c] = "idle"      => req[c] = Null
  /\ pc[c] \in DeclarePCs => req[c] \in DeclareReq
  /\ pc[c] \in EditPCs    => req[c] \in EditReq /\ ValidGift(req[c].row)
  /\ pc[c] \in RemovePCs  => req[c] \in RemoveReq

TablesOK ==
  /\ gift \in [Gifts -> GiftRow \cup {Absent, Deleted}]
  /\ \A g \in Gifts : Present(g) => ValidGift(gift[g])
  /\ ledger \in [Contributions -> NullOr(LedgerRow)]
  /\ groups \subseteq Groups

RequestsOK ==
  /\ lock \in [Gifts -> NullOr(Clients)]
  /\ pc \in [Clients -> {"idle"} \cup DeclarePCs \cup EditPCs \cup RemovePCs]
  /\ req \in [Clients -> NullOr(DeclareReq \cup EditReq \cup RemoveReq)]
  /\ \A c \in Clients : Carries(c)
  /\ reply \in Replies

HistoryOK ==
  /\ reopened \subseteq Gifts
  /\ repriced \subseteq Gifts

\* Every table row, lock and request has the shape the schema and the handlers
\* give it, a gift row has the shape of the gifts_kind_shape constraint and of
\* validateGiftParams, and what a request carries fits where it is.
TypeOK == TablesOK /\ RequestsOK /\ HistoryOK

-----------------------------------------------------------------------------
\* Safety.

\* The row lock of CreateContribution: the request between GetGiftForUpdate and
\* its commit holds the lock of its gift, and nothing else holds one.
LockDiscipline ==
  \A g \in Gifts, c \in Clients :
    lock[g] = c <=> pc[c] \in {"sum", "insert"} /\ req[c].gift = g

\* checkAvailability under the row lock: declarations alone never promise more
\* units of a gift than it has, however many guests are mid-payment.  What can
\* take it past its limit is the couple: reviving a cancelled contribution
\* checks nothing, and the quota or the limit may be edited under a ledger.
SoldWithinUnits ==
  \A g \in Gifts :
    Present(g) /\ g \notin reopened \cup repriced
      => HasUnits(gift[g], SumGiftNonCancelled(g), 0)

\* CreateContribution validates again what the unlocked read had decided: at
\* the moment a row enters the ledger its gift exists, is active, is not a link
\* card, the amount is a multiple of the quota in force then, and, unless the
\* couple revived a cancelled contribution, the units were still there.
InsertsAgainstRowInForce ==
  \A i \in Contributions :
    ledger[i] = Null /\ ledger'[i] # Null =>
      LET g == ledger'[i].gift IN
      /\ Closed(g) = "open"
      /\ ValidAmount(gift[g].quota, ledger'[i].amount)
      /\ g \in reopened \/ HasUnits(gift[g], SumGiftNonCancelled(g), ledger'[i].amount)

DeclaredAgainstRowInForce == [][InsertsAgainstRowInForce]_vars

\* AD-6: the ledger is append-only and never loses its referent.  No step of
\* anybody removes a row, changes its gift or amount, or signs it anew.
RowsSurvive ==
  \A i \in Contributions :
    ledger[i] # Null =>
      /\ ledger'[i] # Null
      /\ ledger'[i].gift = ledger[i].gift
      /\ ledger'[i].amount = ledger[i].amount
      /\ ledger'[i].group \in {ledger[i].group, Null}

LedgerAppendOnly == [][RowsSurvive]_vars

\* AD-6, and the foreign keys of contributions: a ledger row's gift is there,
\* and so is the invitation it is signed by, whatever DeleteGift and the guest
\* list delete meanwhile.
LedgerHasReferent ==
  \A i \in Contributions :
    ledger[i] # Null => Present(ledger[i].gift) /\ ledger[i].group \in NullOr(groups)

\* DeleteGift and UpdateGift tell apart by a second statement why the first one
\* wrote nothing: by then a gift that is still there does have a ledger, so
\* "deactivated" and "kind locked" are never said of a gift without one.
LostConditionMeansLedger ==
  \A c \in Clients :
    pc[c] \in {"deactivate", "explain"} /\ Present(req[c].gift)
      => RowsOf(req[c].gift) # {}

-----------------------------------------------------------------------------
\* What makes the safety properties inductive.

\* A request names a gift id that was given out before.
NamedGiftExisted ==
  \A c \in Clients : pc[c] # "idle" => gift[req[c].gift] # Absent

\* An update whose snapshot saw ledger rows still has them under it.
ScanRemembered ==
  \A c \in Clients :
    pc[c] = "update" /\ ~req[c].noRows => RowsOf(req[c].gift) # {}

\* What CreateContribution checked under the lock stays true up to the commit.
CommitChecked ==
  \A c \in Clients :
    pc[c] \in {"sum", "insert"} =>
      LET g == req[c].gift IN
      /\ Closed(g) = "open"
      /\ ValidAmount(gift[g].quota, req[c].amount)
      /\ pc[c] = "insert" =>
           g \in reopened \/ HasUnits(gift[g], SumGiftNonCancelled(g), req[c].amount)

SafetyInv ==
  /\ TypeOK
  /\ LockDiscipline
  /\ LedgerHasReferent
  /\ NamedGiftExisted
  /\ ScanRemembered
  /\ LostConditionMeansLedger
  /\ CommitChecked
  /\ SoldWithinUnits

-----------------------------------------------------------------------------
\* Liveness.

\* Row locks and second statements never wedge a request: each one is answered.
EveryRequestAnswered == \A c \in Clients : pc[c] # "idle" ~> pc[c] = "idle"

-----------------------------------------------------------------------------
\* What the comments promise and the program does not do.

\* service.go: "the ledger must never point at a link card"; repo.go and
\* gifts.sql: the single conditional UPDATE leaves no check-then-act window
\* against a concurrent Declare.
LedgerNeverOnLinkCard ==
  \A g \in Gifts : Present(g) /\ RowsOf(g) # {} => gift[g].kind = "pix"

\* service.go: a contribution landing concurrently "simply flips the outcome to
\* deactivation instead of erroring".
DeleteNeverErrors == reply # "foreignKey"

\* repo.go: the FOR UPDATE serializes commits "so the last quota can never be
\* double-claimed" (gifts whose quota or limit was edited are excused).
LastQuotaClaimedOnce ==
  \A g \in Gifts :
    Present(g) /\ g \notin repriced => HasUnits(gift[g], SumGiftNonCancelled(g), 0)

\* 00001_init.sql: "only status transitions (declared -> confirmed | cancelled)".
ModerationGoesOneWay ==
  [][\A i \in Contributions :
       ledger[i] # Null /\ ledger'[i] # Null /\ ledger'[i].status # ledger[i].status
         => ledger[i].status = "declared"]_vars
=============================================================================
