------------------------ MODULE ImportTransactionProofs ------------------------
(***************************************************************************)
(* Theorems about ImportTransaction, for any number of imports and of      *)
(* edits, any spreadsheets and any guest lists.                            *)
(***************************************************************************)
EXTENDS ImportTransaction, WellFoundedInduction, TLAPS

-----------------------------------------------------------------------------
\* Sets of naturals.

LEMMA HasLeast ==
  ASSUME NEW S, S \subseteq Nat, S # {}
  PROVE  \E x \in S : \A y \in S : x <= y
<1>1. PICK x \in S : \A y \in S : <<y, x>> \notin OpToRel(<, Nat)
  BY NatLessThanWellFounded, WFMin, Zenon
<1>2. \A y \in S : ~(y < x)
  <2> TAKE y \in S
  <2>1. <<y, x>> \in Nat \X Nat
    OBVIOUS
  <2> QED BY <1>1, <2>1 DEF OpToRel
<1> QED BY <1>2

LEMMA MinIsIn ==
  ASSUME NEW S, S \subseteq Nat, S # {}
  PROVE  Min(S) \in S
BY HasLeast DEF Min

-----------------------------------------------------------------------------
\* Plans.

LEMMA LinesFacts ==
  ASSUME NEW rows \in Seq(Row)
  PROVE  /\ Len(rows) \in Nat
         /\ Lines(rows) \subseteq 1 .. Len(rows)
         /\ \A i \in Lines(rows) : rows[i].name \in Names /\ Key(rows[i]) \in Labels
<1>1. Len(rows) \in Nat /\ DOMAIN rows = 1 .. Len(rows) /\ \A i \in DOMAIN rows : rows[i] \in Row
  OBVIOUS
<1>2. ASSUME NEW i \in Lines(rows) PROVE rows[i].name \in Names /\ Key(rows[i]) \in Labels
  <2>1. rows[i] \in Row /\ rows[i].name # Null
    BY <1>1, <1>2 DEF Lines
  <2> QED BY <2>1, ConstantsAssumption DEF Row, NullOr, Key
<1> QED BY <1>1, <1>2 DEF Lines

LEMMA OpeningFacts ==
  ASSUME NEW rows \in Seq(Row), NEW k \in Keys(rows)
  PROVE  Opening(rows, k) \in 1 .. Len(rows) /\ Key(rows[Opening(rows, k)]) = k
<1>1. LinesOf(rows, k) \subseteq Nat /\ LinesOf(rows, k) # {}
  BY LinesFacts DEF LinesOf, Keys
<1>2. Opening(rows, k) \in LinesOf(rows, k)
  BY <1>1, MinIsIn DEF Opening
<1> QED
  BY <1>2, LinesFacts DEF LinesOf

\* What the transaction relies on: the plan is for lines of the file, moves a head
\* only where a line is marked, and without a snapshot everybody is new.
PlanOK(rows, replace, plan) ==
  /\ DOMAIN plan \subseteq Keys(rows)
  /\ \A k \in DOMAIN plan :
       /\ DOMAIN plan[k].guests \subseteq LinesOf(rows, k)
       /\ plan[k].enforcePrimary /\ plan[k].existing # Null =>
            \E i \in DOMAIN plan[k].guests : rows[i].principal
  /\ replace => Written(plan) \subseteq Inserted(plan)

LEMMA ReconcileOK ==
  ASSUME NEW rows, NEW snap, NEW replace, replace => snap = NoSnapshot
  PROVE  PlanOK(rows, replace, Reconcile(rows, snap))
<1> DEFINE target(k) == Targets(rows, snap)[Opening(rows, k)]
           lines(k)  == Survivors(rows, snap, k, target(k))
           marked(k) == {i \in lines(k) : rows[i].principal}
           plan      == Reconcile(rows, snap)
<1>1. /\ DOMAIN plan = {k \in Keys(rows) : lines(k) # {}}
      /\ \A k \in DOMAIN plan : plan[k] = GroupPlan(rows, snap, k, target(k))
  BY DEF Reconcile
<1>2. \A k \in DOMAIN plan :
        /\ plan[k].existing = Only(target(k))
        /\ plan[k].enforcePrimary = EnforcePrimary(marked(k), target(k))
        /\ plan[k].guests = [i \in lines(k) |-> Only(Known(snap, rows[i].name))]
  <2> TAKE k \in DOMAIN plan
  <2> DEFINE entry == GroupPlan(rows, snap, k, target(k))
  <2>1. /\ entry.existing = Only(target(k))
        /\ entry.enforcePrimary = EnforcePrimary(marked(k), target(k))
        /\ entry.guests = [i \in lines(k) |-> Only(Known(snap, rows[i].name))]
    BY DEF GroupPlan
  <2>2. plan[k] = entry
    BY <1>1
  <2> HIDE DEF entry, plan, target, lines, marked
  <2> QED BY <2>1, <2>2
<1>3. \A k : lines(k) \subseteq LinesOf(rows, k)
  BY DEF Survivors
<1> HIDE DEF plan, target, lines
<1>4. \A k \in DOMAIN plan : plan[k].enforcePrimary /\ plan[k].existing # Null =>
                               marked(k) # {}
  BY <1>2 DEF EnforcePrimary, Only
<1>5. ASSUME replace PROVE Written(plan) \subseteq Inserted(plan)
  <2>1. \A name : Only(Known(snap, name)) = Null
    BY <1>5 DEF Known, NoSnapshot, NoTables, Only
  <2>2. \A k \in DOMAIN plan : \A i \in DOMAIN plan[k].guests : plan[k].guests[i] = Null
    BY <1>2, <2>1
  <2> QED BY <2>2 DEF Written, Inserted
<1>6. PlanOK(rows, replace, plan)
  BY <1>1, <1>2, <1>3, <1>4, <1>5 DEF PlanOK
<1> QED
  BY <1>6 DEF plan

LEMMA PlanFacts ==
  ASSUME NEW rows \in Seq(Row), NEW replace, NEW plan, PlanOK(rows, replace, plan)
  PROVE  /\ Created(plan) \cup Renamed(plan) \subseteq DOMAIN plan
         /\ \A k \in DOMAIN plan :
              k \in Labels /\ k \in Keys(rows) /\ k = Key(rows[Opening(rows, k)])
         /\ \A i \in Written(plan) :
              i \in 1 .. Len(rows) /\ rows[i].name \in Names /\ Key(rows[i]) \in Keys(rows)
         /\ Inserted(plan) \subseteq Written(plan)
<1>1. \A k \in Keys(rows) : k \in Labels
  BY LinesFacts DEF Keys
<1>2. ASSUME NEW i \in Written(plan) PROVE i \in Lines(rows)
  BY DEF Written, PlanOK, LinesOf
<1>3. Inserted(plan) \subseteq Written(plan)
  BY DEF Inserted, Written
<1>4. \A k \in DOMAIN plan : k \in Keys(rows)
  BY DEF PlanOK
<1>5. Created(plan) \cup Renamed(plan) \subseteq DOMAIN plan
  BY DEF Created, Renamed
<1>6. \A i \in Lines(rows) :
        i \in 1 .. Len(rows) /\ rows[i].name \in Names /\ Key(rows[i]) \in Keys(rows)
  BY LinesFacts DEF Keys
<1> QED
  BY <1>1, <1>2, <1>3, <1>4, <1>5, <1>6, OpeningFacts

\* A statement that is neither the first nor the last for its invitation writes a line.
LEMMA StatementFacts ==
  ASSUME NEW rows \in Seq(Row), NEW replace, NEW plan, PlanOK(rows, replace, plan),
         NEW s \in Statements(rows, plan)
  PROVE  /\ s # Clear
         /\ s[2] = Len(rows) + 1 =>
              \E k \in DOMAIN plan : /\ plan[k].enforcePrimary
                                     /\ s = <<Opening(rows, k), Len(rows) + 1>>
         /\ s[2] # 0 => \A k : s # <<Opening(rows, k), 0>>
<1>1. \A k \in Keys(rows) : Opening(rows, k) \in 1 .. Len(rows)
  BY OpeningFacts
<1>2. Len(rows) \in Nat
  OBVIOUS
<1>3. CASE s \in {<<Opening(rows, k), 0>> : k \in Created(plan) \cup Renamed(plan)}
  <2>1. PICK k \in Created(plan) \cup Renamed(plan) : s = <<Opening(rows, k), 0>>
    BY <1>3
  <2>2. Opening(rows, k) \in 1 .. Len(rows)
    BY <1>1, <2>1, PlanFacts
  <2> QED BY <1>2, <2>1, <2>2 DEF Clear
<1>4. CASE s \in {<<Opening(rows, Key(rows[i])), i>> : i \in Written(plan)}
  <2>1. PICK i \in Written(plan) : s = <<Opening(rows, Key(rows[i])), i>>
    BY <1>4
  <2>2. i \in 1 .. Len(rows)
    BY <2>1, PlanFacts
  <2> QED BY <1>2, <2>1, <2>2 DEF Clear
<1>5. CASE s \in {<<Opening(rows, k), Len(rows) + 1>> : k \in {k \in DOMAIN plan : plan[k].enforcePrimary}}
  <2>1. PICK k \in DOMAIN plan : plan[k].enforcePrimary /\ s = <<Opening(rows, k), Len(rows) + 1>>
    BY <1>5
  <2> QED BY <1>2, <2>1 DEF Clear
<1> QED
  BY <1>3, <1>4, <1>5 DEF Statements

-----------------------------------------------------------------------------
\* The inductive invariant.

Stages == {"idle", "groups", "begin", "write", "report"}

UploadOK(r) ==
  /\ DOMAIN r = {"at", "file", "replace", "snap", "plan"}
  /\ r.at \in Stages
  /\ r.file \in Seq(Row)
  /\ r.replace \in BOOLEAN
  /\ r.at = "groups" => ~r.replace
  /\ PlanOK(r.file, r.replace, r.plan)

\* A line that counts is marked for g.
Marked(r, g) ==
  \E k \in DOMAIN r.plan :
    /\ r.plan[k].existing = g
    /\ \E i \in DOMAIN r.plan[k].guests : r.file[i].principal

\* What an import that merges makes of the row of somebody listed.
Merged(r, before, row) ==
  /\ row # Null /\ row.group = before.group
  /\ before.primary /\ ~row.primary => Marked(r, before.group)

\* What the transaction t of the import r did, where ls is committed: it wrote rows,
\* created invitations nobody is on, and merged.
OwnOK(r, t, ls) ==
  /\ DOMAIN t = {"todo", "scan", "made", "mine"}
  /\ DOMAIN t.made = {"place", "person"} /\ DOMAIN t.mine = {"label", "guest"}
  /\ t.todo \subseteq Statements(r.file, r.plan) \cup (IF r.replace THEN {Clear} ELSE {})
  /\ \A p \in DOMAIN t.mine.guest : p \in GuestIds /\ t.mine.guest[p] \in NullOr(GuestRow)
  /\ \A g \in DOMAIN t.mine.label : g \in GroupIds /\ t.mine.label[g] \in NullOr(Labels)
  /\ \A k \in DOMAIN t.made.place :
       /\ t.made.place[k] \in DOMAIN t.mine.label
       /\ t.made.place[k] \notin Live(ls) \cup Homes(ls.guest)
  /\ ~r.replace => \A p \in DOMAIN t.mine.guest \cap Listed(ls) :
                     Merged(r, ls.guest[p], t.mine.guest[p])

\* An invitation to be created has been, or has yet to be.
Planned(r, t) ==
  \A k \in Created(r.plan) : k \in DOMAIN t.made.place \/ <<Opening(r.file, k), 0>> \in t.todo

\* Two transactions do not write the same rows, and neither puts anybody on an
\* invitation the other created.
Apart(t, s) ==
  /\ DOMAIN t.mine.guest \cap DOMAIN s.mine.guest = {}
  /\ DOMAIN t.mine.label \cap DOMAIN s.mine.label = {}
  /\ \A k \in DOMAIN t.made.place : t.made.place[k] \notin Homes(s.mine.guest)

IInv ==
  /\ list \in Tables
  /\ upload = [u \in Uploads |-> upload[u]]
  /\ tx = [u \in Uploads |-> tx[u]]
  /\ alone = [u \in Uploads |-> alone[u]]
  /\ \A u \in Uploads : /\ UploadOK(upload[u])
                        /\ OwnOK(upload[u], tx[u], list)
                        /\ upload[u].at = "write" => Planned(upload[u], tx[u])
                        /\ upload[u].at # "write" => tx[u] = NoTx /\ ~alone[u]
  /\ \A u, v \in Uploads : u # v => Apart(tx[u], tx[v])
  /\ imports \in 0 .. MaxImports
  /\ edits \in 0 .. MaxEdits

LEMMA NoTxFacts ==
  /\ NoTx.todo = {} /\ DOMAIN NoTx.mine.guest = {} /\ DOMAIN NoTx.mine.label = {}
  /\ DOMAIN NoTx.made.place = {} /\ Homes(NoTx.mine.guest) = {}
  /\ \A r, ls : OwnOK(r, NoTx, ls)
  /\ \A t : Apart(NoTx, t) /\ Apart(t, NoTx)
<1>1. /\ NoTx.todo = {} /\ DOMAIN NoTx.mine.guest = {} /\ DOMAIN NoTx.mine.label = {}
      /\ DOMAIN NoTx.made.place = {}
      /\ DOMAIN NoTx = {"todo", "scan", "made", "mine"}
      /\ DOMAIN NoTx.made = {"place", "person"} /\ DOMAIN NoTx.mine = {"label", "guest"}
  BY DEF NoTx
<1>2. Homes(NoTx.mine.guest) = {}
  BY <1>1 DEF Homes
<1> QED
  BY <1>1, <1>2 DEF OwnOK, Apart

LEMMA NothingPlanned ==
  ASSUME NEW rows, NEW replace
  PROVE  PlanOK(rows, replace, <<>>)
BY DEF PlanOK, Written

LEMMA IdleOK == UploadOK(Idle) /\ UploadOK([Idle EXCEPT !.at = "report"])
<1> DEFINE r == [Idle EXCEPT !.at = "report"]
<1>1. /\ DOMAIN Idle = {"at", "file", "replace", "snap", "plan"} /\ Idle.at = "idle"
      /\ Idle.file = <<>> /\ Idle.replace = FALSE /\ Idle.plan = <<>>
  BY DEF Idle
<1>2. /\ DOMAIN r = {"at", "file", "replace", "snap", "plan"} /\ r.at = "report"
      /\ r.file = <<>> /\ r.replace = FALSE /\ r.plan = <<>>
  BY <1>1
<1>3. <<>> \in Seq(Row)
  OBVIOUS
<1> HIDE DEF r
<1> QED
  BY <1>1, <1>2, <1>3, NothingPlanned DEF UploadOK, Stages, r

LEMMA InvInit == Init => IInv
<1> SUFFICES ASSUME Init PROVE IInv
  OBVIOUS
<1>1. list \in Tables
  BY ConstantsAssumption DEF Init
<1>2. \A u \in Uploads : upload[u] = Idle /\ Idle.at = "idle" /\ tx[u] = NoTx /\ ~alone[u]
  BY DEF Init, Idle
<1>3. /\ upload = [u \in Uploads |-> upload[u]] /\ tx = [u \in Uploads |-> tx[u]]
      /\ alone = [u \in Uploads |-> alone[u]]
  BY DEF Init
<1>4. imports \in 0 .. MaxImports /\ edits \in 0 .. MaxEdits
  BY BoundsAssumption DEF Init
<1>5. \A u \in Uploads :
        /\ UploadOK(upload[u]) /\ OwnOK(upload[u], tx[u], list)
        /\ upload[u].at # "write"
  BY <1>2, IdleOK, NoTxFacts
<1>6. \A u, v \in Uploads : Apart(tx[u], tx[v])
  BY <1>2, NoTxFacts
<1> QED
  BY <1>1, <1>2, <1>3, <1>4, <1>5, <1>6 DEF IInv

-----------------------------------------------------------------------------
\* What the invariant says of the rows.

LEMMA ViewFacts ==
  ASSUME IInv, NEW u \in Uploads
  PROVE  /\ View(u) \in Tables
         /\ \A p \in GuestIds :
              /\ p \in Wrote(u) => View(u).guest[p] = tx[u].mine.guest[p]
              /\ p \notin Wrote(u) => View(u).guest[p] = list.guest[p]
         /\ \A g \in GroupIds :
              /\ g \in WroteLabel(u) => View(u).label[g] = tx[u].mine.label[g]
              /\ g \notin WroteLabel(u) => View(u).label[g] = list.label[g]
<1>1. /\ list.label \in [GroupIds -> NullOr(Labels)]
      /\ list.guest \in [GuestIds -> NullOr(GuestRow)]
  BY DEF IInv, Tables
<1>2. /\ \A p \in Wrote(u) : tx[u].mine.guest[p] \in NullOr(GuestRow)
      /\ \A g \in WroteLabel(u) : tx[u].mine.label[g] \in NullOr(Labels)
  BY DEF IInv, OwnOK, Wrote, WroteLabel
<1> QED
  BY <1>1, <1>2 DEF View, Tables

\* Nobody is on an invitation that another transaction created.
LEMMA PlacesFacts ==
  ASSUME IInv, NEW u \in Uploads, NEW v \in Others(u), NEW k \in DOMAIN tx[v].made.place
  PROVE  /\ tx[v].made.place[k] \notin Live(list) \cup Homes(list.guest)
         /\ tx[v].made.place[k] \notin Live(View(u)) \cup Homes(View(u).guest)
<1> DEFINE g == tx[v].made.place[k]
<1>1. g \in WroteLabel(v) /\ g \in GroupIds /\ g \notin Live(list) \cup Homes(list.guest)
  BY DEF IInv, OwnOK, Others, WroteLabel
<1>2. g \notin WroteLabel(u) /\ g \notin Homes(tx[u].mine.guest)
  BY <1>1 DEF IInv, Apart, Others, WroteLabel
<1>3. g \notin Live(View(u))
  BY <1>1, <1>2, ViewFacts DEF Live
<1>4. ASSUME NEW p \in DOMAIN View(u).guest, View(u).guest[p] # Null
      PROVE  View(u).guest[p].group # g
  <2>1. p \in GuestIds /\ DOMAIN list.guest = GuestIds
    BY <1>4, ViewFacts DEF IInv, Tables
  <2>2. CASE p \in Wrote(u)
    <3>1. View(u).guest[p] = tx[u].mine.guest[p] /\ p \in DOMAIN tx[u].mine.guest
      BY <2>1, <2>2, ViewFacts DEF Wrote
    <3> QED BY <1>2, <1>4, <3>1 DEF Homes
  <2>3. CASE p \notin Wrote(u)
    BY <1>1, <1>4, <2>1, <2>3, ViewFacts DEF Homes
  <2> QED BY <2>2, <2>3
<1>5. g \notin Homes(View(u).guest)
  BY <1>4 DEF Homes
<1> QED
  BY <1>1, <1>3, <1>5

LEMMA FreshFacts ==
  ASSUME IInv
  PROVE  /\ FreeGroups # {} =>
              /\ Min(FreeGroups) \in GroupIds
              /\ Min(FreeGroups) \notin Live(list) \cup Homes(list.guest)
              /\ \A u \in Uploads : Min(FreeGroups) \notin WroteLabel(u) \cup Homes(tx[u].mine.guest)
         /\ FreeGuests # {} =>
              /\ Min(FreeGuests) \in GuestIds \ Listed(list)
              /\ \A u \in Uploads : Min(FreeGuests) \notin Wrote(u)
<1>1. FreeGroups \subseteq GroupIds /\ FreeGuests \subseteq GuestIds
  BY DEF FreeGroups, FreeGuests
<1>2. /\ FreeGroups # {} => Min(FreeGroups) \in FreeGroups
      /\ FreeGuests # {} => Min(FreeGuests) \in FreeGuests
  BY <1>1, MinIsIn, ConstantsAssumption
<1>3. ASSUME FreeGroups # {}, NEW u \in Uploads
      PROVE  Min(FreeGroups) \notin WroteLabel(u) \cup Homes(tx[u].mine.guest)
  <2> DEFINE Taken == {WroteLabel(v) \cup Homes(tx[v].mine.guest) \cup Remembered(upload[v].snap) :
                         v \in Uploads}
  <2>1. Min(FreeGroups) \notin UNION Taken
    BY <1>2, <1>3 DEF FreeGroups
  <2>2. WroteLabel(u) \cup Homes(tx[u].mine.guest) \cup Remembered(upload[u].snap) \in Taken
    BY <1>3
  <2> HIDE DEF Taken
  <2> QED BY <2>1, <2>2
<1>4. FreeGroups # {} => Min(FreeGroups) \in GroupIds
                          /\ Min(FreeGroups) \notin Live(list) \cup Homes(list.guest)
  BY <1>2 DEF FreeGroups
<1>5. FreeGuests # {} => /\ Min(FreeGuests) \in GuestIds \ Listed(list)
                         /\ \A u \in Uploads : Min(FreeGuests) \notin Wrote(u)
  BY <1>2 DEF FreeGuests
<1> QED
  BY <1>3, <1>4, <1>5

LEMMA OwnKept ==
  ASSUME NEW r, NEW t, NEW ls, NEW ms, OwnOK(r, t, ls),
         \A k \in DOMAIN t.made.place : t.made.place[k] \notin Live(ms) \cup Homes(ms.guest),
         \A p \in DOMAIN t.mine.guest : ms.guest[p] = ls.guest[p]
  PROVE  OwnOK(r, t, ms)
BY DEF OwnOK, Listed

-----------------------------------------------------------------------------
\* The steps of an import.

LEMMA UploadNext ==
  ASSUME IInv, NEW u \in Uploads, NEW r, UploadOK(r), r.at # "write",
         upload[u].at # "write", upload' = [upload EXCEPT ![u] = r],
         imports' \in 0 .. MaxImports, UNCHANGED <<list, tx, alone, edits>>
  PROVE  IInv'
<1>1. /\ list' \in Tables
      /\ upload' = [v \in Uploads |-> upload'[v]]
      /\ tx' = [v \in Uploads |-> tx'[v]]
      /\ alone' = [v \in Uploads |-> alone'[v]]
  BY DEF IInv
<1>2. upload'[u] = r /\ \A v \in Uploads \ {u} : upload'[v] = upload[v]
  BY DEF IInv
<1>3. tx[u] = NoTx /\ ~alone[u]
  BY DEF IInv
<1>4. ASSUME NEW v \in Uploads
      PROVE  /\ UploadOK(upload'[v])
             /\ OwnOK(upload'[v], tx'[v], list')
             /\ upload'[v].at = "write" => Planned(upload'[v], tx'[v])
             /\ upload'[v].at # "write" => tx'[v] = NoTx /\ ~alone'[v]
  <2>1. CASE v = u
    BY <1>2, <1>3, <2>1, NoTxFacts
  <2>2. CASE v # u
    BY <1>2, <2>2 DEF IInv
  <2> QED BY <2>1, <2>2
<1>5. \A v, w \in Uploads : v # w => Apart(tx'[v], tx'[w])
  BY DEF IInv
<1>6. edits' \in 0 .. MaxEdits
  BY DEF IInv
<1> QED
  BY <1>1, <1>4, <1>5, <1>6 DEF IInv

LEMMA ListGroupsNext ==
  ASSUME IInv, NEW u \in Uploads, NEW file \in Files, Ready(u), ListGroups(u, file)
  PROVE  IInv'
<1>1. PICK snap \in Snapshots(list) :
        Request(u, [at |-> "groups", file |-> file, replace |-> FALSE,
                    snap |-> [snap EXCEPT !.guest = NoTables.guest], plan |-> <<>>])
  BY DEF ListGroups
<1> DEFINE r == [at |-> "groups", file |-> file, replace |-> FALSE,
                 snap |-> [snap EXCEPT !.guest = NoTables.guest], plan |-> <<>>]
<1>2. UploadOK(r) /\ r.at # "write"
  BY NothingPlanned, ConstantsAssumption DEF UploadOK, Stages
<1>3. imports' \in 0 .. MaxImports /\ upload[u].at # "write"
  BY <1>1, BoundsAssumption DEF IInv, Ready, Request
<1>4. upload' = [upload EXCEPT ![u] = r] /\ UNCHANGED <<list, tx, alone, edits>>
  BY <1>1 DEF Request
<1> HIDE DEF r
<1> QED
  BY <1>2, <1>3, <1>4, UploadNext

LEMMA ReplaceNext ==
  ASSUME IInv, NEW u \in Uploads, NEW file \in Files, Ready(u), Replace(u, file)
  PROVE  IInv'
<1> DEFINE plan == Reconcile(file, NoSnapshot)
           r    == [at |-> "begin", file |-> file, replace |-> TRUE, snap |-> NoSnapshot,
                    plan |-> plan]
<1>1. PlanOK(file, TRUE, plan)
  BY ReconcileOK
<1> HIDE DEF plan
<1>2. UploadOK(r) /\ r.at # "write"
  BY <1>1, ConstantsAssumption DEF UploadOK, Stages
<1>3. imports' \in 0 .. MaxImports /\ upload[u].at # "write"
  BY BoundsAssumption DEF IInv, Ready, Request, Replace
<1>4. upload' = [upload EXCEPT ![u] = r] /\ UNCHANGED <<list, tx, alone, edits>>
  BY DEF Request, Replace, plan
<1> HIDE DEF r
<1> QED
  BY <1>2, <1>3, <1>4, UploadNext

LEMMA ListGuestsNext ==
  ASSUME IInv, NEW u \in Uploads, ListGuests(u)
  PROVE  IInv'
<1> DEFINE snap == [upload[u].snap EXCEPT !.guest = list.guest]
           plan == Reconcile(upload[u].file, snap)
           r    == [upload[u] EXCEPT !.at = "begin", !.snap = snap, !.plan = plan]
<1>1. PlanOK(upload[u].file, upload[u].replace, plan)
  <2>1. ~upload[u].replace
    BY DEF IInv, UploadOK, ListGuests
  <2> QED BY <2>1, ReconcileOK
<1>2. UploadOK(upload[u])
  BY DEF IInv
<1> HIDE DEF plan, snap
<1>3. /\ DOMAIN r = {"at", "file", "replace", "snap", "plan"} /\ r.at = "begin"
      /\ r.file = upload[u].file /\ r.replace = upload[u].replace /\ r.plan = plan
  BY <1>2 DEF UploadOK
<1>4. UploadOK(r) /\ r.at # "write"
  BY <1>1, <1>2, <1>3 DEF UploadOK, Stages
<1>5. upload' = [upload EXCEPT ![u] = r] /\ UNCHANGED <<list, tx, alone, imports, edits>>
  BY DEF ListGuests, plan, snap
<1>6. imports' \in 0 .. MaxImports /\ upload[u].at # "write"
  BY <1>5 DEF IInv, ListGuests
<1> HIDE DEF r
<1> QED
  BY <1>4, <1>5, <1>6, UploadNext

\* The transaction of u becomes t, and only that changes.
LEMMA TxNext ==
  ASSUME IInv, NEW u \in Uploads, NEW r, NEW t,
         UploadOK(r), r.at = "write", OwnOK(r, t, list), Planned(r, t),
         \A v \in Others(u) : Apart(t, tx[v]) /\ Apart(tx[v], t),
         upload' = [upload EXCEPT ![u] = r], tx' = [tx EXCEPT ![u] = t],
         alone' = [v \in Uploads |-> alone'[v]],
         \A v \in Others(u) : alone'[v] => alone[v],
         UNCHANGED <<list, imports, edits>>
  PROVE  IInv'
<1>1. /\ list' \in Tables
      /\ upload' = [v \in Uploads |-> upload'[v]]
      /\ tx' = [v \in Uploads |-> tx'[v]]
  BY DEF IInv
<1>2. /\ upload'[u] = r /\ tx'[u] = t
      /\ \A v \in Others(u) : upload'[v] = upload[v] /\ tx'[v] = tx[v]
  BY DEF IInv, Others
<1>3. ASSUME NEW v \in Uploads
      PROVE  /\ UploadOK(upload'[v])
             /\ OwnOK(upload'[v], tx'[v], list')
             /\ upload'[v].at = "write" => Planned(upload'[v], tx'[v])
             /\ upload'[v].at # "write" => tx'[v] = NoTx /\ ~alone'[v]
  <2>1. CASE v = u
    BY <1>2, <2>1
  <2>2. CASE v # u
    BY <1>2, <2>2 DEF IInv, Others
  <2> QED BY <2>1, <2>2
<1>4. ASSUME NEW v \in Uploads, NEW w \in Uploads, v # w PROVE Apart(tx'[v], tx'[w])
  BY <1>2, <1>4 DEF IInv, Others
<1>5. imports' \in 0 .. MaxImports /\ edits' \in 0 .. MaxEdits
  BY DEF IInv
<1> QED
  BY <1>1, <1>3, <1>4, <1>5 DEF IInv

LEMMA BeginNext ==
  ASSUME IInv, NEW u \in Uploads, Begin(u)
  PROVE  IInv'
<1> DEFINE cleared == IF upload[u].replace THEN Live(list) ELSE {}
           todo    == Statements(upload[u].file, upload[u].plan)
                        \cup (IF cleared = {} THEN {} ELSE {Clear})
           r       == [upload[u] EXCEPT !.at = "write"]
           t       == [NoTx EXCEPT !.todo = todo, !.scan = cleared]
<1>1. UploadOK(upload[u])
  BY DEF IInv
<1>2. /\ DOMAIN r = {"at", "file", "replace", "snap", "plan"} /\ r.at = "write"
      /\ r.file = upload[u].file /\ r.replace = upload[u].replace /\ r.plan = upload[u].plan
  BY <1>1 DEF UploadOK
<1>3. DOMAIN t = {"todo", "scan", "made", "mine"} /\ t.todo = todo
      /\ t.made = NoTx.made /\ t.mine = NoTx.mine
  BY DEF NoTx
<1>4. /\ upload' = [upload EXCEPT ![u] = r] /\ tx' = [tx EXCEPT ![u] = t]
      /\ alone' = [v \in Uploads |-> alone'[v]]
      /\ \A v \in Others(u) : ~alone'[v]
      /\ UNCHANGED <<list, imports, edits>>
  BY DEF Begin, Others
<1>5. todo \subseteq Statements(r.file, r.plan) \cup (IF r.replace THEN {Clear} ELSE {})
  BY <1>2
<1>6. \A k \in Created(r.plan) : <<Opening(r.file, k), 0>> \in todo
  BY <1>2 DEF Statements
<1> HIDE DEF r, t, todo
<1>7. UploadOK(r)
  BY <1>1, <1>2 DEF UploadOK, Stages
<1>8. OwnOK(r, t, list)
  BY <1>3, <1>5, NoTxFacts DEF OwnOK
<1>9. Planned(r, t)
  BY <1>3, <1>6 DEF Planned
<1>10. \A v \in Others(u) : Apart(t, tx[v]) /\ Apart(tx[v], t)
  BY <1>3, NoTxFacts DEF Apart
<1> QED
  BY <1>2, <1>4, <1>7, <1>8, <1>9, <1>10, TxNext

\* A statement: it writes rows that are free, of its own invitations or of those
\* that people see, and merges.
LEMMA WriteNext ==
  ASSUME IInv, NEW u \in Uploads, upload[u].at = "write", NEW t, Execute(u, t),
         DOMAIN t = {"todo", "scan", "made", "mine"},
         DOMAIN t.made = {"place", "person"}, DOMAIN t.mine = {"label", "guest"},
         t.todo \subseteq tx[u].todo,
         Planned(upload[u], t),
         \A p \in DOMAIN t.mine.guest :
           /\ p \in GuestIds /\ t.mine.guest[p] \in NullOr(GuestRow)
           /\ GuestFree(p, Others(u))
           /\ t.mine.guest[p] # Null =>
                \A v \in Others(u) : \A k \in DOMAIN tx[v].made.place :
                  tx[v].made.place[k] # t.mine.guest[p].group
           /\ ~upload[u].replace /\ p \in Listed(list) =>
                Merged(upload[u], list.guest[p], t.mine.guest[p]),
         \A g \in DOMAIN t.mine.label :
           g \in GroupIds /\ t.mine.label[g] \in NullOr(Labels) /\ LabelFree(g, Others(u)),
         \A k \in DOMAIN t.made.place :
           /\ t.made.place[k] \in DOMAIN t.mine.label
           /\ t.made.place[k] \notin Live(list) \cup Homes(list.guest)
           /\ \A v \in Others(u) : t.made.place[k] \notin Homes(tx[v].mine.guest)
  PROVE  IInv'
<1>1. UploadOK(upload[u]) /\ OwnOK(upload[u], tx[u], list)
  BY DEF IInv
<1>2. OwnOK(upload[u], t, list)
  BY <1>1 DEF OwnOK
<1>3. ASSUME NEW v \in Others(u) PROVE Apart(t, tx[v]) /\ Apart(tx[v], t)
  <2>1. DOMAIN t.mine.guest \cap DOMAIN tx[v].mine.guest = {}
    BY DEF GuestFree, Wrote
  <2>2. DOMAIN t.mine.label \cap DOMAIN tx[v].mine.label = {}
    BY DEF LabelFree, WroteLabel
  <2>3. \A k \in DOMAIN tx[v].made.place : tx[v].made.place[k] \notin Homes(t.mine.guest)
    BY DEF Homes
  <2> QED BY <2>1, <2>2, <2>3 DEF Apart
<1>4. upload' = [upload EXCEPT ![u] = upload[u]] /\ tx' = [tx EXCEPT ![u] = t]
  BY DEF Execute, IInv
<1>5. alone' = [v \in Uploads |-> alone'[v]] /\ alone' = alone
      /\ UNCHANGED <<list, imports, edits>>
  BY DEF Execute, IInv
<1> QED
  BY <1>1, <1>2, <1>3, <1>4, <1>5, TxNext

\* What a transaction has done so far is of that kind.
LEMMA SoFar ==
  ASSUME IInv, NEW u \in Uploads
  PROVE  /\ DOMAIN tx[u] = {"todo", "scan", "made", "mine"}
         /\ DOMAIN tx[u].made = {"place", "person"} /\ DOMAIN tx[u].mine = {"label", "guest"}
         /\ \A p \in Wrote(u) :
              /\ p \in GuestIds /\ tx[u].mine.guest[p] \in NullOr(GuestRow)
              /\ GuestFree(p, Others(u))
              /\ tx[u].mine.guest[p] # Null =>
                   \A v \in Others(u) : \A k \in DOMAIN tx[v].made.place :
                     tx[v].made.place[k] # tx[u].mine.guest[p].group
              /\ ~upload[u].replace /\ p \in Listed(list) =>
                   Merged(upload[u], list.guest[p], tx[u].mine.guest[p])
         /\ \A g \in WroteLabel(u) :
              g \in GroupIds /\ tx[u].mine.label[g] \in NullOr(Labels) /\ LabelFree(g, Others(u))
         /\ \A k \in DOMAIN tx[u].made.place :
              /\ tx[u].made.place[k] \in WroteLabel(u)
              /\ tx[u].made.place[k] \notin Live(list) \cup Homes(list.guest)
              /\ \A v \in Others(u) : tx[u].made.place[k] \notin Homes(tx[v].mine.guest)
<1>1. OwnOK(upload[u], tx[u], list)
  BY DEF IInv
<1>2. \A v \in Others(u) : Apart(tx[u], tx[v]) /\ Apart(tx[v], tx[u])
  BY DEF IInv, Others
<1>3. \A p \in Wrote(u) : GuestFree(p, Others(u))
  BY <1>2 DEF Apart, GuestFree, Wrote
<1>4. \A g \in WroteLabel(u) : LabelFree(g, Others(u))
  BY <1>2 DEF Apart, LabelFree, WroteLabel
<1>5. ASSUME NEW p \in Wrote(u), tx[u].mine.guest[p] # Null,
             NEW v \in Others(u), NEW k \in DOMAIN tx[v].made.place
      PROVE  tx[v].made.place[k] # tx[u].mine.guest[p].group
  BY <1>2, <1>5 DEF Apart, Homes, Wrote
<1>6. ASSUME NEW p \in Wrote(u), ~upload[u].replace, p \in Listed(list)
      PROVE  Merged(upload[u], list.guest[p], tx[u].mine.guest[p])
  BY <1>1, <1>6 DEF OwnOK, Wrote
<1>7. \A p \in Wrote(u) : p \in GuestIds /\ tx[u].mine.guest[p] \in NullOr(GuestRow)
  BY <1>1 DEF OwnOK, Wrote
<1>8. \A g \in WroteLabel(u) : g \in GroupIds /\ tx[u].mine.label[g] \in NullOr(Labels)
  BY <1>1 DEF OwnOK, WroteLabel
<1>9. \A k \in DOMAIN tx[u].made.place :
        /\ tx[u].made.place[k] \in WroteLabel(u)
        /\ tx[u].made.place[k] \notin Live(list) \cup Homes(list.guest)
        /\ \A v \in Others(u) : tx[u].made.place[k] \notin Homes(tx[v].mine.guest)
  BY <1>1, <1>2 DEF OwnOK, Apart, WroteLabel
<1>10. /\ DOMAIN tx[u] = {"todo", "scan", "made", "mine"}
       /\ DOMAIN tx[u].made = {"place", "person"} /\ DOMAIN tx[u].mine = {"label", "guest"}
  BY <1>1 DEF OwnOK
<1> QED
  BY <1>3, <1>4, <1>5, <1>6, <1>7, <1>8, <1>9, <1>10

\* Statements other than the one that creates an invitation leave it planned.
LEMMA PlannedStill ==
  ASSUME IInv, NEW u \in Uploads, upload[u].at = "write", NEW t,
         DOMAIN tx[u].made.place \subseteq DOMAIN t.made.place,
         \A s \in tx[u].todo \ t.todo :
           \A k \in Created(upload[u].plan) \ DOMAIN t.made.place :
             s # <<Opening(upload[u].file, k), 0>>
  PROVE  Planned(upload[u], t)
<1>1. Planned(upload[u], tx[u])
  BY DEF IInv
<1> QED
  BY <1>1 DEF Planned

LEMMA DeleteGroupNext ==
  ASSUME IInv, NEW u \in Uploads, NEW g \in GroupIds, DeleteGroup(u, g)
  PROVE  IInv'
<1> DEFINE gone  == IF g \in Live(list) THEN {g} ELSE {}
           scan  == tx[u].scan \ {g}
           todo  == Left(u, Clear, scan)
           label == [h \in WroteLabel(u) \cup gone |-> Null]
           guest == [p \in Wrote(u) \cup UNION {Members(list, h) : h \in gone} |-> Null]
           t     == [tx[u] EXCEPT !.todo = todo, !.scan = scan,
                                  !.mine.label = label, !.mine.guest = guest]
<1>1. /\ upload[u].at = "write" /\ Clear \in tx[u].todo /\ Deletable(g, Others(u))
      /\ Execute(u, t)
  BY DEF DeleteGroup, Executes
<1>2. UploadOK(upload[u]) /\ OwnOK(upload[u], tx[u], list)
  BY DEF IInv
<1>3. upload[u].replace
  BY <1>1, <1>2, StatementFacts DEF UploadOK, OwnOK
<1>4. \A k \in Created(upload[u].plan) : Clear # <<Opening(upload[u].file, k), 0>>
  <2> TAKE k \in Created(upload[u].plan)
  <2>1. Opening(upload[u].file, k) \in 1 .. Len(upload[u].file)
    BY <1>2, PlanFacts, OpeningFacts DEF UploadOK
  <2>2. Len(upload[u].file) \in Nat
    BY <1>2 DEF UploadOK
  <2> QED BY <2>1, <2>2 DEF Clear
<1>5. todo \subseteq tx[u].todo /\ tx[u].todo \ todo \subseteq {Clear}
  BY DEF Left
<1>6. \A p \in UNION {Members(list, h) : h \in gone} : p \in GuestIds /\ GuestFree(p, Others(u))
  BY <1>1 DEF Deletable, Members, Listed
<1>7. \A h \in gone : h \in GroupIds /\ LabelFree(h, Others(u))
  BY <1>1 DEF Deletable
<1> HIDE DEF todo, label, guest, gone, scan
<1>8. /\ DOMAIN t = {"todo", "scan", "made", "mine"}
      /\ DOMAIN t.made = {"place", "person"} /\ DOMAIN t.mine = {"label", "guest"}
      /\ t.todo = todo /\ t.made = tx[u].made /\ t.mine.label = label /\ t.mine.guest = guest
  BY SoFar
<1> HIDE DEF t
<1>9. \A p \in DOMAIN guest : /\ p \in GuestIds /\ guest[p] = Null /\ GuestFree(p, Others(u))
  BY <1>6, SoFar DEF guest
<1>10. \A h \in DOMAIN label :
         h \in GroupIds /\ label[h] = Null /\ LabelFree(h, Others(u))
  BY <1>7, SoFar DEF label
<1>11. \A k \in DOMAIN tx[u].made.place :
         /\ tx[u].made.place[k] \in DOMAIN label
         /\ tx[u].made.place[k] \notin Live(list) \cup Homes(list.guest)
         /\ \A v \in Others(u) : tx[u].made.place[k] \notin Homes(tx[v].mine.guest)
  BY SoFar DEF label
<1>12. Planned(upload[u], t)
  BY <1>1, <1>4, <1>5, <1>8, PlannedStill
<1> QED
  BY <1>1, <1>3, <1>5, <1>8, <1>9, <1>10, <1>11, <1>12, WriteNext DEF NullOr

LEMMA InsertGuestGroupNext ==
  ASSUME IInv, NEW u \in Uploads, NEW s \in tx[u].todo, InsertGuestGroup(u, s)
  PROVE  IInv'
<1> DEFINE k     == KeyOf(u, s)
           g     == Min(FreeGroups)
           todo  == tx[u].todo \ {s}
           place == With(tx[u].made.place, k, g)
           label == With(tx[u].mine.label, g, k)
           t     == [tx[u] EXCEPT !.todo = todo, !.made.place = place, !.mine.label = label]
<1>1. /\ upload[u].at = "write" /\ k \in Created(upload[u].plan) /\ FreeGroups # {}
      /\ Execute(u, t)
  <2>1. /\ upload[u].at = "write" /\ k \in Created(upload[u].plan) /\ FreeGroups # {}
    BY DEF InsertGuestGroup, Executes
  <2>2. Execute(u, [tx[u] EXCEPT !.todo = @ \ {s}, !.made.place = With(@, k, g),
                                 !.mine.label = With(@, g, k)])
    BY DEF InsertGuestGroup
  <2>3. [tx[u] EXCEPT !.todo = @ \ {s}, !.made.place = With(@, k, g),
                      !.mine.label = With(@, g, k)] = t
    OBVIOUS
  <2> QED BY <2>1, <2>2, <2>3
<1>2. UploadOK(upload[u])
  BY DEF IInv
<1>3. /\ k \in Labels
      /\ \A m \in Created(upload[u].plan) : s = <<Opening(upload[u].file, m), 0>> => m = k
  BY <1>1, <1>2, PlanFacts DEF UploadOK, KeyOf
<1>4. /\ DOMAIN label = WroteLabel(u) \cup {g} /\ label[g] = k
      /\ \A h \in WroteLabel(u) \ {g} : label[h] = tx[u].mine.label[h]
  BY DEF With, WroteLabel
<1>5. /\ DOMAIN place = DOMAIN tx[u].made.place \cup {k} /\ place[k] = g
      /\ \A m \in DOMAIN tx[u].made.place \ {k} : place[m] = tx[u].made.place[m]
  BY DEF With
<1>6. /\ g \in GroupIds /\ g \notin Live(list) \cup Homes(list.guest)
      /\ \A v \in Uploads : g \notin WroteLabel(v) \cup Homes(tx[v].mine.guest)
  BY <1>1, FreshFacts
<1>7. todo \subseteq tx[u].todo /\ tx[u].todo \ todo \subseteq {s}
  OBVIOUS
<1> HIDE DEF todo, label, place, g, k
<1>8. /\ DOMAIN t = {"todo", "scan", "made", "mine"}
      /\ DOMAIN t.made = {"place", "person"} /\ DOMAIN t.mine = {"label", "guest"}
      /\ t.todo = todo /\ t.made.place = place /\ t.mine.label = label
      /\ t.mine.guest = tx[u].mine.guest
  BY SoFar
<1> HIDE DEF t
<1>9. \A h \in DOMAIN label :
        h \in GroupIds /\ label[h] \in NullOr(Labels) /\ LabelFree(h, Others(u))
  <2> TAKE h \in DOMAIN label
  <2>1. CASE h = g
    BY <1>3, <1>4, <1>6, <2>1 DEF LabelFree, NullOr, Others
  <2>2. CASE h # g
    BY <1>4, <2>2, SoFar
  <2> QED BY <2>1, <2>2
<1>10. \A m \in DOMAIN place :
         /\ place[m] \in DOMAIN label
         /\ place[m] \notin Live(list) \cup Homes(list.guest)
         /\ \A v \in Others(u) : place[m] \notin Homes(tx[v].mine.guest)
  <2> TAKE m \in DOMAIN place
  <2>1. CASE m = k
    BY <1>4, <1>5, <1>6, <2>1 DEF Others
  <2>2. CASE m # k
    BY <1>4, <1>5, <2>2, SoFar
  <2> QED BY <2>1, <2>2
<1>11. Planned(upload[u], t)
  BY <1>1, <1>3, <1>5, <1>7, <1>8, PlannedStill
<1>12. \A p \in DOMAIN t.mine.guest :
         /\ p \in GuestIds /\ t.mine.guest[p] \in NullOr(GuestRow)
         /\ GuestFree(p, Others(u))
         /\ t.mine.guest[p] # Null =>
              \A v \in Others(u) : \A m \in DOMAIN tx[v].made.place :
                tx[v].made.place[m] # t.mine.guest[p].group
         /\ ~upload[u].replace /\ p \in Listed(list) =>
              Merged(upload[u], list.guest[p], t.mine.guest[p])
  BY <1>8, SoFar DEF Wrote
<1> QED
  BY <1>1, <1>7, <1>8, <1>9, <1>10, <1>11, <1>12, WriteNext

LEMMA UpdateLabelNext ==
  ASSUME IInv, NEW u \in Uploads, NEW s \in tx[u].todo, UpdateLabel(u, s)
  PROVE  IInv'
<1> DEFINE k     == KeyOf(u, s)
           g     == upload[u].plan[k].existing
           todo  == tx[u].todo \ {s}
           label == IF g \in Live(View(u)) THEN With(tx[u].mine.label, g, k)
                    ELSE tx[u].mine.label
           t     == [tx[u] EXCEPT !.todo = todo, !.mine.label = label]
<1>1. /\ upload[u].at = "write" /\ k \in Renamed(upload[u].plan) \ Created(upload[u].plan)
      /\ LabelFree(g, Others(u))
  BY DEF UpdateLabel, Executes
<1>2. Execute(u, t)
  <2>1. Execute(u, [tx[u] EXCEPT !.todo = @ \ {s},
                      !.mine.label = IF g \in Live(View(u)) THEN With(@, g, k) ELSE @])
    BY DEF UpdateLabel
  <2>2. [tx[u] EXCEPT !.todo = @ \ {s},
           !.mine.label = IF g \in Live(View(u)) THEN With(@, g, k) ELSE @] = t
    OBVIOUS
  <2> QED BY <2>1, <2>2
<1>3. UploadOK(upload[u])
  BY DEF IInv
<1>4. /\ k \in Labels
      /\ \A m \in Created(upload[u].plan) : s # <<Opening(upload[u].file, m), 0>>
  BY <1>1, <1>3, PlanFacts DEF UploadOK, KeyOf
<1>5. /\ WroteLabel(u) \subseteq DOMAIN label
      /\ \A h \in DOMAIN label :
           h \in GroupIds /\ label[h] \in NullOr(Labels) /\ LabelFree(h, Others(u))
  <2>1. CASE g \in Live(View(u))
    <3>1. /\ DOMAIN label = WroteLabel(u) \cup {g} /\ label[g] = k
          /\ \A h \in WroteLabel(u) \ {g} : label[h] = tx[u].mine.label[h]
      BY <2>1 DEF With, WroteLabel
    <3>2. g \in GroupIds
      BY <2>1 DEF Live
    <3> HIDE DEF label, g
    <3>3. ASSUME NEW h \in DOMAIN label
          PROVE  h \in GroupIds /\ label[h] \in NullOr(Labels) /\ LabelFree(h, Others(u))
      <4>1. CASE h = g
        BY <1>1, <1>4, <3>1, <3>2, <4>1 DEF NullOr, g
      <4>2. CASE h # g
        BY <3>1, <4>2, SoFar
      <4> QED BY <4>1, <4>2
    <3> QED BY <3>1, <3>3
  <2>2. CASE g \notin Live(View(u))
    BY <2>2, SoFar DEF WroteLabel
  <2> QED BY <2>1, <2>2
<1>6. todo \subseteq tx[u].todo /\ tx[u].todo \ todo \subseteq {s}
  OBVIOUS
<1> HIDE DEF todo, label, g, k
<1>7. /\ DOMAIN t = {"todo", "scan", "made", "mine"}
      /\ DOMAIN t.made = {"place", "person"} /\ DOMAIN t.mine = {"label", "guest"}
      /\ t.todo = todo /\ t.made = tx[u].made /\ t.mine.label = label
      /\ t.mine.guest = tx[u].mine.guest
  BY SoFar
<1> HIDE DEF t
<1>8. Planned(upload[u], t)
  BY <1>1, <1>4, <1>6, <1>7, PlannedStill
<1>9. \A p \in DOMAIN t.mine.guest :
         /\ p \in GuestIds /\ t.mine.guest[p] \in NullOr(GuestRow)
         /\ GuestFree(p, Others(u))
         /\ t.mine.guest[p] # Null =>
              \A v \in Others(u) : \A m \in DOMAIN tx[v].made.place :
                tx[v].made.place[m] # t.mine.guest[p].group
         /\ ~upload[u].replace /\ p \in Listed(list) =>
              Merged(upload[u], list.guest[p], t.mine.guest[p])
  BY <1>7, SoFar DEF Wrote
<1>10. \A m \in DOMAIN t.made.place :
         /\ t.made.place[m] \in DOMAIN t.mine.label
         /\ t.made.place[m] \notin Live(list) \cup Homes(list.guest)
         /\ \A v \in Others(u) : t.made.place[m] \notin Homes(tx[v].mine.guest)
  BY <1>5, <1>7, SoFar
<1> QED
  BY <1>1, <1>2, <1>5, <1>6, <1>7, <1>8, <1>9, <1>10, WriteNext

\* A statement that writes the row of one guest, or of nobody.
LEMMA RowNext ==
  ASSUME IInv, NEW u \in Uploads, upload[u].at = "write", NEW t, Execute(u, t),
         DOMAIN t = {"todo", "scan", "made", "mine"},
         DOMAIN t.made = {"place", "person"}, DOMAIN t.mine = {"label", "guest"},
         t.todo \subseteq tx[u].todo,
         \A s \in tx[u].todo \ t.todo : s[2] # 0,
         t.made.place = tx[u].made.place, t.mine.label = tx[u].mine.label,
         NEW p, NEW row,
         \/ t.mine.guest = tx[u].mine.guest
         \/ /\ t.mine.guest = With(tx[u].mine.guest, p, row)
            /\ p \in GuestIds /\ row \in GuestRow
            /\ GuestFree(p, Others(u))
            /\ row.group \in Live(View(u)) \cup Homes(View(u).guest)
            /\ ~upload[u].replace /\ p \in Listed(list) =>
                 Merged(upload[u], list.guest[p], row)
  PROVE  IInv'
<1>1. Planned(upload[u], t)
  <2>1. \A s \in tx[u].todo \ t.todo : \A k : s # <<Opening(upload[u].file, k), 0>>
    OBVIOUS
  <2> QED BY <2>1, PlannedStill
<1>2. \A g \in DOMAIN t.mine.label :
        g \in GroupIds /\ t.mine.label[g] \in NullOr(Labels) /\ LabelFree(g, Others(u))
  BY SoFar DEF WroteLabel
<1>3. \A k \in DOMAIN t.made.place :
        /\ t.made.place[k] \in DOMAIN t.mine.label
        /\ t.made.place[k] \notin Live(list) \cup Homes(list.guest)
        /\ \A v \in Others(u) : t.made.place[k] \notin Homes(tx[v].mine.guest)
  BY SoFar DEF WroteLabel
<1>4. ASSUME NEW q \in DOMAIN t.mine.guest
      PROVE  /\ q \in GuestIds /\ t.mine.guest[q] \in NullOr(GuestRow)
             /\ GuestFree(q, Others(u))
             /\ t.mine.guest[q] # Null =>
                  \A v \in Others(u) : \A k \in DOMAIN tx[v].made.place :
                    tx[v].made.place[k] # t.mine.guest[q].group
             /\ ~upload[u].replace /\ q \in Listed(list) =>
                  Merged(upload[u], list.guest[q], t.mine.guest[q])
  <2>1. CASE q \in Wrote(u) /\ t.mine.guest[q] = tx[u].mine.guest[q]
    BY <2>1, SoFar
  <2>2. CASE ~(q \in Wrote(u) /\ t.mine.guest[q] = tx[u].mine.guest[q])
    <3>1. /\ t.mine.guest = With(tx[u].mine.guest, p, row)
          /\ p \in GuestIds /\ row \in GuestRow
          /\ GuestFree(p, Others(u))
          /\ row.group \in Live(View(u)) \cup Homes(View(u).guest)
          /\ ~upload[u].replace /\ p \in Listed(list) =>
               Merged(upload[u], list.guest[p], row)
      BY <2>2 DEF Wrote
    <3>2. q = p /\ t.mine.guest[q] = row
      BY <2>2, <3>1 DEF With, Wrote
    <3>3. \A v \in Others(u) : \A k \in DOMAIN tx[v].made.place :
            tx[v].made.place[k] # row.group
      BY <3>1, PlacesFacts
    <3> QED BY <3>1, <3>2, <3>3 DEF NullOr
  <2> QED BY <2>1, <2>2
<1> QED
  BY <1>1, <1>2, <1>3, <1>4, WriteNext

LEMMA InsertGuestNext ==
  ASSUME IInv, NEW u \in Uploads, NEW s \in tx[u].todo, InsertGuest(u, s)
  PROVE  IInv'
<1> DEFINE i      == s[2]
           p      == Min(FreeGuests)
           row    == NewRow(u, s)
           todo   == tx[u].todo \ {s}
           person == With(tx[u].made.person, i, p)
           guest  == With(tx[u].mine.guest, p, row)
           t      == [tx[u] EXCEPT !.todo = todo, !.made.person = person, !.mine.guest = guest]
<1>1. /\ upload[u].at = "write" /\ i \in Inserted(upload[u].plan) /\ FreeGuests # {}
      /\ row.group \in Live(View(u))
  BY DEF InsertGuest, Inserts, Executes, Refused
<1>2. Execute(u, t)
  <2>1. Execute(u, [tx[u] EXCEPT !.todo = @ \ {s}, !.made.person = With(@, i, p),
                                 !.mine.guest = With(@, p, row)])
    BY DEF InsertGuest
  <2>2. [tx[u] EXCEPT !.todo = @ \ {s}, !.made.person = With(@, i, p),
                      !.mine.guest = With(@, p, row)] = t
    OBVIOUS
  <2> QED BY <2>1, <2>2
<1>3. UploadOK(upload[u])
  BY DEF IInv
<1>4. i \in 1 .. Len(upload[u].file) /\ upload[u].file[i].name \in Names
  BY <1>1, <1>3, PlanFacts DEF UploadOK
<1>5. row \in GuestRow
  <2>1. /\ row.full = upload[u].file[i].name /\ row.norm = upload[u].file[i].name
        /\ row.primary = FALSE
        /\ row = [full |-> row.full, norm |-> row.norm, group |-> row.group,
                  primary |-> row.primary]
    BY DEF NewRow, InsertImportedGuest
  <2>2. row.group \in GroupIds
    BY <1>1 DEF Live
  <2> HIDE DEF row
  <2> QED BY <1>4, <2>1, <2>2 DEF GuestRow
<1>6. /\ p \in GuestIds /\ p \notin Listed(list) /\ GuestFree(p, Others(u))
  BY <1>1, FreshFacts DEF GuestFree, Others
<1>7. todo \subseteq tx[u].todo /\ \A r \in tx[u].todo \ todo : r[2] # 0
  BY <1>4
<1> HIDE DEF todo, person, guest, row, p, i
<1>8. /\ DOMAIN t = {"todo", "scan", "made", "mine"}
      /\ DOMAIN t.made = {"place", "person"} /\ DOMAIN t.mine = {"label", "guest"}
      /\ t.todo = todo /\ t.made.place = tx[u].made.place
      /\ t.mine.label = tx[u].mine.label /\ t.mine.guest = guest
  BY SoFar
<1> HIDE DEF t
<1> QED
  BY <1>1, <1>2, <1>5, <1>6, <1>7, <1>8, RowNext DEF guest

\* The row of somebody on the list as the transaction sees it.
LEMMA SeenRow ==
  ASSUME IInv, NEW u \in Uploads, NEW p \in GuestIds, View(u).guest[p] # Null
  PROVE  /\ View(u).guest[p] \in GuestRow
         /\ View(u).guest[p].group \in Homes(View(u).guest)
         /\ ~upload[u].replace /\ p \in Listed(list) =>
              Merged(upload[u], list.guest[p], View(u).guest[p])
<1>1. View(u).guest \in [GuestIds -> NullOr(GuestRow)]
  BY ViewFacts DEF Tables
<1>2. View(u).guest[p] \in GuestRow
  BY <1>1 DEF NullOr
<1>3. View(u).guest[p].group \in Homes(View(u).guest)
  BY <1>1 DEF Homes
<1>4. ASSUME ~upload[u].replace, p \in Listed(list)
      PROVE  Merged(upload[u], list.guest[p], View(u).guest[p])
  <2>1. CASE p \in Wrote(u)
    BY <1>4, <2>1, SoFar, ViewFacts
  <2>2. CASE p \notin Wrote(u)
    <3>1. View(u).guest[p] = list.guest[p]
      BY <2>2, ViewFacts
    <3> QED BY <3>1 DEF Merged
  <2> QED BY <2>1, <2>2
<1> QED
  BY <1>2, <1>3, <1>4

LEMMA UpdateGuestNext ==
  ASSUME IInv, NEW u \in Uploads, NEW s \in tx[u].todo, UpdateGuest(u, s)
  PROVE  IInv'
<1> DEFINE plan  == upload[u].plan
           i     == s[2]
           p     == plan[KeyOf(u, s)].guests[i]
           row   == UpdateGuestIdentity(upload[u].file, plan, tx[u].made, i, View(u).guest[p])
           todo  == tx[u].todo \ {s}
           guest == IF p \notin Listed(list) THEN tx[u].mine.guest
                    ELSE With(tx[u].mine.guest, p, row)
           t     == [tx[u] EXCEPT !.todo = todo, !.mine.guest = guest]
<1>1. /\ upload[u].at = "write" /\ i \in Written(plan) \ Inserted(plan)
      /\ GuestFree(p, Others(u))
  BY DEF UpdateGuest, Executes
<1>2. Execute(u, t)
  <2>1. Execute(u, [tx[u] EXCEPT !.todo = @ \ {s},
             !.mine.guest = IF p \notin Listed(list) THEN @ ELSE With(@, p, row)])
    BY DEF UpdateGuest
  <2>2. [tx[u] EXCEPT !.todo = @ \ {s},
             !.mine.guest = IF p \notin Listed(list) THEN @ ELSE With(@, p, row)] = t
    OBVIOUS
  <2> QED BY <2>1, <2>2
<1>3. UploadOK(upload[u])
  BY DEF IInv
<1>4. /\ i \in 1 .. Len(upload[u].file) /\ upload[u].file[i].name \in Names
      /\ ~upload[u].replace
  <2>1. i \in 1 .. Len(upload[u].file) /\ upload[u].file[i].name \in Names
    BY <1>1, <1>3, PlanFacts DEF UploadOK
  <2>2. ~upload[u].replace
    BY <1>1, <1>3 DEF UploadOK, PlanOK
  <2> QED BY <2>1, <2>2
<1>5. todo \subseteq tx[u].todo /\ \A r \in tx[u].todo \ todo : r[2] # 0
  BY <1>4
<1>6. ASSUME p \in Listed(list)
      PROVE  /\ p \in GuestIds /\ row \in GuestRow
             /\ row.group \in Homes(View(u).guest)
             /\ Merged(upload[u], list.guest[p], row)
  <2> DEFINE seen == View(u).guest[p]
  <2>1. p \in GuestIds
    BY <1>6 DEF Listed
  <2>2. seen # Null
    <3>1. CASE p \in Wrote(u)
      BY <1>4, <1>6, <2>1, <3>1, SoFar, ViewFacts DEF Merged
    <3>2. CASE p \notin Wrote(u)
      BY <1>6, <2>1, <3>2, ViewFacts DEF Listed
    <3> QED BY <3>1, <3>2
  <2>3. /\ seen \in GuestRow /\ seen.group \in Homes(View(u).guest)
        /\ Merged(upload[u], list.guest[p], seen)
    BY <1>4, <1>6, <2>1, <2>2, SeenRow
  <2>4. row = [seen EXCEPT !.full = upload[u].file[i].name]
    BY DEF UpdateGuestIdentity
  <2> HIDE DEF seen, row
  <2>5. row \in GuestRow /\ row.group = seen.group /\ row.primary = seen.primary
    BY <1>4, <2>3, <2>4 DEF GuestRow
  <2> QED
    BY <2>1, <2>3, <2>5, ConstantsAssumption DEF Merged
<1> HIDE DEF todo, guest, row, p, i, plan
<1>7. /\ DOMAIN t = {"todo", "scan", "made", "mine"}
      /\ DOMAIN t.made = {"place", "person"} /\ DOMAIN t.mine = {"label", "guest"}
      /\ t.todo = todo /\ t.made.place = tx[u].made.place
      /\ t.mine.label = tx[u].mine.label /\ t.mine.guest = guest
  BY SoFar
<1> HIDE DEF t
<1>8. CASE p \notin Listed(list)
  BY <1>1, <1>2, <1>5, <1>7, <1>8, RowNext DEF guest
<1>9. CASE p \in Listed(list)
  <2>1. t.mine.guest = With(tx[u].mine.guest, p, row)
    BY <1>7, <1>9 DEF guest
  <2> QED BY <1>1, <1>2, <1>5, <1>6, <1>7, <1>9, <2>1, RowNext
<1> QED
  BY <1>8, <1>9

LEMMA FindMembersNext ==
  ASSUME IInv, NEW u \in Uploads, NEW s \in tx[u].todo, FindMembers(u, s)
  PROVE  IInv'
<1> DEFINE found == MembersSeen(u, Place(upload[u].plan, tx[u].made, KeyOf(u, s)))
           todo  == Left(u, s, found)
           t     == [tx[u] EXCEPT !.todo = todo, !.scan = found]
<1>1. /\ upload[u].at = "write" /\ s[2] = Len(upload[u].file) + 1 /\ Execute(u, t)
  BY DEF FindMembers, Executes
<1>2. Len(upload[u].file) \in Nat
  BY DEF IInv, UploadOK
<1>3. todo \subseteq tx[u].todo /\ \A r \in tx[u].todo \ todo : r[2] # 0
  BY <1>1, <1>2 DEF Left
<1> HIDE DEF found, todo
<1>4. /\ DOMAIN t = {"todo", "scan", "made", "mine"}
      /\ DOMAIN t.made = {"place", "person"} /\ DOMAIN t.mine = {"label", "guest"}
      /\ t.todo = todo /\ t.made.place = tx[u].made.place
      /\ t.mine.label = tx[u].mine.label /\ t.mine.guest = tx[u].mine.guest
  BY SoFar
<1> HIDE DEF t
<1> QED
  BY <1>1, <1>3, <1>4, RowNext

\* SetGroupPrimary of a merge is executed on an invitation that was found, with a
\* line marked for it, or on one that this transaction created.
LEMMA FlagsOnlyMarked ==
  ASSUME IInv, NEW u \in Uploads, NEW s \in tx[u].todo, Executes(u, s),
         s[2] = Len(upload[u].file) + 1, ~upload[u].replace,
         NEW g, g = Place(upload[u].plan, tx[u].made, KeyOf(u, s)), g \in Homes(list.guest)
  PROVE  Marked(upload[u], g)
<1> DEFINE rows == upload[u].file
           plan == upload[u].plan
<1>1. UploadOK(upload[u]) /\ OwnOK(upload[u], tx[u], list) /\ upload[u].at = "write"
      /\ Planned(upload[u], tx[u])
  BY DEF IInv, Executes
<1>2. s \in Statements(rows, plan) /\ Len(rows) \in Nat
  BY <1>1 DEF OwnOK, UploadOK
<1>3. PICK k \in DOMAIN plan : /\ plan[k].enforcePrimary
                               /\ s = <<Opening(rows, k), Len(rows) + 1>>
  BY <1>1, <1>2, StatementFacts DEF UploadOK
<1>4. KeyOf(u, s) = k /\ Opening(rows, k) \in Nat
  BY <1>1, <1>3, PlanFacts, OpeningFacts DEF UploadOK, KeyOf
<1>5. CASE k \in Created(plan)
  <2> DEFINE first == <<Opening(rows, k), 0>>
  <2>1. first \notin tx[u].todo
    <3> SUFFICES ASSUME first \in tx[u].todo PROVE FALSE
      OBVIOUS
    <3>1. first # s
      BY <1>2, <1>3
    <3>2. Before(s, first)
      BY <3>1 DEF Executes
    <3> QED BY <1>2, <1>3, <1>4, <3>2 DEF Before
  <2>2. k \in DOMAIN tx[u].made.place
    BY <1>1, <1>5, <2>1 DEF Planned
  <2>3. g = tx[u].made.place[k]
    BY <1>4, <1>5 DEF Place
  <2> QED BY <1>1, <2>2, <2>3 DEF OwnOK
<1>6. CASE k \notin Created(plan)
  <2>1. g = plan[k].existing /\ plan[k].existing # Null
    BY <1>3, <1>4, <1>6 DEF Place, Created
  <2> QED BY <1>1, <1>3, <2>1 DEF UploadOK, PlanOK, Marked
<1> QED
  BY <1>5, <1>6

LEMMA FlagMemberNext ==
  ASSUME IInv, NEW u \in Uploads, NEW s \in tx[u].todo, NEW p \in GuestIds, FlagMember(u, s, p)
  PROVE  IInv'
<1> DEFINE g     == Place(upload[u].plan, tx[u].made, KeyOf(u, s))
           seen  == View(u).guest[p]
           scan  == tx[u].scan \ {p}
           flag  == SetGroupPrimary(upload[u].plan, tx[u].made, KeyOf(u, s), p, seen)
           row   == [seen EXCEPT !.primary = flag]
           none  == seen = Null \/ seen.group # g
           todo  == Left(u, s, scan)
           guest == IF none THEN tx[u].mine.guest ELSE With(tx[u].mine.guest, p, row)
           t     == [tx[u] EXCEPT !.todo = todo, !.scan = scan, !.mine.guest = guest]
<1>1. /\ Executes(u, s) /\ upload[u].at = "write" /\ s[2] = Len(upload[u].file) + 1
      /\ GuestFree(p, Others(u))
  BY DEF FlagMember, Executes
<1>2. Execute(u, t)
  <2>1. Execute(u, [tx[u] EXCEPT !.todo = todo, !.scan = scan,
             !.mine.guest = IF none THEN @ ELSE With(@, p, row)])
    BY DEF FlagMember
  <2>2. [tx[u] EXCEPT !.todo = todo, !.scan = scan,
             !.mine.guest = IF none THEN @ ELSE With(@, p, row)] = t
    OBVIOUS
  <2> QED BY <2>1, <2>2
<1>3. Len(upload[u].file) \in Nat
  BY DEF IInv, UploadOK
<1>4. todo \subseteq tx[u].todo /\ \A r \in tx[u].todo \ todo : r[2] # 0
  BY <1>1, <1>3 DEF Left
<1>5. ASSUME ~none
      PROVE  /\ row \in GuestRow
             /\ row.group \in Homes(View(u).guest)
             /\ ~upload[u].replace /\ p \in Listed(list) => Merged(upload[u], list.guest[p], row)
  <2>1. /\ seen \in GuestRow /\ seen.group \in Homes(View(u).guest) /\ seen.group = g
        /\ ~upload[u].replace /\ p \in Listed(list) => Merged(upload[u], list.guest[p], seen)
    BY <1>5, SeenRow
  <2>2. flag \in BOOLEAN
    BY DEF SetGroupPrimary
  <2>3. ASSUME ~upload[u].replace, p \in Listed(list)
        PROVE  list.guest[p].group = g /\ Marked(upload[u], g)
    <3>1. list.guest[p].group = g
      BY <2>1, <2>3 DEF Merged
    <3>2. g \in Homes(list.guest)
      BY <2>3, <3>1 DEF Homes, Listed, IInv, Tables
    <3> QED BY <1>1, <2>3, <3>1, <3>2, FlagsOnlyMarked
  <2> HIDE DEF flag, seen, g
  <2>4. row \in GuestRow /\ row.group = seen.group
    BY <2>1, <2>2 DEF GuestRow
  <2> HIDE DEF row
  <2> QED
    BY <2>1, <2>3, <2>4, ConstantsAssumption DEF Merged
<1> HIDE DEF todo, guest, row, scan, none, seen, flag, g
<1>6. /\ DOMAIN t = {"todo", "scan", "made", "mine"}
      /\ DOMAIN t.made = {"place", "person"} /\ DOMAIN t.mine = {"label", "guest"}
      /\ t.todo = todo /\ t.made.place = tx[u].made.place
      /\ t.mine.label = tx[u].mine.label /\ t.mine.guest = guest
  BY SoFar
<1> HIDE DEF t
<1>7. CASE none
  BY <1>1, <1>2, <1>4, <1>6, <1>7, RowNext DEF guest
<1>8. CASE ~none
  <2>1. t.mine.guest = With(tx[u].mine.guest, p, row)
    BY <1>6, <1>8 DEF guest
  <2> QED BY <1>1, <1>2, <1>4, <1>5, <1>6, <1>8, <2>1, RowNext
<1> QED
  BY <1>7, <1>8

\* A transaction that is over leaves nothing; the list may be another if nobody
\* else's rows are.
LEMMA EndNext ==
  ASSUME IInv, NEW u \in Uploads, NEW r, UploadOK(r), r.at # "write",
         upload' = [upload EXCEPT ![u] = r], tx' = [tx EXCEPT ![u] = NoTx],
         alone' = [v \in Uploads |-> alone'[v]], ~alone'[u],
         \A v \in Others(u) : alone'[v] => alone[v],
         list' \in Tables,
         \A v \in Others(u) :
           /\ \A k \in DOMAIN tx[v].made.place :
                tx[v].made.place[k] \notin Live(list') \cup Homes(list'.guest)
           /\ \A p \in Wrote(v) : list'.guest[p] = list.guest[p],
         UNCHANGED <<imports, edits>>
  PROVE  IInv'
<1>1. /\ upload' = [v \in Uploads |-> upload'[v]]
      /\ tx' = [v \in Uploads |-> tx'[v]]
  BY DEF IInv
<1>2. /\ upload'[u] = r /\ tx'[u] = NoTx
      /\ \A v \in Others(u) : upload'[v] = upload[v] /\ tx'[v] = tx[v]
  BY DEF IInv, Others
<1>3. ASSUME NEW v \in Others(u) PROVE OwnOK(upload[v], tx[v], list')
  BY OwnKept DEF IInv, Others, Wrote
<1>4. ASSUME NEW v \in Uploads
      PROVE  /\ UploadOK(upload'[v])
             /\ OwnOK(upload'[v], tx'[v], list')
             /\ upload'[v].at = "write" => Planned(upload'[v], tx'[v])
             /\ upload'[v].at # "write" => tx'[v] = NoTx /\ ~alone'[v]
  <2>1. CASE v = u
    BY <1>2, <2>1, NoTxFacts
  <2>2. CASE v # u
    BY <1>2, <1>3, <2>2 DEF IInv, Others
  <2> QED BY <2>1, <2>2
<1>5. ASSUME NEW v \in Uploads, NEW w \in Uploads, v # w PROVE Apart(tx'[v], tx'[w])
  <2>1. CASE v = u \/ w = u
    BY <1>2, <2>1, NoTxFacts
  <2>2. CASE v # u /\ w # u
    BY <1>2, <1>5, <2>2 DEF IInv, Others
  <2> QED BY <2>1, <2>2
<1>6. imports' \in 0 .. MaxImports /\ edits' \in 0 .. MaxEdits
  BY DEF IInv
<1> QED
  BY <1>1, <1>4, <1>5, <1>6 DEF IInv

LEMMA OverNext ==
  ASSUME IInv, NEW u \in Uploads, Over(u)
  PROVE  IInv'
<1>1. \A v \in Others(u) :
        /\ \A k \in DOMAIN tx[v].made.place :
             tx[v].made.place[k] \notin Live(list) \cup Homes(list.guest)
        /\ \A p \in Wrote(v) : list.guest[p] = list.guest[p]
  BY PlacesFacts
<1>2. list' = list /\ list \in Tables /\ UNCHANGED <<imports, edits>>
  BY DEF Over, IInv
<1>3. /\ alone' = [v \in Uploads |-> alone'[v]] /\ ~alone'[u]
      /\ \A v \in Others(u) : alone'[v] => alone[v]
  BY DEF Over, IInv, Others
<1>4. UploadOK(Idle) /\ Idle.at # "write"
  BY IdleOK DEF Idle
<1>5. upload' = [upload EXCEPT ![u] = Idle] /\ tx' = [tx EXCEPT ![u] = NoTx]
  BY DEF Over
<1> QED
  BY <1>1, <1>2, <1>3, <1>4, <1>5, EndNext

LEMMA CommitNext ==
  ASSUME IInv, NEW u \in Uploads, Commit(u)
  PROVE  IInv'
<1>1. ASSUME NEW v \in Others(u)
      PROVE  /\ \A k \in DOMAIN tx[v].made.place :
                  tx[v].made.place[k] \notin Live(View(u)) \cup Homes(View(u).guest)
             /\ \A p \in Wrote(v) : View(u).guest[p] = list.guest[p]
  <2>1. \A p \in Wrote(v) : p \in GuestIds /\ p \notin Wrote(u)
    BY SoFar DEF GuestFree, Others
  <2> QED BY <2>1, PlacesFacts, ViewFacts
<1>2. list' = View(u) /\ View(u) \in Tables /\ UNCHANGED <<imports, edits>>
  BY ViewFacts DEF Commit
<1>3. /\ alone' = [v \in Uploads |-> alone'[v]] /\ \A v \in Uploads : ~alone'[v]
  BY DEF Commit
<1>4. UploadOK([Idle EXCEPT !.at = "report"]) /\ [Idle EXCEPT !.at = "report"].at # "write"
  BY IdleOK DEF Idle
<1>5. /\ upload' = [upload EXCEPT ![u] = [Idle EXCEPT !.at = "report"]]
      /\ tx' = [tx EXCEPT ![u] = NoTx]
  BY DEF Commit
<1> QED
  BY <1>1, <1>2, <1>3, <1>4, <1>5, EndNext DEF Others

LEMMA ImportNext ==
  ASSUME IInv, ImportStep
  PROVE  IInv'
<1>1. PICK u \in Uploads :
        \/ Ready(u) /\ \E file \in Files : ListGroups(u, file) \/ Replace(u, file)
        \/ ListGuests(u)
        \/ Begin(u)
        \/ \E g \in GroupIds : DeleteGroup(u, g)
        \/ \E s \in tx[u].todo :
             \/ InsertGuestGroup(u, s)
             \/ UpdateLabel(u, s)
             \/ InsertGuest(u, s)
             \/ UpdateGuest(u, s)
             \/ FindMembers(u, s)
             \/ \E p \in GuestIds : FlagMember(u, s, p)
             \/ Rollback(u, s)
        \/ Commit(u)
        \/ SaveReport(u)
        \/ Abort(u)
  BY DEF ImportStep
<1>2. CASE Ready(u) /\ \E file \in Files : ListGroups(u, file) \/ Replace(u, file)
  BY <1>2, ListGroupsNext, ReplaceNext
<1>3. CASE \E s \in tx[u].todo :
             \/ InsertGuestGroup(u, s)
             \/ UpdateLabel(u, s)
             \/ InsertGuest(u, s)
             \/ UpdateGuest(u, s)
             \/ FindMembers(u, s)
             \/ \E p \in GuestIds : FlagMember(u, s, p)
             \/ Rollback(u, s)
  BY <1>3, InsertGuestGroupNext, UpdateLabelNext, InsertGuestNext, UpdateGuestNext,
     FindMembersNext, FlagMemberNext, OverNext DEF Rollback
<1>4. CASE Commit(u) \/ SaveReport(u) \/ Abort(u)
  BY <1>4, CommitNext, OverNext DEF SaveReport, Abort
<1> QED
  BY <1>1, <1>2, <1>3, <1>4, ListGuestsNext, BeginNext, DeleteGroupNext

-----------------------------------------------------------------------------
\* The writes of the rest of the API.

LEMMA EditNext ==
  ASSUME IInv, edits < MaxEdits, NEW t \in Tables, Edit(t),
         \A u \in Uploads :
           /\ \A k \in DOMAIN tx[u].made.place :
                tx[u].made.place[k] \notin Live(t) \cup Homes(t.guest)
           /\ \A p \in Wrote(u) : t.guest[p] = list.guest[p]
  PROVE  IInv'
<1>1. /\ list' = t /\ upload' = upload /\ tx' = tx /\ imports' = imports
      /\ alone' = [u \in Uploads |-> FALSE] /\ edits' = edits + 1
  BY DEF Edit
<1>2. ASSUME NEW u \in Uploads PROVE OwnOK(upload[u], tx[u], t)
  BY OwnKept DEF IInv, Wrote
<1>3. edits' \in 0 .. MaxEdits
  BY <1>1, BoundsAssumption DEF IInv
<1> QED
  BY <1>1, <1>2, <1>3 DEF IInv

\* The label of an invitation that no transaction created.
LEMMA LabelEdit ==
  ASSUME IInv, edits < MaxEdits, NEW g \in GroupIds, NEW label \in NullOr(Labels),
         label = Null \/ \A u \in Uploads : \A k \in DOMAIN tx[u].made.place :
                           tx[u].made.place[k] # g,
         Edit([list EXCEPT !.label[g] = label])
  PROVE  IInv'
<1> DEFINE t == [list EXCEPT !.label[g] = label]
<1>1. /\ list.label \in [GroupIds -> NullOr(Labels)] /\ list.guest \in [GuestIds -> NullOr(GuestRow)]
      /\ list \in Tables
  BY DEF IInv, Tables
<1>2. /\ t \in Tables /\ t.guest = list.guest /\ t.label[g] = label
      /\ \A h \in GroupIds \ {g} : t.label[h] = list.label[h]
  BY <1>1 DEF Tables
<1> HIDE DEF t
<1>3. ASSUME NEW u \in Uploads, NEW k \in DOMAIN tx[u].made.place
      PROVE  tx[u].made.place[k] \notin Live(t) \cup Homes(t.guest)
  <2>1. tx[u].made.place[k] \notin Live(list) \cup Homes(list.guest)
    BY SoFar
  <2> QED BY <1>2, <2>1 DEF Live
<1> QED
  BY <1>2, <1>3, EditNext DEF t

\* The row of a guest that no transaction wrote, on an invitation people see or on
\* that they were on.
LEMMA RowEdit ==
  ASSUME IInv, edits < MaxEdits, NEW p \in GuestIds, NEW row \in NullOr(GuestRow),
         GuestFree(p, Uploads),
         row # Null => row.group \in Live(list) \cup Homes(list.guest),
         Edit([list EXCEPT !.guest[p] = row])
  PROVE  IInv'
<1> DEFINE t == [list EXCEPT !.guest[p] = row]
<1>1. /\ list.label \in [GroupIds -> NullOr(Labels)] /\ list.guest \in [GuestIds -> NullOr(GuestRow)]
      /\ list \in Tables
  BY DEF IInv, Tables
<1>2. /\ t \in Tables /\ t.label = list.label /\ t.guest[p] = row
      /\ \A q \in GuestIds \ {p} : t.guest[q] = list.guest[q]
      /\ DOMAIN t.guest = GuestIds /\ DOMAIN list.guest = GuestIds
  BY <1>1 DEF Tables
<1> HIDE DEF t
<1>3. ASSUME NEW u \in Uploads, NEW k \in DOMAIN tx[u].made.place
      PROVE  tx[u].made.place[k] \notin Live(t) \cup Homes(t.guest)
  <2>1. tx[u].made.place[k] \notin Live(list) \cup Homes(list.guest)
    BY SoFar
  <2>2. Homes(t.guest) \subseteq Homes(list.guest) \cup Live(list)
    BY <1>2 DEF Homes
  <2> QED BY <1>2, <2>1, <2>2 DEF Live
<1>4. \A u \in Uploads : \A q \in Wrote(u) : t.guest[q] = list.guest[q]
  BY <1>2, SoFar DEF GuestFree
<1> QED
  BY <1>2, <1>3, <1>4, EditNext DEF t

LEMMA EditStepNext ==
  ASSUME IInv, EditStep
  PROVE  IInv'
<1>1. /\ edits < MaxEdits
      /\ list.label \in [GroupIds -> NullOr(Labels)] /\ list.guest \in [GuestIds -> NullOr(GuestRow)]
      /\ list \in Tables
  BY DEF EditStep, IInv, Tables
<1>2. \A p \in Listed(list) :
        p \in GuestIds /\ list.guest[p] \in GuestRow /\ list.guest[p].group \in Homes(list.guest)
  BY <1>1 DEF Listed, Homes, NullOr
<1>3. \A g \in Live(list) : \A u \in Uploads : \A k \in DOMAIN tx[u].made.place :
        tx[u].made.place[k] # g
  BY SoFar
<1>4. Null \in NullOr(Labels) /\ Null \in NullOr(GuestRow)
  BY DEF NullOr
<1>5. ASSUME NEW label \in Labels, NewGroup(label) PROVE IInv'
  <2>1. Min(FreeGroups) \in GroupIds /\ \A u \in Uploads : Min(FreeGroups) \notin WroteLabel(u)
    BY <1>5, FreshFacts DEF NewGroup
  <2>2. \A u \in Uploads : \A k \in DOMAIN tx[u].made.place :
          tx[u].made.place[k] # Min(FreeGroups)
    BY <2>1, SoFar
  <2> QED BY <1>1, <1>5, <2>1, <2>2, LabelEdit DEF NewGroup, NullOr
<1>6. ASSUME NEW g \in Live(list), NEW label \in Labels, RenameGroup(g, label) PROVE IInv'
  BY <1>1, <1>3, <1>6, LabelEdit DEF RenameGroup, NullOr, Live
<1>7. ASSUME NEW g \in Live(list), DeleteGroupIfEmpty(g) PROVE IInv'
  BY <1>1, <1>4, <1>7, LabelEdit DEF DeleteGroupIfEmpty, Live
<1>8. ASSUME NEW g \in Live(list), NEW name \in Names, NEW primary \in BOOLEAN,
             NewGuest(name, g, primary)
      PROVE  IInv'
  <2> DEFINE row == [full |-> name, norm |-> name, group |-> g, primary |-> primary]
  <2>1. row \in GuestRow /\ row.group = g
    BY DEF GuestRow, Live
  <2>2. Min(FreeGuests) \in GuestIds /\ GuestFree(Min(FreeGuests), Uploads)
    BY <1>8, FreshFacts DEF NewGuest, GuestFree
  <2>3. Edit([list EXCEPT !.guest[Min(FreeGuests)] = row])
    BY <1>8 DEF NewGuest
  <2> HIDE DEF row
  <2> QED BY <1>1, <2>1, <2>2, <2>3, RowEdit DEF NullOr
<1>9. ASSUME NEW p \in Listed(list), NEW name \in Names, UpdateGuestDetails(p, name) PROVE IInv'
  <2> DEFINE row == [list.guest[p] EXCEPT !.full = name, !.norm = name]
  <2>1. row \in GuestRow /\ row.group = list.guest[p].group
    BY <1>2 DEF GuestRow
  <2>2. [list EXCEPT !.guest[p].full = name, !.guest[p].norm = name]
          = [list EXCEPT !.guest[p] = row]
    BY <1>1, <1>2
  <2>3. Edit([list EXCEPT !.guest[p] = row]) /\ GuestFree(p, Uploads)
    BY <1>9, <2>2 DEF UpdateGuestDetails
  <2> HIDE DEF row
  <2> QED BY <1>1, <1>2, <2>1, <2>3, RowEdit DEF NullOr
<1>10. ASSUME NEW p \in Listed(list), DeleteGuest(p) PROVE IInv'
  BY <1>1, <1>2, <1>4, <1>10, RowEdit DEF DeleteGuest
<1>11. ASSUME NEW p \in Listed(list), NEW g \in Live(list), NEW primary \in BOOLEAN,
              MoveGuest(p, g, primary)
       PROVE  IInv'
  <2> DEFINE row == [list.guest[p] EXCEPT !.group = g, !.primary = primary]
  <2>1. row \in GuestRow /\ row.group = g
    BY <1>2 DEF GuestRow, Live
  <2>2. [list EXCEPT !.guest[p].group = g, !.guest[p].primary = primary]
          = [list EXCEPT !.guest[p] = row]
    BY <1>1, <1>2
  <2>3. Edit([list EXCEPT !.guest[p] = row]) /\ GuestFree(p, Uploads)
    BY <1>11, <2>2 DEF MoveGuest
  <2> HIDE DEF row
  <2> QED BY <1>1, <1>2, <2>1, <2>3, RowEdit DEF NullOr
<1>12. ASSUME NEW p \in Listed(list), NEW primary \in BOOLEAN, FlagGuest(p, primary) PROVE IInv'
  <2> DEFINE row == [list.guest[p] EXCEPT !.primary = primary]
  <2>1. row \in GuestRow /\ row.group = list.guest[p].group
    BY <1>2 DEF GuestRow
  <2>2. Edit([list EXCEPT !.guest[p] = row]) /\ GuestFree(p, Uploads)
    BY <1>12 DEF FlagGuest
  <2> HIDE DEF row
  <2> QED BY <1>1, <1>2, <2>1, <2>2, RowEdit DEF NullOr
<1>13. \/ \E label \in Labels : NewGroup(label)
       \/ \E g \in Live(list) :
            \/ \E label \in Labels : RenameGroup(g, label)
            \/ DeleteGroupIfEmpty(g)
            \/ \E name \in Names, primary \in BOOLEAN : NewGuest(name, g, primary)
       \/ \E p \in Listed(list) :
            \/ \E name \in Names : UpdateGuestDetails(p, name)
            \/ DeleteGuest(p)
            \/ \E g \in Live(list), primary \in BOOLEAN : MoveGuest(p, g, primary)
            \/ \E primary \in BOOLEAN : FlagGuest(p, primary)
  BY DEF EditStep
<1> QED
  BY <1>5, <1>6, <1>7, <1>8, <1>9, <1>10, <1>11, <1>12, <1>13

LEMMA InvNext == IInv /\ [Next]_vars => IInv'
<1> SUFFICES ASSUME IInv, [Next]_vars PROVE IInv'
  OBVIOUS
<1>1. CASE Next
  BY <1>1, ImportNext, EditStepNext DEF Next
<1>2. CASE UNCHANGED vars
  BY <1>2 DEF vars, IInv, OwnOK, Planned, Live, Listed
<1> QED
  BY <1>1, <1>2

\* The invariant holds in every state: a transaction that merges has written of
\* people on the list only rows that are theirs still, on the invitation they are
\* on, and nobody is on an invitation that another transaction created.
THEOREM SafetyInvariant == Spec => []IInv
<1> QED
  BY InvInit, InvNext, PTL DEF Spec

LEMMA InvTypeOK == IInv => TypeOK
<1> SUFFICES ASSUME IInv PROVE TypeOK
  OBVIOUS
<1>1. /\ list.label \in [GroupIds -> NullOr(Labels)] /\ list.guest \in [GuestIds -> NullOr(GuestRow)]
      /\ imports \in 0 .. MaxImports /\ edits \in 0 .. MaxEdits
  BY DEF IInv, Tables
<1>2. ASSUME NEW u \in Uploads
      PROVE  /\ upload[u].at \in Stages
             /\ upload[u].at # "write" => tx[u] = NoTx /\ ~alone[u]
  BY DEF IInv, UploadOK
<1>3. ASSUME NEW u \in Uploads
      PROVE  /\ \A p \in Wrote(u) : p \in GuestIds /\ tx[u].mine.guest[p] \in NullOr(GuestRow)
             /\ \A g \in WroteLabel(u) : g \in GroupIds /\ tx[u].mine.label[g] \in NullOr(Labels)
  BY SoFar
<1>4. ASSUME NEW u \in Uploads, NEW v \in Others(u)
      PROVE  Wrote(u) \cap Wrote(v) = {} /\ WroteLabel(u) \cap WroteLabel(v) = {}
  BY DEF IInv, Apart, Others, Wrote, WroteLabel
<1> QED
  BY <1>1, <1>2, <1>3, <1>4 DEF TypeOK, Stages

\* Only a transaction under way has written rows, they are rows of the tables'
\* types, and no row is written by two transactions that are both under way.
THEOREM TypeCorrect == Spec => []TypeOK
<1> QED
  BY SafetyInvariant, InvTypeOK, PTL

\* What the commit of a merge makes of somebody on the list.
LEMMA CommitMerges ==
  ASSUME IInv, NEW u \in Uploads, Commit(u), ~upload[u].replace, NEW p \in Listed(list)
  PROVE  p \in Listed(list') /\ Merged(upload[u], list.guest[p], list'.guest[p])
<1>1. p \in GuestIds /\ list.guest[p] # Null /\ list' = View(u)
  BY DEF Listed, Commit
<1>2. CASE p \in Wrote(u)
  BY <1>1, <1>2, SoFar, ViewFacts DEF Merged, Listed
<1>3. CASE p \notin Wrote(u)
  <2>1. list'.guest[p] = list.guest[p]
    BY <1>1, <1>3, ViewFacts
  <2> QED BY <1>1, <2>1 DEF Merged, Listed
<1> QED
  BY <1>2, <1>3

\* An import that commits was writing, and its step is its Commit.
LEMMA CommitsCommit ==
  ASSUME IInv, [Next]_vars, NEW u \in Uploads, Commits(u)
  PROVE  Commit(u)
<1>1. upload' # upload /\ upload[u].at = "write" /\ upload'[u].at = "report"
  BY DEF Commits
<1>2. ImportStep
  BY <1>1 DEF Next, vars, EditStep, Edit, NewGroup, RenameGroup, DeleteGroupIfEmpty, NewGuest,
     UpdateGuestDetails, DeleteGuest, MoveGuest, FlagGuest
<1>3. PICK v \in Uploads :
        \/ Ready(v) /\ \E file \in Files : ListGroups(v, file) \/ Replace(v, file)
        \/ ListGuests(v)
        \/ Begin(v)
        \/ \E g \in GroupIds : DeleteGroup(v, g)
        \/ \E s \in tx[v].todo :
             \/ InsertGuestGroup(v, s)
             \/ UpdateLabel(v, s)
             \/ InsertGuest(v, s)
             \/ UpdateGuest(v, s)
             \/ FindMembers(v, s)
             \/ \E p \in GuestIds : FlagMember(v, s, p)
             \/ Rollback(v, s)
        \/ Commit(v)
        \/ SaveReport(v)
        \/ Abort(v)
  BY <1>2 DEF ImportStep
<1>4. \A w \in Uploads \ {v} : \A r : upload' = [upload EXCEPT ![v] = r] => upload'[w] = upload[w]
  BY DEF IInv
<1>5. \E r : upload' = [upload EXCEPT ![v] = r]
  <2>1. CASE Ready(v) /\ \E file \in Files : ListGroups(v, file) \/ Replace(v, file)
    BY <2>1 DEF ListGroups, Replace, Request
  <2>2. CASE ListGuests(v) \/ Begin(v)
    BY <2>2 DEF ListGuests, Begin
  <2>3. CASE Commit(v) \/ SaveReport(v) \/ Abort(v) \/ \E s \in tx[v].todo : Rollback(v, s)
    BY <2>3 DEF Commit, SaveReport, Abort, Rollback, Over
  <2>4. CASE upload' = upload
    BY <1>1, <2>4
  <2> QED
    BY <1>3, <2>1, <2>2, <2>3, <2>4 DEF DeleteGroup, InsertGuestGroup, UpdateLabel, InsertGuest,
       UpdateGuest, FindMembers, FlagMember, Execute
<1>6. u = v
  BY <1>1, <1>4, <1>5
<1>7. Commit(v) \/ upload'[v].at \in {"groups", "begin", "write", "idle"}
  <2>1. v \in DOMAIN upload /\ DOMAIN upload[v] = {"at", "file", "replace", "snap", "plan"}
    BY DEF IInv, UploadOK
  <2>2. CASE Ready(v) /\ \E file \in Files : ListGroups(v, file) \/ Replace(v, file)
    BY <2>1, <2>2 DEF ListGroups, Replace, Request
  <2>3. CASE ListGuests(v) \/ Begin(v)
    BY <2>1, <2>3 DEF ListGuests, Begin
  <2>4. CASE SaveReport(v) \/ Abort(v) \/ \E s \in tx[v].todo : Rollback(v, s)
    BY <2>1, <2>4 DEF SaveReport, Abort, Rollback, Over, Idle
  <2>5. CASE upload' = upload
    BY <1>1, <2>5
  <2> QED
    BY <1>3, <2>2, <2>3, <2>4, <2>5 DEF DeleteGroup, InsertGuestGroup, UpdateLabel, InsertGuest,
       UpdateGuest, FindMembers, FlagMember, Execute
<1> QED
  BY <1>1, <1>6, <1>7

\* The report's promise, for any number of imports and edits at once: a merge
\* deletes nobody and moves nobody, however old the snapshot it was planned against
\* and whatever the guests service and other imports write between its statements.
THEOREM NobodyEverMoved == Spec => NobodyMoved
<1>1. IInv /\ [Next]_vars =>
        [\A u \in Uploads : Commits(u) /\ ~upload[u].replace =>
           \A p \in Listed(list) :
             p \in Listed(list') /\ list'.guest[p].group = list.guest[p].group]_vars
  BY CommitsCommit, CommitMerges DEF Merged
<1> QED
  BY <1>1, SafetyInvariant, PTL DEF Spec, NobodyMoved

LEMMA HeadsOnCommit ==
  ASSUME IInv, [Next]_vars, NEW u \in Uploads, Commits(u), ~upload[u].replace,
         NEW g \in Live(list), ~Marked(upload[u], g), NEW p \in Heads(list, g)
  PROVE  /\ p \in Listed(list')
         /\ list'.guest[p].group = g /\ list'.guest[p].primary
<1>1. p \in Listed(list) /\ list.guest[p].group = g /\ list.guest[p].primary
  BY DEF Heads, Members
<1>2. /\ p \in Listed(list') /\ list'.guest[p].group = list.guest[p].group
      /\ list.guest[p].primary /\ ~list'.guest[p].primary => Marked(upload[u], list.guest[p].group)
  BY <1>1, CommitsCommit, CommitMerges DEF Merged
<1> QED
  BY <1>1, <1>2

\* EnforcePrimary's comment, for any number of imports and edits at once: whoever
\* heads an invitation when a merge commits still does, unless a line of its file is
\* marked for that invitation.
THEOREM HeadsKeptUnlessMarked == Spec => HeadsMoveOnlyByMark
<1>1. IInv /\ [Next]_vars =>
        [\A u \in Uploads : Commits(u) /\ ~upload[u].replace =>
           LET plan == upload[u].plan IN
           \A g \in Live(list) :
             \/ Heads(list, g) \subseteq Heads(list', g)
             \/ \E k \in DOMAIN plan :
                  /\ plan[k].existing = g
                  /\ \E i \in DOMAIN plan[k].guests : upload[u].file[i].principal]_vars
  BY HeadsOnCommit DEF Marked, Heads, Members
<1> QED
  BY <1>1, SafetyInvariant, PTL DEF Spec, HeadsMoveOnlyByMark
=============================================================================
