----------------------------- MODULE ImportPlan -----------------------------
(***************************************************************************)
(* What the importer (internal/importer) makes of a spreadsheet.  The rows *)
(* are reconciled with a snapshot of the guest list, and the plan that     *)
(* comes of it is written row by row.  Reconcile is a pure function; what  *)
(* it returns and what its plan comes to are operators of the rows, the    *)
(* snapshot and the tables.                                                *)
(*                                                                         *)
(* Importer is an import that has the list for itself, ImportTransaction   *)
(* the statements of several among the writes of the rest of the API.      *)
(*                                                                         *)
(* Names and labels stand for their normalized forms.  Categories, notes   *)
(* and the other columns are left out, and so are the RSVP answers: no     *)
(* decision reads them and no statement of the importer writes an answer.  *)
(***************************************************************************)
EXTENDS Integers, Sequences, FiniteSets, FiniteSetsExt

CONSTANTS
  GuestIds,    \* given out in order, and so are the ids of invitations
  GroupIds,
  Names,       \* normalized full names
  Labels,      \* normalized labels of invitations; a name is one
  Files,       \* spreadsheets that may be uploaded, as sequences of rows
  Lists,       \* guest lists there may be at the start
  Null

NullOr(S) == S \cup {Null}

Row      == [name : NullOr(Names), convite : NullOr(Labels), principal : BOOLEAN]
GuestRow == [full : Names, norm : Names, group : GroupIds, primary : BOOLEAN]
Tables   == [label : [GroupIds -> NullOr(Labels)], guest : [GuestIds -> NullOr(GuestRow)]]

ASSUME ConstantsAssumption ==
  /\ GuestIds \subseteq Nat /\ IsFiniteSet(GuestIds)
  /\ GroupIds \subseteq Nat /\ IsFiniteSet(GroupIds)
  /\ Names \subseteq Labels
  /\ Files \subseteq Seq(Row)
  /\ Lists \subseteq Tables
  /\ Null \notin Labels \cup GroupIds \cup GuestIds \cup GuestRow

Live(t)       == {g \in GroupIds : t.label[g] # Null}
Listed(t)     == {p \in GuestIds : t.guest[p] # Null}
Members(t, g) == {p \in Listed(t) : t.guest[p].group = g}
Heads(t, g)   == {p \in Members(t, g) : t.guest[p].primary}
NamesOf(t)    == {t.guest[p].norm : p \in Listed(t)}

\* The schema: a guest's invitation exists, and normalized names are unique.
ASSUME SchemaAssumption ==
  \A t \in Lists : \A p \in Listed(t) :
    /\ t.guest[p].group \in Live(t)
    /\ \A q \in Listed(t) : t.guest[p].norm = t.guest[q].norm => p = q

NoTables == [label |-> [g \in GroupIds |-> Null], guest |-> [p \in GuestIds |-> Null]]

-----------------------------------------------------------------------------
\* Snapshots.  Of invitations with the same label Reconcile keeps the first,
\* in an order the query does not ask for.

FirstOfEachLabel(t) ==
  {S \in SUBSET Live(t) :
     \A g \in Live(t) : Cardinality({h \in S : t.label[h] = t.label[g]}) = 1}

Snapshots(t) ==
  {[label |-> [g \in S |-> t.label[g]], guest |-> t.guest] : S \in FirstOfEachLabel(t)}

NoSnapshot == [label |-> <<>>, guest |-> NoTables.guest]

-----------------------------------------------------------------------------
\* Reconcile: the plan for the rows of a file and a snapshot.

\* Zero or one element, as a value.
Only(S) == IF S = {} THEN Null ELSE CHOOSE x \in S : TRUE

\* The lines that count: named, and the first of their name.
Lines(rows) ==
  {i \in DOMAIN rows :
     /\ rows[i].name # Null
     /\ \A j \in 1 .. i - 1 : rows[j].name # rows[i].name}

\* A guest without a convite is an invitation of their own.
Key(row) == IF row.convite = Null THEN row.name ELSE row.convite

Keys(rows)       == {Key(rows[i]) : i \in Lines(rows)}
LinesOf(rows, k) == {i \in Lines(rows) : Key(rows[i]) = k}
Opening(rows, k) == Min(LinesOf(rows, k))

\* At most one each: a guest and their invitation by name, an invitation by label.
Known(snap, name)    == {p \in GuestIds : snap.guest[p] # Null /\ snap.guest[p].norm = name}
PlaceOf(snap, name)  == {snap.guest[p].group : p \in Known(snap, name)}
ByLabel(snap, label) == {g \in DOMAIN snap.label : snap.label[g] = label}

Size(snap, g) == Cardinality({p \in GuestIds : snap.guest[p] # Null /\ snap.guest[p].group = g})

\* The invitation most lines of k are on, the first to reach that many if there
\* are several, provided it is two lines at least and half its people.
InferGroupByMembers(rows, k, snap) ==
  LET known    == {i \in LinesOf(rows, k) : Known(snap, rows[i].name) # {}}
      place    == [i \in known |-> PlaceOf(snap, rows[i].name)]
      count(i) == Cardinality({j \in known : j <= i /\ place[j] = place[i]})
      best     == {i \in known :
                     \A j \in known \ {i} :
                       \/ count(j) < count(i)
                       \/ count(j) = count(i) /\ i < j}
  IN  {g \in UNION {place[i] : i \in best} :
         \A i \in best : count(i) >= 2 /\ count(i) * 2 >= Size(snap, g)}

\* The existing invitation, if any, of the lines that line i opens: the one with
\* their label, else the one they are on, unless it is claimed.
Target(rows, snap, i, claimed) ==
  LET k       == Key(rows[i])
      byLabel == ByLabel(snap, k) \ claimed
  IN  IF i \notin Lines(rows) \/ i # Opening(rows, k) THEN {}
      ELSE IF byLabel # {} THEN byLabel
      ELSE InferGroupByMembers(rows, k, snap) \ claimed

\* The lines are gone through in order; earlier ones claim their invitation.
Targets(rows, snap) ==
  LET target[i \in DOMAIN rows] ==
        Target(rows, snap, i, UNION {target[j] : j \in {j \in Lines(rows) : j < i}})
  IN target

\* Variant: a name that lives on another invitation is not refused.
SurvivorsWithHomonyms(rows, snap, k, target) == LinesOf(rows, k)

\* A name that lives on another invitation is a conflict, not a write.
Survivors(rows, snap, k, target) ==
  {i \in LinesOf(rows, k) : PlaceOf(snap, rows[i].name) \subseteq target}

\* Variant: the choice of a primary is always written.
EnforcePrimaryAlways(marked, target) == TRUE

\* Variant: a new invitation is not excepted.
EnforcePrimaryMarked(marked, target) == marked # {}

EnforcePrimary(marked, target) == marked # {} \/ target = {}

GroupPlan(rows, snap, k, target) ==
  LET lines  == Survivors(rows, snap, k, target)
      marked == {i \in lines : rows[i].principal}
  IN  [existing       |-> Only(target),
       updateLabel    |-> target \notin {{}, ByLabel(snap, k)},
       enforcePrimary |-> EnforcePrimary(marked, target),
       primary        |-> Min(IF marked = {} THEN lines ELSE marked),
       guests         |-> [i \in lines |-> Only(Known(snap, rows[i].name))]]

\* A plan for each group of lines of which any is left to write.
Reconcile(rows, snap) ==
  LET targets    == Targets(rows, snap)
      target(k)  == targets[Opening(rows, k)]
  IN  [k \in {k \in Keys(rows) : Survivors(rows, snap, k, target(k)) # {}} |->
         GroupPlan(rows, snap, k, target(k))]

Created(plan)  == {k \in DOMAIN plan : plan[k].existing = Null}
Renamed(plan)  == {k \in DOMAIN plan : plan[k].updateLabel}
Written(plan)  == UNION {DOMAIN plan[k].guests : k \in DOMAIN plan}
Inserted(plan) ==
  UNION {{i \in DOMAIN plan[k].guests : plan[k].guests[i] = Null} : k \in DOMAIN plan}

-----------------------------------------------------------------------------
\* The writes of a plan.  made gives the ids the database returned: the
\* invitation created for a key, the guest inserted for a line.

\* No id is given out again while a snapshot remembers it.
Remembered(snap) ==
  DOMAIN snap.label \cup {snap.guest[p].group : p \in {p \in GuestIds : snap.guest[p] # Null}}

\* The invitation the plan for k is written to.
Place(plan, made, k) == IF k \in Created(plan) THEN made.place[k] ELSE plan[k].existing

\* The guest that line i, of the plan for k, is written to.
Person(plan, made, k, i) ==
  IF i \in Inserted(plan) THEN made.person[i] ELSE plan[k].guests[i]

InsertImportedGuest(rows, plan, made, i) ==
  [full |-> rows[i].name, norm |-> rows[i].name,
   group |-> Place(plan, made, Key(rows[i])), primary |-> FALSE]

\* Variant: the guest is put on the invitation the plan is for.
UpdateGuestMoving(rows, plan, made, i, guest) ==
  [guest EXCEPT !.full = rows[i].name, !.group = Place(plan, made, Key(rows[i]))]

\* The normalized name is not among the columns it sets.
UpdateGuestIdentity(rows, plan, made, i, guest) == [guest EXCEPT !.full = rows[i].name]

\* The flag of p, a member of the invitation the plan for k is written to.
SetGroupPrimary(plan, made, k, p, guest) == p = Person(plan, made, k, plan[k].primary)

-----------------------------------------------------------------------------
\* What all of them together make of the tables t.

\* Variant: an invitation found by its members keeps its label.
UpdateNoGroupLabel(plan, made, t, g) == {k \in Created(plan) : Place(plan, made, k) = g}

\* The label the plan gives to g, if it gives one.
UpdateGroupLabel(plan, made, t, g) ==
  {k \in Created(plan) \cup Renamed(plan) :
     Place(plan, made, k) = g /\ (k \in Created(plan) \/ g \in Live(t))}

\* The row that line i is written to; an update of nobody does nothing.
WriteLine(rows, plan, made, i, guest) ==
  IF i \in Inserted(plan)
  THEN InsertImportedGuest(rows, plan, made, i)
  ELSE IF guest = Null THEN Null ELSE UpdateGuestIdentity(rows, plan, made, i, guest)

\* One statement for each invitation, over all its members.
Heading(plan, made, p, guest) ==
  LET said == {k \in DOMAIN plan :
                 plan[k].enforcePrimary /\ guest.group = Place(plan, made, k)} IN
  IF said = {} THEN guest.primary
  ELSE \E k \in said : SetGroupPrimary(plan, made, k, p, guest)

Applied(rows, plan, made, t) ==
  [label |-> [g \in GroupIds |->
                LET label == UpdateGroupLabel(plan, made, t, g) IN
                IF label = {} THEN t.label[g] ELSE Only(label)],
   guest |-> [p \in GuestIds |->
                LET lines == {i \in Written(plan) : Person(plan, made, Key(rows[i]), i) = p}
                    guest == IF lines = {} THEN t.guest[p]
                             ELSE WriteLine(rows, plan, made, Min(lines), t.guest[p])
                IN  IF guest = Null THEN Null
                    ELSE [guest EXCEPT !.primary = Heading(plan, made, p, guest)]]]
=============================================================================
