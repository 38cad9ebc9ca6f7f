---------------------------- MODULE Invitations ----------------------------
(***************************************************************************)
(* The guest list (internal/guests): who sits on which invitation, who     *)
(* heads it, who was gathered in by a guest, and what each one answered.   *)
(* One action per SQL statement, as PostgreSQL runs them in READ COMMITTED *)
(* mode:                                                                   *)
(*                                                                         *)
(*   - a transaction's row writes are its own until it commits, and each   *)
(*     row it wrote is locked until then;                                  *)
(*   - a statement sees what was committed when it started and what its    *)
(*     own transaction wrote.  An UPDATE or DELETE that finds its row      *)
(*     locked waits, then looks at the row's current columns, but what its *)
(*     WHERE asked of other rows or tables is not asked again;             *)
(*   - writing a guest into another group checks the foreign key, which    *)
(*     takes a FOR KEY SHARE lock on the group: it waits for whoever holds *)
(*     the group FOR UPDATE or deletes it, and makes those wait;           *)
(*   - deleting a group cascades to the guests committed in it by then.    *)
(*                                                                         *)
(* Names, labels and the spreadsheet's columns are left out, and with them *)
(* EditGuest and RenameInvitation, which write nothing else.  What depends *)
(* on a name is a choice: whether a new name is taken, and who comes first *)
(* in the alphabet.                                                        *)
(***************************************************************************)
EXTENDS Integers, FiniteSets

CONSTANTS
  Handlers,   \* concurrent requests: guests' and the couple's
  Guests,     \* guest ids, each given out at most once
  Groups,     \* invitation ids, each given out at most once
  Ops,        \* the operations requested
  Imports,    \* guest lists the importer may have left
  MaxCompanionsPerGroup,
  Null,       \* nothing written, no request, no id
  Absent,     \* a guest id not given out yet
  Gone        \* a deleted guest

NullOr(S) == S \cup {Null}

Answers == {"pending", "yes", "no"}

GuestRow == [group : Groups, primary : BOOLEAN, added : BOOLEAN, attending : Answers]

AllOps == {"add", "remove", "rsvp", "create", "delete", "primary", "detach", "merge"}

\* A list as the importer leaves it: nobody gathered in, nobody has answered.
ImportedRow == [group : Groups, primary : BOOLEAN, added : {FALSE}, attending : {"pending"}]

ASSUME ConstantsAssumption ==
  /\ Ops \subseteq AllOps
  /\ Imports \subseteq [Guests -> ImportedRow \cup {Absent}]
  /\ MaxCompanionsPerGroup \in Nat
  /\ Null \notin Groups \cup Guests \cup GuestRow \cup {Gone}
  /\ Absent \notin GuestRow /\ Gone \notin GuestRow /\ Absent # Gone

VARIABLES
  guest,     \* table guests, as committed
  group,     \* table guest_groups: "unused", "reserved" for an uncommitted row, "live", "gone"
  wrote,     \* the guest rows each request wrote and has not committed
  held,      \* the groups each request holds FOR UPDATE or is deleting
  pc,        \* where each request is
  req,       \* what it carries from one statement to the next
  reply,     \* the answer the last step sent, "none" when it sent none
  uninvited, \* history: guests the couple deleted
  gathered   \* history: guests whose present place was chosen by a guest

tables  == <<guest, group>>
locks   == <<wrote, held>>
history == <<uninvited, gathered>>
vars    == <<guest, group, wrote, held, pc, req, reply, uninvited, gathered>>

-----------------------------------------------------------------------------
\* Where a request may be and what it carries: the guest and the invitation it
\* names, the invitation it creates (home), the one it leaves behind (from),
\* the row its statement is at (next) and the rows it has still to visit, and
\* those it answers yes for.

PCs == {"idle", "lock", "count", "read", "move", "remove", "answer", "insert",
        "merge", "reference", "delete", "detach", "ensure", "ensureWrite",
        "primary", "drop", "dropGroup", "cascade"}

Request == [op : AllOps, guest : NullOr(Guests), group : NullOr(Groups),
            home : NullOr(Groups), from : NullOr(Groups),
            next : NullOr(Guests), rows : SUBSET Guests, yes : SUBSET Guests]

Replies == {"none", "done", "deadlinePassed", "notFound", "companionLimit",
            "alreadyOnInvitation", "unavailable", "notRemovable",
            "invalidMembers", "nameTaken", "failed"}

NoRows == [p \in Guests |-> Null]

Listed(p) == guest[p] \in GuestRow
Members(g) == {p \in Guests : guest[p] \in GuestRow /\ guest[p].group = g}

\* The rows as a statement of t sees them.
Sees(t, p) == IF wrote[t][p] = Null THEN guest[p] ELSE wrote[t][p]
MembersSeen(t, g) == {p \in Guests : Sees(t, p) \in GuestRow /\ Sees(t, p).group = g}

RowBusy(t, p) == \E u \in Handlers \ {t} : wrote[u][p] # Null

\* Somebody else holds g FOR UPDATE or is deleting it.
Exclusive(t, g) == \E u \in Handlers \ {t} : g \in held[u]

\* u has checked a foreign key on g: it holds g FOR KEY SHARE.
Shares(u, g) ==
  /\ pc[u] # "reference"
  /\ \E p \in Guests : /\ wrote[u][p] \in GuestRow
                       /\ wrote[u][p].group = g
                       /\ p \notin Members(g)

GroupBusy(t, g) == Exclusive(t, g) \/ \E u \in Handlers \ {t} : Shares(u, g)

-----------------------------------------------------------------------------
Init ==
  /\ guest     \in Imports
  /\ group     = [g \in Groups |-> IF Members(g) = {} THEN "unused" ELSE "live"]
  /\ wrote     = [t \in Handlers |-> NoRows]
  /\ held      = [t \in Handlers |-> {}]
  /\ pc        = [t \in Handlers |-> "idle"]
  /\ req       = [t \in Handlers |-> Null]
  /\ reply     = "none"
  /\ uninvited = {}
  /\ gathered  = {}

\* A request that ends at its first statement.
Answer(t, what) ==
  /\ reply' = what
  /\ UNCHANGED <<tables, locks, pc, req, history>>

Carrying(op, p, g) ==
  [op |-> op, guest |-> p, group |-> g, home |-> Null, from |-> Null,
   next |-> Null, rows |-> {}, yes |-> {}]

\* Request t goes on to the statement at with r in hand.
GoTo(t, at, r) ==
  /\ pc'    = [pc EXCEPT ![t] = at]
  /\ req'   = [req EXCEPT ![t] = r]
  /\ reply' = "none"

\* It goes on to visit rows, in the order its client or the scan gives them.
Visit(t, at, r, rows) ==
  \E p \in rows : GoTo(t, at, [r EXCEPT !.next = p, !.rows = rows \ {p}])

Start(t, at, r) ==
  /\ GoTo(t, at, r)
  /\ UNCHANGED <<tables, locks, history>>

\* The same for a request that will create an invitation.  Its id shows only
\* once it is committed, so it is drawn here.
StartWithHome(t, at, r) ==
  /\ \E g \in Groups :
       /\ group[g] = "unused"
       /\ group' = [group EXCEPT ![g] = "reserved"]
       /\ GoTo(t, at, [r EXCEPT !.home = g])
  /\ UNCHANGED <<guest, locks, history>>

Done(t, what) ==
  /\ pc'    = [pc EXCEPT ![t] = "idle"]
  /\ req'   = [req EXCEPT ![t] = Null]
  /\ wrote' = [wrote EXCEPT ![t] = NoRows]
  /\ reply' = what

\* Variant: an early return without the deferred Rollback.
StopWithoutRollback(t, what) ==
  /\ pc'    = [pc EXCEPT ![t] = "idle"]
  /\ req'   = [req EXCEPT ![t] = Null]
  /\ reply' = what
  /\ UNCHANGED <<tables, locks, history>>

\* The transaction is rolled back.
Stop(t, what) ==
  /\ Done(t, what)
  /\ held'  = [held EXCEPT ![t] = {}]
  /\ group' = [g \in Groups |-> IF g = req[t].home THEN "unused" ELSE group[g]]
  /\ UNCHANGED <<guest, history>>

\* The transaction commits the rows w and deletes the groups in dropped.
Commit(t, w, dropped, what) ==
  LET moved == {p \in Guests : /\ guest[p] \in GuestRow
                               /\ w[p] \in GuestRow
                               /\ w[p].group # guest[p].group} IN
  /\ Done(t, what)
  /\ held'  = [held EXCEPT ![t] = {}]
  /\ guest' = [p \in Guests |-> IF w[p] = Null THEN guest[p] ELSE w[p]]
  /\ group' = [g \in Groups |-> IF g = req[t].home THEN "live"
                                ELSE IF g \in dropped THEN "gone" ELSE group[g]]
  /\ uninvited' = IF req[t].op = "delete" THEN uninvited \cup {req[t].guest} ELSE uninvited
  /\ gathered'  = (gathered \ moved) \cup (IF req[t].op = "add" THEN moved ELSE {})

\* t writes row p and goes on.
Write(t, p, row, at, r) ==
  /\ wrote' = [wrote EXCEPT ![t][p] = row]
  /\ GoTo(t, at, r)
  /\ UNCHANGED <<tables, held, history>>

-----------------------------------------------------------------------------
\* DeleteGroupIfEmpty, on the invitation t leaves behind.

\* Variant: NOT EXISTS dropped from the WHERE.
DropScanAnyway(t) ==
  /\ pc[t] = "drop"
  /\ Start(t, "dropGroup", req[t])

\* Its WHERE: the group is there and holds nobody, as t sees it.
DropScan(t) ==
  LET empty == group[req[t].from] = "live" /\ MembersSeen(t, req[t].from) = {} IN
  /\ pc[t] = "drop"
  /\ \/ empty  /\ Start(t, "dropGroup", req[t])
     \/ ~empty /\ Commit(t, wrote[t], {}, IF req[t].op = "create" THEN "nameTaken" ELSE "done")

\* Variant: guests.group_id without ON DELETE CASCADE.
DropGroupAlone(t) ==
  /\ pc[t] = "dropGroup"
  /\ ~GroupBusy(t, req[t].from)
  /\ Commit(t, wrote[t], {req[t].from}, "done")

\* Its DELETE, once the group is free.  A lock that was waited for changed no
\* column of the group, so NOT EXISTS is not asked again; the cascade looks for
\* members afresh.
DropGroup(t) ==
  LET from == req[t].from
      what == IF req[t].op = "create" THEN "nameTaken" ELSE "done" IN
  /\ pc[t] = "dropGroup"
  /\ ~GroupBusy(t, from)
  /\ \/ /\ group[from] # "live"
        /\ Commit(t, wrote[t], {}, what)
     \/ /\ group[from] = "live"
        /\ MembersSeen(t, from) = {}
        /\ Commit(t, wrote[t], {from}, what)
     \/ /\ group[from] = "live"
        /\ MembersSeen(t, from) # {}
        /\ held' = [held EXCEPT ![t] = @ \cup {from}]
        /\ Visit(t, "cascade", req[t], MembersSeen(t, from))
        /\ UNCHANGED <<tables, wrote, history>>

\* ON DELETE CASCADE: one guest goes with the group.
Cascade(t) ==
  LET from == req[t].from
      p    == req[t].next
      w    == IF p \in MembersSeen(t, from) THEN [wrote[t] EXCEPT ![p] = Gone] ELSE wrote[t] IN
  /\ pc[t] = "cascade"
  /\ ~RowBusy(t, p)
  /\ \/ /\ req[t].rows = {}
        /\ Commit(t, w, {from}, IF req[t].op = "create" THEN "nameTaken" ELSE "done")
     \/ /\ Visit(t, "cascade", req[t], req[t].rows)
        /\ wrote' = [wrote EXCEPT ![t] = w]
        /\ UNCHANGED <<tables, held, history>>

-----------------------------------------------------------------------------
\* Guests.  The RSVP deadline is a field of a content section; what it says
\* when a request reads it is not the guest list's to decide.

Issued(g) == group[g] \in {"live", "gone"}

AddCompanion(t, g, p) ==
  /\ pc[t] = "idle"
  /\ Issued(g)
  /\ guest[p] # Absent
  /\ \/ Answer(t, "deadlinePassed")
     \/ Start(t, "lock", Carrying("add", p, g))

\* Variant: the FOR UPDATE forgotten.
LockGroupForCompanionUnlocked(t) ==
  /\ pc[t] = "lock"
  /\ group[req[t].group] = "live"
  /\ Start(t, "count", req[t])

LockGroupForCompanion(t) ==
  LET g == req[t].group IN
  /\ pc[t] = "lock"
  /\ ~GroupBusy(t, g)
  /\ \/ /\ group[g] # "live"
        /\ Stop(t, "notFound")
     \/ /\ group[g] = "live"
        /\ held' = [held EXCEPT ![t] = @ \cup {g}]
        /\ GoTo(t, "count", req[t])
        /\ UNCHANGED <<tables, wrote, history>>

Companions(g) == {p \in Members(g) : guest[p].added}

CountGroupCompanions(t) ==
  LET full == Cardinality(Companions(req[t].group)) >= MaxCompanionsPerGroup IN
  /\ pc[t] = "count"
  /\ \/ full  /\ Stop(t, "companionLimit")
     \/ ~full /\ Start(t, "read", req[t])

\* Variant: the size of the companion's own invitation is not looked at.
ReadCompanionOfAnySize(t) ==
  LET p == req[t].guest IN
  /\ pc[t] = "read"
  /\ Listed(p)
  /\ guest[p].group # req[t].group
  /\ Start(t, "move", [req[t] EXCEPT !.from = guest[p].group])

\* GetGuestWithGroupSize: who may be gathered in.
ReadCompanion(t) ==
  LET p == req[t].guest IN
  /\ pc[t] = "read"
  /\ \/ ~Listed(p) /\ Stop(t, "notFound")
     \/ /\ Listed(p)
        /\ guest[p].group = req[t].group
        /\ Stop(t, "alreadyOnInvitation")
     \/ /\ Listed(p)
        /\ guest[p].group # req[t].group
        /\ Members(guest[p].group) # {p}
        /\ Stop(t, "unavailable")
     \/ /\ Listed(p)
        /\ guest[p].group # req[t].group
        /\ Members(guest[p].group) = {p}
        /\ Start(t, "move", [req[t] EXCEPT !.from = guest[p].group])

\* Variant: an upsert, writing the guest back from what was read.
MoveGuestToGroupUpserting(t) ==
  /\ pc[t] = "move"
  /\ Write(t, req[t].guest, [group |-> req[t].group, primary |-> FALSE, added |-> TRUE,
                             attending |-> "pending"], "drop", req[t])

\* MoveGuestToGroup.  The group is t's own by now, so the foreign key holds.
MoveGuestToGroup(t) ==
  LET p == req[t].guest IN
  /\ pc[t] = "move"
  /\ \/ ~Listed(p) /\ Stop(t, "notFound")
     \/ /\ Listed(p)
        /\ ~RowBusy(t, p)
        /\ Write(t, p, [guest[p] EXCEPT !.group = req[t].group, !.primary = FALSE, !.added = TRUE],
                 "drop", req[t])

RemoveCompanion(t, g, p) ==
  /\ pc[t] = "idle"
  /\ Issued(g)
  /\ guest[p] # Absent
  /\ \/ Answer(t, "deadlinePassed")
     \/ ~Listed(p) /\ Answer(t, "notRemovable")
     \/ Listed(p)  /\ StartWithHome(t, "remove", Carrying("remove", p, g))

\* Variant: added_by_guest left out of the WHERE.
RemovableByAnyone(t) ==
  LET p == req[t].guest IN Listed(p) /\ guest[p].group = req[t].group

\* RestoreCompanionToOwnGroup's WHERE.
Removable(t) ==
  LET p == req[t].guest IN Listed(p) /\ guest[p].group = req[t].group /\ guest[p].added

\* RestoreCompanionToOwnGroup, and the commit.
RestoreCompanionToOwnGroup(t) ==
  LET p == req[t].guest
      home == [guest[p] EXCEPT !.group = req[t].home, !.primary = TRUE, !.added = FALSE] IN
  /\ pc[t] = "remove"
  /\ \/ ~Removable(t) /\ Stop(t, "notRemovable")
     \/ /\ Removable(t)
        /\ ~RowBusy(t, p)
        /\ Commit(t, [wrote[t] EXCEPT ![p] = home], {}, "done")

\* SubmitRSVP up to its transaction: one answer for each member read, no other.
SubmitRSVP(t, g, rows, yes) ==
  /\ pc[t] = "idle"
  /\ Issued(g)
  /\ \/ Answer(t, "deadlinePassed")
     \/ /\ Members(g) = {}
        /\ Answer(t, "notFound")
     \/ /\ Members(g) # {}
        /\ rows # Members(g)
        /\ Answer(t, "invalidMembers")
     \/ /\ Members(g) # {}
        /\ rows = Members(g)
        /\ Visit(t, "answer", [Carrying("rsvp", Null, g) EXCEPT !.yes = yes], rows)
        /\ UNCHANGED <<tables, locks, history>>

\* Variant: group_id left out of UpdateGuestAttendance's WHERE.
MatchesByIdOnly(t, p) == Listed(p)

\* UpdateGuestAttendance's WHERE.
Matches(t, p) == Listed(p) /\ guest[p].group = req[t].group

\* UpdateAttendances: one answer; the last one commits, a miss aborts them all.
UpdateGuestAttendance(t) ==
  LET p == req[t].next
      w == [wrote[t] EXCEPT ![p] =
              [guest[p] EXCEPT !.attending = IF p \in req[t].yes THEN "yes" ELSE "no"]] IN
  /\ pc[t] = "answer"
  /\ \/ ~Matches(t, p) /\ Stop(t, "invalidMembers")
     \/ /\ Matches(t, p)
        /\ ~RowBusy(t, p)
        /\ \/ /\ req[t].rows = {}
              /\ Commit(t, w, {}, "done")
           \/ /\ Visit(t, "answer", req[t], req[t].rows)
              /\ wrote' = [wrote EXCEPT ![t] = w]
              /\ UNCHANGED <<tables, held, history>>

-----------------------------------------------------------------------------
\* The couple.

NewRow(g, primary) ==
  [group |-> g, primary |-> primary, added |-> FALSE, attending |-> "pending"]

\* CreateGuest into an invitation: one INSERT, which commits by itself.
CreateGuestInto(t, g, p) ==
  /\ pc[t] = "idle"
  /\ Issued(g)
  /\ guest[p] = Absent
  /\ \/ Answer(t, "nameTaken")
     \/ group[g] = "gone" /\ Answer(t, "failed")
     \/ /\ group[g] = "live"
        /\ ~Exclusive(t, g)
        /\ guest' = [guest EXCEPT ![p] = NewRow(g, FALSE)]
        /\ reply' = "done"
        /\ UNCHANGED <<group, locks, pc, req, history>>

\* CreateGuest alone: InsertGuestGroup commits first.
CreateGuestAlone(t) ==
  /\ pc[t] = "idle"
  /\ \E g \in Groups :
       /\ group[g] = "unused"
       /\ group' = [group EXCEPT ![g] = "live"]
       /\ GoTo(t, "insert", [Carrying("create", Null, g) EXCEPT !.from = g])
  /\ UNCHANGED <<guest, locks, history>>

\* Then InsertGuest, which commits too or sends t to clean up after itself.
InsertGuest(t) ==
  LET g == req[t].group IN
  /\ pc[t] = "insert"
  /\ \/ Start(t, "drop", req[t])
     \/ /\ group[g] = "live"
        /\ ~Exclusive(t, g)
        /\ \E p \in Guests :
             /\ guest[p] = Absent
             /\ Commit(t, [wrote[t] EXCEPT ![p] = NewRow(g, TRUE)], {}, "done")

DeleteGuest(t, p) ==
  /\ pc[t] = "idle"
  /\ guest[p] # Absent
  /\ \/ ~Listed(p) /\ Answer(t, "notFound")
     \/ /\ Listed(p)
        /\ Start(t, "delete", [Carrying("delete", p, Null) EXCEPT !.from = guest[p].group])

DeleteGuestRow(t) ==
  LET p == req[t].guest IN
  /\ pc[t] = "delete"
  /\ \/ ~Listed(p) /\ Stop(t, "notFound")
     \/ /\ Listed(p)
        /\ ~RowBusy(t, p)
        /\ Write(t, p, Gone, "drop", req[t])

\* SetGroupPrimary's snapshot: the rows of the invitation, whoever p is.
SetPrimary(t, g, p) ==
  /\ pc[t] = "idle"
  /\ Issued(g)
  /\ guest[p] # Absent
  /\ \/ /\ Members(g) = {}
        /\ Answer(t, "notFound")
     \/ /\ Members(g) # {}
        /\ Visit(t, "primary", Carrying("primary", p, g), Members(g))
        /\ UNCHANGED <<tables, locks, history>>

\* SetGroupPrimary, one row of them; a row that left meanwhile is skipped.
SetGroupPrimary(t) ==
  LET p == req[t].next
      w == IF Matches(t, p)
           THEN [wrote[t] EXCEPT ![p] = [guest[p] EXCEPT !.primary = p = req[t].guest]]
           ELSE wrote[t] IN
  /\ pc[t] = "primary"
  /\ ~RowBusy(t, p)
  /\ \/ /\ req[t].rows = {}
        /\ Commit(t, w, {}, IF w = NoRows THEN "notFound" ELSE "done")
     \/ /\ Visit(t, "primary", req[t], req[t].rows)
        /\ wrote' = [wrote EXCEPT ![t] = w]
        /\ UNCHANGED <<tables, held, history>>

DetachGuest(t, p) ==
  /\ pc[t] = "idle"
  /\ guest[p] # Absent
  /\ \/ ~Listed(p) /\ Answer(t, "notFound")
     \/ /\ Listed(p)
        /\ Members(guest[p].group) = {p}
        /\ Answer(t, "alreadyOnInvitation")
     \/ /\ Listed(p)
        /\ Members(guest[p].group) # {p}
        /\ StartWithHome(t, "detach", [Carrying("detach", p, Null) EXCEPT !.from = guest[p].group])

\* MoveGuestToGroupAsAdmin into the new invitation, and SetGroupPrimary of it.
MoveGuestHome(t) ==
  LET p == req[t].guest IN
  /\ pc[t] = "detach"
  /\ \/ ~Listed(p) /\ Stop(t, "notFound")
     \/ /\ Listed(p)
        /\ ~RowBusy(t, p)
        /\ Write(t, p, [guest[p] EXCEPT !.group = req[t].home, !.primary = TRUE], "ensure", req[t])

\* EnsureGroupHasPrimary's snapshot of the invitation left behind.
EnsureGroupHasPrimary(t) ==
  LET left     == MembersSeen(t, req[t].from)
      headless == left # {} /\ \A q \in left : ~Sees(t, q).primary IN
  /\ pc[t] = "ensure"
  /\ \/ ~headless /\ Commit(t, wrote[t], {}, "done")
     \/ /\ headless
        /\ \E first \in left : GoTo(t, "ensureWrite", [req[t] EXCEPT !.next = first])
        /\ UNCHANGED <<tables, locks, history>>

\* Its write: the row is found by its id, wherever it is by now.
MakePrimary(t) ==
  LET p == req[t].next
      w == IF Listed(p) THEN [wrote[t] EXCEPT ![p] = [guest[p] EXCEPT !.primary = TRUE]]
                        ELSE wrote[t] IN
  /\ pc[t] = "ensureWrite"
  /\ ~RowBusy(t, p)
  /\ Commit(t, w, {}, "done")

\* MoveGuestAsAdmin: both reads, neither of which locks anything.
MergeIntoInvitation(t, g, p) ==
  /\ pc[t] = "idle"
  /\ Issued(g)
  /\ guest[p] # Absent
  /\ \/ ~Listed(p) /\ Answer(t, "notFound")
     \/ /\ Listed(p)
        /\ guest[p].group = g
        /\ Answer(t, "alreadyOnInvitation")
     \/ /\ Listed(p)
        /\ guest[p].group # g
        /\ group[g] = "gone"
        /\ Answer(t, "notFound")
     \/ /\ Listed(p)
        /\ guest[p].group # g
        /\ group[g] = "live"
        /\ Start(t, "merge", [Carrying("merge", p, g) EXCEPT !.from = guest[p].group])

\* Variant: the mover keeps heading wherever they go.
MoveGuestToGroupAsAdminHeading(t) ==
  LET p == req[t].guest IN
  /\ pc[t] = "merge"
  /\ Listed(p)
  /\ ~RowBusy(t, p)
  /\ Write(t, p, [guest[p] EXCEPT !.group = req[t].group], "reference", req[t])

\* MoveGuestToGroupAsAdmin; added_by_guest is left as it was.
MoveGuestToGroupAsAdmin(t) ==
  LET p == req[t].guest IN
  /\ pc[t] = "merge"
  /\ \/ ~Listed(p) /\ Stop(t, "notFound")
     \/ /\ Listed(p)
        /\ ~RowBusy(t, p)
        /\ Write(t, p, [guest[p] EXCEPT !.group = req[t].group, !.primary = FALSE],
                 IF guest[p].group = req[t].group THEN "drop" ELSE "reference", req[t])

\* Variant: a foreign key error is taken for a passing one.
CheckReferenceRetrying(t) ==
  /\ pc[t] = "reference"
  /\ ~Exclusive(t, req[t].group)
  /\ group[req[t].group] = "live"
  /\ Start(t, "drop", req[t])

\* The foreign key of the row just written.
CheckReference(t) ==
  LET g == req[t].group IN
  /\ pc[t] = "reference"
  /\ ~Exclusive(t, g)
  /\ \/ group[g] # "live" /\ Stop(t, "failed")
     \/ group[g] = "live" /\ Start(t, "drop", req[t])

-----------------------------------------------------------------------------
\* The connection, the request's context or the process gives up, or
\* PostgreSQL picks t to break a deadlock.
Abort(t) ==
  /\ pc[t] # "idle"
  /\ Stop(t, "failed")

BeginGuests(t) ==
  \E g \in Groups :
    \/ \E p \in Guests : \/ "add" \in Ops    /\ AddCompanion(t, g, p)
                         \/ "remove" \in Ops /\ RemoveCompanion(t, g, p)
    \/ "rsvp" \in Ops /\ \E rows \in SUBSET Guests : \E yes \in SUBSET rows : SubmitRSVP(t, g, rows, yes)

BeginCouple(t) ==
  \/ "create" \in Ops /\ CreateGuestAlone(t)
  \/ \E p \in Guests :
       \/ "delete" \in Ops /\ DeleteGuest(t, p)
       \/ "detach" \in Ops /\ DetachGuest(t, p)
       \/ \E g \in Groups : \/ "create" \in Ops  /\ CreateGuestInto(t, g, p)
                            \/ "primary" \in Ops /\ SetPrimary(t, g, p)
                            \/ "merge" \in Ops   /\ MergeIntoInvitation(t, g, p)

Begin(t) == BeginGuests(t) \/ BeginCouple(t)

Advance(t) ==
  \/ LockGroupForCompanion(t) \/ CountGroupCompanions(t) \/ ReadCompanion(t)
  \/ MoveGuestToGroup(t) \/ RestoreCompanionToOwnGroup(t) \/ UpdateGuestAttendance(t)
  \/ InsertGuest(t) \/ DeleteGuestRow(t) \/ SetGroupPrimary(t)
  \/ MoveGuestHome(t) \/ EnsureGroupHasPrimary(t) \/ MakePrimary(t)
  \/ MoveGuestToGroupAsAdmin(t) \/ CheckReference(t)
  \/ DropScan(t) \/ DropGroup(t) \/ Cascade(t)

Next == \E t \in Handlers : Begin(t) \/ Advance(t) \/ Abort(t)

Spec == Init /\ [][Next]_vars

\* What t's next statement waits for u to let go of.
WantsRow(t, p) ==
  \/ pc[t] \in {"move", "delete", "detach", "merge"} /\ p = req[t].guest
  \/ pc[t] = "remove" /\ p = req[t].guest /\ Removable(t)
  \/ pc[t] = "answer" /\ p = req[t].next /\ Matches(t, p)
  \/ pc[t] \in {"primary", "ensureWrite", "cascade"} /\ p = req[t].next

WaitsFor(t, u) ==
  \/ \E p \in Guests : WantsRow(t, p) /\ wrote[u][p] # Null
  \/ pc[t] \in {"lock", "reference"} /\ req[t].group \in held[u]
  \/ pc[t] = "lock"      /\ Shares(u, req[t].group)
  \/ pc[t] = "dropGroup" /\ (req[t].from \in held[u] \/ Shares(u, req[t].from))

Deadlocked(t) ==
  \E ring \in SUBSET Handlers :
    t \in ring /\ \A u \in ring : \E v \in ring \ {u} : WaitsFor(u, v)

\* Requests keep running and locks are granted in the order they were asked
\* for; of requests that wait for each other PostgreSQL aborts one.
FairSpec ==
  /\ Spec
  /\ \A t \in Handlers : SF_vars(Advance(t)) /\ WF_vars(Deadlocked(t) /\ Abort(t))
-----------------------------------------------------------------------------
\* Type invariant.

TablesOK ==
  /\ guest \in [Guests -> GuestRow \cup {Absent, Gone}]
  /\ group \in [Groups -> {"unused", "reserved", "live", "gone"}]

LocksOK ==
  /\ wrote \in [Handlers -> [Guests -> NullOr(GuestRow \cup {Gone})]]
  /\ held \in [Handlers -> SUBSET Groups]

\* What a request needs in hand for the statement it is at.
Fits(at, r) ==
  /\ r \in Request
  /\ at \in {"lock", "count", "read", "move"} => r.op = "add"
  /\ at \in {"lock", "count", "read", "move", "remove", "merge", "delete", "detach"}
       => r.guest # Null
  /\ at \in {"lock", "count", "read", "move", "remove", "answer", "primary", "insert",
             "merge", "reference"} => r.group # Null
  /\ at \in {"remove", "detach"} => r.home # Null
  /\ at \in {"move", "insert", "merge", "reference", "delete", "detach", "ensure", "drop",
             "dropGroup", "cascade"} => r.from # Null
  /\ at \in {"answer", "primary", "ensureWrite", "cascade"} => r.next # Null
  /\ r.op = "delete" => r.guest # Null

Carries(t) ==
  IF pc[t] = "idle" THEN req[t] = Null /\ wrote[t] = NoRows /\ held[t] = {}
                    ELSE Fits(pc[t], req[t])

RequestsOK ==
  /\ pc \in [Handlers -> PCs]
  /\ req \in [Handlers -> NullOr(Request)]
  /\ \A t \in Handlers : Carries(t)
  /\ reply \in Replies

HistoryOK ==
  /\ uninvited \subseteq Guests
  /\ gathered \subseteq Guests

\* Every row has the shape of its table, every row is locked by one request at
\* most, and what a request carries is what the statement it is at needs; a
\* request that is over holds no lock and has no uncommitted row.
TypeOK == TablesOK /\ LocksOK /\ RequestsOK /\ HistoryOK

-----------------------------------------------------------------------------
\* Safety: every operation, any interleaving.

\* guests.group_id: every guest is on an invitation that exists, whatever is
\* merged into, split from or deleted under it meanwhile.
GuestHasInvitation == \A p \in Guests : Listed(p) => group[guest[p].group] = "live"

\* DeleteGuest removes somebody "for good", and an invitation's id never comes
\* back: no request that read them before brings either back.
DeletedStayDeleted ==
  [][/\ \A p \in Guests : guest[p] = Gone => guest'[p] = Gone
     /\ \A g \in Groups : group[g] = "gone" => group'[g] = "gone"]_vars

\* UpdateAttendances is all or nothing: when an answer changes, one submission
\* did it, and everybody it named is on its invitation and has the answer it
\* gave.
AnswersOf(t) == {p \in Guests : p = req[t].next \/ p \in req[t].rows \/ wrote[t][p] # Null}

AnswerGiven(t, p) == IF p \in req[t].yes THEN "yes" ELSE "no"

SubmissionsAreWhole ==
  [][\A p \in Guests :
       Listed(p) /\ guest'[p] \in GuestRow /\ guest'[p].attending # guest[p].attending =>
         \E t \in Handlers :
           /\ pc[t] = "answer"
           /\ p \in AnswersOf(t)
           /\ \A q \in AnswersOf(t) : /\ guest'[q] \in GuestRow
                                      /\ guest'[q].group = req[t].group
                                      /\ guest'[q].attending = AnswerGiven(t, q)]_vars

-----------------------------------------------------------------------------
\* Safety: what guests alone can do, concurrently.

\* MaxCompanionsPerGroup under the group's row lock: guests never gather more
\* people into an invitation than its allowance, however many phones race.
CompanionCeiling ==
  \A g \in Groups : Cardinality(Companions(g)) <= MaxCompanionsPerGroup

\* RemoveCompanion "can only reach people the guest gathered in themselves":
\* whoever it sends home had their place chosen by a guest.
OnlyGatheredSentHome ==
  [][\A t \in Handlers, p \in Guests :
       pc[t] = "remove" /\ pc'[t] = "idle" /\ guest'[p] # guest[p]
         => p \in gathered]_vars

-----------------------------------------------------------------------------
\* Safety: every operation, one request at a time.

\* AD-10: nobody leaves the list except by DeleteGuest.
NobodyLost == \A p \in Guests : guest[p] = Gone => p \in uninvited

\* AddCompanion takes only someone who is alone on their invitation: nobody's
\* family is split by a guest.
FamilyStays ==
  [][\A t \in Handlers :
       pc[t] # "idle" /\ pc'[t] = "idle" /\ req[t].op = "add" =>
         \A p, q \in Guests :
           /\ p # q
           /\ Listed(p)
           /\ Listed(q)
           /\ guest[p].group = guest[q].group
           /\ guest'[p] # guest[p]
           => guest'[p] \in GuestRow /\ guest'[p].group = guest[p].group]_vars

\* SetGroupPrimary: no invitation has two primaries.
Heads(g) == {p \in Members(g) : guest[p].primary}

AtMostOnePrimary == \A g \in Groups : Cardinality(Heads(g)) <= 1

-----------------------------------------------------------------------------
\* What makes GuestHasInvitation inductive.

\* A guest row is written by one transaction at a time, and only while it is
\* there.
RowLocks ==
  \A t \in Handlers, p \in Guests : wrote[t][p] # Null => Listed(p) /\ ~RowBusy(t, p)

\* Nobody else holds or shares the group that a request holds.
GroupLocks ==
  \A t \in Handlers : \A g \in held[t] : group[g] = "live" /\ ~GroupBusy(t, g)

\* AddCompanion holds the group it counts, a cascade the group it empties, and
\* a merge has written nothing before its move.
LocksHeld ==
  \A t \in Handlers :
    /\ pc[t] \in {"count", "read", "move"} => req[t].group \in held[t]
    /\ pc[t] = "cascade" => req[t].from \in held[t]
    /\ pc[t] = "merge" => wrote[t] = NoRows

\* The invitation a request creates is its own until it commits.
HomeReserved ==
  \A t \in Handlers :
    pc[t] # "idle" /\ req[t].home # Null =>
      /\ group[req[t].home] = "reserved"
      /\ \A u \in Handlers \ {t} : pc[u] # "idle" => req[u].home # req[t].home

\* Once the foreign key is checked, the group written is there to stay.
WrittenIntoGroup ==
  \A t \in Handlers, p \in Guests :
    wrote[t][p] \in GuestRow =>
      \/ pc[t] = "reference" /\ wrote[t][p].group = req[t].group
      \/ pc[t] # "reference" /\ wrote[t][p].group = req[t].home
      \/ pc[t] # "reference" /\ group[wrote[t][p].group] = "live"

\* A cascade misses none of the group's members.
CascadeCovers ==
  \A t \in Handlers :
    pc[t] = "cascade" => MembersSeen(t, req[t].from) \subseteq req[t].rows \cup {req[t].next}

SafetyInv ==
  /\ TypeOK
  /\ GuestHasInvitation
  /\ RowLocks
  /\ GroupLocks
  /\ LocksHeld
  /\ HomeReserved
  /\ WrittenIntoGroup
  /\ CascadeCovers

-----------------------------------------------------------------------------
\* Liveness.

\* Row locks, group locks and deadlocks never wedge a request: each is answered.
EveryRequestAnswered == \A t \in Handlers : pc[t] # "idle" ~> pc[t] = "idle"

-----------------------------------------------------------------------------
\* What the comments promise and the program does not do.

\* guests.sql: "Exactly one primary per invitation"; without one "nobody can
\* answer for the group".
EveryInvitationHeaded == \A g \in Groups : Members(g) # {} => Heads(g) # {}

\* service.go: SubmitRSVP "records one yes/no per member of the group", so that
\* the state it returns and mails "is fully determined locally".
OneAnswerPerMember ==
  [][\A t \in Handlers :
       pc[t] = "answer" /\ reply' = "done" /\ pc'[t] = "idle"
         => AnswersOf(t) = Members(req[t].group)]_vars

\* repo.go: an invitation left holding nobody is deleted, not left behind as an
\* empty row of the dashboard.
NoEmptyInvitation ==
  (\A t \in Handlers : pc[t] = "idle") =>
    \A g \in Groups : group[g] = "live" => Members(g) # {}
=============================================================================
