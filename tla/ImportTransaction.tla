------------------------- MODULE ImportTransaction -------------------------
(***************************************************************************)
(* The importer's transaction (importer/repo.go, Apply) statement by       *)
(* statement at READ COMMITTED, with several imports at once, and with     *)
(* the rest of the API writing the same tables between any two statements. *)
(*                                                                         *)
(* A statement finds rows in what is committed and in what its own         *)
(* transaction wrote; to write a row it waits until no other transaction   *)
(* has written it, and meets the row as it then is.  What a transaction    *)
(* wrote is nobody else's to see until it commits.                         *)
(*                                                                         *)
(* The guests service is in Invitations transaction by transaction.  Here  *)
(* each row it writes is a step of its own, at any time the row is free:   *)
(* whatever its transactions make of the list is among what these steps    *)
(* make of it, and some things they would not.                             *)
(***************************************************************************)
EXTENDS ImportPlan

CONSTANTS
  Uploads,     \* imports under way at once: the panel's and the operator's
  MaxImports,  \* bound: imports started
  MaxEdits     \* bound: rows written by the rest of the API

ASSUME BoundsAssumption == MaxImports \in Nat /\ MaxEdits \in Nat

VARIABLES
  list,    \* tables guest_groups (the label of each) and guests, as committed
  upload,  \* each import: where it is, its file, its mode, its snapshot and its plan
  tx,      \* its transaction
  alone,   \* history: no other transaction was there while it was
  imports, \* imports started
  edits    \* rows written by the rest of the API

vars == <<list, upload, tx, alone, imports, edits>>

Idle == [at |-> "idle", file |-> <<>>, replace |-> FALSE, snap |-> NoSnapshot, plan |-> <<>>]

\* A transaction: the statements it has yet to execute, the rows the statement
\* under way has yet to write, the ids its inserts returned, the rows it wrote.
NoTx == [todo |-> {}, scan |-> {}, made |-> [place |-> <<>>, person |-> <<>>],
         mine |-> [label |-> <<>>, guest |-> <<>>]]

Init ==
  /\ list \in Lists
  /\ upload = [u \in Uploads |-> Idle]
  /\ tx = [u \in Uploads |-> NoTx]
  /\ alone = [u \in Uploads |-> FALSE]
  /\ imports = 0
  /\ edits = 0

\* f with e at x.
With(f, x, e) == [y \in DOMAIN f \cup {x} |-> IF y = x THEN e ELSE f[y]]

Others(u)    == Uploads \ {u}
Wrote(u)     == DOMAIN tx[u].mine.guest
WroteLabel(u) == DOMAIN tx[u].mine.label

\* What the statements of u see.
View(u) ==
  [label |-> [g \in GroupIds |-> IF g \in WroteLabel(u) THEN tx[u].mine.label[g] ELSE list.label[g]],
   guest |-> [p \in GuestIds |-> IF p \in Wrote(u) THEN tx[u].mine.guest[p] ELSE list.guest[p]]]

\* The guests u inserted, and the names of rows it inserted or deleted.
InsertedBy(u)  == Wrote(u) \ Listed(list)
NamesHeld(u)   == {list.guest[p].norm : p \in Wrote(u) \cap Listed(list)}
                  \cup {tx[u].mine.guest[p].norm : p \in InsertedBy(u)}

\* Rows, names and invitations that no transaction of S has its hands on: a
\* guest inserted holds their invitation as well, and against its deletion only.
GuestFree(p, S) == \A v \in S : p \notin Wrote(v)
LabelFree(g, S) == \A v \in S : g \notin WroteLabel(v)
NameFree(n, S)  == \A v \in S : n \notin NamesHeld(v)
Deletable(g, S) ==
  /\ LabelFree(g, S)
  /\ \A p \in Members(list, g) : GuestFree(p, S)
  /\ \A v \in S : \A p \in InsertedBy(v) : tx[v].mine.guest[p].group # g
Joinable(g, S)  == \A v \in S : g \in WroteLabel(v) => tx[v].mine.label[g] # Null

\* A sequence gives no id twice: none that a row or a snapshot has.
Homes(rows) == {rows[p].group : p \in {p \in DOMAIN rows : rows[p] # Null}}

FreeGroups ==
  GroupIds \ (Live(list) \cup Homes(list.guest)
               \cup UNION {WroteLabel(u) \cup Homes(tx[u].mine.guest) \cup Remembered(upload[u].snap) :
                             u \in Uploads})
FreeGuests ==
  {p \in GuestIds \ Listed(list) : \A u \in Uploads : p \notin Wrote(u) /\ upload[u].snap.guest[p] = Null}

-----------------------------------------------------------------------------
\* Before the transaction.

Ready(u) == upload[u].at = "idle" /\ imports < MaxImports

Request(u, request) ==
  /\ imports' = imports + 1
  /\ upload' = [upload EXCEPT ![u] = request]
  /\ UNCHANGED <<list, tx, alone, edits>>

\* The file is parsed and the invitations are listed.
ListGroups(u, file) ==
  \E snap \in Snapshots(list) :
    Request(u, [at |-> "groups", file |-> file, replace |-> FALSE,
                snap |-> [snap EXCEPT !.guest = NoTables.guest], plan |-> <<>>])

\* The second statement of the snapshot, which may see a later list; the plan is
\* made from the two.
ListGuests(u) ==
  /\ upload[u].at = "groups"
  /\ LET snap == [upload[u].snap EXCEPT !.guest = list.guest] IN
     upload' = [upload EXCEPT ![u].at = "begin", ![u].snap = snap,
                              ![u].plan = Reconcile(upload[u].file, snap)]
  /\ UNCHANGED <<list, tx, alone, imports, edits>>

\* The operator asks for the whole list to be replaced: nothing is read.
Replace(u, file) ==
  Request(u, [at |-> "begin", file |-> file, replace |-> TRUE, snap |-> NoSnapshot,
              plan |-> Reconcile(file, NoSnapshot)])

-----------------------------------------------------------------------------
\* The statements of a plan, in their order: for each invitation, in the order
\* the file opens them, the invitation itself, its lines, its primary.  A
\* statement is the line that opens the invitation and a place among the lines.

Clear == <<0, 0>>

Statements(rows, plan) ==
  {<<Opening(rows, k), 0>> : k \in Created(plan) \cup Renamed(plan)}
  \cup {<<Opening(rows, Key(rows[i])), i>> : i \in Written(plan)}
  \cup {<<Opening(rows, k), Len(rows) + 1>> : k \in {k \in DOMAIN plan : plan[k].enforcePrimary}}

Before(s, r) == s[1] < r[1] \/ (s[1] = r[1] /\ s[2] < r[2])

Executes(u, s) ==
  /\ upload[u].at = "write"
  /\ s \in tx[u].todo
  /\ \A r \in tx[u].todo \ {s} : Before(s, r)

\* The key of the plan that statement s is of.
KeyOf(u, s) == Key(upload[u].file[s[1]])

\* Statement s has yet to write scan; with nothing left to write it is done.
Left(u, s, scan) == IF scan = {} THEN tx[u].todo \ {s} ELSE tx[u].todo

Execute(u, t) ==
  /\ tx' = [tx EXCEPT ![u] = t]
  /\ UNCHANGED <<list, upload, alone, imports, edits>>

\* The transaction begins; a replacing one lists what it deletes.
Begin(u) ==
  LET cleared == IF upload[u].replace THEN Live(list) ELSE {} IN
  /\ upload[u].at = "begin"
  /\ upload' = [upload EXCEPT ![u].at = "write"]
  /\ tx' = [tx EXCEPT ![u] =
              [NoTx EXCEPT !.todo = Statements(upload[u].file, upload[u].plan)
                                    \cup (IF cleared = {} THEN {} ELSE {Clear}),
                           !.scan = cleared]]
  /\ alone' = [v \in Uploads |-> v = u /\ \A w \in Others(u) : upload[w].at # "write"]
  /\ UNCHANGED <<list, imports, edits>>

\* DeleteAllGuestGroups: an invitation it listed goes with whoever is on it by
\* then, if it is still there.
DeleteGroup(u, g) ==
  /\ Executes(u, Clear)
  /\ g \in tx[u].scan
  /\ Deletable(g, Others(u))
  /\ LET gone == IF g \in Live(list) THEN {g} ELSE {}
         scan == tx[u].scan \ {g}
     IN Execute(u, [tx[u] EXCEPT
          !.todo = Left(u, Clear, scan),
          !.scan = scan,
          !.mine.label = [h \in WroteLabel(u) \cup gone |-> Null],
          !.mine.guest = [p \in Wrote(u) \cup UNION {Members(list, h) : h \in gone} |-> Null]])

InsertGuestGroup(u, s) ==
  LET k == KeyOf(u, s) IN
  /\ Executes(u, s) /\ s # Clear /\ s[2] = 0
  /\ k \in Created(upload[u].plan)
  /\ FreeGroups # {}
  /\ Execute(u, [tx[u] EXCEPT
       !.todo = @ \ {s},
       !.made.place = With(@, k, Min(FreeGroups)),
       !.mine.label = With(@, Min(FreeGroups), k)])

\* An update of nothing does nothing.
UpdateLabel(u, s) ==
  LET k == KeyOf(u, s)
      g == upload[u].plan[k].existing
  IN /\ Executes(u, s) /\ s # Clear /\ s[2] = 0
     /\ k \in Renamed(upload[u].plan) \ Created(upload[u].plan)
     /\ LabelFree(g, Others(u))
     /\ Execute(u, [tx[u] EXCEPT
          !.todo = @ \ {s},
          !.mine.label = IF g \in Live(View(u)) THEN With(@, g, k) ELSE @])

Inserts(u, s) ==
  /\ Executes(u, s)
  /\ s[2] \in Inserted(upload[u].plan)

NewRow(u, s) == InsertImportedGuest(upload[u].file, upload[u].plan, tx[u].made, s[2])

\* The tables refuse a name that is taken and an invitation that is gone, once no
\* other transaction can change that any more.
Decided(u, s) ==
  /\ NameFree(NewRow(u, s).norm, Others(u))
  /\ Joinable(NewRow(u, s).group, Others(u))

Refused(u, s) ==
  \/ NewRow(u, s).norm \in NamesOf(View(u))
  \/ NewRow(u, s).group \notin Live(View(u))

InsertGuest(u, s) ==
  /\ Inserts(u, s)
  /\ Decided(u, s)
  /\ ~Refused(u, s)
  /\ FreeGuests # {}
  /\ Execute(u, [tx[u] EXCEPT
       !.todo = @ \ {s},
       !.made.person = With(@, s[2], Min(FreeGuests)),
       !.mine.guest = With(@, Min(FreeGuests), NewRow(u, s))])

UpdateGuest(u, s) ==
  LET plan == upload[u].plan
      i    == s[2]
      p    == plan[KeyOf(u, s)].guests[i]
  IN /\ Executes(u, s)
     /\ i \in Written(plan) \ Inserted(plan)
     /\ GuestFree(p, Others(u))
     /\ Execute(u, [tx[u] EXCEPT
          !.todo = @ \ {s},
          !.mine.guest =
             IF p \notin Listed(list) THEN @
             ELSE With(@, p, UpdateGuestIdentity(upload[u].file, plan, tx[u].made, i,
                                                 View(u).guest[p]))])

\* Variant: the members are the committed ones.
MembersCommitted(u, g) == Members(list, g)

\* Whom SetGroupPrimary finds on g.
MembersSeen(u, g) == Members(View(u), g)

FindMembers(u, s) ==
  LET found == MembersSeen(u, Place(upload[u].plan, tx[u].made, KeyOf(u, s))) IN
  /\ Executes(u, s)
  /\ s[2] = Len(upload[u].file) + 1
  /\ tx[u].scan = {}
  /\ Execute(u, [tx[u] EXCEPT !.todo = Left(u, s, found), !.scan = found])

\* One of them after another is given the flag or loses it, if they are still
\* there and on g.
FlagMember(u, s, p) ==
  LET plan == upload[u].plan
      k    == KeyOf(u, s)
      row  == View(u).guest[p]
      scan == tx[u].scan \ {p}
  IN /\ Executes(u, s)
     /\ s[2] = Len(upload[u].file) + 1
     /\ p \in tx[u].scan
     /\ GuestFree(p, Others(u))
     /\ Execute(u, [tx[u] EXCEPT
          !.todo = Left(u, s, scan),
          !.scan = scan,
          !.mine.guest =
             IF row = Null \/ row.group # Place(plan, tx[u].made, k) THEN @
             ELSE With(@, p, [row EXCEPT
                    !.primary = SetGroupPrimary(plan, tx[u].made, k, p, row)])])

\* Variant: a replacing import commits its wipe by itself.
FinishedWiping(u) == Clear \notin tx[u].todo

Finished(u) == tx[u].todo = {}

\* The others are no longer alone once the list is another.
Commit(u) ==
  /\ upload[u].at = "write"
  /\ Finished(u)
  /\ list' = View(u)
  /\ upload' = [upload EXCEPT ![u] = [Idle EXCEPT !.at = "report"]]
  /\ tx' = [tx EXCEPT ![u] = NoTx]
  /\ alone' = [v \in Uploads |-> FALSE]
  /\ UNCHANGED <<imports, edits>>

\* Variant: the transaction is left open.
OverUnended(u) ==
  /\ upload' = [upload EXCEPT ![u] = Idle]
  /\ UNCHANGED <<list, tx, alone, imports, edits>>

\* The deferred rollback, which after a commit does nothing.
Over(u) ==
  /\ upload' = [upload EXCEPT ![u] = Idle]
  /\ tx' = [tx EXCEPT ![u] = NoTx]
  /\ alone' = [alone EXCEPT ![u] = FALSE]
  /\ UNCHANGED <<list, imports, edits>>

\* ErrNameCollision, or a foreign key: everything is rolled back.
Rollback(u, s) == Inserts(u, s) /\ Decided(u, s) /\ Refused(u, s) /\ Over(u)

\* The report is saved; or it is not, and the caller gets an error for an import
\* that happened.
SaveReport(u) == upload[u].at = "report" /\ Over(u)

\* An import breaks off before its commit: the caller is gone, the database is,
\* or it is the one a deadlock is broken by.
Abort(u) == upload[u].at \in {"groups", "begin", "write"} /\ Over(u)

-----------------------------------------------------------------------------
\* The rows the guests service writes (db/queries/guests.sql).

Edit(t) ==
  /\ edits' = edits + 1
  /\ list' = t
  /\ alone' = [u \in Uploads |-> FALSE]
  /\ UNCHANGED <<upload, tx, imports>>

NewGroup(label) ==
  /\ FreeGroups # {}
  /\ Edit([list EXCEPT !.label[Min(FreeGroups)] = label])

RenameGroup(g, label) == LabelFree(g, Uploads) /\ Edit([list EXCEPT !.label[g] = label])

DeleteGroupIfEmpty(g) ==
  /\ Members(list, g) = {}
  /\ Deletable(g, Uploads)
  /\ Edit([list EXCEPT !.label[g] = Null])

NewGuest(name, g, primary) ==
  /\ FreeGuests # {}
  /\ name \notin NamesOf(list)
  /\ NameFree(name, Uploads)
  /\ Joinable(g, Uploads)
  /\ Edit([list EXCEPT !.guest[Min(FreeGuests)] =
             [full |-> name, norm |-> name, group |-> g, primary |-> primary]])

\* The normalized name is recomputed with the name.
UpdateGuestDetails(p, name) ==
  /\ GuestFree(p, Uploads)
  /\ name \notin NamesOf([list EXCEPT !.guest[p] = Null])
  /\ NameFree(name, Uploads)
  /\ Edit([list EXCEPT !.guest[p].full = name, !.guest[p].norm = name])

DeleteGuest(p) == GuestFree(p, Uploads) /\ Edit([list EXCEPT !.guest[p] = Null])

\* To another invitation as anybody, or home as its primary.
MoveGuest(p, g, primary) ==
  /\ GuestFree(p, Uploads)
  /\ Joinable(g, Uploads)
  /\ Edit([list EXCEPT !.guest[p].group = g, !.guest[p].primary = primary])

\* A row of SetGroupPrimary, or EnsureGroupHasPrimary.
FlagGuest(p, primary) ==
  /\ GuestFree(p, Uploads)
  /\ list.guest[p].primary # primary
  /\ Edit([list EXCEPT !.guest[p].primary = primary])

-----------------------------------------------------------------------------
ImportStep ==
  \E u \in Uploads :
    \/ Ready(u) /\ \E file \in Files : ListGroups(u, file) \/ Replace(u, file)
    \/ ListGuests(u)
    \/ Begin(u)
    \/ \E g \in GroupIds : DeleteGroup(u, g)
    \/ \E s \in tx[u].todo :
         \/ InsertGuestGroup(u, s)
         \/ UpdateLabel(u, s)
         \/ InsertGuest(u, s)
         \/ UpdateGuest(u, s)
         \/ FindMembers(u, s)
         \/ \E p \in GuestIds : FlagMember(u, s, p)
         \/ Rollback(u, s)
    \/ Commit(u)
    \/ SaveReport(u)
    \/ Abort(u)

EditStep ==
  /\ edits < MaxEdits
  /\ \/ \E label \in Labels : NewGroup(label)
     \/ \E g \in Live(list) :
          \/ \E label \in Labels : RenameGroup(g, label)
          \/ DeleteGroupIfEmpty(g)
          \/ \E name \in Names, primary \in BOOLEAN : NewGuest(name, g, primary)
     \/ \E p \in Listed(list) :
          \/ \E name \in Names : UpdateGuestDetails(p, name)
          \/ DeleteGuest(p)
          \/ \E g \in Live(list), primary \in BOOLEAN : MoveGuest(p, g, primary)
          \/ \E primary \in BOOLEAN : FlagGuest(p, primary)

Next == ImportStep \/ EditStep

Spec == Init /\ [][Next]_vars

-----------------------------------------------------------------------------
\* Properties.

\* The tables and every import in its place; only a transaction under way has
\* written rows, of people and invitations there are or of ids that are its own,
\* and no row is written by two at once.
TypeOK ==
  /\ list.label \in [GroupIds -> NullOr(Labels)]
  /\ list.guest \in [GuestIds -> NullOr(GuestRow)]
  /\ \A u \in Uploads :
       /\ upload[u].at \in {"idle", "groups", "begin", "write", "report"}
       /\ upload[u].at # "write" => tx[u] = NoTx /\ ~alone[u]
       /\ \A p \in Wrote(u) : p \in GuestIds /\ tx[u].mine.guest[p] \in NullOr(GuestRow)
       /\ \A g \in WroteLabel(u) : g \in GroupIds /\ tx[u].mine.label[g] \in NullOr(Labels)
       /\ \A v \in Others(u) : /\ Wrote(u) \cap Wrote(v) = {}
                               /\ WroteLabel(u) \cap WroteLabel(v) = {}
  /\ imports \in 0 .. MaxImports
  /\ edits \in 0 .. MaxEdits

Commits(u) == upload[u].at = "write" /\ upload'[u].at = "report"

\* A transaction that was the only one there comes to what its statements come to
\* together, which is what Importer takes its Apply for: however old its plan, a
\* statement finds what the ones before it wrote, and waits for nobody.
AloneIsApplied ==
  [][\A u \in Uploads : Commits(u) /\ alone[u] =>
       list' = Applied(upload[u].file, upload[u].plan, tx[u].made,
                       IF upload[u].replace THEN NoTables ELSE list)]_vars

\* The report's promise: a merge deletes nobody and moves nobody, however old the
\* snapshot it was planned against and whatever is written between its statements.
NobodyMoved ==
  [][\A u \in Uploads : Commits(u) /\ ~upload[u].replace =>
       \A p \in Listed(list) :
         p \in Listed(list') /\ list'.guest[p].group = list.guest[p].group]_vars

\* EnforcePrimary's comment: a partial upload must not silently reassign a
\* primary.  Who heads an invitation when an import commits loses it to the import
\* only if a line of the file was marked for that invitation.
HeadsMoveOnlyByMark ==
  [][\A u \in Uploads : Commits(u) /\ ~upload[u].replace =>
       LET plan == upload[u].plan IN
       \A g \in Live(list) :
         \/ Heads(list, g) \subseteq Heads(list', g)
         \/ \E k \in DOMAIN plan :
              /\ plan[k].existing = g
              /\ \E i \in DOMAIN plan[k].guests : upload[u].file[i].principal]_vars

\* Apply's comment: "a wipe that commits without its replacement would leave the
\* couple with no guest list at all".  The commit of one brings every line of the
\* file, on an invitation with the label the file gives it, whatever others
\* inserted meanwhile.
WipeBringsTheFile ==
  [][\A u \in Uploads : Commits(u) /\ upload[u].replace =>
       LET rows == upload[u].file IN
       \A i \in Lines(rows) :
         \E g \in PlaceOf(list', rows[i].name) : list'.label[g] = Key(rows[i])]_vars

-----------------------------------------------------------------------------
\* What the comments say and the code does not do.

\* Apply's comment: "one exclusive statement keeps a single primary per group".
SinglePrimary == \A g \in GroupIds : Cardinality(Heads(list, g)) <= 1

\* guests/repo.go on the normalized name: "it is what the guest lookup matches
\* on, and a stale one would make somebody vanish from their own invitation".
NamesAgree == \A p \in Listed(list) : list.guest[p].full = list.guest[p].norm

\* The same comment on the primary: "covering DB members the file did not
\* mention", so that an invitation with a primary is never left without one.
ImportsLeaveAHead ==
  [][\A u \in Uploads : Commits(u) =>
       \A g \in Live(list) \cap Live(list') :
         Heads(list, g) # {} => Heads(list', g) # {}]_vars
=============================================================================
